------------------------------- MODULE Approval -------------------------------
(***************************************************************************)
(* What the row of a pairing room means (cloud.go:370-463): it is opened   *)
(* once, approved for one device, and then either refused, with nobody     *)
(* paired, or used up by pairing that device.  No watcher, lock, login or  *)
(* restart is left: a row that says consumed was paired with the device it *)
(* names, one that says full was not and never will be.                    *)
(***************************************************************************)
CONSTANTS Room, Device, NoDevice

VARIABLES
    status,   \* of each room's row; "none" while there is no row
    device,   \* the device each row was approved for
    paired    \* the device each room has paired with the desktop

vars == <<status, device, paired>>

Init ==
    /\ status = [r \in Room |-> "none"]
    /\ device = [r \in Room |-> NoDevice]
    /\ paired = [r \in Room |-> NoDevice]

Move(r, from, to) ==
    /\ status[r] = from
    /\ status' = [status EXCEPT ![r] = to]

Open(r) ==
    /\ Move(r, "none", "waiting")
    /\ UNCHANGED <<device, paired>>

Approve(r, d) ==
    /\ Move(r, "waiting", "approved")
    /\ device' = [device EXCEPT ![r] = d]
    /\ UNCHANGED paired

Unused(r) == status[r] = "approved" /\ paired[r] = NoDevice

Pair(r) ==
    /\ Unused(r)
    /\ paired' = [paired EXCEPT ![r] = device[r]]
    /\ UNCHANGED <<status, device>>

\* The row is told, or it is not: the request may fail.
Consume(r) ==
    /\ Move(r, "approved", "consumed")
    /\ paired[r] = device[r]
    /\ UNCHANGED <<device, paired>>

Refuse(r) ==
    /\ Unused(r)
    /\ Move(r, "approved", "full")
    /\ UNCHANGED <<device, paired>>

Next ==
    \E r \in Room :
        \/ Open(r) \/ Pair(r) \/ Consume(r) \/ Refuse(r)
        \/ \E d \in Device : Approve(r, d)

Spec == Init /\ [][Next]_vars

\* What a row says of the pairing: the device a room paired is the one its row
\* was approved for, consumed means paired and full means not.
Truthful ==
    \A r \in Room :
        /\ paired[r] # NoDevice =>
              paired[r] = device[r] /\ status[r] \in {"approved", "consumed"}
        /\ status[r] = "consumed" => paired[r] # NoDevice
===============================================================================
