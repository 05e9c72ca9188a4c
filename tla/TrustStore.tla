------------------------------ MODULE TrustStore ------------------------------
(***************************************************************************)
(* What the desktop's trust store promises (README.md:184: the QR is for   *)
(* the first pairing only): a map of trust in memory, written behind to a  *)
(* file.  Only snapshots of the whole map reach the file, a trusted device *)
(* keeps its secret until it is paired again or forgotten, no secret is    *)
(* used twice, and a phone is told its secret only by the write that puts  *)
(* it into the file.                                                       *)
(***************************************************************************)
CONSTANTS Device, Secret, NoSecret

VARIABLES
    trust,     \* the secret of each trusted device
    told,      \* the secret each phone was told and may use, or NoSecret
    pending,   \* snapshots of trust that are not written yet
    file       \* what a restart would load

vars == <<trust, told, pending, file>>

Nobody == [d \in {} |-> NoSecret]

\* A map that holds secret s.
Holds(m, s) == \E d \in DOMAIN m : m[d] = s

Fresh(s) == \A m \in {trust, told, file} \cup pending : ~Holds(m, s)

Init ==
    /\ trust = Nobody
    /\ told = [d \in Device |-> NoSecret]
    /\ pending = {}
    /\ file = Nobody

Pair(d, s) ==
    /\ Fresh(s)
    /\ trust' = [x \in DOMAIN trust \cup {d} |-> IF x = d THEN s ELSE trust[x]]
    /\ told' = [told EXCEPT ![d] = NoSecret]
    /\ UNCHANGED <<pending, file>>

Forget(d) ==
    /\ trust' = [x \in DOMAIN trust \ {d} |-> trust[x]]
    /\ told' = [told EXCEPT ![d] = NoSecret]
    /\ UNCHANGED <<pending, file>>

Snapshot ==
    /\ pending' = pending \cup {trust}
    /\ UNCHANGED <<trust, told, file>>

\* The file is truncated before a snapshot is written.
Erase ==
    /\ pending # {}
    /\ file' = Nobody
    /\ UNCHANGED <<trust, told, pending>>

\* Equal snapshots of two writers are one member of pending.
Done(m) == pending' = pending \ {m} \/ UNCHANGED pending

\* The phone whose pairing is written may be told its secret, if that is still
\* its secret in memory.
Write(m) ==
    /\ m \in pending
    /\ file' = m
    /\ Done(m)
    /\ \/ UNCHANGED told
       \/ \E d \in DOMAIN m \cap DOMAIN trust :
             m[d] = trust[d] /\ told' = [told EXCEPT ![d] = m[d]]
    /\ UNCHANGED trust

\* The write fails, before or after the file is truncated.
Fail(m) ==
    /\ m \in pending
    /\ Done(m)
    /\ UNCHANGED <<trust, told, file>>

\* A restart; a file that cannot be read leaves nobody trusted.
Reload ==
    /\ trust' \in {file, Nobody}
    /\ pending' = {}
    /\ UNCHANGED <<told, file>>

Next ==
    \/ \E d \in Device : Forget(d) \/ \E s \in Secret : Pair(d, s)
    \/ Snapshot \/ Erase \/ Reload
    \/ \E m \in pending : Write(m) \/ Fail(m)

Spec == Init /\ [][Next]_vars
===============================================================================
