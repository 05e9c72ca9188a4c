------------------------------- MODULE RoomBus -------------------------------
(***************************************************************************)
(* What the relay promises (relay/README.md, shared/protocol/README.md:17, *)
(* "a dumb room forwarder"): a socket is in at most one room, what it says *)
(* reaches the open sockets of that room and nobody else, in order, and    *)
(* the others are told when it comes and goes.                             *)
(***************************************************************************)
EXTENDS Sequences

CONSTANTS Socket, Room, NoRoom, Payload

VARIABLES
    open,     \* sockets that can receive
    member,   \* the room each socket is in, or NoRoom
    inbox     \* what was sent to each socket and not read yet

vars == <<open, member, inbox>>

Ready == [type |-> "ready"]
Joined(s) == [type |-> "joined", from |-> s]
Left(s) == [type |-> "left", from |-> s]
Data(s, p) == [type |-> "data", from |-> s, payload |-> p]
Answers == [type : {"error", "auth"}]

Message ==
    {Ready}
    \cup Answers
    \cup [type : {"joined", "left"}, from : Socket]
    \cup [type : {"data"}, from : Socket, payload : Payload]

Deliver(boxes, to, m) ==
    [t \in Socket |-> IF t \in to THEN Append(boxes[t], m) ELSE boxes[t]]

\* The open sockets of s's room, s apart.
Peers(s) == {t \in open \ {s} : member[t] = member[s]}

Init ==
    /\ open = {}
    /\ member = [s \in Socket |-> NoRoom]
    /\ inbox = [s \in Socket |-> <<>>]

Connect(s) ==
    /\ s \notin open
    /\ member[s] = NoRoom
    /\ open' = open \cup {s}
    /\ inbox' = [inbox EXCEPT ![s] = <<>>]
    /\ UNCHANGED member

\* The boxes after s left its room.
Farewell(s) == IF member[s] = NoRoom THEN inbox ELSE Deliver(inbox, Peers(s), Left(s))

Enter(s, r) ==
    /\ s \in open
    /\ member' = [member EXCEPT ![s] = r]
    /\ inbox' = Deliver(Deliver(Farewell(s), {s}, Ready),
                        {t \in open \ {s} : member[t] = r}, Joined(s))
    /\ UNCHANGED open

Say(s, p) ==
    /\ s \in open
    /\ member[s] # NoRoom
    /\ inbox' = Deliver(inbox, Peers(s), Data(s, p))
    /\ UNCHANGED <<open, member>>

\* An answer to s alone: an error or the outcome of a login.
Answer(s, m) ==
    /\ s \in open
    /\ inbox' = Deliver(inbox, {s}, m)
    /\ UNCHANGED <<open, member>>

\* A socket stops receiving first and leaves its room later.
Drop(s) ==
    /\ s \in open
    /\ open' = open \ {s}
    /\ UNCHANGED <<member, inbox>>

Leave(s) ==
    /\ s \notin open
    /\ member[s] # NoRoom
    /\ member' = [member EXCEPT ![s] = NoRoom]
    /\ inbox' = Farewell(s)
    /\ UNCHANGED open

Read(s) ==
    /\ inbox[s] # <<>>
    /\ inbox' = [inbox EXCEPT ![s] = Tail(@)]
    /\ UNCHANGED <<open, member>>

\* The bus goes down: everybody is thrown out at once.
Outage ==
    /\ open' = {}
    /\ member' = [s \in Socket |-> NoRoom]
    /\ UNCHANGED inbox

Next ==
    \/ Outage
    \/ \E s \in Socket :
          \/ Connect(s) \/ Drop(s) \/ Leave(s) \/ Read(s)
          \/ \E m \in Answers : Answer(s, m)
          \/ \E r \in Room : Enter(s, r)
          \/ \E p \in Payload : Say(s, p)

Spec == Init /\ [][Next]_vars
=============================================================================
