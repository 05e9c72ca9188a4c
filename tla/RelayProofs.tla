----------------------------- MODULE RelayProofs -----------------------------
(***************************************************************************)
(* Proofs about Relay for every number of sockets, rooms and payloads.     *)
(***************************************************************************)
EXTENDS Relay, TLAPS

Inv == TypeOK /\ Membership

\* The sockets of a room are those that say they are in it.
MembersOf(r) == {t \in Socket : room[t] = r}

\* Under the invariant the map can be read off the sockets.
LEMMA SocketsAreMembers ==
    ASSUME Inv
    PROVE  \A r \in Room : SocketsOf(r) = MembersOf(r)
BY DEF Inv, TypeOK, Membership, SocketsOf, MembersOf, IsRooms

\* What leaveRoom leaves behind.
LEMMA RoomsWithoutLemma ==
    ASSUME Inv, NEW s \in Socket
    PROVE  /\ IsRooms(RoomsWithout(s))
           /\ \A r \in DOMAIN RoomsWithout(s) :
                 /\ RoomsWithout(s)[r] = MembersOf(r) \ {s}
                 /\ RoomsWithout(s)[r] # {}
           /\ \A r \in Room \ DOMAIN RoomsWithout(s) : MembersOf(r) \ {s} = {}
<1>0. \A r \in Room : SocketsOf(r) = MembersOf(r)
  BY SocketsAreMembers
<1>1. CASE room[s] = NoRoom
  <2>1. RoomsWithout(s) = rooms
    BY <1>1 DEF RoomsWithout
  <2>2. \A r \in Room : s \notin MembersOf(r)
    BY <1>1, RoomAssumption DEF MembersOf
  <2> QED
    BY <1>0, <2>1, <2>2 DEF Inv, TypeOK, Membership, IsRooms, SocketsOf
<1>2. CASE room[s] # NoRoom
  <2> DEFINE left == [r \in DOMAIN rooms |->
                        IF r = room[s] THEN rooms[r] \ {s} ELSE rooms[r]]
  <2> DEFINE keep == {q \in DOMAIN left : q = room[s] => left[q] # {}}
  <2>1. RoomsWithout(s) = [r \in keep |-> left[r]]
    BY <1>2 DEF RoomsWithout
  <2>2. \A r \in DOMAIN rooms : rooms[r] = MembersOf(r) /\ r \in Room
    BY <1>0 DEF Inv, TypeOK, IsRooms, SocketsOf
  <2>3. \A r \in DOMAIN rooms : left[r] = MembersOf(r) \ {s}
    BY <2>2 DEF MembersOf
  <2>4. \A r \in keep : left[r] # {}
    BY DEF Inv, Membership
  <2>5. IsRooms([r \in keep |-> left[r]])
    BY <2>2, <2>3 DEF IsRooms, MembersOf
  <2>6. \A r \in Room \ keep : MembersOf(r) \ {s} = {}
    <3> SUFFICES ASSUME NEW r \in Room \ keep PROVE MembersOf(r) \ {s} = {}
      OBVIOUS
    <3>1. CASE r \in DOMAIN rooms
      BY <2>3, <3>1
    <3>2. CASE r \notin DOMAIN rooms
      BY <1>0, <3>2 DEF SocketsOf
    <3> QED
      BY <3>1, <3>2
  <2> HIDE DEF keep, left
  <2>7. \A r \in keep : r \in DOMAIN rooms
    BY DEF keep, left
  <2> QED
    BY <2>1, <2>3, <2>4, <2>5, <2>6, <2>7
<1> QED
  BY <1>1, <1>2

\* What Join makes of the map: the same rooms, s in r only.
LEMMA JoinRooms ==
    ASSUME Inv, NEW s \in Socket, NEW r \in Room
    PROVE  LET m == WithSocket(RoomsWithout(s), r, s)
           IN  /\ IsRooms(m)
               /\ \A q \in DOMAIN m :
                     m[q] = IF q = r THEN MembersOf(r) \cup {s} ELSE MembersOf(q) \ {s}
               /\ \A q \in DOMAIN m : m[q] # {}
               /\ \A q \in Room \ DOMAIN m : MembersOf(q) \ {s} = {}
               /\ r \in DOMAIN m
<1> DEFINE w == RoomsWithout(s)
<1> DEFINE m == WithSocket(w, r, s)
<1>1. /\ IsRooms(w)
      /\ \A q \in DOMAIN w : w[q] = MembersOf(q) \ {s} /\ w[q] # {}
      /\ \A q \in Room \ DOMAIN w : MembersOf(q) \ {s} = {}
  BY RoomsWithoutLemma
<1> HIDE DEF w
<1>2. /\ DOMAIN m = DOMAIN w \cup {r}
      /\ \A q \in DOMAIN m : m[q] = IF q # r THEN w[q]
                                    ELSE (IF r \in DOMAIN w THEN w[r] ELSE {}) \cup {s}
      /\ m = [q \in DOMAIN m |-> m[q]]
  BY DEF WithSocket
<1> HIDE DEF m
<1>3. s \in MembersOf(r) \/ s \notin MembersOf(r)
  OBVIOUS
<1>4. \A q \in DOMAIN m :
        m[q] = IF q = r THEN MembersOf(r) \cup {s} ELSE MembersOf(q) \ {s}
  BY <1>1, <1>2
<1>5. IsRooms(m)
  BY <1>1, <1>2 DEF IsRooms
<1> QED
  BY <1>1, <1>2, <1>4, <1>5 DEF m, w

------------------------------------------------------------------------------
\* Messages sent are messages.
LEMMA SendType ==
    ASSUME NEW boxes, DOMAIN boxes = Socket,
           \A t \in Socket : boxes[t] \in Seq(Bus!Message),
           NEW to, NEW m \in Bus!Message
    PROVE  /\ DOMAIN Send(boxes, to, m) = Socket
           /\ \A t \in Socket : Send(boxes, to, m)[t] \in Seq(Bus!Message)
BY DEF Send

LEMMA MessageTypes ==
    /\ Bus!Ready \in Bus!Message
    /\ \A s \in Socket : Bus!Joined(s) \in Bus!Message /\ Bus!Left(s) \in Bus!Message
    /\ \A s \in Socket, p \in Payload : Bus!Data(s, p) \in Bus!Message
    /\ Bus!Answers \subseteq Bus!Message
BY DEF Bus!Ready, Bus!Joined, Bus!Left, Bus!Data, Bus!Answers, Bus!Message

LEMMA GoodbyesType ==
    ASSUME TypeOK, NEW s \in Socket
    PROVE  /\ DOMAIN Goodbyes(s) = Socket
           /\ \A t \in Socket : Goodbyes(s)[t] \in Seq(Bus!Message)
<1>1. Bus!Left(s) \in Bus!Message
  BY MessageTypes
<1>2. /\ DOMAIN Send(inbox, SocketsOf(room[s]) \ {s}, Bus!Left(s)) = Socket
      /\ \A t \in Socket :
            Send(inbox, SocketsOf(room[s]) \ {s}, Bus!Left(s))[t] \in Seq(Bus!Message)
  BY <1>1, SendType DEF TypeOK
<1> QED
  BY <1>2 DEF Goodbyes, TypeOK

LEMMA InitInv == Init => Inv
BY RoomAssumption DEF Init, Inv, TypeOK, Membership, IsRooms, SocketsOf

\* One step per handler.
LEMMA NextInv == Inv /\ [Next]_vars => Inv'
<1> SUFFICES ASSUME Inv, [Next]_vars PROVE Inv'
  OBVIOUS
<1> USE RoomAssumption
<1>1. ASSUME NEW s \in Socket, Connection(s) PROVE Inv'
  <2>1. UNCHANGED <<room, rooms>>
    BY <1>1 DEF Inv, TypeOK, Membership, Connection
  <2> QED
    BY <1>1, <2>1 DEF Inv, TypeOK, Membership, Connection, SocketsOf
<1>2. ASSUME NEW s \in Socket, StartClosing(s) PROVE Inv'
  BY <1>2 DEF Inv, TypeOK, Membership, StartClosing, SocketsOf
<1>3. ASSUME NEW s \in Socket, Close(s) PROVE Inv'
  <2>1. /\ readyState' = [readyState EXCEPT ![s] = "closed"]
        /\ rooms' = RoomsWithout(s)
        /\ room' = [room EXCEPT ![s] = NoRoom]
        /\ inbox' = Goodbyes(s)
    BY <1>3 DEF Close
  <2>2. TypeOK'
    BY <2>1, RoomsWithoutLemma, GoodbyesType DEF Inv, TypeOK
  <2>3. Membership'
    BY <2>1, RoomsWithoutLemma
    DEF Inv, TypeOK, Membership, SocketsOf, MembersOf, IsRooms
  <2> QED
    BY <2>2, <2>3 DEF Inv
<1>4. ASSUME NEW s \in Socket, Receive(s) PROVE Inv'
  <2>1. /\ DOMAIN inbox' = Socket
        /\ \A t \in Socket : inbox'[t] \in Seq(Bus!Message)
    BY <1>4 DEF Inv, TypeOK, Receive
  <2> QED
    BY <1>4, <2>1 DEF Inv, TypeOK, Membership, Receive, SocketsOf
<1>5. ASSUME NEW s \in Socket, NEW r \in Room, Join(s, r) PROVE Inv'
  <2>1. /\ readyState[s] = "open"
        /\ rooms' = WithSocket(RoomsWithout(s), r, s)
        /\ room' = [room EXCEPT ![s] = r]
        /\ readyState' = readyState
    BY <1>5 DEF Join
  <2>2. /\ DOMAIN inbox' = Socket
        /\ \A t \in Socket : inbox'[t] \in Seq(Bus!Message)
    <3> DEFINE boxes == Send(Goodbyes(s), {s}, Bus!Ready)
    <3>1. DOMAIN boxes = Socket /\ \A t \in Socket : boxes[t] \in Seq(Bus!Message)
      BY GoodbyesType, MessageTypes, SendType DEF Inv
    <3>2. inbox' = Send(boxes, rooms'[r] \ {s}, Bus!Joined(s))
      BY <1>5 DEF Join
    <3> HIDE DEF boxes
    <3> QED
      BY <3>1, <3>2, MessageTypes, SendType
  <2>3. TypeOK'
    BY <2>1, <2>2, JoinRooms DEF Inv, TypeOK
  <2>4. Membership'
    <3> DEFINE m == WithSocket(RoomsWithout(s), r, s)
    <3>1. /\ IsRooms(m)
          /\ \A q \in DOMAIN m :
                m[q] = IF q = r THEN MembersOf(r) \cup {s} ELSE MembersOf(q) \ {s}
          /\ \A q \in DOMAIN m : m[q] # {}
          /\ \A q \in Room \ DOMAIN m : MembersOf(q) \ {s} = {}
          /\ r \in DOMAIN m
      BY JoinRooms
    <3>2. rooms' = m
      BY <2>1
    <3> HIDE DEF m
    <3>3. \A t \in Socket, q \in Room : room'[t] = q <=> t \in SocketsOf(q)'
      <4> SUFFICES ASSUME NEW t \in Socket, NEW q \in Room
                   PROVE  room'[t] = q <=> t \in SocketsOf(q)'
        OBVIOUS
      <4>1. room'[t] = IF t = s THEN r ELSE room[t]
        BY <2>1 DEF Inv, TypeOK
      <4>2. SocketsOf(q)' = IF q \in DOMAIN m THEN m[q] ELSE {}
        BY <3>2 DEF SocketsOf
      <4> QED
        BY <3>1, <4>1, <4>2 DEF MembersOf
    <3> QED
      BY <2>1, <3>1, <3>2, <3>3 DEF Inv, TypeOK, Membership
  <2> QED
    BY <2>3, <2>4 DEF Inv
<1>6. ASSUME NEW s \in Socket, NEW m \in Bus!Answers, Reply(s, m) PROVE Inv'
  <2>1. m \in Bus!Message
    BY MessageTypes
  <2>2. /\ DOMAIN inbox' = Socket
        /\ \A t \in Socket : inbox'[t] \in Seq(Bus!Message)
    BY <1>6, <2>1, SendType DEF Inv, TypeOK, Reply
  <2> QED
    BY <1>6, <2>2 DEF Inv, TypeOK, Membership, Reply, SocketsOf
<1>7. ASSUME NEW s \in Socket, NEW p \in Payload, Forward(s, p) PROVE Inv'
  <2>1. Bus!Data(s, p) \in Bus!Message
    BY MessageTypes
  <2>2. /\ DOMAIN inbox' = Socket
        /\ \A t \in Socket : inbox'[t] \in Seq(Bus!Message)
    BY <1>7, <2>1, SendType DEF Inv, TypeOK, Forward
  <2> QED
    BY <1>7, <2>2 DEF Inv, TypeOK, Membership, Forward, SocketsOf
<1>8. CASE Restart
  BY <1>8 DEF Inv, TypeOK, Membership, Restart, IsRooms, SocketsOf
<1>9. CASE UNCHANGED vars
  BY <1>9 DEF Inv, TypeOK, Membership, vars, SocketsOf
<1> QED
  BY <1>1, <1>2, <1>3, <1>4, <1>5, <1>6, <1>7, <1>8, <1>9 DEF Next

\* The relay's state always has its type (server.js:117-120, 175-205).
THEOREM TypeCorrect == Spec => []TypeOK
<1>1. Init => Inv
  BY InitInv
<1>2. Inv /\ [Next]_vars => Inv'
  BY NextInv
<1>3. Inv => TypeOK
  BY DEF Inv
<1> QED
  BY <1>1, <1>2, <1>3, PTL DEF Spec

\* The two records of who is in which room agree in every reachable state, for
\* any number of sockets and rooms (server.js:175-205).
THEOREM MembershipHolds == Spec => []Membership
<1>1. Init => Inv
  BY InitInv
<1>2. Inv /\ [Next]_vars => Inv'
  BY NextInv
<1>3. Inv => Membership
  BY DEF Inv
<1> QED
  BY <1>1, <1>2, <1>3, PTL DEF Spec

------------------------------------------------------------------------------
\* The refinement: each handler is one step of the bus or none.

LEMMA SendIsDeliver ==
    ASSUME NEW boxes, NEW to, NEW m
    PROVE  Send(boxes, to, m) = Bus!Deliver(boxes, to \cap Open, m)
BY DEF Send, Bus!Deliver

LEMMA PeersAreSockets ==
    ASSUME Inv, NEW s \in Socket, room[s] # NoRoom
    PROVE  (SocketsOf(room[s]) \ {s}) \cap Open = Bus!Peers(s)
<1>1. room[s] \in Room
  BY DEF Inv, TypeOK
<1>2. SocketsOf(room[s]) = MembersOf(room[s])
  BY <1>1, SocketsAreMembers
<1> QED
  BY <1>2 DEF MembersOf, Bus!Peers, Open

LEMMA GoodbyesAreFarewell ==
    ASSUME Inv, NEW s \in Socket
    PROVE  Goodbyes(s) = Bus!Farewell(s)
BY SendIsDeliver, PeersAreSockets DEF Goodbyes, Bus!Farewell

LEMMA InitRefines == Init => Bus!Init
BY DEF Init, Bus!Init, Open

LEMMA NextRefines == Inv /\ [Next]_vars => [Bus!Next]_(Bus!vars)
<1> SUFFICES ASSUME Inv, [Next]_vars PROVE [Bus!Next]_(Bus!vars)
  OBVIOUS
<1>1. ASSUME NEW s \in Socket, Connection(s) PROVE Bus!Connect(s)
  <2>1. room[s] = NoRoom /\ s \notin Open /\ room' = room
    BY <1>1 DEF Inv, TypeOK, Membership, Connection, Open
  <2>2. Open' = Open \cup {s}
    BY <1>1 DEF Inv, TypeOK, Connection, Open
  <2> QED
    BY <1>1, <2>1, <2>2 DEF Connection, Bus!Connect
<1>2. ASSUME NEW s \in Socket, StartClosing(s) PROVE Bus!Drop(s)
  <2>1. s \in Open /\ Open' = Open \ {s}
    BY <1>2 DEF Inv, TypeOK, StartClosing, Open
  <2> QED
    BY <1>2, <2>1 DEF StartClosing, Bus!Drop
<1>3. ASSUME NEW s \in Socket, Close(s)
      PROVE  Bus!Leave(s) \/ UNCHANGED Bus!vars
  <2>1. s \notin Open /\ Open' = Open
    BY <1>3 DEF Inv, TypeOK, Close, Open
  <2>2. inbox' = Bus!Farewell(s) /\ room' = [room EXCEPT ![s] = NoRoom]
    BY <1>3, GoodbyesAreFarewell DEF Close
  <2>3. CASE room[s] # NoRoom
    BY <2>1, <2>2, <2>3 DEF Bus!Leave
  <2>4. CASE room[s] = NoRoom
    <3>1. inbox' = inbox
      BY <2>2, <2>4 DEF Bus!Farewell
    <3>2. room' = room
      BY <2>2, <2>4 DEF Inv, TypeOK
    <3> QED
      BY <2>1, <3>1, <3>2 DEF Bus!vars
  <2> QED
    BY <2>3, <2>4
<1>4. ASSUME NEW s \in Socket, Receive(s) PROVE Bus!Read(s)
  BY <1>4 DEF Receive, Bus!Read, Open
<1>5. ASSUME NEW s \in Socket, NEW r \in Room, Join(s, r) PROVE Bus!Enter(s, r)
  <2>1. s \in Open /\ Open' = Open /\ room' = [room EXCEPT ![s] = r]
    BY <1>5 DEF Join, Open
  <2>2. (rooms'[r] \ {s}) \cap Open = {t \in Open \ {s} : room[t] = r}
    <3>1. rooms'[r] = MembersOf(r) \cup {s}
      BY <1>5, JoinRooms DEF Join
    <3> QED
      BY <3>1 DEF MembersOf, Open
  <2>3. {s} \cap Open = {s}
    BY <2>1
  <2>4. inbox' = Bus!Deliver(Bus!Deliver(Bus!Farewell(s), {s}, Bus!Ready),
                             {t \in Open \ {s} : room[t] = r}, Bus!Joined(s))
    <3>1. inbox' = Send(Send(Goodbyes(s), {s}, Bus!Ready), rooms'[r] \ {s}, Bus!Joined(s))
      BY <1>5 DEF Join
    <3>2. Send(Goodbyes(s), {s}, Bus!Ready) = Bus!Deliver(Bus!Farewell(s), {s}, Bus!Ready)
      BY <2>3, SendIsDeliver, GoodbyesAreFarewell
    <3> QED
      BY <2>2, <3>1, <3>2, SendIsDeliver
  <2> QED
    BY <2>1, <2>4 DEF Bus!Enter
<1>6. ASSUME NEW s \in Socket, NEW m \in Bus!Answers, Reply(s, m)
      PROVE  Bus!Answer(s, m)
  <2>1. s \in Open /\ Open' = Open /\ {s} \cap Open = {s}
    BY <1>6 DEF Reply, Open
  <2>2. inbox' = Bus!Deliver(inbox, {s}, m)
    BY <1>6, <2>1, SendIsDeliver DEF Reply
  <2> QED
    BY <1>6, <2>1, <2>2 DEF Reply, Bus!Answer
<1>7. ASSUME NEW s \in Socket, NEW p \in Payload, Forward(s, p) PROVE Bus!Say(s, p)
  <2>1. s \in Open /\ Open' = Open /\ room[s] # NoRoom
    BY <1>7 DEF Forward, Open
  <2>2. inbox' = Bus!Deliver(inbox, Bus!Peers(s), Bus!Data(s, p))
    BY <1>7, <2>1, PeersAreSockets, SendIsDeliver DEF Forward
  <2> QED
    BY <1>7, <2>1, <2>2 DEF Forward, Bus!Say
<1>8. CASE Restart
  <2>1. Open' = {}
    BY <1>8 DEF Restart, Open
  <2> QED
    BY <1>8, <2>1 DEF Restart, Bus!Outage, Bus!Next
<1>9. CASE UNCHANGED vars
  BY <1>9 DEF vars, Bus!vars, Open
<1> QED
  BY <1>1, <1>2, <1>3, <1>4, <1>5, <1>6, <1>7, <1>8, <1>9 DEF Next, Bus!Next

\* The relay implements the bus: with its two-map bookkeeping a message still
\* reaches exactly the open sockets of the sender's room (server.js:122-216).
THEOREM Refinement == Spec => ImplementsBus
<1>1. Init => Bus!Init /\ Inv
  BY InitInv, InitRefines
<1>2. Inv /\ [Next]_vars => Inv' /\ [Bus!Next]_(Bus!vars)
  BY NextInv, NextRefines
<1> QED
  BY <1>1, <1>2, PTL DEF Spec, ImplementsBus, Bus!Spec

------------------------------------------------------------------------------
\* Silence after a departure, which the bus promises.

\* From i to j, the peer was told that it joined a room or that s came back.
Excused(q, i, j, s) == \E k \in i..j : q[k].type = "ready" \/ q[k] = Bus!Joined(s)

Silent(q) ==
    \A i, j \in 1..Len(q) :
        (i < j /\ q[i].type = "left" /\ q[j].type = "data" /\ q[i].from = q[j].from) =>
            Excused(q, i, j, q[j].from)

\* No departure of s is the last word on s.
Back(q, s) ==
    \A i \in 1..Len(q) : q[i].type = "left" /\ q[i].from = s => Excused(q, i, Len(q), s)

\* Sockets that can hear one another know that they are there.
Company ==
    \A t, s \in Open : t # s /\ room[t] = room[s] /\ room[t] # NoRoom => Back(inbox[t], s)

SilentInv == (\A t \in Socket : Silent(inbox[t])) /\ Company

LEMMA TailKeeps ==
    ASSUME NEW q \in Seq(Bus!Message), q # <<>>
    PROVE  /\ Silent(q) => Silent(Tail(q))
           /\ \A s : Back(q, s) => Back(Tail(q), s)
<1>1. /\ Len(Tail(q)) = Len(q) - 1 /\ Len(q) \in Nat
      /\ \A i \in 1..Len(Tail(q)) : i + 1 \in 1..Len(q) /\ Tail(q)[i] = q[i + 1]
  OBVIOUS
<1> DEFINE r == Tail(q)
<1>2. ASSUME NEW i \in 1..Len(r), NEW j \in 1..Len(r), NEW s, Excused(q, i + 1, j + 1, s)
      PROVE  Excused(r, i, j, s)
  <2>1. PICK k \in (i + 1)..(j + 1) : q[k].type = "ready" \/ q[k] = Bus!Joined(s)
    BY <1>2 DEF Excused
  <2>2. k - 1 \in i..j /\ k - 1 \in 1..Len(r) /\ r[k - 1] = q[k]
    BY <1>1
  <2> QED
    BY <2>1, <2>2 DEF Excused
<1> HIDE DEF r
<1>3. Silent(q) => Silent(r)
  BY <1>1, <1>2 DEF Silent, r
<1>4. ASSUME NEW s, Back(q, s) PROVE Back(r, s)
  BY <1>1, <1>2, <1>4 DEF Back, r
<1> QED
  BY <1>3, <1>4 DEF r

LEMMA AppendKeeps ==
    ASSUME NEW q \in Seq(Bus!Message), NEW m \in Bus!Message
    PROVE  /\ Silent(q) /\ (m.type = "data" => Back(q, m.from)) => Silent(Append(q, m))
           /\ \A s : Back(q, s) /\ ~(m.type = "left" /\ m.from = s) => Back(Append(q, m), s)
           /\ \A s : m.type = "ready" \/ m = Bus!Joined(s) => Back(Append(q, m), s)
<1> DEFINE r == Append(q, m)
<1>1. /\ Len(r) = Len(q) + 1 /\ Len(q) \in Nat /\ r[Len(r)] = m
      /\ \A i \in 1..Len(q) : r[i] = q[i]
      /\ \A i \in 1..Len(r) : i = Len(r) \/ i \in 1..Len(q)
  OBVIOUS
<1> HIDE DEF r
<1>2. ASSUME NEW i \in 1..Len(q), NEW j \in 1..Len(q), NEW s, Excused(q, i, j, s)
      PROVE  Excused(r, i, j, s) /\ Excused(r, i, Len(r), s)
  BY <1>1, <1>2 DEF Excused
<1>3. ASSUME Silent(q), m.type = "data" => Back(q, m.from)
      PROVE  Silent(r)
  <2> SUFFICES ASSUME NEW i \in 1..Len(r), NEW j \in 1..Len(r), i < j,
                      r[i].type = "left", r[j].type = "data", r[i].from = r[j].from
               PROVE  Excused(r, i, j, r[j].from)
    BY DEF Silent
  <2>1. i \in 1..Len(q) /\ r[i] = q[i]
    BY <1>1
  <2>2. CASE j \in 1..Len(q)
    BY <1>1, <1>2, <1>3, <2>1, <2>2 DEF Silent
  <2>3. CASE j = Len(r)
    <3>1. Excused(q, i, Len(q), m.from)
      BY <1>1, <1>3, <2>1, <2>3 DEF Back
    <3> QED
      BY <1>1, <1>2, <2>1, <2>3, <3>1
  <2> QED
    BY <1>1, <2>2, <2>3
<1>4. ASSUME NEW s, Back(q, s), ~(m.type = "left" /\ m.from = s) PROVE Back(r, s)
  <2> SUFFICES ASSUME NEW i \in 1..Len(r), r[i].type = "left", r[i].from = s
               PROVE  Excused(r, i, Len(r), s)
    BY DEF Back
  <2>1. i \in 1..Len(q) /\ r[i] = q[i]
    BY <1>1, <1>4
  <2>2. Excused(q, i, Len(q), s)
    BY <1>4, <2>1 DEF Back
  <2> QED
    BY <1>1, <1>2, <2>1, <2>2
<1>5. ASSUME NEW s, m.type = "ready" \/ m = Bus!Joined(s) PROVE Back(r, s)
  <2>1. \A i \in 1..Len(r) : Len(r) \in i..Len(r)
    BY <1>1
  <2> QED
    BY <1>1, <1>5, <2>1 DEF Back, Excused
<1> QED
  BY <1>3, <1>4, <1>5 DEF r

LEMMA SilentStep == Inv /\ SilentInv /\ [Bus!Next]_(Bus!vars) => SilentInv'
<1> SUFFICES ASSUME Inv, SilentInv, [Bus!Next]_(Bus!vars) PROVE SilentInv'
  OBVIOUS
<1>0. /\ \A t \in Socket : inbox[t] \in Seq(Bus!Message)
      /\ DOMAIN inbox = Socket
      /\ Open \subseteq Socket
      /\ room \in [Socket -> Room \cup {NoRoom}]
  BY DEF Inv, TypeOK, Open
<1> USE DEF SilentInv
<1>1. ASSUME NEW s \in Socket, Bus!Connect(s) PROVE SilentInv'
  <2>1. Silent(<<>>)
    BY DEF Silent
  <2> QED
    BY <1>0, <1>1, <2>1 DEF Bus!Connect, Company
<1>2. ASSUME NEW s \in Socket, Bus!Drop(s) PROVE SilentInv'
  BY <1>0, <1>2 DEF Bus!Drop, Company
<1>3. ASSUME NEW s \in Socket, Bus!Leave(s) PROVE SilentInv'
  <2>1. \A t \in Socket : \/ inbox'[t] = inbox[t]
                          \/ inbox'[t] = Append(inbox[t], Bus!Left(s))
    BY <1>0, <1>3 DEF Bus!Leave, Bus!Farewell, Bus!Deliver
  <2>2. Bus!Left(s) \in Bus!Message /\ Bus!Left(s).type = "left" /\ Bus!Left(s).from = s
    BY MessageTypes DEF Bus!Left
  <2>3. s \notin Open /\ Open' = Open /\ \A t \in Open : room'[t] = room[t]
    BY <1>0, <1>3 DEF Bus!Leave
  <2>4. ASSUME NEW t \in Socket
        PROVE  /\ Silent(inbox'[t])
               /\ \A u : u # s /\ Back(inbox[t], u) => Back(inbox'[t], u)
    <3>1. CASE inbox'[t] = Append(inbox[t], Bus!Left(s))
      BY <1>0, <2>2, <3>1, AppendKeeps
    <3> QED
      BY <2>1, <3>1
  <2> QED
    BY <1>0, <2>3, <2>4 DEF Company
<1>4. ASSUME NEW s \in Socket, Bus!Read(s) PROVE SilentInv'
  <2>1. \A t \in Socket : inbox'[t] = inbox[t] \/ (inbox[t] # <<>> /\ inbox'[t] = Tail(inbox[t]))
    BY <1>0, <1>4 DEF Bus!Read
  <2>2. \A t \in Socket : /\ Silent(inbox'[t])
                          /\ \A u : Back(inbox[t], u) => Back(inbox'[t], u)
    BY <1>0, <2>1, TailKeeps
  <2> QED
    BY <1>0, <1>4, <2>2 DEF Bus!Read, Company
<1>5. ASSUME NEW s \in Socket, NEW m \in Bus!Answers, Bus!Answer(s, m) PROVE SilentInv'
  <2>1. \A t \in Socket : inbox'[t] = inbox[t] \/ inbox'[t] = Append(inbox[t], m)
    BY <1>0, <1>5 DEF Bus!Answer, Bus!Deliver
  <2>2. m \in Bus!Message /\ m.type \notin {"left", "data"}
    BY MessageTypes DEF Bus!Answers
  <2>3. ASSUME NEW t \in Socket
        PROVE  Silent(inbox'[t]) /\ \A u : Back(inbox[t], u) => Back(inbox'[t], u)
    <3>1. CASE inbox'[t] = Append(inbox[t], m)
      BY <1>0, <2>2, <3>1, AppendKeeps
    <3> QED
      BY <2>1, <3>1
  <2> QED
    BY <1>0, <1>5, <2>3 DEF Bus!Answer, Company
<1>6. ASSUME NEW s \in Socket, NEW p \in Payload, Bus!Say(s, p) PROVE SilentInv'
  <2> DEFINE m == Bus!Data(s, p)
  <2>1. \A t \in Socket : \/ inbox'[t] = inbox[t]
                          \/ t \in Bus!Peers(s) /\ inbox'[t] = Append(inbox[t], m)
    BY <1>0, <1>6 DEF Bus!Say, Bus!Deliver
  <2>2. m \in Bus!Message /\ m.type = "data" /\ m.from = s
    BY MessageTypes DEF Bus!Data
  <2>3. \A t \in Bus!Peers(s) : Back(inbox[t], s)
    BY <1>0, <1>6 DEF Bus!Say, Bus!Peers, Company
  <2> HIDE DEF m
  <2>4. ASSUME NEW t \in Socket
        PROVE  Silent(inbox'[t]) /\ \A u : Back(inbox[t], u) => Back(inbox'[t], u)
    <3>1. CASE t \in Bus!Peers(s) /\ inbox'[t] = Append(inbox[t], m)
      BY <1>0, <2>2, <2>3, <3>1, AppendKeeps
    <3> QED
      BY <2>1, <3>1
  <2> QED
    BY <1>0, <1>6, <2>4 DEF Bus!Say, Company
<1>7. ASSUME NEW s \in Socket, NEW r \in Room, Bus!Enter(s, r) PROVE SilentInv'
  <2> DEFINE b == Bus!Farewell(s)
  <2>1. /\ Open' = Open /\ s \in Open
        /\ \A t \in Socket : room'[t] = IF t = s THEN r ELSE room[t]
    BY <1>0, <1>7 DEF Bus!Enter
  <2>2. /\ b[s] = inbox[s]
        /\ \A t \in Socket : b[t] = inbox[t] \/ b[t] = Append(inbox[t], Bus!Left(s))
    BY <1>0 DEF Bus!Farewell, Bus!Deliver, Bus!Peers
  <2>3. /\ inbox'[s] = Append(b[s], Bus!Ready)
        /\ \A t \in Socket \ {s} :
              inbox'[t] = IF t \in Open /\ room[t] = r THEN Append(b[t], Bus!Joined(s)) ELSE b[t]
    BY <1>7 DEF Bus!Enter, Bus!Deliver
  <2>4. /\ Bus!Left(s) \in Bus!Message /\ Bus!Left(s).type = "left" /\ Bus!Left(s).from = s
        /\ Bus!Ready \in Bus!Message /\ Bus!Ready.type = "ready"
        /\ Bus!Joined(s) \in Bus!Message /\ Bus!Joined(s).type = "joined"
    BY MessageTypes DEF Bus!Left, Bus!Ready, Bus!Joined
  <2> HIDE DEF b
  <2>5. ASSUME NEW t \in Socket
        PROVE  /\ b[t] \in Seq(Bus!Message)
               /\ Silent(b[t])
               /\ \A u : u # s /\ Back(inbox[t], u) => Back(b[t], u)
    <3>1. CASE b[t] = Append(inbox[t], Bus!Left(s))
      BY <1>0, <2>4, <3>1, AppendKeeps
    <3> QED
      BY <1>0, <2>2, <3>1
  <2>6. ASSUME NEW t \in Socket
        PROVE  /\ Silent(inbox'[t])
               /\ t # s => \A u : Back(b[t], u) => Back(inbox'[t], u)
    <3>1. CASE t = s
      <4>1. Bus!Ready \in Bus!Message /\ Bus!Ready.type # "data"
        BY <2>4
      <4>2. b[s] \in Seq(Bus!Message) /\ Silent(b[s])
        BY <2>5
      <4>3. Silent(Append(b[s], Bus!Ready))
        BY <4>1, <4>2, AppendKeeps
      <4> QED
        BY <2>3, <3>1, <4>3
    <3>2. CASE t # s /\ inbox'[t] = Append(b[t], Bus!Joined(s))
      <4>1. Bus!Joined(s).type \notin {"left", "data"}
        BY <2>4
      <4>2. b[t] \in Seq(Bus!Message) /\ Silent(b[t])
        BY <2>5
      <4> QED
        BY <2>4, <3>2, <4>1, <4>2, AppendKeeps
    <3> QED
      BY <2>3, <2>5, <3>1, <3>2
  <2>7. \A u : Back(inbox'[s], u)
    BY <2>3, <2>4, <2>5, AppendKeeps
  <2>8. \A t \in Open \ {s} : room[t] = r => Back(inbox'[t], s)
    BY <1>0, <2>3, <2>4, <2>5, AppendKeeps
  <2>9. Company'
    <3> SUFFICES ASSUME NEW t \in Open, NEW u \in Open, t # u, room'[t] = room'[u],
                        room'[t] # NoRoom
                 PROVE  Back(inbox'[t], u)
      BY <2>1 DEF Company
    <3>1. CASE t = s
      BY <2>7, <3>1
    <3>2. CASE u = s
      BY <1>0, <2>1, <2>8, <3>2
    <3>3. CASE t # s /\ u # s
      BY <1>0, <2>1, <2>5, <2>6, <3>3 DEF Company
    <3> QED
      BY <3>1, <3>2, <3>3
  <2> QED
    BY <2>6, <2>9
<1>8. CASE Bus!Outage
  BY <1>8 DEF Bus!Outage, Company
<1>9. CASE UNCHANGED Bus!vars
  BY <1>9 DEF Bus!vars, Company
<1> QED
  BY <1>1, <1>2, <1>3, <1>4, <1>5, <1>6, <1>7, <1>8, <1>9 DEF Bus!Next

\* Once a peer was told that somebody left, it hears nothing from it until it is
\* told that it came back or joins a room itself, for any number of sockets,
\* rooms and unread messages (server.js:122-142, 175-206).
THEOREM SilenceHolds == Spec => []SilentAfterLeaving
<1>1. Init => Inv /\ SilentInv
  <2>1. Silent(<<>>)
    BY DEF Silent
  <2> QED
    BY <2>1, InitInv DEF Init, SilentInv, Company, Open
<1>2. Inv /\ SilentInv /\ [Next]_vars => (Inv /\ SilentInv)'
  BY NextInv, NextRefines, SilentStep
<1>3. SilentInv => SilentAfterLeaving
  BY DEF SilentInv, Silent, Excused, SilentAfterLeaving
<1> QED
  BY <1>1, <1>2, <1>3, PTL DEF Spec
==============================================================================
