-------------------------------- MODULE Relay --------------------------------
(***************************************************************************)
(* The public relay (relay/src/server.js): sockets join a room with        *)
(* relay.join and everything else they send is forwarded to the other open *)
(* sockets of the room.  The room a socket is in is kept twice, in the     *)
(* socket (socket.room) and in the rooms map; Node runs one handler at a   *)
(* time, so an action is a whole handler.  A message is what a peer can    *)
(* tell apart: role and user, which no client reads, are left out, and so  *)
(* are the HTTP endpoints.  The sender recorded in a message is not on the *)
(* wire.                                                                   *)
(***************************************************************************)
EXTENDS Naturals, Sequences, FiniteSets

CONSTANTS
    Socket,     \* connections
    Room,       \* room codes, trimmed and upper-cased by the handler
    NoRoom,     \* the empty room name of a socket that has not joined
    Payload,    \* frames and text messages to forward
    MaxInbox    \* bound on what a peer has not read yet

ASSUME RoomAssumption == NoRoom \notin Room
ASSUME InboxAssumption == MaxInbox \in Nat

VARIABLES
    readyState,  \* of each socket; "closing" until its close event is handled
    room,        \* socket.room
    rooms,       \* the Map from room codes to sets of sockets
    inbox        \* what each socket was sent and has not read

vars == <<readyState, room, rooms, inbox>>

Open == {s \in Socket : readyState[s] = "open"}

Bus == INSTANCE RoomBus WITH open <- Open, member <- room

IsRooms(m) == DOMAIN m \subseteq Room /\ m \in [DOMAIN m -> SUBSET Socket]

TypeOK ==
    /\ readyState \in [Socket -> {"closed", "open", "closing"}]
    /\ room \in [Socket -> Room \cup {NoRoom}]
    /\ IsRooms(rooms)
    /\ DOMAIN inbox = Socket
    /\ \A s \in Socket : inbox[s] \in Seq(Bus!Message)

\* rooms.get(r) ?? new Set()
SocketsOf(r) == IF r \in DOMAIN rooms THEN rooms[r] ELSE {}

\* peer.send() for every peer of `to` that is open.
Send(boxes, to, m) ==
    [t \in Socket |-> IF t \in to \cap Open THEN Append(boxes[t], m) ELSE boxes[t]]

Init ==
    /\ readyState = [s \in Socket |-> "closed"]
    /\ room = [s \in Socket |-> NoRoom]
    /\ rooms = [r \in {} |-> {}]
    /\ inbox = [s \in Socket |-> <<>>]

Connection(s) ==
    /\ readyState[s] = "closed"
    /\ readyState' = [readyState EXCEPT ![s] = "open"]
    /\ room' = [room EXCEPT ![s] = NoRoom]
    /\ inbox' = [inbox EXCEPT ![s] = <<>>]
    /\ UNCHANGED rooms

------------------------------------------------------------------------------
\* leaveRoom: the rooms map and the messages sent once s left its room.

\* Mutated: an emptied room stays in the map.
RoomsWithoutDeletingEmpty(s) ==
    IF room[s] = NoRoom THEN rooms
    ELSE [r \in DOMAIN rooms |-> rooms[r] \ {s}]

RoomsWithout(s) ==
    IF room[s] = NoRoom THEN rooms
    ELSE LET left == [r \in DOMAIN rooms |->
                        IF r = room[s] THEN rooms[r] \ {s} ELSE rooms[r]]
         IN  [r \in {q \in DOMAIN left : q = room[s] => left[q] # {}} |-> left[r]]

Goodbyes(s) ==
    IF room[s] = NoRoom THEN inbox
    ELSE Send(inbox, SocketsOf(room[s]) \ {s}, Bus!Left(s))

\* rooms.get(r).add(s), with a new set for a new room.
WithSocket(m, r, s) ==
    [q \in DOMAIN m \cup {r} |->
        IF q # r THEN m[q] ELSE (IF r \in DOMAIN m THEN m[r] ELSE {}) \cup {s}]

------------------------------------------------------------------------------
\* The handlers of one socket.

CanReceive == \A s \in Socket : Len(inbox[s]) < MaxInbox

\* Mutated: the new room is told before the old one.
JoinAnnouncedFirst(s, r) ==
    /\ readyState[s] = "open"
    /\ CanReceive
    /\ rooms' = WithSocket(RoomsWithout(s), r, s)
    /\ room' = [room EXCEPT ![s] = r]
    /\ LET boxes == Send(Send(inbox, {s}, Bus!Ready), rooms'[r] \ {s}, Bus!Joined(s))
       IN  inbox' = IF room[s] = NoRoom THEN boxes
                    ELSE Send(boxes, SocketsOf(room[s]) \ {s}, Bus!Left(s))
    /\ UNCHANGED readyState

Join(s, r) ==
    /\ readyState[s] = "open"
    /\ CanReceive
    /\ rooms' = WithSocket(RoomsWithout(s), r, s)
    /\ room' = [room EXCEPT ![s] = r]
    /\ inbox' = Send(Send(Goodbyes(s), {s}, Bus!Ready),
                     rooms'[r] \ {s}, Bus!Joined(s))
    /\ UNCHANGED readyState

\* relay.join with no room or an unknown role, anything else before a join,
\* and auth.session in any state: one answer to the sender.
Reply(s, m) ==
    /\ readyState[s] = "open"
    /\ CanReceive
    /\ inbox' = Send(inbox, {s}, m)
    /\ UNCHANGED <<readyState, room, rooms>>

\* Mutated: every joined socket hears it.
ForwardToAll(s, p) ==
    /\ readyState[s] = "open"
    /\ room[s] # NoRoom
    /\ CanReceive
    /\ inbox' = Send(inbox, UNION {rooms[r] : r \in DOMAIN rooms} \ {s}, Bus!Data(s, p))
    /\ UNCHANGED <<readyState, room, rooms>>

\* Mutated: the message is sent without its envelope.
ForwardUnwrapped(s, p) ==
    /\ readyState[s] = "open"
    /\ room[s] # NoRoom
    /\ CanReceive
    /\ inbox' = Send(inbox, SocketsOf(room[s]) \ {s}, p)
    /\ UNCHANGED <<readyState, room, rooms>>

Forward(s, p) ==
    /\ readyState[s] = "open"
    /\ room[s] # NoRoom
    /\ CanReceive
    /\ inbox' = Send(inbox, SocketsOf(room[s]) \ {s}, Bus!Data(s, p))
    /\ UNCHANGED <<readyState, room, rooms>>

\* The connection breaks: sends to it are skipped from now on.
StartClosing(s) ==
    /\ readyState[s] = "open"
    /\ readyState' = [readyState EXCEPT ![s] = "closing"]
    /\ UNCHANGED <<room, rooms, inbox>>

Close(s) ==
    /\ readyState[s] = "closing"
    /\ CanReceive
    /\ readyState' = [readyState EXCEPT ![s] = "closed"]
    /\ rooms' = RoomsWithout(s)
    /\ room' = [room EXCEPT ![s] = NoRoom]
    /\ inbox' = Goodbyes(s)

\* The peer reads the next message off its connection.
Receive(s) ==
    /\ inbox[s] # <<>>
    /\ inbox' = [inbox EXCEPT ![s] = Tail(@)]
    /\ UNCHANGED <<readyState, room, rooms>>

\* The host restarts the relay: the maps live in memory.
Restart ==
    /\ readyState' = [s \in Socket |-> "closed"]
    /\ room' = [s \in Socket |-> NoRoom]
    /\ rooms' = [r \in {} |-> {}]
    /\ UNCHANGED inbox

Next ==
    \/ Restart
    \/ \E s \in Socket :
          \/ Connection(s) \/ StartClosing(s) \/ Close(s) \/ Receive(s)
          \/ \E r \in Room : Join(s, r)
          \/ \E m \in Bus!Answers : Reply(s, m)
          \/ \E p \in Payload : Forward(s, p)

Spec == Init /\ [][Next]_vars

------------------------------------------------------------------------------
\* socket.room and the rooms map always agree, the map keeps no empty room, and
\* a connection whose close event was handled is in no room (server.js:175-205).
Membership ==
    /\ \A s \in Socket, r \in Room : room[s] = r <=> s \in SocketsOf(r)
    /\ \A r \in DOMAIN rooms : rooms[r] # {}
    /\ \A s \in Socket : readyState[s] = "closed" => room[s] = NoRoom

\* A peer that was told somebody left hears nothing more from it until it is
\* told that one came back, or joins a room itself: forwarding, close events
\* and joins of different sockets are never seen out of order
\* (server.js:122-142, 175-206).
SilentAfterLeaving ==
    \A t \in Socket : \A i, j \in 1..Len(inbox[t]) :
        (i < j /\ inbox[t][i].type = "left" /\ inbox[t][j].type = "data"
               /\ inbox[t][i].from = inbox[t][j].from) =>
            \E k \in i..j :
                \/ inbox[t][k].type = "ready"
                \/ inbox[t][k] = Bus!Joined(inbox[t][j].from)

\* The two-map bookkeeping implements the bus: a message reaches exactly the
\* open sockets of the sender's room, arrivals and departures are announced to
\* exactly the room they concern, and a restart empties every room at once.
ImplementsBus == Bus!Spec
=============================================================================
