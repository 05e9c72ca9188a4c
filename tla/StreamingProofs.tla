---------------------------- MODULE StreamingProofs ----------------------------
(***************************************************************************)
(* Proofs about Streaming for every number of devices, connections and     *)
(* relay clients and every choice of UI calls: the types, the connections  *)
(* the server keeps, and that no device is left active by nobody.          *)
(***************************************************************************)
EXTENDS Streaming, TLAPS

\* A goroutine between its handshake and the server, or between the server and
\* the pairing service, knows the device it brings or takes away.
WorkKnown ==
    \A w \in Worker :
        pc[w] \in {"activate", "bind", "store", "disconnect", "offline"}
            => work[w] \in Device

TypeInv == TypeOK /\ WorkKnown

LEMMA InitType == Init => TypeInv
<1> SUFFICES ASSUME Init PROVE TypeInv
  OBVIOUS
<1>1. /\ DOMAIN connections = {}
      /\ connections \in [DOMAIN connections -> Device]
  BY DEF Init
<1>2. /\ pc \in [Worker -> ConnPcs \cup ClientPcs]
      /\ \A k \in Conn : pc[k] = "closed"
      /\ \A c \in Client : pc[c] = "stopped"
  BY ActorAssumption DEF Init, Worker, ConnPcs, ClientPcs
<1>3. WorkKnown
  BY <1>2 DEF WorkKnown, Worker
<1> QED
  BY <1>1, <1>2, <1>3 DEF Init, TypeInv, TypeOK, ConnPcs, ClientPcs, UiPcs

\* A worker goes to a label of its kind, with the devices it had; at a label
\* where it needs a device it has one.
LEMMA GoToType ==
    ASSUME TypeInv, NEW w \in Worker, NEW label \in ConnPcs \cup ClientPcs, GoTo(w, label),
           w \in Conn => label \in ConnPcs, w \in Client => label \in ClientPcs,
           work' \in [Worker -> Device \cup {NoDevice}],
           \A v \in Worker \ {w} : work'[v] = work[v],
           label \in {"activate", "bind", "store", "disconnect", "offline"}
               => work'[w] \in Device
    PROVE  /\ pc' \in [Worker -> ConnPcs \cup ClientPcs]
           /\ \A k \in Conn : pc'[k] \in ConnPcs
           /\ \A c \in Client : pc'[c] \in ClientPcs
           /\ WorkKnown'
BY DEF TypeInv, TypeOK, WorkKnown, GoTo, Worker

LEMMA NextType == TypeInv /\ [Next]_vars => TypeInv'
<1> SUFFICES ASSUME TypeInv, [Next]_vars PROVE TypeInv'
  OBVIOUS
<1> USE ActorAssumption
<1>1. ASSUME NEW k \in Conn, ConnStep(k) PROVE TypeInv'
  <2>0. k \in Worker
    BY DEF Worker
  <2>1. CASE Accept(k)
    BY <2>0, <2>1, GoToType
    DEF Accept, TypeInv, TypeOK, ConnPcs, ClientPcs, server, clients, calls
  <2>2. CASE ActivateConn(k)
    BY <2>0, <2>2, GoToType
    DEF ActivateConn, Activate, TypeInv, TypeOK, WorkKnown, ConnPcs, ClientPcs,
        clients, calls
  <2>3. CASE Bind(k)
    BY <2>0, <2>3, GoToType
    DEF Bind, BindConnection, Activate, TypeInv, TypeOK, WorkKnown, ConnPcs, ClientPcs,
        clients, calls
  <2>4. CASE OtherText(k)
    BY <2>0, <2>4 DEF OtherText, BindConnection, Activate, TypeInv, TypeOK, WorkKnown,
        clients, calls
  <2>5. CASE DropUnbound(k)
    BY <2>0, <2>5, GoToType
    DEF DropUnbound, TypeInv, TypeOK, ConnPcs, ClientPcs, server, clients, calls
  <2>6. CASE Disconnect(k)
    BY <2>0, <2>6, GoToType
    DEF Disconnect, ClearActive, TypeInv, TypeOK, ConnPcs, ClientPcs, clients, calls
  <2>7. CASE ConnOffline(k)
    BY <2>0, <2>7, GoToType
    DEF ConnOffline, MarkOffline, TypeInv, TypeOK, ConnPcs, ClientPcs, clients, calls
  <2> QED
    BY <1>1, <2>1, <2>2, <2>3, <2>4, <2>5, <2>6, <2>7 DEF ConnStep
<1>2. ASSUME NEW w \in Worker, NEW d \in Device, Handshake(w, d) PROVE TypeInv'
  BY <1>2, GoToType DEF Handshake, TypeInv, TypeOK, ConnPcs, ClientPcs, clients, calls
<1>3. ASSUME NEW d \in Device, ActivateApproved(d) PROVE TypeInv'
  BY <1>3 DEF ActivateApproved, TypeInv, TypeOK, WorkKnown, clients, calls
<1>4. ASSUME NEW c \in Client,
             \/ ClientStep(c) \/ DialFails(c) \/ DialSucceeds(c)
             \/ LinkBreaks(c) \/ PeerLeft(c) \/ OtherMessage(c)
      PROVE  TypeInv'
  <2>0. c \in Worker /\ c \notin Conn
    BY DEF Worker
  <2>1. CASE LoopTop(c) \/ JoinSent(c) \/ JoinFails(c) \/ ReadMore(c) \/ OtherMessage(c)
             \/ DialFails(c)
    BY <2>0, <2>1, GoToType
    DEF LoopTop, JoinSent, JoinFails, ReadMore, OtherMessage, DialFails, TypeInv, TypeOK,
        ConnPcs, ClientPcs, server, clients, calls
  <2>2. CASE SetKeyframeRequester(c)
    BY <2>0, <2>2, GoToType
    DEF SetKeyframeRequester, TypeInv, TypeOK, ConnPcs, ClientPcs, clients, calls
  <2>3. CASE ActivateClient(c)
    BY <2>0, <2>3, GoToType
    DEF ActivateClient, Activate, TypeInv, TypeOK, WorkKnown, ConnPcs, ClientPcs,
        clients, calls
  <2>4. CASE StoreDevice(c)
    BY <2>0, <2>4, GoToType
    DEF StoreDevice, TypeInv, TypeOK, ConnPcs, ClientPcs, server, clients, calls
  <2>5. CASE PeerLeft(c)
    BY <2>0, <2>5, GoToType
    DEF PeerLeft, TakeDevice, TypeInv, TypeOK, ConnPcs, ClientPcs, server, clients, calls
  <2>6. CASE ReadLoopEnds(c)
    BY <2>0, <2>6, GoToType
    DEF ReadLoopEnds, TakeDevice, TypeInv, TypeOK, ConnPcs, ClientPcs, server, clients,
        calls
  <2>7. CASE ClientDisconnect(c)
    BY <2>0, <2>7, GoToType
    DEF ClientDisconnect, ClearActive, TypeInv, TypeOK, WorkKnown, ConnPcs, ClientPcs,
        clients, calls
  <2>8. CASE ClientOffline(c)
    BY <2>0, <2>8, GoToType
    DEF ClientOffline, MarkOffline, TypeInv, TypeOK, ConnPcs, ClientPcs, clients, calls
  <2>9. CASE CloseLink(c) \/ DialSucceeds(c)
    BY <2>0, <2>9, GoToType
    DEF CloseLink, DialSucceeds, TypeInv, TypeOK, ConnPcs, ClientPcs, server, calls
  <2>10. CASE LinkBreaks(c)
    BY <2>10 DEF LinkBreaks, TypeInv, TypeOK, WorkKnown, server, calls
  <2> QED
    BY <1>4, <2>1, <2>2, <2>3, <2>4, <2>5, <2>6, <2>7, <2>8, <2>9, <2>10 DEF ClientStep
<1>5. ASSUME FirstClient \/ NextClient PROVE TypeInv'
  <2>1. StartClient /\ UNCHANGED <<active, status, connections, bound, work, ui, keyframe,
                                   approved>>
    BY <1>5 DEF FirstClient, NextClient
  <2>2. PICK c \in Client :
           /\ GoTo(c, "top") /\ current' = c /\ done' = done \ {c}
           /\ link' = [link EXCEPT ![c] = "nil"]
           /\ requester' = IF requester = c THEN NoClient ELSE requester
    BY <2>1 DEF StartClient
  <2>3. c \in Worker /\ c \notin Conn
    BY DEF Worker
  <2> QED
    BY <2>1, <2>2, <2>3, GoToType DEF TypeInv, TypeOK, ConnPcs, ClientPcs
<1>6. CASE \/ CloseDone \/ ShutdownLocks \/ ShutdownDisconnects \/ ShutdownReports
           \/ NoNextClient
  BY <1>6
  DEF CloseDone, NoNextClient, ShutdownLocks, ShutdownDisconnects, ShutdownReports,
      ClearActive, MarkOffline, TypeInv, TypeOK, WorkKnown, UiPcs, server, clients, calls
<1>7. CASE RequestKeyframe \/ WriteKeyframe
  BY <1>7 DEF RequestKeyframe, WriteKeyframe, TypeInv, TypeOK, WorkKnown, server, clients
<1>8. CASE UNCHANGED vars
  BY <1>8 DEF vars, TypeInv, TypeOK, WorkKnown, server, clients, calls
<1> QED
  BY <1>1, <1>2, <1>3, <1>4, <1>5, <1>6, <1>7, <1>8 DEF Next, ShutdownStep

\* The state of the server, of every goroutine and of the UI call has its type,
\* whatever the number of connections and clients (server.go, relay_client.go).
THEOREM TypeCorrect == Spec => []TypeOK
<1>1. Spec => []TypeInv
  BY InitType, NextType, PTL DEF Spec
<1>2. TypeInv => TypeOK
  BY DEF TypeInv
<1> QED
  BY <1>1, <1>2, PTL

------------------------------------------------------------------------------
\* The map of connections and the goroutines agree: a connection that named a
\* device is in the map, and no other is.
BoundIsMapped == \A k \in Conn : bound[k] # NoDevice <=> k \in DOMAIN connections

ConnInv == BoundIsMapped /\ ConnectionsAreLive

\* Nothing but the goroutine of a connection changes its entry.
LEMMA ConnsUntouched ==
    ASSUME TypeInv, ConnInv, UNCHANGED connections,
           \A k \in Conn : pc'[k] = pc[k] /\ bound'[k] = bound[k]
    PROVE  ConnInv'
BY DEF TypeInv, TypeOK, ConnInv, BoundIsMapped, ConnectionsAreLive

LEMMA ConnNext == TypeInv /\ ConnInv /\ [Next]_vars => ConnInv'
<1> SUFFICES ASSUME TypeInv, ConnInv, [Next]_vars PROVE ConnInv'
  OBVIOUS
<1> USE ActorAssumption
<1>1. ASSUME NEW k \in Conn, ConnStep(k) PROVE ConnInv'
  <2>0. k \in Worker
    BY DEF Worker
  <2>1. CASE Accept(k)
    BY <2>0, <2>1 DEF Accept, GoTo, server, TypeInv, TypeOK, ConnInv, BoundIsMapped,
                      ConnectionsAreLive
  <2>2. CASE ActivateConn(k)
    BY <2>0, <2>2 DEF ActivateConn, GoTo, TypeInv, TypeOK, ConnInv, BoundIsMapped,
                      ConnectionsAreLive
  <2>3. CASE Bind(k)
    <3>1. work[k] \in Device
      BY <2>0, <2>3 DEF Bind, TypeInv, WorkKnown
    <3> QED
      BY <2>0, <2>3, <3>1
      DEF Bind, BindConnection, GoTo, TypeInv, TypeOK, ConnInv, BoundIsMapped,
          ConnectionsAreLive
  <2>4. CASE OtherText(k)
    BY <2>0, <2>4 DEF OtherText, BindConnection, TypeInv, TypeOK, ConnInv, BoundIsMapped,
                      ConnectionsAreLive
  <2>5. CASE DropUnbound(k)
    BY <2>0, <2>5 DEF DropUnbound, GoTo, server, TypeInv, TypeOK, ConnInv, BoundIsMapped,
                      ConnectionsAreLive
  <2>6. CASE Disconnect(k)
    BY <2>0, <2>6 DEF Disconnect, GoTo, TypeInv, TypeOK, ConnInv, BoundIsMapped,
                      ConnectionsAreLive
  <2>7. CASE ConnOffline(k)
    BY <2>0, <2>7 DEF ConnOffline, GoTo, TypeInv, TypeOK, ConnInv, BoundIsMapped,
                      ConnectionsAreLive
  <2> QED
    BY <1>1, <2>1, <2>2, <2>3, <2>4, <2>5, <2>6, <2>7 DEF ConnStep
<1>2. ASSUME NEW w \in Worker, NEW d \in Device, Handshake(w, d) PROVE ConnInv'
  BY <1>2 DEF Handshake, GoTo, TypeInv, TypeOK, ConnInv, BoundIsMapped, ConnectionsAreLive
<1>3. ASSUME NEW d \in Device, ActivateApproved(d) PROVE ConnInv'
  BY <1>3, ConnsUntouched DEF ActivateApproved
<1>4. ASSUME NEW c \in Client,
             \/ ClientStep(c) \/ DialFails(c) \/ DialSucceeds(c)
             \/ LinkBreaks(c) \/ PeerLeft(c) \/ OtherMessage(c)
      PROVE  ConnInv'
  <2>1. connections' = connections
    BY <1>4
    DEF ClientStep, LoopTop, JoinSent, JoinFails, SetKeyframeRequester, ActivateClient,
        StoreDevice, ReadMore, ReadLoopEnds, ClientDisconnect, ClientOffline, CloseLink,
        DialFails, DialSucceeds, LinkBreaks, PeerLeft, OtherMessage, server
  <2>2. \A k \in Conn : pc'[k] = pc[k]
    BY <1>4
    DEF ClientStep, LoopTop, JoinSent, JoinFails, SetKeyframeRequester, ActivateClient,
        StoreDevice, ReadMore, ReadLoopEnds, ClientDisconnect, ClientOffline, CloseLink,
        DialFails, DialSucceeds, LinkBreaks, PeerLeft, OtherMessage, GoTo, TypeInv, TypeOK,
        Worker
  <2>3. \A k \in Conn : bound'[k] = bound[k]
    BY <1>4
    DEF ClientStep, LoopTop, JoinSent, JoinFails, SetKeyframeRequester, ActivateClient,
        StoreDevice, ReadMore, ReadLoopEnds, ClientDisconnect, ClientOffline, CloseLink,
        DialFails, DialSucceeds, LinkBreaks, PeerLeft, OtherMessage, TakeDevice, TypeInv,
        TypeOK, Worker
  <2> QED
    BY <2>1, <2>2, <2>3, ConnsUntouched
<1>5. CASE FirstClient \/ NextClient
  <2>1. StartClient /\ UNCHANGED <<connections, bound>>
    BY <1>5 DEF FirstClient, NextClient
  <2>2. \A k \in Conn : pc'[k] = pc[k]
    BY <2>1 DEF StartClient, GoTo, TypeInv, TypeOK, Worker
  <2> QED
    BY <2>1, <2>2, ConnsUntouched
<1>6. CASE \/ CloseDone \/ ShutdownLocks \/ ShutdownDisconnects \/ ShutdownReports
           \/ NoNextClient \/ RequestKeyframe \/ WriteKeyframe \/ UNCHANGED vars
  BY <1>6, ConnsUntouched
  DEF CloseDone, NoNextClient, ShutdownLocks, ShutdownDisconnects, ShutdownReports,
      RequestKeyframe, WriteKeyframe, vars, server
<1> QED
  BY <1>1, <1>2, <1>3, <1>4, <1>5, <1>6 DEF Next, ShutdownStep

\* bindConnection and disconnect keep the map to the connections whose goroutine
\* still reads, each with the device it last named (server.go:170-245, 322-346).
THEOREM LiveConnections == Spec => []ConnectionsAreLive
<1>1. Init => TypeInv /\ ConnInv
  <2>1. Init => ConnInv
    BY DEF Init, ConnInv, BoundIsMapped, ConnectionsAreLive, Worker
  <2> QED
    BY <2>1, InitType
<1>2. TypeInv /\ ConnInv /\ [Next]_vars => (TypeInv /\ ConnInv)'
  BY NextType, ConnNext
<1>3. ConnInv => ConnectionsAreLive
  BY DEF ConnInv
<1> QED
  BY <1>1, <1>2, <1>3, PTL DEF Spec

------------------------------------------------------------------------------
\* NoPhantom is not inductive: a worker that comes back with another device
\* speaks for the old one by its binding until it is bound again, and that says
\* nothing any more of who clears the old one.  The worker that will clear d:
Owns(w, d) ==
    IF pc[w] \in {"bind", "store", "disconnect"} THEN work[w] = d ELSE bound[w] = d

Owned == active # NoDevice => approved \/ \E w \in Worker : Owns(w, active)

\* A step that takes no device off anybody.
LEMMA OwnersStay ==
    ASSUME Owned, UNCHANGED <<active, approved>>,
           \A w \in Worker : Owns(w, active) => Owns(w, active)'
    PROVE  Owned'
BY DEF Owned, Owns

LEMMA OwnedNext == TypeInv /\ Owned /\ [Next]_vars => Owned'
<1> SUFFICES ASSUME TypeInv, Owned, [Next]_vars PROVE Owned'
  OBVIOUS
<1> USE ActorAssumption
\* Steps that only move a worker between labels that take nothing off it.
<1>a. ASSUME NEW w \in Worker, NEW label \in ConnPcs \cup ClientPcs, GoTo(w, label),
             UNCHANGED <<active, approved, bound>>,
             \A v \in Worker \ {w} : work'[v] = work[v],
             {pc[w], label} \cap {"bind", "store", "disconnect"} = {}
      PROVE  Owned'
  BY <1>a, OwnersStay DEF GoTo, Owns, TypeInv, TypeOK
<1>b. ASSUME UNCHANGED <<active, approved, pc, bound, work>> PROVE Owned'
  BY <1>b, OwnersStay DEF Owns
<1>1. ASSUME NEW k \in Conn, ConnStep(k) PROVE Owned'
  <2>0. k \in Worker
    BY DEF Worker
  <2>1. CASE Accept(k) \/ DropUnbound(k)
    BY <2>0, <2>1, <1>a DEF Accept, DropUnbound, server, ConnPcs
  <2>2. CASE ActivateConn(k)
    BY <2>0, <2>2 DEF ActivateConn, Activate, GoTo, Owned, Owns, TypeInv, TypeOK
  <2>3. CASE Bind(k)
    BY <2>0, <2>3 DEF Bind, BindConnection, Activate, GoTo, Owned, Owns, TypeInv, TypeOK
  <2>4. CASE OtherText(k)
    BY <2>0, <2>4 DEF OtherText, BindConnection, Activate, Owned, Owns, TypeInv, TypeOK
  <2>5. CASE Disconnect(k)
    <3>1. CASE active = bound[k]
      BY <2>5, <3>1 DEF Disconnect, ClearActive, Owned
    <3>2. CASE active # bound[k]
      BY <2>0, <2>5, <3>2, OwnersStay
      DEF Disconnect, ClearActive, GoTo, Owns, TypeInv, TypeOK
    <3> QED
      BY <3>1, <3>2
  <2>6. CASE ConnOffline(k)
    BY <2>0, <2>6, <1>a DEF ConnOffline, ConnPcs, TypeInv, TypeOK
  <2> QED
    BY <1>1, <2>1, <2>2, <2>3, <2>4, <2>5, <2>6 DEF ConnStep
<1>2. ASSUME NEW w \in Worker, NEW d \in Device, Handshake(w, d) PROVE Owned'
  BY <1>2, <1>a DEF Handshake, ConnPcs, TypeInv, TypeOK
<1>3. ASSUME NEW d \in Device, ActivateApproved(d) PROVE Owned'
  BY <1>3 DEF ActivateApproved, Owned
<1>4. ASSUME NEW c \in Client,
             \/ ClientStep(c) \/ DialFails(c) \/ DialSucceeds(c)
             \/ LinkBreaks(c) \/ PeerLeft(c) \/ OtherMessage(c)
      PROVE  Owned'
  <2>0. c \in Worker
    BY DEF Worker
  <2>1. CASE LoopTop(c) \/ JoinSent(c) \/ JoinFails(c) \/ ReadMore(c) \/ OtherMessage(c)
             \/ DialFails(c)
    BY <2>0, <2>1, <1>a
    DEF LoopTop, JoinSent, JoinFails, ReadMore, OtherMessage, DialFails, server, ClientPcs
  <2>2. CASE SetKeyframeRequester(c) \/ CloseLink(c) \/ DialSucceeds(c)
    BY <2>0, <2>2, <1>a DEF SetKeyframeRequester, CloseLink, DialSucceeds, server, ClientPcs
  <2>3. CASE ActivateClient(c)
    BY <2>0, <2>3 DEF ActivateClient, Activate, GoTo, Owned, Owns, TypeInv, TypeOK
  <2>4. CASE StoreDevice(c)
    BY <2>0, <2>4, OwnersStay DEF StoreDevice, server, GoTo, Owns, TypeInv, TypeOK
  <2>5. CASE PeerLeft(c)
    BY <2>0, <2>5, OwnersStay DEF PeerLeft, TakeDevice, server, GoTo, Owns, TypeInv, TypeOK
  <2>6. CASE ReadLoopEnds(c)
    BY <2>0, <2>6, OwnersStay
    DEF ReadLoopEnds, ReadLoopOver, TakeDevice, server, GoTo, Owned, Owns, TypeInv, TypeOK
  <2>7. CASE ClientDisconnect(c)
    <3>1. CASE active = work[c]
      BY <2>7, <3>1 DEF ClientDisconnect, ClearActive, Owned
    <3>2. CASE active # work[c]
      BY <2>0, <2>7, <3>2, OwnersStay
      DEF ClientDisconnect, ClearActive, GoTo, Owns, TypeInv, TypeOK
    <3> QED
      BY <3>1, <3>2
  <2>8. CASE ClientOffline(c)
    BY <2>0, <2>8, <1>a DEF ClientOffline, ClientPcs, TypeInv, TypeOK
  <2>9. CASE LinkBreaks(c)
    BY <2>9, <1>b DEF LinkBreaks, server
  <2> QED
    BY <1>4, <2>1, <2>2, <2>3, <2>4, <2>5, <2>6, <2>7, <2>8, <2>9 DEF ClientStep
<1>5. CASE FirstClient \/ NextClient
  <2>1. StartClient /\ UNCHANGED <<active, approved, bound, work>>
    BY <1>5 DEF FirstClient, NextClient
  <2>2. PICK c \in Client : pc[c] = "stopped" /\ GoTo(c, "top")
    BY <2>1 DEF StartClient
  <2> QED
    BY <2>1, <2>2, <1>a DEF Worker, ClientPcs
<1>6. CASE ShutdownDisconnects
  BY <1>6 DEF ShutdownDisconnects, ClearActive, Owned, Owns
<1>7. CASE \/ CloseDone \/ ShutdownLocks \/ ShutdownReports \/ NoNextClient
           \/ RequestKeyframe \/ WriteKeyframe \/ UNCHANGED vars
  BY <1>7, <1>b
  DEF CloseDone, NoNextClient, ShutdownLocks, ShutdownReports, RequestKeyframe,
      WriteKeyframe, vars, server
<1> QED
  BY <1>1, <1>2, <1>3, <1>4, <1>5, <1>6, <1>7 DEF Next, ShutdownStep

\* Whoever made a device active will take it back, whatever disconnects, dead
\* relay clients and shutdowns come in between (server.go:204-346,
\* relay_client.go:100-187); only a cloud approval makes one active for nobody.
THEOREM ActiveIsOwned == Spec => []NoPhantom
<1>1. Init => TypeInv /\ Owned
  BY InitType DEF Init, Owned
<1>2. TypeInv /\ Owned /\ [Next]_vars => (TypeInv /\ Owned)'
  BY NextType, OwnedNext
<1>3. Owned => NoPhantom
  BY DEF Owned, Owns, NoPhantom, SpeaksFor
<1> QED
  BY <1>1, <1>2, <1>3, PTL DEF Spec

------------------------------------------------------------------------------
\* A client has a device only inside readLoop, and away from the room, between
\* two connections, it has no open one.
Tidy(c) ==
    /\ bound[c] # NoDevice => pc[c] \in {"loop", "reading", "activate", "store"}
    /\ pc[c] \in {"stopped", "top", "dialing"} => link[c] # "up"

ClientsTidy == \A c \in Client : Tidy(c)

\* A step of one client, or of the UI on it, that leaves it tidy.
LEMMA OneClient ==
    ASSUME ClientsTidy, NEW c \in Client, Tidy(c)',
           \A b \in Client \ {c} :
               pc'[b] = pc[b] /\ bound'[b] = bound[b] /\ link'[b] = link[b]
    PROVE  ClientsTidy'
BY DEF ClientsTidy, Tidy

LEMMA NoClientMoves ==
    ASSUME ClientsTidy,
           \A b \in Client : pc'[b] = pc[b] /\ bound'[b] = bound[b] /\ link'[b] = link[b]
    PROVE  ClientsTidy'
BY DEF ClientsTidy, Tidy

LEMMA TidyNext == TypeInv /\ ClientsTidy /\ [Next]_vars => ClientsTidy'
<1> SUFFICES ASSUME TypeInv, ClientsTidy, [Next]_vars PROVE ClientsTidy'
  OBVIOUS
<1> USE ActorAssumption
<1>0. /\ pc \in [Worker -> ConnPcs \cup ClientPcs]
      /\ bound \in [Worker -> Device \cup {NoDevice}]
      /\ link \in [Client -> {"nil", "up", "down"}]
      /\ Client \subseteq Worker
      /\ \A k \in Conn : k \notin Client
  BY DEF TypeInv, TypeOK, Worker
<1>1. ASSUME NEW k \in Conn, ConnStep(k) PROVE ClientsTidy'
  BY <1>0, <1>1, NoClientMoves
  DEF ConnStep, Accept, ActivateConn, Bind, OtherText, DropUnbound, Disconnect, ConnOffline,
      BindConnection, GoTo, server, clients
<1>2. ASSUME NEW w \in Worker, NEW d \in Device, Handshake(w, d) PROVE ClientsTidy'
  <2>1. CASE w \in Client
    BY <1>0, <1>2, <2>1, OneClient DEF Handshake, GoTo, clients, ClientsTidy, Tidy
  <2>2. CASE w \in Conn
    BY <1>0, <1>2, <2>2, NoClientMoves DEF Handshake, GoTo, clients
  <2> QED
    BY <2>1, <2>2 DEF Worker
<1>3. ASSUME NEW d \in Device, ActivateApproved(d) PROVE ClientsTidy'
  BY <1>3, NoClientMoves DEF ActivateApproved, clients
<1>4. ASSUME NEW c \in Client,
             \/ ClientStep(c) \/ DialFails(c) \/ DialSucceeds(c)
             \/ LinkBreaks(c) \/ PeerLeft(c) \/ OtherMessage(c)
      PROVE  ClientsTidy'
  <2>0. Tidy(c)
    BY DEF ClientsTidy
  <2>1. CASE LoopTop(c) \/ DialFails(c) \/ JoinFails(c)
    BY <1>0, <2>0, <2>1, OneClient
    DEF LoopTop, DialFails, JoinFails, GoTo, server, clients, Tidy
  <2>2. CASE JoinSent(c) \/ SetKeyframeRequester(c) \/ ReadMore(c) \/ OtherMessage(c)
             \/ ActivateClient(c)
    BY <1>0, <2>0, <2>2, OneClient
    DEF JoinSent, SetKeyframeRequester, ReadMore, OtherMessage, ActivateClient, GoTo,
        clients, Tidy
  <2>3. CASE StoreDevice(c)
    BY <1>0, <2>0, <2>3, OneClient DEF StoreDevice, GoTo, clients, Tidy
  <2>4. CASE ReadLoopEnds(c) \/ PeerLeft(c)
    BY <1>0, <2>0, <2>4, OneClient
    DEF ReadLoopEnds, PeerLeft, TakeDevice, GoTo, clients, Tidy
  <2>5. CASE ClientDisconnect(c) \/ ClientOffline(c)
    BY <1>0, <2>0, <2>5, OneClient DEF ClientDisconnect, ClientOffline, GoTo, clients, Tidy
  <2>6. CASE CloseLink(c) \/ DialSucceeds(c)
    BY <1>0, <2>0, <2>6, OneClient DEF CloseLink, DialSucceeds, GoTo, Tidy
  <2>7. CASE LinkBreaks(c)
    BY <1>0, <2>0, <2>7, OneClient DEF LinkBreaks, Tidy
  <2> QED
    BY <1>4, <2>1, <2>2, <2>3, <2>4, <2>5, <2>6, <2>7 DEF ClientStep
<1>5. CASE FirstClient \/ NextClient
  <2>1. StartClient /\ UNCHANGED bound
    BY <1>5 DEF FirstClient, NextClient
  <2>2. PICK c \in Client :
           pc[c] = "stopped" /\ GoTo(c, "top") /\ link' = [link EXCEPT ![c] = "nil"]
    BY <2>1 DEF StartClient
  <2>3. Tidy(c)
    BY DEF ClientsTidy
  <2> QED
    BY <1>0, <2>1, <2>2, <2>3, OneClient DEF GoTo, Tidy
<1>6. CASE ShutdownLocks
  BY <1>0, <1>6 DEF ShutdownLocks, ClientsTidy, Tidy
<1>7. CASE \/ CloseDone \/ ShutdownDisconnects \/ ShutdownReports \/ NoNextClient
           \/ RequestKeyframe \/ WriteKeyframe \/ UNCHANGED vars
  BY <1>7, NoClientMoves
  DEF CloseDone, NoNextClient, ShutdownDisconnects, ShutdownReports, RequestKeyframe,
      WriteKeyframe, vars, clients
<1> QED
  BY <1>1, <1>2, <1>3, <1>4, <1>5, <1>6, <1>7 DEF Next, ShutdownStep

\* Whenever Shutdown comes, before the dial, during it or while a handshake is
\* answered, the loop of the client closes its last connection and gives its
\* device back before it returns (relay_client.go:50-133).
THEOREM StoppedClientsAreClean == Spec => []StoppedLeavesNothing
<1>1. Init => TypeInv /\ ClientsTidy
  <2>1. Init => ClientsTidy
    BY DEF Init, ClientsTidy, Tidy, Worker
  <2> QED
    BY <2>1, InitType
<1>2. TypeInv /\ ClientsTidy /\ [Next]_vars => (TypeInv /\ ClientsTidy)'
  BY NextType, TidyNext
<1>3. ClientsTidy => StoppedLeavesNothing
  BY DEF ClientsTidy, Tidy, StoppedLeavesNothing
<1> QED
  BY <1>1, <1>2, <1>3, PTL DEF Spec
===============================================================================
