------------------------------ MODULE Streaming ------------------------------
(***************************************************************************)
(* The desktop's streaming server (desktop/streaming/server.go) and its    *)
(* relay client (desktop/streaming/relay_client.go): who is the active     *)
(* device, which connection speaks for it, and what is left when           *)
(* connections, relay clients and the UI come and go.                      *)
(*                                                                         *)
(* Goroutines: one per direct WebSocket (handleWS), the loop of each relay *)
(* client (runLoop/readLoop), the UI call that replaces the relay client   *)
(* (app.go:440-460, Shutdown then NewRelayClient and Start) and the UI     *)
(* call RefreshStream (app.go:195-201).  An action is one critical section *)
(* of Server.mu or RelayClient.mu, or one network event.  The two nested   *)
(* uses of the locks are kept: RequestKeyframe calls into the relay client *)
(* while it reads under Server.mu, Shutdown calls into the server while it *)
(* holds RelayClient.mu.                                                   *)
(*                                                                         *)
(* Trust decisions are Pairing's: a handshake that succeeds is an input    *)
(* here, one that fails changes nothing.  Frames, metrics and the two      *)
(* timestamps of State() are left out.                                     *)
(***************************************************************************)
EXTENDS Naturals, FiniteSets

CONSTANTS
    Device,    \* trusted devices
    NoDevice,  \* the empty device id
    Conn,      \* direct WebSocket connections
    Client,    \* RelayClient objects; one that stopped is used again
    NoClient,
    UiCalls    \* what else happens: cloud approvals, keyframe requests

ASSUME ActorAssumption ==
    /\ Conn \cap Client = {}
    /\ NoClient \notin Client
    /\ NoDevice \notin Device
    /\ UiCalls \subseteq {"approve", "keyframe"}

Worker == Conn \cup Client

VARIABLES
    active,       \* s.activeDeviceID
    status,       \* each device's status in the pairing service
    connections,  \* s.connections
    requester,    \* the client s.requestKeyframe writes to
    pc,           \* where each worker stands
    bound,        \* connectedDeviceID of handleWS, c.deviceID of a client
    work,         \* the device a worker is connecting or disconnecting
    done,         \* the clients whose done channel is closed
    link,         \* c.conn: nil, a live connection or a dead one
    current,      \* a.relay
    ui,           \* the UI call replacing the relay client
    keyframe,     \* the client RequestKeyframe is about to write to, holding
                  \* Server.mu for reading
    approved      \* history: active was last set by a cloud approval

server == <<active, status, connections, requester>>
clients == <<done, link>>
calls == <<current, ui, keyframe>>
vars == <<server, pc, bound, work, clients, calls, approved>>

ConnPcs == {"closed", "reading", "activate", "bind", "offline"}
ClientPcs == {"stopped", "top", "dialing", "join", "requester", "loop",
              "reading", "activate", "store", "disconnect", "offline", "close"}
UiPcs == {"idle", "lock", "disconnect", "offline"}

TypeOK ==
    /\ active \in Device \cup {NoDevice}
    /\ status \in [Device -> {"connected", "offline"}]
    /\ DOMAIN connections \subseteq Conn
    /\ connections \in [DOMAIN connections -> Device]
    /\ requester \in Client \cup {NoClient}
    /\ pc \in [Worker -> ConnPcs \cup ClientPcs]
    /\ \A k \in Conn : pc[k] \in ConnPcs
    /\ \A c \in Client : pc[c] \in ClientPcs
    /\ bound \in [Worker -> Device \cup {NoDevice}]
    /\ work \in [Worker -> Device \cup {NoDevice}]
    /\ done \subseteq Client
    /\ link \in [Client -> {"nil", "up", "down"}]
    /\ current \in Client \cup {NoClient}
    /\ ui \in UiPcs
    /\ keyframe \in Client \cup {NoClient}
    /\ approved \in BOOLEAN

Init ==
    /\ active = NoDevice
    /\ status = [d \in Device |-> "offline"]
    /\ connections = [k \in {} |-> NoDevice]
    /\ requester = NoClient
    /\ pc = [w \in Worker |-> IF w \in Conn THEN "closed" ELSE "stopped"]
    /\ bound = [w \in Worker |-> NoDevice]
    /\ work = [w \in Worker |-> NoDevice]
    /\ done = {}
    /\ link = [c \in Client |-> "nil"]
    /\ current = NoClient
    /\ ui = "idle"
    /\ keyframe = NoClient
    /\ approved = FALSE

------------------------------------------------------------------------------
\* The locks.  Critical sections are single actions, so a lock is held across
\* steps only by the two nested calls.

\* Server.mu can be taken for writing.
ServerUnlocked == keyframe = NoClient

\* RelayClient.mu of c can be taken.
ClientUnlocked(c) == ~(current = c /\ ui \in {"disconnect", "offline"})

GoTo(w, label) == pc' = [pc EXCEPT ![w] = label]

Activate(d) == active' = d /\ approved' = FALSE

\* Mutated: the active device is left alone.
KeepActive(d) == UNCHANGED <<active, approved>>

\* The compare-and-clear of disconnect and DisconnectDevice.
ClearActive(d) ==
    /\ active' = IF active = d THEN NoDevice ELSE active
    /\ approved' = (approved /\ active # d)

MarkOffline(d) == status' = [status EXCEPT ![d] = "offline"]

------------------------------------------------------------------------------
\* handleWS: one goroutine per direct connection.

Accept(k) ==
    /\ pc[k] = "closed"
    /\ GoTo(k, "reading")
    /\ UNCHANGED <<server, bound, work, clients, calls, approved>>

\* pair.verify or device.reconnect is accepted: VerifyPairing and
\* VerifyReconnect have marked the device connected.  The reply, which changes
\* nothing, is left out; a client writes it under its lock, so that the model
\* can activate a device a little earlier than the code.
Handshake(w, d) ==
    /\ pc[w] = "reading"
    /\ w \in Client => link[w] = "up"
    /\ status' = [status EXCEPT ![d] = "connected"]
    /\ work' = [work EXCEPT ![w] = d]
    /\ GoTo(w, "activate")
    /\ UNCHANGED <<active, connections, requester, bound, clients, calls, approved>>

ActivateConn(k) ==
    /\ pc[k] = "activate"
    /\ ServerUnlocked
    /\ Activate(work[k])
    /\ GoTo(k, "bind")
    /\ UNCHANGED <<status, connections, requester, bound, work, clients, calls>>

\* bindConnection, after a handshake and again after every other text message
\* of a connection that has a device.
BindConnection(k, d) ==
    /\ ServerUnlocked
    /\ connections' = [j \in DOMAIN connections \cup {k} |->
                          IF j = k THEN d ELSE connections[j]]
    /\ Activate(d)
    /\ bound' = [bound EXCEPT ![k] = d]
    /\ UNCHANGED <<status, requester, clients, calls>>

Bind(k) ==
    /\ pc[k] = "bind"
    /\ BindConnection(k, work[k])
    /\ work' = [work EXCEPT ![k] = NoDevice]
    /\ GoTo(k, "reading")

OtherText(k) ==
    /\ pc[k] = "reading"
    /\ bound[k] # NoDevice
    /\ BindConnection(k, bound[k])
    /\ UNCHANGED <<pc, work>>

\* The read fails on a connection that never named a device.
DropUnbound(k) ==
    /\ pc[k] = "reading"
    /\ bound[k] = NoDevice
    /\ GoTo(k, "closed")
    /\ UNCHANGED <<server, bound, work, clients, calls, approved>>

\* Mutated: the connection stays in the map.
DisconnectWithoutDelete(k) ==
    /\ pc[k] = "reading"
    /\ bound[k] # NoDevice
    /\ ServerUnlocked
    /\ ClearActive(bound[k])
    /\ bound' = [bound EXCEPT ![k] = NoDevice]
    /\ work' = [work EXCEPT ![k] = bound[k]]
    /\ GoTo(k, "offline")
    /\ UNCHANGED <<status, connections, requester, clients, calls>>

\* The read fails: disconnect() under the lock ...
Disconnect(k) ==
    /\ pc[k] = "reading"
    /\ bound[k] # NoDevice
    /\ ServerUnlocked
    /\ connections' = [j \in DOMAIN connections \ {k} |-> connections[j]]
    /\ ClearActive(bound[k])
    /\ bound' = [bound EXCEPT ![k] = NoDevice]
    /\ work' = [work EXCEPT ![k] = bound[k]]
    /\ GoTo(k, "offline")
    /\ UNCHANGED <<status, requester, clients, calls>>

\* ... and OnDeviceDisconnected after it.
ConnOffline(k) ==
    /\ pc[k] = "offline"
    /\ MarkOffline(work[k])
    /\ work' = [work EXCEPT ![k] = NoDevice]
    /\ GoTo(k, "closed")
    /\ UNCHANGED <<active, connections, requester, bound, clients, calls, approved>>

\* ActivateDevice from the cloud approval and the restored session, after
\* VerifyPairing or ConnectDevice: no connection speaks for the device.
ActivateApproved(d) ==
    /\ "approve" \in UiCalls
    /\ ServerUnlocked
    /\ active' = d
    /\ status' = [status EXCEPT ![d] = "connected"]
    /\ approved' = TRUE
    /\ UNCHANGED <<connections, requester, pc, bound, work, clients, calls>>

------------------------------------------------------------------------------
\* runLoop and readLoop of a relay client.

\* Mutated: done is only looked at by readLoop.
LoopTopIgnoresDone(c) ==
    /\ pc[c] = "top"
    /\ GoTo(c, "dialing")
    /\ UNCHANGED <<server, bound, work, clients, calls, approved>>

LoopTop(c) ==
    /\ pc[c] = "top"
    /\ GoTo(c, IF c \in done THEN "stopped" ELSE "dialing")
    /\ UNCHANGED <<server, bound, work, clients, calls, approved>>

\* Mutated: the first failed dial is the last.
DialFailsForGood(c) ==
    /\ pc[c] = "dialing"
    /\ GoTo(c, "stopped")
    /\ UNCHANGED <<server, bound, work, clients, calls, approved>>

\* The backoff ends early when done is closed: back at the top either way.
DialFails(c) ==
    /\ pc[c] = "dialing"
    /\ GoTo(c, "top")
    /\ UNCHANGED <<server, bound, work, clients, calls, approved>>

\* Dial succeeds, even for a client that was shut down meanwhile.
DialSucceeds(c) ==
    /\ pc[c] = "dialing"
    /\ ClientUnlocked(c)
    /\ link' = [link EXCEPT ![c] = "up"]
    /\ GoTo(c, "join")
    /\ UNCHANGED <<server, bound, work, done, calls, approved>>

\* The write can succeed on a connection the peer has left.
JoinSent(c) ==
    /\ pc[c] = "join"
    /\ ClientUnlocked(c)
    /\ link[c] # "nil"
    /\ GoTo(c, "requester")
    /\ UNCHANGED <<server, bound, work, clients, calls, approved>>

JoinFails(c) ==
    /\ pc[c] = "join"
    /\ ClientUnlocked(c)
    /\ link[c] # "up"
    /\ GoTo(c, "top")
    /\ UNCHANGED <<server, bound, work, clients, calls, approved>>

SetKeyframeRequester(c) ==
    /\ pc[c] = "requester"
    /\ ServerUnlocked
    /\ requester' = c
    /\ GoTo(c, "loop")
    /\ UNCHANGED <<active, status, connections, bound, work, clients, calls, approved>>

\* The relay, the network or the 90 s read deadline ends the connection.
LinkBreaks(c) ==
    /\ link[c] = "up"
    /\ link' = [link EXCEPT ![c] = "down"]
    /\ UNCHANGED <<server, pc, bound, work, done, calls, approved>>

ActivateClient(c) ==
    /\ pc[c] = "activate"
    /\ ServerUnlocked
    /\ Activate(work[c])
    /\ GoTo(c, "store")
    /\ UNCHANGED <<status, connections, requester, bound, work, clients, calls>>

StoreDevice(c) ==
    /\ pc[c] = "store"
    /\ ClientUnlocked(c)
    /\ bound' = [bound EXCEPT ![c] = work[c]]
    /\ work' = [work EXCEPT ![c] = NoDevice]
    /\ GoTo(c, "loop")
    /\ UNCHANGED <<server, clients, calls, approved>>

\* c.deviceID is taken out of the client, under its lock.
TakeDevice(c) ==
    /\ ClientUnlocked(c)
    /\ bound' = [bound EXCEPT ![c] = NoDevice]
    /\ work' = [work EXCEPT ![c] = bound[c]]

\* relay.peer_left, whoever left.
PeerLeft(c) ==
    /\ pc[c] = "reading"
    /\ link[c] = "up"
    /\ bound[c] # NoDevice
    /\ TakeDevice(c)
    /\ GoTo(c, "disconnect")
    /\ UNCHANGED <<server, clients, calls, approved>>

\* The check of done before every ReadMessage.
ReadMore(c) ==
    /\ pc[c] = "loop"
    /\ c \notin done
    /\ GoTo(c, "reading")
    /\ UNCHANGED <<server, bound, work, clients, calls, approved>>

\* A frame, or a message that changes no device: a refused handshake, relay
\* notices other than peer_left, peer_left with nobody bound.
OtherMessage(c) ==
    /\ pc[c] = "reading"
    /\ link[c] = "up"
    /\ GoTo(c, "loop")
    /\ UNCHANGED <<server, bound, work, clients, calls, approved>>

ReadLoopOver(c) ==
    \/ pc[c] = "loop" /\ c \in done
    \/ pc[c] = "reading" /\ link[c] # "up"

\* Mutated: readLoop returns without its deferred clean-up.
ReadLoopEndsBare(c) ==
    /\ ReadLoopOver(c)
    /\ bound' = [bound EXCEPT ![c] = NoDevice]
    /\ GoTo(c, "close")
    /\ UNCHANGED <<server, work, clients, calls, approved>>

\* readLoop returns, because done is closed or the read failed, and runs its
\* deferred function.
ReadLoopEnds(c) ==
    /\ ReadLoopOver(c)
    /\ TakeDevice(c)
    /\ GoTo(c, IF bound[c] = NoDevice THEN "close" ELSE "disconnect")
    /\ UNCHANGED <<server, clients, calls, approved>>

\* DisconnectDevice, first under Server.mu, then OnDeviceDisconnected; back to
\* the loop after peer_left.  After the deferred call the function returns; it
\* goes by way of the loop here, which finds done or the dead link again.
ClientDisconnect(c) ==
    /\ pc[c] = "disconnect"
    /\ ServerUnlocked
    /\ ClearActive(work[c])
    /\ GoTo(c, "offline")
    /\ UNCHANGED <<status, connections, requester, bound, work, clients, calls>>

ClientOffline(c) ==
    /\ pc[c] = "offline"
    /\ MarkOffline(work[c])
    /\ work' = [work EXCEPT ![c] = NoDevice]
    /\ GoTo(c, "loop")
    /\ UNCHANGED <<active, connections, requester, bound, clients, calls, approved>>

\* Mutated: the connection is left to itself.
CloseLinkForgotten(c) ==
    /\ pc[c] = "close"
    /\ GoTo(c, "top")
    /\ UNCHANGED <<server, bound, work, clients, calls, approved>>

\* conn.Close after readLoop.
CloseLink(c) ==
    /\ pc[c] = "close"
    /\ link' = [link EXCEPT ![c] = IF @ = "up" THEN "down" ELSE @]
    /\ GoTo(c, "top")
    /\ UNCHANGED <<server, bound, work, done, calls, approved>>

------------------------------------------------------------------------------
\* startRelayIfConfigured: the UI shuts the current client down and starts one
\* for the new room.

\* The name of a stopped client is used for the new one: a keyframe request to
\* the stopped one had no effect.
StartClient ==
    \E c \in Client \ {current} :
        /\ pc[c] = "stopped"
        /\ keyframe # c
        /\ requester' = IF requester = c THEN NoClient ELSE requester
        /\ GoTo(c, "top")
        /\ done' = done \ {c}
        /\ link' = [link EXCEPT ![c] = "nil"]
        /\ current' = c

FirstClient ==
    /\ current = NoClient
    /\ ui = "idle"
    /\ StartClient
    /\ UNCHANGED <<active, status, connections, bound, work, ui, keyframe, approved>>

\* Mutated: a.relay is not compared with nil.
CloseDoneUnchecked ==
    /\ ui = "idle"
    /\ current \notin done
    /\ done' = done \cup {current}
    /\ ui' = "lock"
    /\ UNCHANGED <<server, pc, bound, work, link, current, keyframe, approved>>

CloseDone ==
    /\ ui = "idle"
    /\ current # NoClient
    /\ current \notin done
    /\ done' = done \cup {current}
    /\ ui' = "lock"
    /\ UNCHANGED <<server, pc, bound, work, link, current, keyframe, approved>>

\* Under c.mu: the connection is closed and forgotten; the lock is kept while
\* the server is told.
ShutdownLocks ==
    /\ ui = "lock"
    /\ link' = [link EXCEPT ![current] = "nil"]
    /\ ui' = IF bound[current] # NoDevice THEN "disconnect" ELSE "idle"
    /\ UNCHANGED <<server, pc, bound, work, done, current, keyframe, approved>>

ShutdownDisconnects ==
    /\ ui = "disconnect"
    /\ ServerUnlocked
    /\ ClearActive(bound[current])
    /\ ui' = "offline"
    /\ UNCHANGED <<status, connections, requester, pc, bound, work, clients,
                   current, keyframe>>

\* OnDeviceDisconnected also builds a snapshot, which reads under Server.mu.
ShutdownReports ==
    /\ ui = "offline"
    /\ MarkOffline(bound[current])
    /\ ui' = "idle"
    /\ UNCHANGED <<active, connections, requester, pc, bound, work, clients,
                   current, keyframe, approved>>

NextClient ==
    /\ ui = "idle"
    /\ current \in done
    /\ StartClient
    /\ UNCHANGED <<active, status, connections, bound, work, ui, keyframe, approved>>

\* The new session has no relay URL or no room.
NoNextClient ==
    /\ ui = "idle"
    /\ current \in done
    /\ current' = NoClient
    /\ UNCHANGED <<server, pc, bound, work, clients, ui, keyframe, approved>>

------------------------------------------------------------------------------
\* RefreshStream: RequestKeyframe writes to the bound connections and then to
\* the relay client, all under Server.mu for reading.  RefreshStream looks for
\* an active device in an earlier section: it can be gone by now.

RequestKeyframe ==
    /\ "keyframe" \in UiCalls
    /\ keyframe = NoClient
    /\ requester # NoClient
    /\ keyframe' = requester
    /\ UNCHANGED <<server, pc, bound, work, clients, current, ui, approved>>

WriteKeyframe ==
    /\ keyframe # NoClient
    /\ ClientUnlocked(keyframe)
    /\ keyframe' = NoClient
    /\ UNCHANGED <<server, pc, bound, work, clients, current, ui, approved>>

------------------------------------------------------------------------------
ConnStep(k) ==
    \/ Accept(k) \/ ActivateConn(k) \/ Bind(k) \/ OtherText(k) \/ DropUnbound(k)
    \/ Disconnect(k) \/ ConnOffline(k)

\* What a client does without waiting for the network.
ClientStep(c) ==
    \/ LoopTop(c) \/ JoinSent(c) \/ JoinFails(c) \/ SetKeyframeRequester(c)
    \/ ActivateClient(c) \/ StoreDevice(c) \/ ReadMore(c) \/ ReadLoopEnds(c)
    \/ ClientDisconnect(c) \/ ClientOffline(c) \/ CloseLink(c)

ShutdownStep ==
    \/ ShutdownLocks \/ ShutdownDisconnects \/ ShutdownReports
    \/ NextClient \/ NoNextClient

Next ==
    \/ \E k \in Conn : ConnStep(k)
    \/ \E w \in Worker, d \in Device : Handshake(w, d)
    \/ \E d \in Device : ActivateApproved(d)
    \/ \E c \in Client :
          \/ ClientStep(c) \/ DialFails(c) \/ DialSucceeds(c)
          \/ LinkBreaks(c) \/ PeerLeft(c) \/ OtherMessage(c)
    \/ FirstClient \/ CloseDone \/ ShutdownStep
    \/ RequestKeyframe \/ WriteKeyframe

Spec == Init /\ [][Next]_vars

\* Somebody may be waiting to write under Server.mu: Go then holds back readers.
WriterWaiting ==
    \/ \E w \in Worker : pc[w] \in {"activate", "bind", "requester", "disconnect"}
    \/ \E k \in Conn : pc[k] = "reading" /\ bound[k] # NoDevice

\* Goroutines that can run do run, and a released mutex reaches every waiter;
\* of the network only that a dial and the join after it succeed if they are
\* tried for ever.  NextClient is strongly fair because its name is free only
\* between keyframe requests; the code makes a new object and never waits.
Fairness ==
    /\ \A k \in Conn :
          WF_vars(ConnOffline(k)) /\ SF_vars(ActivateConn(k) \/ Bind(k))
    /\ \A c \in Client :
          /\ WF_vars(\/ LoopTop(c) \/ JoinFails(c) \/ StoreDevice(c) \/ ReadMore(c)
                     \/ ReadLoopEnds(c) \/ ClientOffline(c) \/ CloseLink(c))
          /\ SF_vars(SetKeyframeRequester(c) \/ ActivateClient(c) \/ ClientDisconnect(c))
          /\ SF_vars(DialSucceeds(c))
          /\ SF_vars(JoinSent(c))
    /\ WF_vars(\/ ShutdownLocks
               \/ ShutdownReports /\ (keyframe = NoClient \/ ~WriterWaiting))
    /\ SF_vars(ShutdownDisconnects \/ NextClient)
    /\ WF_vars(WriteKeyframe)

FairSpec == Spec /\ Fairness

------------------------------------------------------------------------------
\* Worker w speaks for device d: it is bound to it, or about to be, or about to
\* take it off.
SpeaksFor(w, d) ==
    \/ bound[w] = d
    \/ work[w] = d /\ pc[w] \in {"bind", "store", "disconnect"}

\* The active device is never a phantom: some connection still speaks for it,
\* unless it was last activated by a cloud approval, which nobody takes back.
\* Late and repeated disconnects of dead relay clients, handshakes racing
\* Shutdown and devices replacing each other on one connection never leave a
\* device active that nobody will clear (server.go:204-346,
\* relay_client.go:100-187).
NoPhantom ==
    active # NoDevice =>
        approved \/ \E w \in Worker : SpeaksFor(w, active)

\* The keyframe requests of RefreshStream go to the connections of the device
\* they are bound to: the map holds live connections only, each with the device
\* its goroutine last accepted (server.go:170-182, 230-245, 322-346).
ConnectionsAreLive ==
    \A k \in DOMAIN connections :
        pc[k] \in {"reading", "activate", "bind"} /\ connections[k] = bound[k]

\* A relay client that stopped left nothing behind, even when its dial was
\* answered after Shutdown had closed what there was to close, and a phone paired
\* or left meanwhile: no connection stays open in the old room, and no device
\* waits for this client to disconnect it (relay_client.go:50-133).
StoppedLeavesNothing ==
    \A c \in Client :
        pc[c] = "stopped" => link[c] # "up" /\ bound[c] = NoDevice

\* StreamState "tells the UI the truth about the video pipeline": connected when
\* a device is paired (models.go:15-17).  While a bound connection waits for
\* messages, State() does not say idle.
StateIsTrue ==
    (\E k \in DOMAIN connections : pc[k] = "reading") => active # NoDevice

\* RefreshStream holds Server.mu and waits for RelayClient.mu, Shutdown holds
\* RelayClient.mu and waits for Server.mu.
LockCycle ==
    keyframe # NoClient /\ keyframe = current /\ ui \in {"disconnect", "offline"}

\* Every client that is shut down stops, whatever it was doing, and gives way
\* to the client of the new room ("The relay room follows the session room",
\* app.go:176-177), unless the two locks are in a cycle
\* (relay_client.go:48-57, 100-133).
ShutdownCompletes ==
    \A c \in Client :
        (current = c /\ c \in done) ~>
            ((pc[c] = "stopped" /\ current # c) \/ LockCycle)

\* The relay client "rejoins the pairing room after every disconnect"
\* (relay_client.go:14-17) until it is replaced, unless the locks are in a cycle.
Rejoins ==
    \A c \in Client :
        current = c ~> (pc[c] \in {"loop", "reading"} \/ c \in done \/ LockCycle)

\* "The relay room follows the session room" (app.go:176-177): a client that was
\* shut down for a new room is replaced.
RoomFollows == \A c \in Client : (current = c /\ c \in done) ~> current # c
=============================================================================
