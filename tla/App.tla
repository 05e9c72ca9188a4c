--------------------------------- MODULE App ---------------------------------
(***************************************************************************)
(* The desktop application (desktop/main/app.go): the UI calls that start, *)
(* refresh and leave pairing sessions, the goroutines that watch for the   *)
(* cloud approval of a session, the pairing saved for the next start, and  *)
(* the relay room that has to follow the session.                          *)
(*                                                                         *)
(* A UI call is the sequence of steps it has still to take (todo); a       *)
(* watcher has a program counter.  Between two steps a call or a watcher   *)
(* may wait for the network, and the others go on.  UI calls run one at a  *)
(* time.                                                                   *)
(*                                                                         *)
(* What a step calls is another module's matter: VerifyPairing is whole    *)
(* here (Pairing splits it), so is the replacement of the relay client     *)
(* (Streaming does), and the active device is Streaming's.  Device         *)
(* statuses, snapshots sent to the page and logging are left out.          *)
(***************************************************************************)
EXTENDS Naturals, Sequences, FiniteSets

CONSTANTS
    Device,
    NoDevice,
    Watcher,     \* goroutines of watchCloudApprovals; one that ended is used again
    NoWatcher,
    MaxDevices,  \* pairing.MaxDevices
    MaxRooms,    \* bound on room codes drawn
    LegacyModes  \* sessions without a login: "relay", "direct" or both

ASSUME NameAssumption == NoDevice \notin Device /\ NoWatcher \notin Watcher
ASSUME BoundAssumption == MaxDevices \in Nat \ {0} /\ MaxRooms \in Nat
ASSUME ModeAssumption == LegacyModes \subseteq {"relay", "direct"}

Room == 1..MaxRooms   \* randomRoom never repeats: a code is its number
NoRoom == 0
Pairing == [room : Room \cup {NoRoom}, device : Device \cup {NoDevice}]
NoPairing == [room |-> NoRoom, device |-> NoDevice]
NoSession == [mode |-> "none", room |-> NoRoom]

VARIABLES
    loggedIn,   \* a.cloud.LoggedIn()
    devices,    \* ids trusted by the pairing service
    session,    \* mode and room of its session
    drawn,      \* room codes drawn so far
    rows,       \* public.pairing_sessions: status and device of each room
    relayRoom,  \* the room of a.relay
    saved,      \* active-session.json
    cam,        \* the room of the feed camCancel stops
    watch,      \* the watcher cancelWatch cancels
    cancelled,  \* watchers whose context is cancelled
    pc,         \* where each watcher stands
    poll,       \* the room and device of its current round
    todo,       \* what the UI call has still to do
    resume,     \* the pairing refreshPairingInternal is about to resume
    paired,     \* history: the device each room's approval paired
    stolen,     \* history: a watcher that ended stopped the one after it
    kept,       \* history: a session failed to start, the one before it stays
    drifted     \* history: LoginWithDiscord was the last call to refresh

watchers == <<watch, cancelled, pc, poll>>
history == <<paired, stolen, kept, drifted>>
vars == <<loggedIn, devices, session, drawn, rows, relayRoom, saved, cam,
          watchers, todo, resume, history>>

Steps == {"stopWatch", "stopCam", "clearSaved", "choose", "legacySession",
          "resumeSession", "resumeDevice", "cloudSession", "createRow", "watch",
          "fresh", "freshSession", "startRelay"}

TypeOK ==
    /\ loggedIn \in BOOLEAN
    /\ devices \subseteq Device
    /\ session \in [mode : {"none", "relay", "direct", "cloud"}, room : Room \cup {NoRoom}]
    /\ drawn \in 0..MaxRooms
    /\ rows \in [Room -> [status : {"none", "waiting", "approved", "consumed", "full"},
                          device : Device \cup {NoDevice}]]
    /\ relayRoom \in Room \cup {NoRoom}
    /\ saved \in Pairing
    /\ cam \in Room \cup {NoRoom}
    /\ watch \in Watcher \cup {NoWatcher}
    /\ cancelled \subseteq Watcher
    /\ pc \in [Watcher -> {"off", "wait", "get", "verify", "consume", "save", "cam", "stop"}]
    /\ poll \in [Watcher -> Pairing]
    /\ todo \in Seq(Steps)
    /\ resume \in Pairing
    /\ paired \in [Room -> Device \cup {NoDevice}]
    /\ stolen \in BOOLEAN
    /\ kept \in BOOLEAN
    /\ drifted \in BOOLEAN

\* refreshPairingInternal.
Refresh == <<"stopWatch", "stopCam", "choose">>

Init ==
    /\ loggedIn \in BOOLEAN
    /\ devices = {}
    /\ session = NoSession
    /\ drawn = 0
    /\ rows = [r \in Room |-> [status |-> "none", device |-> NoDevice]]
    /\ relayRoom = NoRoom
    /\ saved = NoPairing
    /\ cam = NoRoom
    /\ watch = NoWatcher
    /\ cancelled = {}
    /\ pc = [w \in Watcher |-> "off"]
    /\ poll = [w \in Watcher |-> NoPairing]
    /\ todo = Refresh \o <<"startRelay">>
    /\ resume = NoPairing
    /\ paired = [r \in Room |-> NoDevice]
    /\ stolen = FALSE
    /\ kept = FALSE
    /\ drifted = FALSE

------------------------------------------------------------------------------
\* UI calls.

Call(steps) ==
    /\ todo = <<>>
    /\ todo' = steps

\* The tokens are there and the call goes on to refresh, but not to
\* startRelayIfConfigured.
LoginWithDiscord ==
    /\ Call(Refresh)
    /\ loggedIn' = TRUE
    /\ drifted' = TRUE
    /\ UNCHANGED <<devices, session, drawn, rows, relayRoom, saved, cam, watchers,
                   resume, paired, stolen, kept>>

Logout ==
    /\ Call(<<"stopWatch", "clearSaved">> \o Refresh \o <<"startRelay">>)
    /\ loggedIn' = FALSE
    /\ UNCHANGED <<devices, session, drawn, rows, relayRoom, saved, cam, watchers,
                   resume, history>>

RefreshPairing ==
    /\ Call(Refresh \o <<"startRelay">>)
    /\ UNCHANGED <<loggedIn, devices, session, drawn, rows, relayRoom, saved, cam,
                   watchers, resume, history>>

StartFreshPairing ==
    /\ Call(<<"clearSaved", "stopWatch", "fresh">>)
    /\ UNCHANGED <<loggedIn, devices, session, drawn, rows, relayRoom, saved, cam,
                   watchers, resume, history>>

\* In the middle of another call too: it changes the trust store only.
ForgetDevice(d) ==
    /\ d \in devices
    /\ devices' = devices \ {d}
    /\ UNCHANGED <<loggedIn, session, drawn, rows, relayRoom, saved, cam, watchers,
                   todo, resume, history>>

\* A refused refresh wipes the tokens; a login may end after its call timed out.
TokensChange ==
    /\ loggedIn' = ~loggedIn
    /\ UNCHANGED <<devices, session, drawn, rows, relayRoom, saved, cam, watchers,
                   todo, resume, history>>

------------------------------------------------------------------------------
\* The steps of a call.

\* The next step is `name`; `more` comes before the rest.
Do(name, more) ==
    /\ todo # <<>>
    /\ Head(todo) = name
    /\ todo' = more \o Tail(todo)

\* Mutated: the cancel function is forgotten, not called.
CancelWatchDropped ==
    /\ watch' = NoWatcher
    /\ UNCHANGED <<cancelled, pc, poll>>

\* Mutated: cancelWatch is not compared with nil.
CancelWatchUnchecked ==
    /\ cancelled' = cancelled \cup {watch}
    /\ watch' = NoWatcher
    /\ UNCHANGED <<pc, poll>>

\* stopWatch.
CancelWatch ==
    /\ cancelled' = cancelled \cup ({watch} \ {NoWatcher})
    /\ watch' = NoWatcher
    /\ UNCHANGED <<pc, poll>>

StopWatch ==
    /\ Do("stopWatch", <<>>)
    /\ CancelWatch
    /\ UNCHANGED <<loggedIn, devices, session, drawn, rows, relayRoom, saved, cam,
                   resume, history>>

StopCam ==
    /\ Do("stopCam", <<>>)
    /\ cam' = NoRoom
    /\ UNCHANGED <<loggedIn, devices, session, drawn, rows, relayRoom, saved,
                   watchers, resume, history>>

\* An error of os.Remove is ignored.
ClearActiveSession ==
    /\ Do("clearSaved", <<>>)
    /\ saved' \in {saved, NoPairing}
    /\ UNCHANGED <<loggedIn, devices, session, drawn, rows, relayRoom, cam,
                   watchers, resume, history>>

\* Cloud or legacy session; with a login, resume the saved pairing if the file
\* can be read and its device is still trusted.
Choose ==
    /\ \/ Do("choose", <<"clearSaved", "legacySession">>) /\ ~loggedIn /\ UNCHANGED resume
       \/ Do("choose", <<"cloudSession">>) /\ loggedIn /\ UNCHANGED resume
       \/ /\ Do("choose", <<"resumeSession">>)
          /\ loggedIn
          /\ saved.device \in devices
          /\ resume' = saved
    /\ UNCHANGED <<loggedIn, devices, session, drawn, rows, relayRoom, saved, cam,
                   watchers, history>>

\* The Start...Session functions of the pairing service draw a room or a token,
\* encode the QR code and replace the session before, ...
SessionStarts(mode, room) ==
    /\ session' = [mode |-> mode, room |-> room]
    /\ kept' = FALSE
    /\ UNCHANGED <<loggedIn, devices, rows, relayRoom, saved, cam, watchers,
                   paired, stolen, drifted>>

NewSession(mode) ==
    /\ drawn < MaxRooms
    /\ drawn' = drawn + 1
    /\ SessionStarts(mode, IF mode = "direct" THEN NoRoom ELSE drawn + 1)
    /\ UNCHANGED resume

\* ... or fail, and the session before stays: direct mode without a public URL,
\* no random bytes, a QR code that cannot be encoded.  (No session starts or
\* fails any more when the bound on rooms is reached.)
SessionFails ==
    /\ drawn < MaxRooms
    /\ kept' = TRUE
    /\ resume' = NoPairing
    /\ UNCHANGED <<loggedIn, devices, session, drawn, rows, relayRoom, saved, cam,
                   watchers, paired, stolen, drifted>>

\* The environment of the process decides on the mode; here each session does.
\* The error is logged.
LegacySession ==
    /\ Do("legacySession", <<>>)
    /\ (\E mode \in LegacyModes : NewSession(mode)) \/ SessionFails

\* After an error the call goes on to a new session.
ResumeSession ==
    \/ /\ Do("resumeSession", <<"resumeDevice">>)
       /\ SessionStarts("cloud", resume.room)
       /\ UNCHANGED <<drawn, resume>>
    \/ /\ Do("resumeSession", <<"clearSaved", "cloudSession">>)
       /\ SessionFails

\* Mutated: the resumed session is watched like a new one.
ResumeDeviceAndWatch ==
    /\ Do("resumeDevice", <<"watch">>)
    /\ cam' = resume.room
    /\ resume' = NoPairing
    /\ UNCHANGED <<loggedIn, devices, session, drawn, rows, relayRoom, saved,
                   watchers, history>>

\* ConnectDevice, then the camera feed; the device may have been forgotten
\* since HasDevice.
ResumeDevice ==
    /\ IF resume.device \in devices
       THEN Do("resumeDevice", <<>>) /\ cam' = resume.room
       ELSE Do("resumeDevice", <<"clearSaved", "cloudSession">>) /\ UNCHANGED cam
    /\ resume' = NoPairing
    /\ UNCHANGED <<loggedIn, devices, session, drawn, rows, relayRoom, saved,
                   watchers, history>>

\* After an error refreshPairingInternal returns: no row, no watcher.
CloudSession ==
    \/ Do("cloudSession", <<"createRow", "stopWatch", "watch">>) /\ NewSession("cloud")
    \/ Do("cloudSession", <<>>) /\ SessionFails

\* do, for a request that changes rows: it is not sent without a token, it may
\* fail, and its callers go on all the same.
Request(effect) == (loggedIn /\ effect) \/ UNCHANGED rows

\* UpdatePairingStatus, and a new row for a room that has none.
UpdatePairingStatus(r, status) == rows' = [rows EXCEPT ![r].status = status]

CreateRow ==
    /\ Do("createRow", <<>>)
    /\ Request(UpdatePairingStatus(session.room, "waiting"))
    /\ UNCHANGED <<loggedIn, devices, session, drawn, relayRoom, saved, cam,
                   watchers, resume, history>>

\* The end of watchCloudApprovals: a new watcher, which cancelWatch cancels.
\* It waits for a name to be free; the code does not wait.
Watch ==
    /\ Do("watch", <<>>)
    /\ \E w \in Watcher :
          /\ pc[w] = "off"
          /\ watch' = w
          /\ cancelled' = cancelled \ {w}
          /\ pc' = [pc EXCEPT ![w] = "wait"]
    /\ stolen' = FALSE
    /\ UNCHANGED <<loggedIn, devices, session, drawn, rows, relayRoom, saved, cam,
                   poll, resume, paired, kept, drifted>>

\* The rest of StartFreshPairing.
Fresh ==
    /\ Do("fresh", IF loggedIn THEN <<"freshSession">> ELSE Refresh \o <<"startRelay">>)
    /\ UNCHANGED <<loggedIn, devices, session, drawn, rows, relayRoom, saved, cam,
                   watchers, resume, history>>

\* Mutated: the relay client stays where it is.
FreshWithoutRelay ==
    \/ Do("freshSession", <<"createRow", "stopWatch", "watch">>) /\ NewSession("cloud")
    \/ Do("freshSession", <<>>) /\ SessionFails

\* After an error it returns, and the relay client stays too.
FreshSession ==
    \/ /\ Do("freshSession", <<"createRow", "startRelay", "stopWatch", "watch">>)
       /\ NewSession("cloud")
    \/ Do("freshSession", <<>>) /\ SessionFails

\* startRelayIfConfigured.  Every mode has a relay URL, direct has no room.
StartRelay ==
    /\ Do("startRelay", <<>>)
    /\ relayRoom' = session.room
    /\ drifted' = FALSE
    /\ UNCHANGED <<loggedIn, devices, session, drawn, rows, saved, cam, watchers,
                   resume, paired, stolen, kept>>

------------------------------------------------------------------------------
\* watchCloudApprovals, one round.

At(w, from, to) ==
    /\ pc[w] = from
    /\ pc' = [pc EXCEPT ![w] = to]

\* ctx.Done and the ticker: either may win once the context is cancelled.
WatcherDone(w) ==
    /\ w \in cancelled
    /\ At(w, "wait", "off")
    /\ UNCHANGED <<loggedIn, devices, session, drawn, rows, relayRoom, saved, cam,
                   watch, cancelled, poll, todo, resume, history>>

\* The round ends the watcher if the session is no cloud session any more, and
\* asks for nothing without an access token.
Tick(w) ==
    /\ \/ session.mode # "cloud" /\ At(w, "wait", "off") /\ UNCHANGED poll
       \/ /\ session.mode = "cloud"
          /\ loggedIn
          /\ At(w, "wait", "get")
          /\ poll' = [poll EXCEPT ![w] = [room |-> session.room, device |-> NoDevice]]
    /\ UNCHANGED <<loggedIn, devices, session, drawn, rows, relayRoom, saved, cam,
                   watch, cancelled, todo, resume, history>>

\* GetPairingSession answers before the context is cancelled, and the row is
\* approved.
GetApproved(w) ==
    /\ At(w, "get", "verify")
    /\ w \notin cancelled
    /\ rows[poll[w].room].status = "approved"
    /\ poll' = [poll EXCEPT ![w].device = rows[poll[w].room].device]
    /\ UNCHANGED <<loggedIn, devices, session, drawn, rows, relayRoom, saved, cam,
                   watch, cancelled, todo, resume, history>>

\* Mutated: an error ends the watcher.
GetNothingReturns(w) ==
    /\ At(w, "get", "off")
    /\ poll' = [poll EXCEPT ![w] = NoPairing]
    /\ UNCHANGED <<loggedIn, devices, session, drawn, rows, relayRoom, saved, cam,
                   watch, cancelled, todo, resume, history>>

\* It fails, or the row is not approved.
GetNothing(w) ==
    /\ At(w, "get", "wait")
    /\ poll' = [poll EXCEPT ![w] = NoPairing]
    /\ UNCHANGED <<loggedIn, devices, session, drawn, rows, relayRoom, saved, cam,
                   watch, cancelled, todo, resume, history>>

Full(d) == d \notin devices /\ Cardinality(devices) >= MaxDevices

VerifyRefused(w) ==
    /\ At(w, "verify", "wait")
    /\ poll' = [poll EXCEPT ![w] = NoPairing]
    /\ Full(poll[w].device)
    /\ Request(w \notin cancelled /\ UpdatePairingStatus(poll[w].room, "full"))
    /\ UNCHANGED <<loggedIn, devices, session, drawn, relayRoom, saved, cam,
                   watch, cancelled, todo, resume, history>>

\* A session without a token in direct mode refuses; an error of persist()
\* leaves the device in the map.
VerifyFails(w) ==
    /\ At(w, "verify", "wait")
    /\ poll' = [poll EXCEPT ![w] = NoPairing]
    /\ \/ session.mode = "direct" /\ UNCHANGED devices
       \/ /\ session.mode # "direct"
          /\ ~Full(poll[w].device)
          /\ devices' = devices \cup {poll[w].device}
    /\ UNCHANGED <<loggedIn, session, drawn, rows, relayRoom, saved, cam,
                   watch, cancelled, todo, resume, history>>

\* Mutated: any answer of VerifyPairing counts as a pairing.
VerifyAnswered(w) ==
    /\ At(w, "verify", "consume")
    /\ devices' \in {devices, devices \cup {poll[w].device}}
    /\ UNCHANGED <<loggedIn, session, drawn, rows, relayRoom, saved, cam,
                   watch, cancelled, poll, todo, resume, history>>

\* Then ActivateDevice.
Verify(w) ==
    /\ At(w, "verify", "consume")
    /\ session.mode # "direct"
    /\ ~Full(poll[w].device)
    /\ devices' = devices \cup {poll[w].device}
    /\ paired' = [paired EXCEPT ![poll[w].room] = poll[w].device]
    /\ UNCHANGED <<loggedIn, session, drawn, rows, relayRoom, saved, cam,
                   watch, cancelled, poll, todo, resume, stolen, kept, drifted>>

\* Not under the watcher's context; an error is ignored.
Consume(w) ==
    /\ At(w, "consume", "save")
    /\ Request(UpdatePairingStatus(poll[w].room, "consumed"))
    /\ UNCHANGED <<loggedIn, devices, session, drawn, relayRoom, saved, cam,
                   watch, cancelled, poll, todo, resume, history>>

\* Mutated: the room of the session on screen is saved.
SaveSessionOnScreen(w) ==
    /\ At(w, "save", "cam")
    /\ saved' = [room |-> session.room, device |-> poll[w].device]
    /\ UNCHANGED <<loggedIn, devices, session, drawn, rows, relayRoom, cam,
                   watch, cancelled, poll, todo, resume, history>>

\* saveActiveSession ignores its errors; WriteFile may leave half a file, which
\* holds no pairing.
SaveActiveSession(w) ==
    /\ At(w, "save", "cam")
    /\ saved' \in {saved, poll[w], NoPairing}
    /\ UNCHANGED <<loggedIn, devices, session, drawn, rows, relayRoom, cam,
                   watch, cancelled, poll, todo, resume, history>>

StartCamFeed(w) ==
    /\ At(w, "cam", "stop")
    /\ cam' = poll[w].room
    /\ UNCHANGED <<loggedIn, devices, session, drawn, rows, relayRoom, saved,
                   watch, cancelled, poll, todo, resume, history>>

\* The last stopWatch cancels whoever is watching now.
WatcherStops(w) ==
    /\ At(w, "stop", "off")
    /\ cancelled' = cancelled \cup ({watch} \ {NoWatcher})
    /\ watch' = NoWatcher
    /\ poll' = [poll EXCEPT ![w] = NoPairing]
    /\ stolen' = (stolen \/ watch \notin {w, NoWatcher})
    /\ UNCHANGED <<loggedIn, devices, session, drawn, rows, relayRoom, saved, cam,
                   todo, resume, paired, kept, drifted>>

------------------------------------------------------------------------------
\* web/pair: only a waiting row can be approved.
Approve(r, d) ==
    /\ rows[r].status = "waiting"
    /\ rows' = [rows EXCEPT ![r] = [status |-> "approved", device |-> d]]
    /\ UNCHANGED <<loggedIn, devices, session, drawn, relayRoom, saved, cam,
                   watchers, todo, resume, history>>

\* The process ends at any time; OnStartup runs in the next one.
Restart ==
    /\ session' = NoSession
    /\ relayRoom' = NoRoom
    /\ cam' = NoRoom
    /\ watch' = NoWatcher
    /\ cancelled' = {}
    /\ pc' = [w \in Watcher |-> "off"]
    /\ poll' = [w \in Watcher |-> NoPairing]
    /\ todo' = Refresh \o <<"startRelay">>
    /\ resume' = NoPairing
    /\ stolen' = FALSE
    /\ kept' = FALSE
    /\ drifted' = FALSE
    /\ UNCHANGED <<loggedIn, devices, drawn, rows, saved, paired>>

UiCall ==
    \/ LoginWithDiscord \/ Logout \/ RefreshPairing \/ StartFreshPairing

UiStep ==
    \/ StopWatch \/ StopCam \/ ClearActiveSession \/ Choose \/ LegacySession
    \/ ResumeSession \/ ResumeDevice \/ CloudSession \/ CreateRow \/ Watch
    \/ Fresh \/ FreshSession \/ StartRelay

WatcherStep(w) ==
    \/ WatcherDone(w) \/ Tick(w) \/ GetApproved(w) \/ GetNothing(w)
    \/ VerifyRefused(w) \/ VerifyFails(w) \/ Verify(w) \/ Consume(w)
    \/ SaveActiveSession(w) \/ StartCamFeed(w) \/ WatcherStops(w)

Next ==
    \/ UiCall \/ UiStep \/ TokensChange \/ Restart
    \/ \E w \in Watcher : WatcherStep(w)
    \/ \E d \in Device : ForgetDevice(d)
    \/ \E r \in Room, d \in Device : Approve(r, d)

Spec == Init /\ [][Next]_vars

------------------------------------------------------------------------------
\* Watchers replace one another: at most one that is not cancelled runs, and it
\* is the one the next stopWatch will cancel (app.go:263-320).
OneWatcher == \A w \in Watcher : pc[w] # "off" /\ w \notin cancelled => watch = w

\* "ConsumePairingSession marks the row as used so it cannot be replayed"
\* (cloud.go:446): although the consuming request may fail, and the process may
\* end before it, no approval pairs a device twice.
ApprovalUsedOnce ==
    [][\A w \in Watcher :
          pc[w] = "verify" /\ pc'[w] = "consume" => paired[poll[w].room] = NoDevice]_vars

\* The life of a pairing row without the watchers that move it.
Rows == INSTANCE Approval WITH
    status <- [r \in Room |-> rows[r].status],
    device <- [r \in Room |-> rows[r].device]

\* The row tells the phone and the next desktop the truth: whatever requests
\* failed, whoever was cancelled and however often the process ended, a row that
\* is consumed was paired with its device, one that is full was refused and is
\* never paired afterwards (app.go:263-313, cloud.go:370-463).
ImplementsApproval == Rows!Spec

\* The pairing saved for the next start, and the room whose camera is polled,
\* are those of an approval that paired that device: watchers that end late
\* never mix one session's room with another's device (app.go:292-305).
SavedWasPaired ==
    /\ saved # NoPairing => saved.device # NoDevice /\ paired[saved.room] = saved.device
    /\ cam # NoRoom => paired[cam] # NoDevice

\* The session on screen waits for an approval.
Waiting ==
    /\ session.mode = "cloud"
    /\ rows[session.room].status \in {"waiting", "approved"}
    /\ paired[session.room] = NoDevice

Watched == watch # NoWatcher /\ pc[watch] # "off"

\* "watchCloudApprovals polls the Supabase row until a device approves"
\* (app.go:263): between calls, a session that waits for an approval is watched,
\* if no session failed to start since: every call stops the watcher first, and
\* leaves the session before on screen when the new one fails (app.go:169-172,
\* 232-236, 244-247).
WatchWhileWaiting == todo = <<>> /\ ~kept /\ Waiting => Watched

\* It is watched, unless a later session failed to start (kept), or a cancelled
\* watcher that had already read its approval ended with the stopWatch that hit
\* its successor (stolen): whatever fails or is cancelled otherwise, no order of
\* calls, watchers and restarts leaves it alone.
WatchedUnlessStolen == stolen \/ WatchWhileWaiting

\* "The relay room follows the session room" (app.go:176-177): between calls
\* the relay client is in the room on the QR code, except after
\* LoginWithDiscord, which starts a session and leaves the client where it was.
RelayFollowsSession == todo = <<>> /\ ~drifted => relayRoom = session.room
==============================================================================
