------------------------------ MODULE AppProofs ------------------------------
(***************************************************************************)
(* Proofs about App for every number of devices, watchers and rooms and    *)
(* every choice of session modes.  Each invariant says something of a      *)
(* phase of the call that runs (AppPlanProofs): what stopWatch has already *)
(* ended, and what a later step may rely on.                               *)
(***************************************************************************)
EXTENDS AppPlanProofs

------------------------------------------------------------------------------
\* Types.

\* A watcher has an approval in hand.
Holds(w) == pc[w] \in {"verify", "consume", "save", "cam", "stop"}

\* Rooms in use were drawn, and devices in use have a name.
Named(p) == p.room \in 1..drawn /\ p.device \in Device
RoomsDrawn ==
    /\ session.room <= drawn
    /\ session.mode = "cloud" => session.room \in 1..drawn
    /\ \A w \in Watcher : pc[w] \notin {"off", "wait"} => poll[w].room \in 1..drawn
DevicesNamed ==
    /\ \A r \in Room : rows[r].status = "approved" => rows[r].device \in Device
    /\ \A w \in Watcher : Holds(w) => poll[w].device \in Device
PairingsNamed ==
    /\ saved # NoPairing => Named(saved)
    /\ resume # NoPairing => Named(resume)
    /\ todo \in Resuming \cup Resumed => resume # NoPairing

RowType == [Room -> [status : {"none", "waiting", "approved", "consumed", "full"},
                     device : Device \cup {NoDevice}]]

TypeInv == TypeOK /\ todo \in Plans /\ RoomsDrawn /\ DevicesNamed /\ PairingsNamed

\* Every call follows one of the plans.
LEMMA PlansFollowed == TypeInv /\ [Next]_vars => todo' \in Plans
<1> SUFFICES ASSUME TypeInv, [Next]_vars PROVE todo' \in Plans
  OBVIOUS
<1>1. todo \in Plans
  BY DEF TypeInv
<1>2. /\ Stopping \subseteq Plans /\ Changing \subseteq Plans /\ Starting \subseteq Plans
      /\ Idle \subseteq Plans /\ Resumed \subseteq Plans
      /\ <<>> \in Plans /\ <<"stopWatch", "watch">> \in Plans
  BY DEF Plans, Idle, Starting
<1>3. CASE UiCall \/ Restart
  BY <1>2, <1>3, CallsStopFirst
<1>4. CASE UiStep
  <2>1. todo' \in Idle \cup Stopping \cup Changing \cup Resumed \cup Starting
    <3>1. CASE StopWatch \/ StopCam \/ ClearActiveSession
      BY <1>1, <3>1, Phases
    <3>4. CASE Choose \/ Fresh
      BY <1>1, <3>4, Phases, PhasesApart
    <3>2. CASE LegacySession \/ ResumeSession \/ ResumeDevice \/ CloudSession \/ FreshSession
      BY <1>1, <3>2, Phases
    <3>3. CASE CreateRow \/ Watch \/ StartRelay
      BY <1>1, <3>3, Phases, PhasesApart
    <3> QED
      BY <1>4, <3>1, <3>2, <3>3, <3>4 DEF UiStep
  <2> QED
    BY <2>1 DEF Plans
<1>5. CASE TokensChange \/ \E d \in Device : ForgetDevice(d)
  BY <1>1, <1>5 DEF TokensChange, ForgetDevice
<1>6. CASE \E w \in Watcher : WatcherStep(w)
  BY <1>1, <1>6 DEF WatcherStep, WatcherDone, Tick, GetApproved, GetNothing, VerifyRefused,
     VerifyFails, Verify, Consume, SaveActiveSession, StartCamFeed, WatcherStops
<1>7. CASE \E r \in Room, d \in Device : Approve(r, d)
  BY <1>1, <1>7 DEF Approve
<1>8. CASE UNCHANGED vars
  BY <1>1, <1>8 DEF vars
<1> QED
  BY <1>3, <1>4, <1>5, <1>6, <1>7, <1>8 DEF Next

\* What a step that draws nothing and leaves the rows and the rounds may change.
LEMMA TypeQuiet ==
    ASSUME TypeInv, todo' \in Plans,
           UNCHANGED <<session, drawn, rows, pc, poll, paired>>,
           loggedIn' \in BOOLEAN, devices' \subseteq devices,
           relayRoom' \in {relayRoom, session.room}, cam' \in {cam, resume.room, NoRoom},
           saved' \in {saved, NoPairing}, resume' \in {resume, saved, NoPairing},
           watch' \in {watch, NoWatcher}, cancelled' \subseteq Watcher,
           stolen' \in BOOLEAN, kept' \in BOOLEAN, drifted' \in BOOLEAN,
           todo' \in Resuming \cup Resumed => resume' # NoPairing
    PROVE  TypeInv'
<1> USE DEF TypeInv
<1>1. NoPairing \in Pairing /\ todo' \in Seq(Steps)
  BY PlansAreSeqs DEF NoPairing, Pairing
<1>2. session.room \in Room \cup {NoRoom} /\ resume.room \in Room \cup {NoRoom}
  BY DEF TypeOK, Pairing
<1>3. TypeOK'
  BY <1>1, <1>2 DEF TypeOK
<1>4. RoomsDrawn' /\ DevicesNamed'
  BY DEF RoomsDrawn, DevicesNamed, Holds
<1>5. PairingsNamed'
  BY DEF PairingsNamed, Named
<1> QED
  BY <1>3, <1>4, <1>5

\* A watcher's step: where it goes, and what it holds there.
LEMMA TypeRound ==
    ASSUME TypeInv, todo' = todo, NEW w \in Watcher, NEW to,
           UNCHANGED <<loggedIn, session, drawn, relayRoom, resume>>,
           pc' = [pc EXCEPT ![w] = to],
           to \in {"off", "wait", "get", "verify", "consume", "save", "cam", "stop"},
           poll' \in [Watcher -> Pairing], \A v \in Watcher \ {w} : poll'[v] = poll[v],
           to \notin {"off", "wait"} => poll'[w].room \in 1..drawn,
           to \in {"verify", "consume", "save", "cam", "stop"} => poll'[w].device \in Device,
           rows' \in RowType,
           \A r \in Room : rows'[r].status = "approved" => rows'[r].device \in Device,
           devices' \subseteq Device, paired' \in [Room -> Device \cup {NoDevice}],
           saved' \in {saved, NoPairing} \/ (saved' \in Pairing /\ Named(saved')),
           cam' \in Room \cup {NoRoom}, watch' \in {watch, NoWatcher},
           cancelled' \subseteq Watcher, stolen' \in BOOLEAN, UNCHANGED <<kept, drifted>>
    PROVE  TypeInv'
<1> USE DEF TypeInv
<1>1. TypeOK'
  <2>1. NoPairing \in Pairing /\ saved' \in Pairing
    BY DEF TypeOK, NoPairing, Pairing
  <2>2. /\ pc' \in [Watcher -> {"off", "wait", "get", "verify", "consume", "save", "cam", "stop"}]
        /\ watch' \in Watcher \cup {NoWatcher}
    BY DEF TypeOK
  <2>3. /\ UNCHANGED <<loggedIn, session, drawn, relayRoom, resume, kept, drifted>>
        /\ todo' = todo
    OBVIOUS
  <2> QED
    BY <2>1, <2>2, <2>3 DEF TypeOK, RowType
<1>2. \A v \in Watcher : pc'[v] = IF v = w THEN to ELSE pc[v]
  BY DEF TypeOK
<1>3. RoomsDrawn' /\ DevicesNamed'
  BY <1>2 DEF RoomsDrawn, DevicesNamed, Holds
<1>4. PairingsNamed'
  <2>1. UNCHANGED resume
    OBVIOUS
  <2> QED
    BY <2>1 DEF PairingsNamed, Named
<1> QED
  BY <1>1, <1>3, <1>4

\* A session that fails to start.
LEMMA TypeFails ==
    ASSUME TypeInv, todo' \in Plans \ (Resuming \cup Resumed), SessionFails
    PROVE  TypeInv'
<1>1. /\ UNCHANGED <<loggedIn, devices, session, drawn, rows, relayRoom, saved, cam, watch,
                     cancelled, pc, poll, paired, stolen, drifted>>
      /\ kept' = TRUE /\ resume' = NoPairing
  BY DEF SessionFails, watchers
<1>2. /\ loggedIn \in BOOLEAN /\ stolen \in BOOLEAN /\ drifted \in BOOLEAN
      /\ cancelled \subseteq Watcher
  BY DEF TypeInv, TypeOK
<1> QED
  BY <1>1, <1>2, TypeQuiet

\* A session with a new room or none.
LEMMA TypeStarts ==
    ASSUME TypeInv, todo' \in Plans \ (Resuming \cup Resumed),
           NEW mode \in {"relay", "direct", "cloud"}, NewSession(mode)
    PROVE  TypeInv'
<1>1. todo' \in Seq(Steps) /\ TypeOK /\ RoomsDrawn /\ DevicesNamed /\ PairingsNamed
  BY PlansAreSeqs DEF TypeInv
<1>2. /\ drawn' = drawn + 1 /\ drawn' \in 0..MaxRooms /\ drawn \in Nat
      /\ session' \in [mode : {"relay", "direct", "cloud"}, room : {NoRoom, drawn + 1}]
      /\ session'.mode # "direct" => session'.room = drawn + 1
      /\ UNCHANGED <<loggedIn, devices, rows, relayRoom, cam, saved, watch, cancelled, pc,
                     poll, resume, paired, stolen, drifted>>
      /\ kept' = FALSE
  BY <1>1, BoundAssumption DEF NewSession, SessionStarts, TypeOK, watchers
<1>3. drawn + 1 \in Room
  BY <1>2, BoundAssumption DEF Room
<1>4. TypeOK'
  BY <1>1, <1>2, <1>3 DEF TypeOK
<1>5. RoomsDrawn' /\ DevicesNamed'
  BY <1>1, <1>2 DEF RoomsDrawn, DevicesNamed, Holds, NoRoom
<1>6. PairingsNamed'
  BY <1>1, <1>2 DEF PairingsNamed, Named
<1> QED
  BY <1>4, <1>5, <1>6 DEF TypeInv

LEMMA TypeStep == TypeInv /\ [Next]_vars => TypeInv'
<1> SUFFICES ASSUME TypeInv, [Next]_vars PROVE TypeInv'
  OBVIOUS
<1>1. todo' \in Plans /\ todo' \in Seq(Steps)
  BY PlansFollowed, PlansAreSeqs
<1>2. todo \in Plans /\ TypeOK /\ RoomsDrawn /\ DevicesNamed /\ PairingsNamed
  BY DEF TypeInv
<1>3. /\ rows \in RowType
      /\ \A r \in Room : rows[r].status = "approved" => rows[r].device \in Device
  BY <1>2 DEF TypeOK, RowType, DevicesNamed
<1>4. CASE UiCall
  <2>1. /\ UNCHANGED <<session, drawn, rows, pc, poll, paired, devices, relayRoom, cam, saved,
                       resume, watch, cancelled, stolen, kept>>
        /\ loggedIn' \in BOOLEAN /\ drifted' \in BOOLEAN
    BY <1>2, <1>4 DEF UiCall, LoginWithDiscord, Logout, RefreshPairing, StartFreshPairing,
       watchers, history, TypeOK
  <2>2. todo' \notin Resuming \cup Resumed
    BY <1>4, CallsStopFirst, PhasesApart
  <2>3. stolen \in BOOLEAN /\ kept \in BOOLEAN /\ cancelled \subseteq Watcher
    BY <1>2 DEF TypeOK
  <2> QED
    BY <1>1, <2>1, <2>2, <2>3, TypeQuiet
<1>5. CASE StopWatch \/ StopCam \/ ClearActiveSession \/ Fresh
  <2>1. /\ UNCHANGED <<session, drawn, rows, pc, poll, paired, loggedIn, devices, relayRoom,
                       resume, stolen, kept, drifted>>
        /\ cam' \in {cam, NoRoom} /\ saved' \in {saved, NoPairing}
        /\ watch' \in {watch, NoWatcher} /\ cancelled' \subseteq Watcher
    BY <1>2, <1>5 DEF StopWatch, CancelWatch, StopCam, ClearActiveSession, Fresh, watchers,
       history, TypeOK
  <2>2. todo' \notin Resuming \cup Resumed
    BY <1>2, <1>5, Phases, PhasesApart
  <2>3. /\ loggedIn \in BOOLEAN /\ stolen \in BOOLEAN
        /\ kept \in BOOLEAN /\ drifted \in BOOLEAN
    BY <1>2 DEF TypeOK
  <2> QED
    BY <1>1, <2>1, <2>2, <2>3, TypeQuiet
<1>6. CASE Choose \/ ResumeDevice \/ StartRelay
  <2>1. /\ UNCHANGED <<session, drawn, rows, pc, poll, paired, loggedIn, devices, saved,
                       watch, cancelled, stolen, kept>>
        /\ cam' \in {cam, resume.room} /\ relayRoom' \in {relayRoom, session.room}
        /\ resume' \in {resume, saved, NoPairing} /\ drifted' \in {drifted, FALSE}
    BY <1>6 DEF Choose, ResumeDevice, StartRelay, watchers, history
  <2>2. todo' \in Resuming \cup Resumed => resume' # NoPairing
    <3>1. todo' \in Resuming \cup Resumed => Choose /\ todo' \in Resuming
      BY <1>2, <1>6, Phases, PhasesApart
    <3>2. Choose /\ todo' \in Resuming => saved.device \in devices /\ resume' = saved
      BY <1>2, PlanBranches DEF Choose
    <3> QED
      BY <1>2, <3>1, <3>2, NameAssumption DEF NoPairing, TypeOK
  <2>3. /\ loggedIn \in BOOLEAN /\ stolen \in BOOLEAN /\ kept \in BOOLEAN
        /\ drifted' \in BOOLEAN /\ cancelled \subseteq Watcher
    BY <1>2, <2>1 DEF TypeOK
  <2> QED
    BY <1>1, <2>1, <2>2, <2>3, TypeQuiet
<1>7. CASE LegacySession \/ CloudSession \/ FreshSession
  <2>1. todo' \notin Resuming \cup Resumed
    BY <1>2, <1>7, Phases, PhasesApart
  <2>2. SessionFails \/ \E mode \in {"relay", "direct", "cloud"} : NewSession(mode)
    BY <1>7, ModeAssumption DEF LegacySession, CloudSession, FreshSession
  <2> QED
    BY <1>1, <2>1, <2>2, TypeFails, TypeStarts
<1>8. CASE ResumeSession
  <2>1. /\ todo \in Resuming /\ resume # NoPairing /\ Named(resume)
    BY <1>2, <1>8, Phases DEF PairingsNamed
  <2>2. resume.room \in Room /\ resume.room \in 1..drawn /\ resume.room <= drawn
    BY <1>2, <2>1, BoundAssumption DEF TypeOK, Named, Room
  <2>3. CASE todo' \in Resumed /\ SessionStarts("cloud", resume.room)
                               /\ UNCHANGED <<drawn, resume>>
    <3>1. /\ session' = [mode |-> "cloud", room |-> resume.room]
          /\ kept' = FALSE
          /\ UNCHANGED <<loggedIn, devices, drawn, rows, relayRoom, cam, saved, watch,
                         cancelled, pc, poll, resume, paired, stolen, drifted>>
      BY <2>3 DEF SessionStarts, watchers
    <3>2. TypeOK'
      BY <1>1, <1>2, <2>2, <3>1 DEF TypeOK
    <3>3. RoomsDrawn' /\ DevicesNamed' /\ PairingsNamed'
      BY <1>2, <2>1, <2>2, <3>1 DEF RoomsDrawn, DevicesNamed, PairingsNamed, Holds, Named
    <3> QED
      BY <1>1, <3>2, <3>3 DEF TypeInv
  <2>4. CASE todo' \in Changing \ Resuming /\ SessionFails
    BY <1>1, <2>4, TypeFails, PhasesApart
  <2> QED
    BY <1>2, <1>8, <2>3, <2>4, Phases
<1>9. CASE CreateRow \/ \E r \in Room, d \in Device : Approve(r, d)
  <2>1. /\ UNCHANGED <<loggedIn, devices, session, drawn, relayRoom, cam, saved, watch,
                       cancelled, pc, poll, resume, paired, stolen, kept, drifted>>
        /\ \/ rows' = rows
           \/ rows' = [rows EXCEPT ![session.room].status = "waiting"]
           \/ \E r \in Room, d \in Device :
                 rows' = [rows EXCEPT ![r] = [status |-> "approved", device |-> d]]
    BY <1>9 DEF CreateRow, Request, UpdatePairingStatus, Approve, watchers, history
  <2>2. /\ rows' \in RowType
        /\ \A r \in Room : rows'[r].status = "approved" => rows'[r].device \in Device
    BY <1>3, <2>1 DEF RowType
  <2>3. todo' \in Resuming \cup Resumed => todo' = todo
    BY <1>2, <1>9, Phases, PhasesApart DEF Approve
  <2>4. TypeOK'
    BY <1>1, <1>2, <2>1, <2>2 DEF TypeOK, RowType
  <2>5. RoomsDrawn' /\ DevicesNamed' /\ PairingsNamed'
    BY <1>2, <2>1, <2>2, <2>3 DEF RoomsDrawn, DevicesNamed, PairingsNamed, Holds, Named
  <2> QED
    BY <1>1, <2>4, <2>5 DEF TypeInv
<1>10. CASE Watch
  <2>1. PICK v \in Watcher : /\ watch' = v
                             /\ cancelled' = cancelled \ {v}
                             /\ pc' = [pc EXCEPT ![v] = "wait"]
    BY <1>10 DEF Watch
  <2>2. /\ UNCHANGED <<loggedIn, devices, session, drawn, rows, relayRoom, cam, saved, poll,
                       resume, paired, kept, drifted>>
        /\ stolen' = FALSE
    BY <1>10 DEF Watch
  <2>3. TypeOK'
    BY <1>1, <1>2, <2>1, <2>2 DEF TypeOK
  <2>4. \A u \in Watcher : pc'[u] = IF u = v THEN "wait" ELSE pc[u]
    BY <1>2, <2>1 DEF TypeOK
  <2>5. RoomsDrawn' /\ DevicesNamed'
    BY <1>2, <2>2, <2>4 DEF RoomsDrawn, DevicesNamed, Holds
  <2>6. todo' \notin Resuming \cup Resumed
    BY <1>2, <1>10, Phases, PhasesApart
  <2> QED
    BY <1>1, <1>2, <2>2, <2>3, <2>5, <2>6 DEF TypeInv, PairingsNamed, Named
<1>11. CASE TokensChange \/ UNCHANGED vars \/ \E d \in Device : ForgetDevice(d)
  <2>1. /\ UNCHANGED <<session, drawn, rows, pc, poll, paired, relayRoom, cam, saved, resume,
                       watch, cancelled, stolen, kept, drifted, todo>>
        /\ loggedIn' \in BOOLEAN /\ devices' \subseteq devices
    BY <1>2, <1>11 DEF TokensChange, ForgetDevice, vars, watchers, history, TypeOK
  <2>2. /\ stolen \in BOOLEAN /\ kept \in BOOLEAN /\ drifted \in BOOLEAN
        /\ cancelled \subseteq Watcher
    BY <1>2 DEF TypeOK
  <2> QED
    BY <1>1, <1>2, <2>1, <2>2, TypeQuiet DEF PairingsNamed
<1>12. CASE Restart
  <2>1. NoPairing \in Pairing
    BY DEF NoPairing, Pairing
  <2>2. TypeOK'
    BY <1>1, <1>2, <1>12, <2>1 DEF Restart, NoSession, TypeOK
  <2>3. drawn \in Nat /\ todo' \notin Resuming \cup Resumed
    BY <1>2, <1>12, CallsStopFirst, PhasesApart, BoundAssumption DEF TypeOK
  <2>4. RoomsDrawn' /\ DevicesNamed' /\ PairingsNamed'
    BY <1>2, <1>12, <2>3
    DEF Restart, RoomsDrawn, DevicesNamed, PairingsNamed, Holds, Named, NoSession, NoRoom
  <2> QED
    BY <1>1, <2>2, <2>4 DEF TypeInv
<1>13. ASSUME NEW w \in Watcher, WatcherStep(w) PROVE TypeInv'
  <2>0. /\ UNCHANGED <<loggedIn, session, drawn, relayRoom, resume, kept, drifted, todo>>
        /\ watch' \in {watch, NoWatcher} /\ cancelled' \subseteq Watcher /\ stolen' \in BOOLEAN
    BY <1>2, <1>13 DEF WatcherStep, WatcherDone, Tick, GetApproved, GetNothing,
       VerifyRefused, VerifyFails, Verify, Consume, SaveActiveSession, StartCamFeed,
       WatcherStops, history, TypeOK
  <2> DEFINE devTyped == devices' \subseteq Device /\ paired' \in [Room -> Device \cup {NoDevice}]
             rowsTyped == /\ rows' \in RowType
                          /\ \A r \in Room : rows'[r].status = "approved"
                                                => rows'[r].device \in Device
             savedTyped == /\ saved' \in {saved, NoPairing}
                                 \/ (saved' \in Pairing /\ Named(saved'))
                           /\ cam' \in Room \cup {NoRoom}
             pollTyped == poll' \in [Watcher -> Pairing]
                             /\ \A v \in Watcher \ {w} : poll'[v] = poll[v]
  <2>1. ASSUME NEW p \in Pairing, poll' = [poll EXCEPT ![w] = p]
        PROVE  pollTyped /\ poll'[w] = p
    BY <1>2, <2>1 DEF TypeOK
  <2>2. NoPairing \in Pairing /\ poll \in [Watcher -> Pairing]
    BY <1>2 DEF NoPairing, Pairing, TypeOK
  <2>3. devices' = devices /\ paired' = paired => devTyped
    BY <1>2 DEF TypeOK
  <2>4. saved' = saved /\ cam' = cam => savedTyped
    BY <1>2 DEF TypeOK
  <2>5. rows' = rows => rowsTyped
    BY <1>3
  <2>6. /\ pc[w] \notin {"off", "wait"} => poll[w].room \in 1..drawn /\ poll[w].room \in Room
        /\ Holds(w) => poll[w].device \in Device
    <3>1. 1..drawn \subseteq Room
      BY <1>2, BoundAssumption DEF TypeOK, Room
    <3> QED
      BY <1>2, <3>1 DEF RoomsDrawn, DevicesNamed
  \* It ends its round or itself.
  <2>7. CASE WatcherDone(w) \/ GetNothing(w) \/ WatcherStops(w)
    <3>1. /\ UNCHANGED <<devices, paired, saved, cam, rows>>
          /\ poll' = poll \/ poll' = [poll EXCEPT ![w] = NoPairing]
          /\ \/ pc' = [pc EXCEPT ![w] = "off"]
             \/ pc' = [pc EXCEPT ![w] = "wait"]
      BY <2>7 DEF WatcherDone, GetNothing, WatcherStops, At, history
    <3>2. pollTyped
      BY <2>1, <2>2, <3>1
    <3> QED
      BY <2>0, <2>3, <2>4, <2>5, <3>1, <3>2, TypeRound
  <2>8. CASE VerifyRefused(w) \/ VerifyFails(w)
    <3>1. /\ UNCHANGED <<paired, saved, cam>>
          /\ poll' = [poll EXCEPT ![w] = NoPairing]
          /\ pc' = [pc EXCEPT ![w] = "wait"] /\ pc[w] = "verify"
          /\ devices' = devices \/ devices' = devices \cup {poll[w].device}
          /\ \/ rows' = rows
             \/ rows' = [rows EXCEPT ![poll[w].room].status = "full"]
      BY <2>8 DEF VerifyRefused, VerifyFails, At, Request, UpdatePairingStatus, history
    <3>2. pollTyped
      BY <2>1, <2>2, <3>1
    <3>3. rowsTyped
      BY <1>3, <3>1 DEF RowType
    <3>4. devTyped
      BY <1>2, <2>6, <3>1 DEF TypeOK, Holds
    <3> QED
      BY <2>0, <2>4, <3>1, <3>2, <3>3, <3>4, TypeRound
  \* It asks about the room of the session, which was drawn, ...
  <2>9. CASE Tick(w)
    <3>1. /\ UNCHANGED <<devices, paired, saved, cam, rows>>
          /\ \/ poll' = poll /\ pc' = [pc EXCEPT ![w] = "off"]
             \/ /\ session.mode = "cloud"
                /\ poll' = [poll EXCEPT ![w] = [room |-> session.room, device |-> NoDevice]]
                /\ pc' = [pc EXCEPT ![w] = "get"]
      BY <2>9 DEF Tick, At, history
    <3>2. [room |-> session.room, device |-> NoDevice] \in Pairing
      BY <1>2 DEF TypeOK, Pairing
    <3>3. pollTyped
      BY <2>1, <2>2, <3>1, <3>2
    <3>4. session.mode = "cloud" => session.room \in 1..drawn
      BY <1>2 DEF RoomsDrawn
    <3>5. CASE pc' = [pc EXCEPT ![w] = "off"]
      BY <2>0, <2>3, <2>4, <2>5, <3>1, <3>3, <3>5, TypeRound
    <3>6. CASE /\ session.mode = "cloud" /\ pc' = [pc EXCEPT ![w] = "get"]
               /\ poll' = [poll EXCEPT ![w] = [room |-> session.room, device |-> NoDevice]]
      <4>1. poll'[w].room \in 1..drawn
        BY <2>1, <3>2, <3>4, <3>6
      <4> QED
        BY <2>0, <2>3, <2>4, <2>5, <3>1, <3>3, <3>6, <4>1, TypeRound
    <3> QED
      BY <3>1, <3>5, <3>6
  \* ... reads the device of its approval, ...
  <2>10. CASE GetApproved(w)
    <3>1. /\ UNCHANGED <<devices, paired, saved, cam, rows>>
          /\ poll' = [poll EXCEPT ![w].device = rows[poll[w].room].device]
          /\ pc' = [pc EXCEPT ![w] = "verify"] /\ pc[w] = "get"
          /\ rows[poll[w].room].status = "approved"
      BY <2>10 DEF GetApproved, At, history
    <3>2. rows[poll[w].room].device \in Device
      BY <1>3, <2>6, <3>1
    <3>3. pollTyped /\ poll'[w].room = poll[w].room /\ poll'[w].device \in Device
      BY <2>2, <3>1, <3>2 DEF Pairing
    <3> QED
      BY <2>0, <2>3, <2>4, <2>5, <2>6, <3>1, <3>3, TypeRound
  \* ... pairs it and keeps both to its end.
  <2>11. CASE Verify(w)
    <3>1. /\ UNCHANGED <<saved, cam, rows, poll>>
          /\ pc' = [pc EXCEPT ![w] = "consume"] /\ pc[w] = "verify"
          /\ devices' = devices \cup {poll[w].device}
          /\ paired' = [paired EXCEPT ![poll[w].room] = poll[w].device]
      BY <2>11 DEF Verify, At
    <3>2. poll[w].device \in Device /\ poll[w].room \in 1..drawn
      BY <2>6, <3>1 DEF Holds
    <3>3. devTyped
      BY <1>2, <3>1, <3>2 DEF TypeOK
    <3> QED
      BY <2>0, <2>2, <2>4, <2>5, <3>1, <3>2, <3>3, TypeRound
  <2>12. CASE Consume(w) \/ SaveActiveSession(w) \/ StartCamFeed(w)
    <3>1. /\ UNCHANGED <<devices, paired, poll>>
          /\ \/ pc' = [pc EXCEPT ![w] = "save"]
             \/ pc' = [pc EXCEPT ![w] = "cam"]
             \/ pc' = [pc EXCEPT ![w] = "stop"]
          /\ pc[w] \in {"consume", "save", "cam"}
          /\ saved' \in {saved, poll[w], NoPairing} /\ cam' \in {cam, poll[w].room}
          /\ \/ rows' = rows
             \/ rows' = [rows EXCEPT ![poll[w].room].status = "consumed"]
      BY <2>12 DEF Consume, SaveActiveSession, StartCamFeed, At, Request,
         UpdatePairingStatus, history
    <3>2. poll[w].device \in Device /\ poll[w].room \in 1..drawn /\ poll[w].room \in Room
      BY <2>6, <3>1 DEF Holds
    <3>3. rowsTyped
      BY <1>3, <3>1 DEF RowType
    <3>4. savedTyped
      BY <1>2, <2>0, <2>2, <3>1, <3>2 DEF TypeOK, Named
    <3> QED
      BY <2>0, <2>2, <2>3, <3>1, <3>2, <3>3, <3>4, TypeRound
  <2> QED
    BY <1>13, <2>7, <2>8, <2>9, <2>10, <2>11, <2>12 DEF WatcherStep
<1> QED
  BY <1>4, <1>5, <1>6, <1>7, <1>8, <1>9, <1>10, <1>11, <1>12, <1>13 DEF Next, UiStep

LEMMA TypeInit == Init => TypeInv
<1> SUFFICES ASSUME Init PROVE TypeInv
  OBVIOUS
<1>1. todo \in Stopping /\ todo \in Plans /\ todo \in Seq(Steps)
  BY InitPlan, PlansAreSeqs DEF Plans
<1>2. TypeOK
  <2>1. NoPairing \in Pairing
    BY DEF NoPairing, Pairing
  <2>2. /\ poll \in [Watcher -> Pairing]
        /\ pc \in [Watcher -> {"off", "wait", "get", "verify", "consume", "save", "cam", "stop"}]
        /\ rows \in RowType /\ paired \in [Room -> Device \cup {NoDevice}]
    BY <2>1 DEF Init, RowType
  <2>3. /\ session \in [mode : {"none", "relay", "direct", "cloud"}, room : Room \cup {NoRoom}]
        /\ drawn \in 0..MaxRooms
    BY BoundAssumption DEF Init, NoSession
  <2> QED
    BY <1>1, <2>1, <2>2, <2>3 DEF Init, TypeOK, RowType
<1>3. RoomsDrawn /\ DevicesNamed /\ PairingsNamed
  BY <1>1, PhasesApart
  DEF Init, RoomsDrawn, DevicesNamed, PairingsNamed, Holds, NoSession, NoRoom
<1> QED
  BY <1>1, <1>2, <1>3 DEF TypeInv

\* Every variable of the model keeps its type: a call follows its plan, a
\* watcher that asks about a room asks about one that was drawn, and a pairing
\* that is saved names a device (app.go:52-320).
THEOREM TypeCorrect == Spec => []TypeOK
<1>1. TypeInv => TypeOK
  BY DEF TypeInv
<1> QED
  BY TypeInit, TypeStep, <1>1, PTL DEF Spec

------------------------------------------------------------------------------
\* One watcher.

Live(w) == pc[w] # "off" /\ w \notin cancelled

\* A watcher that runs uncancelled is the one stopWatch will cancel, and once
\* stopWatch has passed there is none until the call starts one.
WatchInv ==
    /\ OneWatcher
    /\ watch \notin cancelled
    /\ todo \in Changing \cup Resumed \cup Starting => watch = NoWatcher

LEMMA WatchInit == Init => WatchInv
<1> SUFFICES ASSUME Init PROVE WatchInv
  OBVIOUS
<1> QED
  BY InitPlan, PhasesApart DEF Init, WatchInv, OneWatcher

LEMMA WatchStep == TypeInv /\ WatchInv /\ [Next]_vars => WatchInv'
<1> SUFFICES ASSUME TypeInv, WatchInv, [Next]_vars PROVE WatchInv'
  OBVIOUS
<1> USE DEF TypeInv, WatchInv
<1>1. CASE UiCall
  <2>1. UNCHANGED watchers
    BY <1>1 DEF UiCall, LoginWithDiscord, Logout, RefreshPairing, StartFreshPairing
  <2> QED
    BY <1>1, <2>1, CallsStopFirst, PhasesApart DEF watchers, OneWatcher
<1>2. CASE StopWatch
  BY <1>2, NameAssumption DEF StopWatch, CancelWatch, OneWatcher, TypeOK
<1>3. CASE StopCam \/ ClearActiveSession \/ Choose \/ LegacySession
  <2>1. UNCHANGED watchers
    BY <1>3 DEF StopCam, ClearActiveSession, Choose, LegacySession, NewSession,
                SessionStarts, SessionFails
  <2>2. todo' \in Changing \cup Resumed \cup Starting => todo \in Changing
    BY <1>3, Phases, PhasesApart
  <2> QED
    BY <2>1, <2>2 DEF watchers, OneWatcher
<1>4. CASE ResumeSession \/ ResumeDevice \/ CloudSession \/ FreshSession
  <2>1. UNCHANGED watchers
    BY <1>4 DEF ResumeSession, ResumeDevice, CloudSession, FreshSession, NewSession,
                SessionStarts, SessionFails
  <2>2. todo \in Changing \cup Resumed
    BY <1>4, Phases, PhasesApart
  <2> QED
    BY <2>1, <2>2 DEF watchers, OneWatcher
<1>5. CASE CreateRow \/ Fresh \/ StartRelay
  <2>1. UNCHANGED watchers
    BY <1>5 DEF CreateRow, Fresh, StartRelay
  <2>2. todo' \in Changing \cup Resumed \cup Starting => todo \in Changing \cup Starting
    BY <1>5, Phases, PhasesApart
  <2> QED
    BY <2>1, <2>2 DEF watchers, OneWatcher
<1>6. CASE Watch
  <2>1. todo \in Starting /\ todo' \in Idle
    BY <1>6, Phases
  <2>2. todo' \notin Changing \cup Resumed \cup Starting
    BY <2>1, PhasesApart
  <2>3. \A v \in Watcher : ~Live(v)
    BY <2>1, NameAssumption DEF Live, OneWatcher
  <2>4. PICK w \in Watcher : /\ watch' = w
                             /\ cancelled' = cancelled \ {w}
                             /\ pc' = [pc EXCEPT ![w] = "wait"]
    BY <1>6 DEF Watch
  <2> QED
    BY <2>2, <2>3, <2>4 DEF Live, OneWatcher, TypeOK
<1>7. CASE TokensChange \/ \E d \in Device : ForgetDevice(d)
  BY <1>7 DEF TokensChange, ForgetDevice, watchers, OneWatcher
<1>8. CASE Restart
  BY <1>8, CallsStopFirst, PhasesApart DEF Restart, OneWatcher
<1>9. ASSUME NEW w \in Watcher, WatcherStep(w) PROVE WatchInv'
  <2>1. CASE WatcherStops(w)
    BY <2>1, NameAssumption DEF WatcherStops, At, OneWatcher, TypeOK
  <2>2. CASE ~WatcherStops(w)
    <3>1. /\ UNCHANGED <<watch, cancelled, todo>>
          /\ pc[w] # "off" /\ \A v \in Watcher : v # w => pc'[v] = pc[v]
      BY <1>9, <2>2 DEF WatcherStep, WatcherDone, Tick, GetApproved, GetNothing,
         VerifyRefused, VerifyFails, Verify, Consume, SaveActiveSession, StartCamFeed, At,
         TypeOK
    <3> QED
      BY <3>1 DEF OneWatcher
  <2> QED
    BY <2>1, <2>2
<1>10. CASE \E r \in Room, d \in Device : Approve(r, d)
  BY <1>10 DEF Approve, watchers, OneWatcher
<1>11. CASE UNCHANGED vars
  BY <1>11 DEF vars, watchers, OneWatcher
<1> QED
  BY <1>1, <1>2, <1>3, <1>4, <1>5, <1>6, <1>7, <1>8, <1>9, <1>10, <1>11 DEF Next, UiStep

\* At most one watcher runs uncancelled, and the next stopWatch cancels it:
\* calls that replace the session, and a watcher that ends late, leave no
\* watcher behind that nobody can stop (app.go:263-320).
THEOREM WatchersReplaced == Spec => []OneWatcher
<1>1. Init => TypeInv /\ WatchInv
  BY TypeInit, WatchInit
<1>2. TypeInv /\ WatchInv /\ [Next]_vars => (TypeInv /\ WatchInv)'
  BY TypeStep, WatchStep
<1>3. TypeInv /\ WatchInv => OneWatcher
  BY DEF WatchInv
<1> QED
  BY <1>1, <1>2, <1>3, PTL DEF Spec

------------------------------------------------------------------------------
\* Approvals.

Beyond == \A r \in Room : r > drawn => paired[r] = NoDevice
IsPaired(p) == p.device # NoDevice /\ paired[p.room] = p.device
NobodyHolds(r) == \A v \in Watcher : Holds(v) => poll[v].room # r

\* An approval in the hands of a watcher, who may be cancelled by now, has
\* paired its room if VerifyPairing has returned and has paired nothing before.
\* No other watcher holds an approval of that room.
HoldInv ==
    /\ \A w \in Watcher : pc[w] = "verify" => paired[poll[w].room] = NoDevice
    /\ \A w \in Watcher : pc[w] \in {"consume", "save", "cam", "stop"} => IsPaired(poll[w])
    /\ \A v, w \in Watcher : Holds(v) /\ Holds(w) /\ poll[v].room = poll[w].room => v = w

\* A watcher that is not cancelled watches the session on screen, which has not
\* paired anybody; only it may hold an approval of its room.
OwnSession(w) ==
    /\ session.mode = "cloud"
    /\ pc[w] # "wait" => poll[w].room = session.room
    /\ pc[w] \in {"wait", "get", "verify"} => paired[session.room] = NoDevice
    /\ \A v \in Watcher \ {w} : Holds(v) => poll[v].room # session.room
LiveInv == \A w \in Watcher : Live(w) => OwnSession(w)

\* So will the session whose watcher is about to start.
StartInv ==
    todo \in Starting =>
        /\ session.mode = "cloud"
        /\ paired[session.room] = NoDevice
        /\ NobodyHolds(session.room)

\* What is saved, resumed or polled was paired.
SavedInv ==
    /\ saved # NoPairing => IsPaired(saved)
    /\ resume # NoPairing => IsPaired(resume)
    /\ cam # NoRoom => paired[cam] # NoDevice
    /\ todo \in Resumed => session = [mode |-> "cloud", room |-> resume.room]

PairInv == Beyond /\ HoldInv /\ LiveInv /\ StartInv /\ SavedInv

LEMMA PairInit == Init => PairInv
<1> SUFFICES ASSUME Init PROVE PairInv
  OBVIOUS
<1>1. todo \in Stopping
  BY InitPlan
<1>2. todo \notin Starting \cup Resumed
  BY <1>1, PhasesApart
<1> QED
  BY <1>2 DEF Init, PairInv, Beyond, HoldInv, Holds, LiveInv, Live, StartInv, SavedInv

\* The invariant outlives a step that draws no room, pairs and saves nothing and
\* leaves the session and the watchers.
LEMMA PairQuiet ==
    ASSUME PairInv,
           UNCHANGED <<session, drawn, pc, poll, paired>>,
           cancelled \subseteq cancelled',
           saved' \in {saved, NoPairing}, resume' \in {resume, saved, NoPairing},
           cam' # NoRoom => cam' = cam,
           todo' \in Starting => todo \in Starting,
           todo' \in Resumed => todo \in Resumed /\ resume' = resume
    PROVE  PairInv'
<1> USE DEF PairInv
<1>1. Beyond' /\ HoldInv'
  BY DEF Beyond, HoldInv, IsPaired, Holds
<1>2. LiveInv'
  BY DEF LiveInv, Live, OwnSession, Holds
<1>3. StartInv'
  BY DEF StartInv, NobodyHolds, Holds
<1>4. SavedInv'
  BY DEF SavedInv, IsPaired
<1> QED
  BY <1>1, <1>2, <1>3, <1>4

LEMMA PairStep == TypeInv /\ WatchInv /\ PairInv /\ [Next]_vars => PairInv'
<1> SUFFICES ASSUME TypeInv, WatchInv, PairInv, [Next]_vars PROVE PairInv'
  OBVIOUS
<1>0. todo \in Plans /\ TypeOK /\ RoomsDrawn /\ DevicesNamed /\ PairingsNamed
  BY DEF TypeInv
<1> USE DEF PairInv
<1>1. CASE UiCall
  <2>1. todo' \notin Starting \cup Resumed
    BY <1>1, CallsStopFirst, PhasesApart
  <2>2. UNCHANGED <<session, drawn, pc, poll, paired, cancelled, saved, resume, cam>>
    BY <1>1 DEF UiCall, LoginWithDiscord, Logout, RefreshPairing, StartFreshPairing,
                watchers, history
  <2> QED
    BY <2>1, <2>2, PairQuiet
<1>2. CASE StopWatch \/ StopCam \/ ClearActiveSession \/ Choose \/ Fresh
  <2>1. todo' \notin Resumed /\ (todo' \in Starting => todo \in Starting)
    BY <1>0, <1>2, Phases, PhasesApart
  <2>2. /\ UNCHANGED <<session, drawn, pc, poll, paired>>
        /\ cancelled \subseteq cancelled'
        /\ saved' \in {saved, NoPairing} /\ resume' \in {resume, saved}
        /\ cam' # NoRoom => cam' = cam
    BY <1>2 DEF StopWatch, CancelWatch, StopCam, ClearActiveSession, Choose, Fresh,
                watchers, history
  <2> QED
    BY <2>1, <2>2, PairQuiet
<1>3. CASE CreateRow \/ StartRelay
  <2>1. todo' \notin Resumed /\ (todo' \in Starting => todo \in Starting)
    BY <1>0, <1>3, Phases, PhasesApart
  <2>2. UNCHANGED <<session, drawn, pc, poll, paired, cancelled, saved, resume, cam>>
    BY <1>3 DEF CreateRow, StartRelay, watchers, history
  <2> QED
    BY <2>1, <2>2, PairQuiet
<1>4. CASE \/ TokensChange \/ UNCHANGED vars
           \/ \E d \in Device : ForgetDevice(d)
           \/ \E r \in Room, d \in Device : Approve(r, d)
  <2>1. UNCHANGED <<session, drawn, pc, poll, paired, cancelled, saved, resume, cam, todo>>
    BY <1>4 DEF TokensChange, ForgetDevice, Approve, vars, watchers, history
  <2> QED
    BY <2>1, PairQuiet
\* The session changes only when nobody watches.
<1>5. ASSUME NEW mode \in {"relay", "direct", "cloud"}, NewSession(mode),
             todo \in Changing, todo' \notin Resumed, todo' \in Starting => mode = "cloud"
      PROVE  PairInv'
  <2>2. /\ drawn' = drawn + 1 /\ drawn \in Nat /\ drawn + 1 \in Room
        /\ session'.room \in {NoRoom, drawn + 1}
        /\ mode = "cloud" => session' = [mode |-> "cloud", room |-> drawn + 1]
        /\ UNCHANGED <<watch, cancelled, pc, poll, paired, saved, cam, resume>>
    BY <1>0, <1>5, BoundAssumption DEF NewSession, SessionStarts, TypeOK, Room, watchers
  <2>3. \A v \in Watcher : ~Live(v)' /\ (Holds(v)' <=> Holds(v))
    BY <1>5, <2>2, <1>0, NameAssumption DEF WatchInv, OneWatcher, Live, Holds
  <2>4. Beyond' /\ HoldInv' /\ LiveInv'
    BY <2>2, <2>3, <1>0 DEF Beyond, HoldInv, LiveInv, IsPaired, Holds, Room, TypeOK
  <2>5. \A v \in Watcher : Holds(v) => poll[v].room \in 1..drawn
    BY <1>0 DEF RoomsDrawn, Holds
  <2>6. StartInv'
    BY <1>5, <2>2, <2>3, <2>5 DEF StartInv, NobodyHolds, Beyond
  <2>7. SavedInv'
    BY <1>5, <2>2 DEF SavedInv, IsPaired
  <2> QED
    BY <2>4, <2>6, <2>7
<1>11. ASSUME SessionFails, todo' \notin Starting \cup Resumed PROVE PairInv'
  <2>1. /\ UNCHANGED <<session, drawn, pc, poll, paired, cancelled, saved, cam>>
        /\ resume' = NoPairing
    BY <1>11 DEF SessionFails, watchers
  <2> QED
    BY <1>11, <2>1, PairQuiet
<1>12. CASE LegacySession
  <2>1. todo \in Changing /\ todo' \notin Starting \cup Resumed
    BY <1>0, <1>12, Phases, PhasesApart
  <2>2. SessionFails \/ \E mode \in {"relay", "direct", "cloud"} : NewSession(mode)
    BY <1>12, ModeAssumption DEF LegacySession
  <2> QED
    BY <1>5, <1>11, <2>1, <2>2
<1>13. CASE CloudSession \/ FreshSession
  <2>1. /\ todo \in Changing /\ todo' \notin Resumed
        /\ \/ NewSession("cloud")
           \/ SessionFails /\ todo' \notin Starting
    BY <1>0, <1>13, Phases, PhasesApart
  <2> QED
    BY <1>5, <1>11, <2>1
<1>6. CASE ResumeSession
  <2>1. CASE todo' \in Resumed /\ SessionStarts("cloud", resume.room)
                               /\ UNCHANGED <<drawn, resume>>
    <3>1. todo \in Resuming /\ todo' \notin Starting
      BY <1>0, <1>6, <2>1, Phases, PhasesApart
    <3>2. /\ session' = [mode |-> "cloud", room |-> resume.room]
          /\ UNCHANGED <<drawn, watch, cancelled, pc, poll, paired, saved, cam, resume>>
      BY <2>1 DEF SessionStarts, watchers
    <3>3. \A v \in Watcher : ~Live(v)'
      BY <3>1, <3>2, <1>0, NameAssumption, PhasesApart DEF WatchInv, OneWatcher, Live
    <3> QED
      BY <3>1, <3>2, <3>3
      DEF Beyond, HoldInv, LiveInv, StartInv, SavedInv, IsPaired, Holds
  <2>2. CASE todo' \in Changing \ Resuming /\ SessionFails
    BY <1>11, <2>2, PhasesApart
  <2> QED
    BY <1>0, <1>6, <2>1, <2>2, Phases
<1>7. CASE ResumeDevice
  <2>1. todo \in Resumed /\ todo' \notin Resumed \cup Starting
    BY <1>0, <1>7, Phases, PhasesApart
  <2>2. /\ cam' \in {cam, resume.room} /\ resume' = NoPairing
        /\ UNCHANGED <<session, drawn, cancelled, pc, poll, paired, saved>>
    BY <1>7 DEF ResumeDevice, watchers, history
  <2>3. paired[resume.room] # NoDevice
    BY <2>1, <1>0 DEF SavedInv, PairingsNamed, IsPaired
  <2> QED
    BY <2>1, <2>2, <2>3
    DEF Beyond, HoldInv, LiveInv, Live, OwnSession, StartInv, SavedInv, IsPaired, Holds
<1>8. CASE Watch
  <2>1. todo \in Starting /\ todo' \notin Resumed \cup Starting
    BY <1>0, <1>8, Phases, PhasesApart
  <2>2. PICK w \in Watcher : pc[w] = "off" /\ cancelled' = cancelled \ {w}
                             /\ pc' = [pc EXCEPT ![w] = "wait"]
    BY <1>8 DEF Watch
  <2>3. UNCHANGED <<session, drawn, poll, paired, saved, cam, resume>>
    BY <1>8 DEF Watch
  <2>4. \A v \in Watcher : /\ pc'[v] = IF v = w THEN "wait" ELSE pc[v]
                           /\ Holds(v)' <=> Holds(v)
                           /\ Live(v)' => v = w
    BY <2>1, <2>2, <1>0, NameAssumption DEF TypeOK, WatchInv, OneWatcher, Live, Holds
  <2>5. HoldInv'
    BY <2>2, <2>3, <2>4 DEF HoldInv, IsPaired
  <2>6. LiveInv'
    BY <2>1, <2>3, <2>4 DEF LiveInv, OwnSession, StartInv, NobodyHolds
  <2> QED
    BY <2>1, <2>3, <2>5, <2>6 DEF Beyond, StartInv, SavedInv, IsPaired
<1>9. CASE Restart
  <2>1. todo' \notin Starting \cup Resumed
    BY <1>9, CallsStopFirst, PhasesApart
  <2> QED
    BY <2>1, <1>9
    DEF Restart, Beyond, HoldInv, Holds, LiveInv, Live, StartInv, SavedInv, IsPaired
\* A watcher takes its round.
<1>10. ASSUME NEW w \in Watcher, WatcherStep(w) PROVE PairInv'
  <2>0. \A v \in Watcher : v # w => /\ pc'[v] = pc[v] /\ poll'[v] = poll[v]
                                    /\ Holds(v)' <=> Holds(v)
    BY <1>0, <1>10 DEF WatcherStep, WatcherDone, Tick, GetApproved, GetNothing,
       VerifyRefused, VerifyFails, Verify, Consume, SaveActiveSession, StartCamFeed,
       WatcherStops, At, TypeOK, Holds
  \* It starts a round, or it ends one without having paired.
  <2>1. CASE WatcherDone(w) \/ Tick(w)
    <3>1. /\ UNCHANGED <<session, drawn, cancelled, paired, saved, cam, resume, todo>>
          /\ pc[w] = "wait"
          /\ \/ pc'[w] = "off" /\ ~Holds(w)'
             \/ pc'[w] = "get" /\ ~Holds(w)' /\ poll'[w].room = session.room
      BY <1>0, <2>1 DEF WatcherDone, Tick, At, TypeOK, history, Holds
    <3>2. HoldInv'
      BY <2>0, <3>1 DEF HoldInv, IsPaired, Holds
    <3>3. LiveInv'
      BY <2>0, <3>1 DEF LiveInv, Live, OwnSession
    <3> QED
      BY <2>0, <3>1, <3>2, <3>3 DEF Beyond, StartInv, NobodyHolds, SavedInv, IsPaired
  <2>2. CASE GetNothing(w) \/ VerifyRefused(w) \/ VerifyFails(w)
    <3>1. /\ UNCHANGED <<session, drawn, cancelled, paired, saved, cam, resume, todo>>
          /\ pc[w] \in {"get", "verify"} /\ pc'[w] = "wait" /\ ~Holds(w)'
      BY <1>0, <2>2 DEF GetNothing, VerifyRefused, VerifyFails, At, TypeOK, history, Holds
    <3>2. HoldInv'
      BY <2>0, <3>1 DEF HoldInv, IsPaired, Holds
    <3>3. LiveInv'
      BY <2>0, <3>1 DEF LiveInv, Live, OwnSession
    <3> QED
      BY <2>0, <3>1, <3>2, <3>3 DEF Beyond, StartInv, NobodyHolds, SavedInv, IsPaired
  \* It reads an approval: the watcher is not cancelled, so its session is the
  \* one on screen and has paired nobody.
  <2>3. CASE GetApproved(w)
    <3>1. /\ UNCHANGED <<session, drawn, watch, cancelled, paired, saved, cam, resume, todo>>
          /\ pc[w] = "get" /\ pc'[w] = "verify" /\ Live(w)
          /\ poll'[w].room = poll[w].room
      BY <1>0, <2>3 DEF GetApproved, At, TypeOK, Pairing, history, Live
    <3>2. OwnSession(w) /\ poll'[w].room = session.room /\ paired[session.room] = NoDevice
      BY <3>1 DEF LiveInv, OwnSession
    <3>3. todo \notin Starting /\ \A v \in Watcher : Live(v)' => v = w
      BY <2>0, <3>1, <1>0, NameAssumption DEF WatchInv, OneWatcher, Live
    <3>4. HoldInv'
      BY <2>0, <3>1, <3>2 DEF HoldInv, IsPaired, Holds, OwnSession
    <3>5. LiveInv'
      BY <2>0, <3>1, <3>2, <3>3 DEF LiveInv, OwnSession
    <3> QED
      BY <3>1, <3>3, <3>4, <3>5 DEF Beyond, StartInv, SavedInv, IsPaired
  \* It pairs: nobody else holds an approval of this room, and no session that
  \* waits has it.
  <2>4. CASE Verify(w)
    <3> DEFINE r == poll[w].room
    <3>1. /\ UNCHANGED <<session, drawn, cancelled, poll, saved, cam, resume, todo>>
          /\ pc[w] = "verify" /\ pc'[w] = "consume" /\ Holds(w) /\ Holds(w)'
          /\ r \in Room /\ r <= drawn /\ paired[r] = NoDevice
          /\ poll[w].device \in Device
          /\ paired' = [paired EXCEPT ![r] = poll[w].device]
      <4>1. /\ UNCHANGED <<session, drawn, cancelled, poll, saved, cam, resume, todo>>
            /\ pc[w] = "verify" /\ pc'[w] = "consume"
            /\ paired' = [paired EXCEPT ![r] = poll[w].device]
        BY <1>0, <2>4 DEF Verify, At, TypeOK
      <4>2. Holds(w) /\ Holds(w)' /\ paired[r] = NoDevice
        BY <4>1 DEF Holds, HoldInv
      <4>3. r \in 1..drawn /\ drawn \in 0..MaxRooms /\ poll[w].device \in Device
        BY <1>0, <4>1, <4>2 DEF TypeOK, RoomsDrawn, DevicesNamed
      <4>4. r \in Room /\ r <= drawn
        BY <4>3, BoundAssumption DEF Room
      <4> QED
        BY <4>1, <4>2, <4>3, <4>4
    <3>2. /\ paired'[r] = poll[w].device /\ paired'[r] # NoDevice
          /\ \A q \in Room : q # r => paired'[q] = paired[q]
      BY <3>1, <1>0, NameAssumption DEF TypeOK
    <3>3. /\ session.mode = "cloud" => session.room \in Room
          /\ saved # NoPairing => saved.room \in Room
          /\ resume # NoPairing => resume.room \in Room
          /\ cam # NoRoom => cam \in Room
          /\ \A v \in Watcher : Holds(v) => poll[v].room \in Room
      <4>1. 1..drawn \subseteq Room /\ cam \in Room \cup {NoRoom}
        BY <1>0, BoundAssumption DEF TypeOK, Room
      <4> QED
        BY <1>0, <4>1 DEF RoomsDrawn, PairingsNamed, Named, Holds
    <3> HIDE DEF r
    <3>4. \A v \in Watcher : v # w /\ Holds(v) => poll[v].room # r
      BY <3>1 DEF HoldInv, r
    <3>5. Beyond'
      <4>1. r \in Int /\ drawn \in Int
        BY <3>1, <1>0, BoundAssumption DEF TypeOK, Room
      <4> QED
        BY <3>1, <3>2, <4>1 DEF Beyond, Room
    <3>6. HoldInv'
      BY <2>0, <3>1, <3>2, <3>4, <3>3 DEF HoldInv, IsPaired, Holds, r
    <3>7. LiveInv'
      BY <2>0, <3>1, <3>2, <3>3 DEF LiveInv, OwnSession, Live, r
    <3>8. StartInv'
      BY <2>0, <3>1, <3>2, <3>3 DEF StartInv, NobodyHolds, r
    <3>9. SavedInv'
      BY <3>1, <3>2, <3>3 DEF SavedInv, IsPaired
    <3> QED
      BY <3>5, <3>6, <3>7, <3>8, <3>9
  \* It has paired: it keeps what it holds until it ends.
  <2>5. CASE Consume(w) \/ SaveActiveSession(w) \/ StartCamFeed(w)
    <3>1. /\ UNCHANGED <<session, drawn, cancelled, poll, paired, resume, todo>>
          /\ pc[w] \in {"consume", "save", "cam"} /\ pc'[w] \in {"save", "cam", "stop"}
          /\ Holds(w) /\ Holds(w)'
          /\ saved' \in {saved, poll[w], NoPairing} /\ cam' \in {cam, poll[w].room}
      BY <1>0, <2>5 DEF Consume, SaveActiveSession, StartCamFeed, At, TypeOK, Holds, history
    <3>2. HoldInv'
      BY <2>0, <3>1 DEF HoldInv, IsPaired
    <3>3. LiveInv'
      BY <2>0, <3>1 DEF LiveInv, OwnSession, Live
    <3>4. StartInv'
      BY <2>0, <3>1 DEF StartInv, NobodyHolds
    <3>5. SavedInv'
      BY <3>1 DEF SavedInv, HoldInv, IsPaired
    <3> QED
      BY <3>1, <3>2, <3>3, <3>4, <3>5 DEF Beyond
  <2>6. CASE WatcherStops(w)
    <3>1. /\ UNCHANGED <<session, drawn, paired, saved, cam, resume, todo>>
          /\ cancelled \subseteq cancelled' /\ pc'[w] = "off" /\ ~Holds(w)'
      BY <1>0, <2>6 DEF WatcherStops, At, TypeOK, Holds
    <3>2. HoldInv'
      BY <2>0, <3>1 DEF HoldInv, IsPaired, Holds
    <3>3. LiveInv'
      BY <2>0, <3>1 DEF LiveInv, OwnSession, Live
    <3> QED
      BY <2>0, <3>1, <3>2, <3>3 DEF Beyond, StartInv, NobodyHolds, SavedInv, IsPaired
  <2> QED
    BY <1>10, <2>1, <2>2, <2>3, <2>4, <2>5, <2>6 DEF WatcherStep
<1> QED
  BY <1>1, <1>2, <1>3, <1>4, <1>6, <1>7, <1>8, <1>9, <1>10, <1>12, <1>13 DEF Next, UiStep

LEMMA Paired == Spec => [](TypeInv /\ WatchInv /\ PairInv)
<1>1. Init => TypeInv /\ WatchInv /\ PairInv
  BY TypeInit, WatchInit, PairInit
<1>2. TypeInv /\ WatchInv /\ PairInv /\ [Next]_vars => (TypeInv /\ WatchInv /\ PairInv)'
  BY TypeStep, WatchStep, PairStep
<1> QED
  BY <1>1, <1>2, PTL DEF Spec

\* The pairing saved for the next start and the room whose camera is polled are
\* those of an approval that paired that device: a watcher that ends after its
\* session was replaced still saves its own room with its own device
\* (app.go:292-305), and a resumed pairing is one that was saved.
THEOREM SavedPairings == Spec => []SavedWasPaired
<1>1. TypeInv /\ WatchInv /\ PairInv => SavedWasPaired
  BY DEF PairInv, SavedInv, IsPaired, SavedWasPaired
<1> QED
  BY Paired, <1>1, PTL

\* No approval pairs a device twice, whether or not the row was consumed: only
\* a watcher that is not cancelled reads an approval, of a session that has
\* paired nobody, and a session that has paired is never watched again
\* (app.go:275-311).
THEOREM OnePairing == Spec => ApprovalUsedOnce
<1>1. TypeInv /\ WatchInv /\ PairInv /\ [Next]_vars =>
        [\A w \in Watcher :
            pc[w] = "verify" /\ pc'[w] = "consume" => paired[poll[w].room] = NoDevice]_vars
  BY DEF PairInv, HoldInv
<1> QED
  BY Paired, <1>1, PTL DEF Spec, ApprovalUsedOnce

------------------------------------------------------------------------------
\* The life of a row: the refinement of Approval.

\* A room has no row before it is drawn and before its call creates it, and the
\* row stays as a watcher read it until that watcher has used it up.
RowInv ==
    /\ \A r \in Room : r > drawn => rows[r].status = "none"
    /\ todo \in Creating => rows[session.room].status = "none"
    /\ \A w \in Watcher :
          pc[w] \in {"verify", "consume"} =>
              /\ rows[poll[w].room].status = "approved"
              /\ rows[poll[w].room].device = poll[w].device

ApprovalInv == TypeInv /\ WatchInv /\ PairInv /\ RowInv

LEMMA RowInit == Init => RowInv /\ Rows!Init
<1> SUFFICES ASSUME Init PROVE RowInv /\ Rows!Init
  OBVIOUS
<1>1. todo \notin Creating
  BY InitPlan, PhasesApart, RowOnce DEF Plans
<1> QED
  BY <1>1 DEF Init, RowInv, Rows!Init

\* A step that leaves the rows alone, starts no row and reads none.
LEMMA RowQuiet ==
    ASSUME ApprovalInv, UNCHANGED <<rows, paired>>, drawn' >= drawn, drawn' \in Nat,
           todo' \in Creating => todo' = todo /\ session' = session,
           \A w \in Watcher :
              pc'[w] \in {"verify", "consume"} =>
                  pc[w] \in {"verify", "consume"} /\ poll'[w] = poll[w]
    PROVE  RowInv' /\ UNCHANGED Rows!vars
<1>1. drawn \in Nat /\ \A r \in Room : r \in Nat
  BY BoundAssumption DEF ApprovalInv, TypeInv, TypeOK, Room
<1> QED
  BY <1>1 DEF ApprovalInv, RowInv, Rows!vars

\* A step that moves one row, which no other watcher holds.
LEMMA RowMoves ==
    ASSUME ApprovalInv, NEW r \in Room, UNCHANGED <<session, drawn, poll>>,
           \A q \in Room \ {r} : rows'[q] = rows[q],
           rows[r].status # "none", todo' = todo,
           \A w \in Watcher :
              pc'[w] \in {"verify", "consume"} =>
                  pc[w] \in {"verify", "consume"} /\ poll[w].room # r
    PROVE  RowInv'
<1>1. \A w \in Watcher : pc[w] \in {"verify", "consume"} => poll[w].room \in Room
  <2>1. 1..drawn \subseteq Room
    BY BoundAssumption DEF ApprovalInv, TypeInv, TypeOK, Room
  <2> QED
    BY <2>1 DEF ApprovalInv, TypeInv, RoomsDrawn
<1>2. todo \in Creating => session.room \in Room /\ session.room # r
  <2>1. todo \in Creating => session.mode = "cloud"
    BY RowOnce DEF ApprovalInv, TypeInv, PairInv, StartInv
  <2>2. 1..drawn \subseteq Room
    BY BoundAssumption DEF ApprovalInv, TypeInv, TypeOK, Room
  <2> QED
    BY <2>1, <2>2 DEF ApprovalInv, TypeInv, RoomsDrawn, RowInv
<1> QED
  BY <1>1, <1>2 DEF ApprovalInv, RowInv

\* What moves a row, and how.
LEMMA StatusMoves ==
    ASSUME TypeInv, NEW r \in Room, NEW st, UpdatePairingStatus(r, st)
    PROVE  /\ [q \in Room |-> rows[q].status]' =
                [[q \in Room |-> rows[q].status] EXCEPT ![r] = st]
           /\ [q \in Room |-> rows[q].device]' = [q \in Room |-> rows[q].device]
           /\ \A q \in Room \ {r} : rows'[q] = rows[q]
           /\ rows'[r].status = st /\ rows'[r].device = rows[r].device
BY DEF TypeInv, TypeOK, UpdatePairingStatus

LEMMA RowStep == ApprovalInv /\ [Next]_vars => RowInv' /\ [Rows!Next]_(Rows!vars)
<1> SUFFICES ASSUME ApprovalInv, [Next]_vars PROVE RowInv' /\ [Rows!Next]_(Rows!vars)
  OBVIOUS
<1>0. /\ todo \in Plans /\ TypeInv /\ TypeOK /\ RoomsDrawn /\ DevicesNamed
      /\ PairInv /\ RowInv
      /\ drawn \in Nat /\ drawn <= MaxRooms /\ MaxRooms \in Nat
  BY BoundAssumption DEF ApprovalInv, TypeInv, TypeOK
<1>00. 1..drawn \subseteq Room /\ \A r \in Room : r \in Nat
  BY <1>0 DEF Room
\* Calls.
<1>1. CASE UiCall
  <2>1. todo' \notin Creating
    BY <1>0, <1>1, CallsStopFirst, PhasesApart, RowOnce
  <2>2. UNCHANGED <<rows, paired, drawn, pc, poll>>
    BY <1>1 DEF UiCall, LoginWithDiscord, Logout, RefreshPairing, StartFreshPairing,
                watchers, history
  <2> QED
    BY <1>0, <2>1, <2>2, RowQuiet
<1>2. CASE \/ StopWatch \/ StopCam \/ ClearActiveSession \/ Choose \/ Fresh
           \/ ResumeSession \/ ResumeDevice \/ StartRelay
  <2>1. todo' \notin Creating
    <3>1. CASE StopWatch \/ StartRelay
      BY <1>0, <3>1, RowOnce
    <3>2. CASE StopCam \/ ClearActiveSession \/ Choose \/ Fresh
      BY <1>0, <3>2, Phases, PhasesApart, RowOnce
    <3>3. CASE ResumeSession \/ ResumeDevice
      BY <1>0, <3>3, Phases, PhasesApart, RowOnce
    <3> QED
      BY <1>2, <3>1, <3>2, <3>3
  <2>2. UNCHANGED <<rows, paired, drawn, pc, poll>>
    BY <1>2 DEF StopWatch, CancelWatch, StopCam, ClearActiveSession, Choose, Fresh,
                ResumeSession, SessionStarts, SessionFails, ResumeDevice, StartRelay,
                watchers, history
  <2> QED
    BY <1>0, <2>1, <2>2, RowQuiet
\* A new room has no row yet.
<1>a. ASSUME NewSession("cloud") PROVE RowInv' /\ [Rows!Next]_(Rows!vars)
  <2>1. /\ UNCHANGED <<rows, paired, pc, poll>>
        /\ drawn' = drawn + 1 /\ session'.room = drawn + 1 /\ drawn + 1 \in Room
    BY <1>0, <1>a DEF NewSession, SessionStarts, watchers, Room
  <2>2. RowInv'
    BY <1>0, <1>00, <2>1 DEF RowInv
  <2> QED
    BY <2>1, <2>2 DEF Rows!vars
<1>b. ASSUME SessionFails \/ (\E mode \in LegacyModes : NewSession(mode)),
             todo' \notin Creating
      PROVE  RowInv' /\ [Rows!Next]_(Rows!vars)
  <2>1. UNCHANGED <<rows, paired, pc, poll>> /\ drawn' \in {drawn, drawn + 1}
    BY <1>b DEF SessionFails, NewSession, SessionStarts, watchers
  <2> QED
    BY <1>0, <1>b, <2>1, RowQuiet
<1>3. CASE LegacySession
  <2>1. todo' \notin Creating
    BY <1>0, <1>3, Phases, PhasesApart, RowOnce
  <2> QED
    BY <1>3, <1>b, <2>1 DEF LegacySession
<1>4. CASE CloudSession \/ FreshSession
  <2>1. NewSession("cloud") \/ (SessionFails /\ todo' \notin Creating)
    BY <1>0, <1>4, Phases, PhasesApart, RowOnce
  <2> QED
    BY <1>a, <1>b, <2>1
<1>5. CASE Watch
  <2>1. todo' \notin Creating
    BY <1>0, <1>5, RowOnce
  <2>2. /\ UNCHANGED <<rows, paired, drawn, poll>>
        /\ \E v \in Watcher : pc' = [pc EXCEPT ![v] = "wait"]
    BY <1>5 DEF Watch
  <2>3. \A w \in Watcher : pc'[w] \in {"verify", "consume"} => pc'[w] = pc[w]
    BY <1>0, <2>2 DEF TypeOK
  <2> QED
    BY <1>0, <2>1, <2>2, <2>3, RowQuiet
<1>6. CASE CreateRow
  <2>1. todo \in Creating /\ todo' \notin Creating /\ todo \in Starting
    BY <1>0, <1>6, RowOnce
  <2>2. session.room \in Room /\ rows[session.room].status = "none"
    BY <1>0, <1>00, <2>1 DEF RowInv, PairInv, StartInv, RoomsDrawn
  <2>3. UNCHANGED <<paired, drawn, pc, poll, session>>
    BY <1>6 DEF CreateRow, watchers, history
  <2>4. CASE rows' = rows
    BY <1>0, <2>1, <2>3, <2>4, RowQuiet
  <2>5. CASE UpdatePairingStatus(session.room, "waiting")
    <3>1. \E q \in Room : Rows!Open(q)
      BY <1>0, <2>2, <2>3, <2>5, StatusMoves DEF Rows!Open, Rows!Move
    <3>2. /\ \A q \in Room \ {session.room} : rows'[q] = rows[q]
          /\ \A w \in Watcher : pc[w] \in {"verify", "consume"} =>
                poll[w].room \in Room \ {session.room}
          /\ session.room <= drawn
      BY <1>0, <1>00, <2>2, <2>5, StatusMoves DEF RowInv, RoomsDrawn
    <3>3. RowInv'
      BY <1>0, <1>00, <2>1, <2>2, <2>3, <3>2 DEF RowInv
    <3> QED
      BY <3>1, <3>3 DEF Rows!Next
  <2> QED
    BY <1>6, <2>4, <2>5 DEF CreateRow, Request
\* The environment.
<1>7. CASE TokensChange \/ UNCHANGED vars \/ \E d \in Device : ForgetDevice(d)
  <2>1. UNCHANGED <<rows, paired, drawn, pc, poll, todo, session>>
    BY <1>7 DEF TokensChange, ForgetDevice, vars, watchers, history
  <2> QED
    BY <1>0, <2>1, RowQuiet
<1>8. CASE Restart
  <2>1. todo' \notin Creating
    BY <1>0, <1>8, CallsStopFirst, PhasesApart, RowOnce
  <2>2. /\ UNCHANGED <<rows, paired, drawn>>
        /\ \A w \in Watcher : pc'[w] = "off"
    BY <1>8 DEF Restart
  <2> QED
    BY <1>0, <2>1, <2>2, RowQuiet
<1>9. ASSUME NEW r \in Room, NEW d \in Device, Approve(r, d)
      PROVE  RowInv' /\ [Rows!Next]_(Rows!vars)
  <2>1. /\ rows[r].status = "waiting"
        /\ rows' = [rows EXCEPT ![r] = [status |-> "approved", device |-> d]]
        /\ UNCHANGED <<paired, drawn, pc, poll, todo, session>>
    BY <1>9 DEF Approve, watchers, history
  <2>2. /\ [q \in Room |-> rows[q].status]' =
              [[q \in Room |-> rows[q].status] EXCEPT ![r] = "approved"]
        /\ [q \in Room |-> rows[q].device]' =
              [[q \in Room |-> rows[q].device] EXCEPT ![r] = d]
        /\ \A q \in Room \ {r} : rows'[q] = rows[q]
    BY <1>0, <2>1 DEF TypeOK
  <2>3. Rows!Approve(r, d)
    BY <2>1, <2>2 DEF Rows!Approve, Rows!Move
  <2>4. RowInv'
    BY <1>0, <2>1, <2>2, RowMoves DEF RowInv
  <2> QED
    BY <2>3, <2>4 DEF Rows!Next
\* A watcher takes its round.
<1>10. ASSUME NEW w \in Watcher, WatcherStep(w)
       PROVE  RowInv' /\ [Rows!Next]_(Rows!vars)
  <2>0. /\ UNCHANGED <<session, drawn, todo>>
        /\ \A v \in Watcher \ {w} : pc'[v] = pc[v] /\ poll'[v] = poll[v]
    BY <1>0, <1>10 DEF WatcherStep, WatcherDone, Tick, GetApproved, GetNothing,
       VerifyRefused, VerifyFails, Verify, Consume, SaveActiveSession, StartCamFeed,
       WatcherStops, At, TypeOK, history
  <2>1. CASE \/ WatcherDone(w) \/ Tick(w) \/ GetNothing(w) \/ VerifyFails(w)
             \/ SaveActiveSession(w) \/ StartCamFeed(w) \/ WatcherStops(w)
    <3>1. UNCHANGED <<rows, paired>> /\ pc'[w] \notin {"verify", "consume"}
      BY <1>0, <2>1 DEF WatcherDone, Tick, GetNothing, VerifyFails, SaveActiveSession,
         StartCamFeed, WatcherStops, At, TypeOK, history
    <3> QED
      BY <1>0, <2>0, <3>1, RowQuiet
  <2>2. CASE GetApproved(w)
    <3>1. /\ UNCHANGED <<rows, paired>> /\ rows[poll[w].room].status = "approved"
          /\ poll'[w].room = poll[w].room
          /\ poll'[w].device = rows[poll[w].room].device
      BY <1>0, <2>2 DEF GetApproved, TypeOK, Pairing, history
    <3>2. RowInv'
      BY <1>0, <2>0, <3>1 DEF RowInv
    <3> QED
      BY <3>1, <3>2 DEF Rows!vars
  <2> DEFINE r == poll[w].room
  <2>3. CASE VerifyRefused(w) \/ Verify(w) \/ Consume(w)
    <3>1. /\ pc[w] \in {"verify", "consume"} /\ Holds(w) /\ r \in Room
          /\ rows[r].status = "approved" /\ rows[r].device = poll[w].device
          /\ poll[w].device \in Device /\ poll[w].device # NoDevice
      BY <1>0, <1>00, <2>3, NameAssumption DEF VerifyRefused, Verify, Consume, At, Holds, RowInv,
         RoomsDrawn, DevicesNamed
    <3>2. \A v \in Watcher \ {w} : pc[v] \in {"verify", "consume"} => poll[v].room # r
      BY <1>0, <3>1 DEF PairInv, HoldInv, Holds
    <3>3. /\ pc[w] = "verify" => paired[r] = NoDevice
          /\ pc[w] = "consume" => paired[r] = poll[w].device
      BY <1>0 DEF PairInv, HoldInv, IsPaired
    <3> HIDE DEF r
    <3>4. CASE Verify(w)
      <4>1. /\ UNCHANGED <<rows, poll>> /\ pc[w] = "verify"
            /\ paired' = [paired EXCEPT ![r] = poll[w].device]
        BY <3>4 DEF Verify, At, r
      <4>2. Rows!Pair(r)
        BY <3>1, <3>3, <4>1 DEF Rows!Pair, Rows!Unused
      <4>3. RowInv'
        BY <1>0, <2>0, <3>1, <4>1 DEF RowInv, r
      <4> QED
        BY <3>1, <4>2, <4>3 DEF Rows!Next
    <3>5. CASE VerifyRefused(w) /\ rows' # rows
      <4>1. /\ UpdatePairingStatus(r, "full") /\ pc[w] = "verify" /\ paired' = paired
            /\ pc'[w] = "wait"
        BY <1>0, <3>5 DEF VerifyRefused, Request, At, TypeOK, history, r
      <4>2. \E q \in Room : Rows!Refuse(q)
        BY <1>0, <3>1, <3>3, <4>1, StatusMoves DEF Rows!Refuse, Rows!Unused, Rows!Move
      <4>3. RowInv'
        <5>1. \A q \in Room \ {r} : rows'[q] = rows[q]
          BY <1>0, <3>1, <4>1, StatusMoves
        <5>2. \A v \in Watcher : pc'[v] \in {"verify", "consume"} =>
                v # w /\ pc[v] \in {"verify", "consume"} /\ poll'[v] = poll[v]
                /\ poll[v].room \in Room \ {r}
          BY <1>0, <1>00, <2>0, <3>2, <4>1 DEF RoomsDrawn
        <5>3. todo \in Creating => session.room \in Room
          BY <1>0, <1>00, RowOnce DEF PairInv, StartInv, RoomsDrawn
        <5> QED
          BY <1>0, <2>0, <3>1, <5>1, <5>2, <5>3 DEF RowInv
      <4> QED
        BY <3>1, <4>2, <4>3 DEF Rows!Next
    <3>6. CASE Consume(w) /\ rows' # rows
      <4>1. /\ UpdatePairingStatus(r, "consumed") /\ pc[w] = "consume"
            /\ UNCHANGED <<paired, poll>> /\ pc'[w] = "save"
        BY <1>0, <3>6 DEF Consume, Request, At, TypeOK, history, r
      <4>2. \E q \in Room : Rows!Consume(q)
        BY <1>0, <3>1, <3>3, <4>1, StatusMoves DEF Rows!Consume, Rows!Move
      <4>3. RowInv'
        BY <1>0, <2>0, <3>1, <3>2, <4>1, RowMoves, StatusMoves
      <4> QED
        BY <3>1, <4>2, <4>3 DEF Rows!Next
    <3>7. CASE (VerifyRefused(w) \/ Consume(w)) /\ rows' = rows
      <4>1. paired' = paired /\ pc'[w] \notin {"verify", "consume"}
        BY <1>0, <3>7 DEF VerifyRefused, Consume, At, TypeOK, history
      <4> QED
        BY <1>0, <2>0, <3>7, <4>1, RowQuiet
    <3> QED
      BY <2>3, <3>4, <3>5, <3>6, <3>7
  <2> QED
    BY <1>10, <2>1, <2>2, <2>3 DEF WatcherStep
<1> QED
  BY <1>1, <1>2, <1>3, <1>4, <1>5, <1>6, <1>7, <1>8, <1>9, <1>10 DEF Next, UiStep

\* The watchers, the login, the requests that fail and the restarts move a
\* pairing row as Approval does: whatever they do, a row is used up by the one
\* pairing it was approved for or refused without one (app.go:263-313,
\* cloud.go:411-463).
THEOREM ApprovalRefinement == Spec => ImplementsApproval
<1>1. Init => ApprovalInv /\ Rows!Init
  BY TypeInit, WatchInit, PairInit, RowInit DEF ApprovalInv
<1>2. ApprovalInv /\ [Next]_vars => ApprovalInv' /\ [Rows!Next]_(Rows!vars)
  BY TypeStep, WatchStep, PairStep, RowStep DEF ApprovalInv
<1> QED
  BY <1>1, <1>2, PTL DEF Spec, ImplementsApproval, Rows!Spec

\* What the life of a row keeps true of it.
LEMMA TruthKept ==
    ASSUME ApprovalInv, Rows!Truthful, [Rows!Next]_(Rows!vars)
    PROVE  Rows!Truthful'
<1>0. /\ \A r \in Room : rows[r].status = "approved" => rows[r].device # NoDevice
      /\ paired \in [Room -> Device \cup {NoDevice}]
  BY NameAssumption DEF ApprovalInv, TypeInv, TypeOK, DevicesNamed
<1>1. ASSUME NEW r \in Room, Rows!Open(r) PROVE Rows!Truthful'
  BY <1>1 DEF Rows!Truthful, Rows!Open, Rows!Move
<1>2. ASSUME NEW r \in Room, Rows!Pair(r) PROVE Rows!Truthful'
  BY <1>0, <1>2 DEF Rows!Truthful, Rows!Pair, Rows!Unused
<1>3. ASSUME NEW r \in Room, Rows!Consume(r) PROVE Rows!Truthful'
  <2>1. paired[r] # NoDevice /\ paired' = paired
    BY <1>0, <1>3 DEF Rows!Consume, Rows!Move
  <2> QED
    BY <1>3, <2>1 DEF Rows!Truthful, Rows!Consume, Rows!Move
<1>4. ASSUME NEW r \in Room, Rows!Refuse(r) PROVE Rows!Truthful'
  BY <1>4 DEF Rows!Truthful, Rows!Refuse, Rows!Unused, Rows!Move
<1>5. ASSUME NEW r \in Room, NEW d \in Device, Rows!Approve(r, d) PROVE Rows!Truthful'
  BY <1>5 DEF Rows!Truthful, Rows!Approve, Rows!Move
<1>6. CASE UNCHANGED Rows!vars
  BY <1>6 DEF Rows!Truthful, Rows!vars
<1> QED
  BY <1>1, <1>2, <1>3, <1>4, <1>5, <1>6 DEF Rows!Next

\* So the status column tells the truth: a room that paired a device names it in
\* its row, which never says full, and a consumed row did pair
\* (cloud.go:446-463).
THEOREM RowsTellTheTruth == Spec => []Rows!Truthful
<1>1. Init => ApprovalInv /\ Rows!Truthful
  BY TypeInit, WatchInit, PairInit, RowInit DEF ApprovalInv, Init, Rows!Truthful
<1>2. ApprovalInv /\ Rows!Truthful /\ [Next]_vars => (ApprovalInv /\ Rows!Truthful)'
  BY TypeStep, WatchStep, PairStep, RowStep, TruthKept DEF ApprovalInv
<1> QED
  BY <1>1, <1>2, PTL DEF Spec

------------------------------------------------------------------------------
\* The session that waits is watched.

\* Once a call has nothing more to do with the session, a session that has
\* paired nobody is watched, unless a watcher that ended stopped the next one or
\* the session that was to replace it failed to start.
WatchedInv ==
    todo \in Idle /\ ~stolen /\ ~kept /\ session.mode = "cloud" /\ paired[session.room] = NoDevice
        => Watched

LEMMA WatchedStep ==
    TypeInv /\ WatchInv /\ PairInv /\ WatchedInv /\ [Next]_vars => WatchedInv'
<1> SUFFICES ASSUME TypeInv, WatchInv, PairInv, WatchedInv, [Next]_vars PROVE WatchedInv'
  OBVIOUS
<1>0. todo \in Plans /\ TypeOK /\ RoomsDrawn /\ DevicesNamed /\ PairingsNamed
  BY DEF TypeInv
<1>1. CASE UiCall \/ Restart
  BY <1>1, CallsStopFirst, PhasesApart DEF WatchedInv
<1>2. CASE \/ StopWatch \/ StopCam \/ ClearActiveSession \/ Choose \/ ResumeSession
           \/ CreateRow \/ Fresh
  <2>1. CASE StopWatch \/ StopCam \/ ClearActiveSession \/ Choose
    BY <1>0, <2>1, Phases, PhasesApart DEF WatchedInv
  <2>2. CASE ResumeSession \/ CreateRow \/ Fresh
    BY <1>0, <2>2, Phases, PhasesApart DEF WatchedInv
  <2> QED
    BY <1>2, <2>1, <2>2
<1>3. CASE LegacySession
  <2>1. kept' = TRUE \/ session'.mode \in LegacyModes
    BY <1>3 DEF LegacySession, NewSession, SessionStarts, SessionFails
  <2> QED
    BY <2>1, ModeAssumption DEF WatchedInv
\* The new session is not watched yet, or the call ends with the old one.
<1>9. CASE CloudSession \/ FreshSession
  <2>1. todo' \in Starting \/ SessionFails
    BY <1>0, <1>9, Phases
  <2> QED
    BY <2>1, PhasesApart DEF WatchedInv, SessionFails
<1>4. CASE ResumeDevice
  <2>1. todo \in Resumed
    BY <1>0, <1>4, Phases
  <2>2. paired[session.room] # NoDevice
    BY <1>0, <2>1 DEF PairInv, SavedInv, PairingsNamed, IsPaired
  <2> QED
    BY <1>4, <2>2 DEF ResumeDevice, WatchedInv, history
<1>5. CASE Watch
  BY <1>0, <1>5, NameAssumption DEF Watch, WatchedInv, Watched, TypeOK
<1>6. CASE StartRelay
  <2>1. todo' \in Idle => todo \in Idle
    BY <1>0, <1>6, Phases, PhasesApart
  <2> QED
    BY <1>6, <2>1 DEF StartRelay, WatchedInv, Watched, watchers
<1>7. CASE \/ TokensChange \/ UNCHANGED vars
           \/ \E d \in Device : ForgetDevice(d)
           \/ \E r \in Room, d \in Device : Approve(r, d)
  BY <1>7 DEF TokensChange, ForgetDevice, Approve, vars, watchers, history, WatchedInv, Watched
<1>8. ASSUME NEW w \in Watcher, WatcherStep(w) PROVE WatchedInv'
  <2>1. CASE WatcherDone(w) \/ Tick(w)
    <3>1. /\ UNCHANGED <<todo, stolen, kept, session, paired, watch>>
          /\ \A v \in Watcher : v # w => pc'[v] = pc[v]
          /\ pc'[w] = "off" => w \in cancelled \/ session.mode # "cloud"
      BY <1>0, <2>1 DEF WatcherDone, Tick, At, TypeOK, history
    <3> QED
      BY <1>0, <3>1 DEF WatchInv, WatchedInv, Watched, TypeOK
  <2>2. CASE Verify(w)
    <3>1. /\ UNCHANGED <<todo, stolen, kept, session, watch>>
          /\ \A v \in Watcher : pc[v] # "off" => pc'[v] # "off"
          /\ paired' = [paired EXCEPT ![poll[w].room] = poll[w].device]
          /\ Holds(w)
      BY <1>0, <2>2 DEF Verify, At, TypeOK, Holds
    <3>2. poll[w].device # NoDevice
      BY <1>0, <3>1, NameAssumption DEF DevicesNamed
    <3>3. session.mode = "cloud" /\ paired'[session.room] = NoDevice
            => paired[session.room] = NoDevice
      <4>1. session.mode = "cloud" => session.room \in Room
        BY <1>0, BoundAssumption DEF TypeOK, RoomsDrawn, Room
      <4> QED
        BY <1>0, <3>1, <3>2, <4>1 DEF TypeOK
    <3> QED
      BY <1>0, <3>1, <3>3 DEF WatchedInv, Watched, TypeOK
  <2>3. CASE GetApproved(w) \/ GetNothing(w) \/ VerifyRefused(w) \/ VerifyFails(w)
    BY <1>0, <2>3 DEF GetApproved, GetNothing, VerifyRefused, VerifyFails, At, TypeOK,
       history, WatchedInv, Watched
  <2>4. CASE Consume(w) \/ SaveActiveSession(w) \/ StartCamFeed(w)
    BY <1>0, <2>4 DEF Consume, SaveActiveSession, StartCamFeed, At, TypeOK, history,
       WatchedInv, Watched
  \* The watcher that ends is the one to be cancelled, so its session is the one
  \* on screen, and has paired.
  <2>5. CASE WatcherStops(w)
    <3>1. /\ UNCHANGED <<todo, kept, session, paired>>
          /\ ~stolen' => ~stolen /\ watch \in {w, NoWatcher}
          /\ pc[w] = "stop"
      BY <1>0, <2>5 DEF WatcherStops, At, TypeOK
    <3>2. watch = w => paired[session.room] # NoDevice
      BY <3>1 DEF WatchInv, PairInv, LiveInv, Live, OwnSession, HoldInv, IsPaired
    <3> QED
      BY <3>1, <3>2 DEF WatchedInv, Watched
  <2> QED
    BY <1>8, <2>1, <2>2, <2>3, <2>4, <2>5 DEF WatcherStep
<1> QED
  BY <1>1, <1>2, <1>3, <1>4, <1>5, <1>6, <1>7, <1>8, <1>9 DEF Next, UiStep

\* Between calls, a session that waits for an approval is watched, with two
\* exceptions: a cancelled watcher that had already read its approval ended with
\* the stopWatch that hit its successor (app.go:263-311), or a later call stopped
\* the watcher and the session it wanted failed to start (app.go:169-172,
\* 232-236, 244-247).  Requests, saves, removals and restarts that fail, and any
\* order of calls, approvals and watchers, lose the watcher in no third way.
THEOREM WaitingIsWatched == Spec => []WatchedUnlessStolen
<1>1. Init => WatchedInv
  BY InitPlan, PhasesApart DEF WatchedInv
<1>2. WatchedInv => WatchedUnlessStolen
  BY PhasesApart DEF WatchedInv, WatchedUnlessStolen, WatchWhileWaiting, Waiting
<1> QED
  BY Paired, <1>1, WatchedStep, <1>2, PTL DEF Spec

------------------------------------------------------------------------------
\* The relay room.

\* The plans that have startRelay ahead, ...
WithRelay ==
    {<<"startRelay">>,
     <<"stopWatch", "stopCam", "choose", "startRelay">>,
     <<"clearSaved", "stopWatch", "stopCam", "choose", "startRelay">>,
     <<"stopWatch", "clearSaved", "stopWatch", "stopCam", "choose", "startRelay">>,
     <<"stopCam", "choose", "startRelay">>, <<"choose", "startRelay">>,
     <<"resumeSession", "startRelay">>, <<"resumeDevice", "startRelay">>,
     <<"clearSaved", "legacySession", "startRelay">>, <<"legacySession", "startRelay">>,
     <<"clearSaved", "cloudSession", "startRelay">>, <<"cloudSession", "startRelay">>,
     <<"createRow", "stopWatch", "watch", "startRelay">>,
     <<"stopWatch", "watch", "startRelay">>, <<"watch", "startRelay">>,
     <<"createRow", "startRelay", "stopWatch", "watch">>,
     <<"startRelay", "stopWatch", "watch">>}

\* ... and those that leave the session as it is until they have.
InRoom ==
    {<<>>, <<"clearSaved", "stopWatch", "fresh">>, <<"stopWatch", "fresh">>, <<"fresh">>,
     <<"freshSession">>, <<"stopWatch", "watch">>, <<"watch">>}

\* Only LoginWithDiscord follows any other plan.
RelayInv == drifted \/ todo \in WithRelay \/ (todo \in InRoom /\ relayRoom = session.room)

LEMMA RelayAhead ==
    ASSUME todo \in WithRelay, UiStep, ~StartRelay
    PROVE  todo' \in WithRelay
<1>0. todo \in Plans
  BY DEF WithRelay, Plans, Idle, Stopping, Changing, Resuming, Resumed, Starting
<1>1. Head(todo) # "startRelay" => Tail(todo) \in WithRelay
  BY TailOf DEF WithRelay
<1>2. /\ Head(todo) \notin {"fresh", "freshSession"}
      /\ Head(todo) \in {"choose", "resumeSession", "resumeDevice", "cloudSession"}
            => Tail(todo) = <<"startRelay">>
  BY TailOf DEF WithRelay
<1>3. ASSUME NEW name, Do(name, <<>>), name # "startRelay" PROVE todo' \in WithRelay
  BY <1>0, <1>1, <1>3, DoNothingMore
<1>4. CASE StopWatch \/ StopCam \/ ClearActiveSession \/ LegacySession \/ CreateRow \/ Watch
  <2>1. PICK name \in {"stopWatch", "stopCam", "clearSaved", "legacySession", "createRow",
                       "watch"} : Do(name, <<>>)
    BY <1>4 DEF StopWatch, StopCam, ClearActiveSession, LegacySession, CreateRow, Watch
  <2> QED
    BY <1>3, <2>1
<1>5. CASE Choose
  <2>1. \/ Do("choose", <<"clearSaved", "legacySession">>)
        \/ Do("choose", <<"resumeSession">>)
        \/ Do("choose", <<"cloudSession">>)
    BY <1>5 DEF Choose
  <2>2. \/ todo' = <<"clearSaved", "legacySession", "startRelay">>
        \/ todo' = <<"resumeSession", "startRelay">>
        \/ todo' = <<"cloudSession", "startRelay">>
    <3>1. Tail(todo) = <<"startRelay">>
      BY <1>2, <2>1 DEF Do
    <3>2. \/ todo' = <<"clearSaved", "legacySession">> \o <<"startRelay">>
          \/ todo' = <<"resumeSession">> \o <<"startRelay">>
          \/ todo' = <<"cloudSession">> \o <<"startRelay">>
      BY <2>1, <3>1, Zenon DEF Do
    <3> QED
      BY <3>2, Snoc1, Snoc2
  <2> QED
    BY <2>2 DEF WithRelay
<1>6. CASE ResumeSession
  <2>1. \/ Do("resumeSession", <<"resumeDevice">>)
        \/ Do("resumeSession", <<"clearSaved", "cloudSession">>)
    BY <1>6 DEF ResumeSession
  <2>2. \/ todo' = <<"resumeDevice", "startRelay">>
        \/ todo' = <<"clearSaved", "cloudSession", "startRelay">>
    <3>1. Tail(todo) = <<"startRelay">>
      BY <1>2, <2>1 DEF Do
    <3>2. \/ todo' = <<"resumeDevice">> \o <<"startRelay">>
          \/ todo' = <<"clearSaved", "cloudSession">> \o <<"startRelay">>
      BY <2>1, <3>1, Zenon DEF Do
    <3> QED
      BY <3>2, Snoc1, Snoc2
  <2> QED
    BY <2>2 DEF WithRelay
<1>7. CASE ResumeDevice
  <2>1. CASE Do("resumeDevice", <<"clearSaved", "cloudSession">>)
    <3>1. todo' = <<"clearSaved", "cloudSession", "startRelay">>
      BY <1>2, <2>1, Snoc2 DEF Do
    <3> QED
      BY <3>1 DEF WithRelay
  <2> QED
    BY <1>3, <1>7, <2>1 DEF ResumeDevice
<1>8. CASE CloudSession
  <2>1. CASE Do("cloudSession", <<"createRow", "stopWatch", "watch">>)
    <3>1. todo' = <<"createRow", "stopWatch", "watch", "startRelay">>
      BY <1>2, <2>1, Snoc3 DEF Do
    <3> QED
      BY <3>1 DEF WithRelay
  <2> QED
    BY <1>3, <1>8, <2>1 DEF CloudSession
<1>9. CASE Fresh \/ FreshSession
  BY <1>2, <1>9 DEF Fresh, FreshSession, Do
<1> QED
  BY <1>4, <1>5, <1>6, <1>7, <1>8, <1>9 DEF UiStep

LEMMA RelayKept ==
    ASSUME todo \in InRoom, UiStep, ~StartRelay
    PROVE  \/ todo' \in WithRelay
           \/ todo' \in InRoom /\ UNCHANGED <<session, relayRoom>>
<1>0. todo \in Plans
  BY DEF InRoom, Plans, Idle, Stopping, Changing, Resuming, Resumed, Starting
<1>1. todo # <<>> => /\ Head(todo) \in {"clearSaved", "stopWatch", "fresh", "freshSession",
                                       "watch"}
                     /\ Head(todo) # "fresh" => Tail(todo) \in InRoom
                     /\ Head(todo) \in {"fresh", "freshSession"} => Tail(todo) = <<>>
  BY TailOf DEF InRoom
<1>2. StopWatch \/ ClearActiveSession \/ Fresh \/ FreshSession \/ Watch
  BY <1>1 DEF UiStep, StopCam, Choose, LegacySession, ResumeSession, ResumeDevice,
              CloudSession, CreateRow, Do
<1>3. CASE StopWatch \/ ClearActiveSession \/ Watch
  <2>1. PICK name \in {"stopWatch", "clearSaved", "watch"} : Do(name, <<>>)
    BY <1>3 DEF StopWatch, ClearActiveSession, Watch
  <2>2. todo' \in InRoom
    BY <1>0, <1>1, <2>1, DoNothingMore
  <2> QED
    BY <1>3, <2>2 DEF StopWatch, ClearActiveSession, Watch
<1>4. CASE Fresh
  <2>1. Do("fresh", <<"freshSession">>) \/ Do("fresh", Refresh \o <<"startRelay">>)
    BY <1>4 DEF Fresh
  <2>2. todo' = <<"freshSession">> \/ todo' = <<"stopWatch", "stopCam", "choose", "startRelay">>
    BY <1>1, <2>1, Snoc1, Continued DEF Do
  <2> QED
    BY <1>4, <2>2 DEF WithRelay, InRoom, Fresh
<1>5. CASE FreshSession
  <2>1. CASE Do("freshSession", <<"createRow", "startRelay", "stopWatch", "watch">>)
    <3>1. todo' = <<"createRow", "startRelay", "stopWatch", "watch">>
      BY <1>1, <2>1, Snoc4 DEF Do
    <3> QED
      BY <3>1 DEF WithRelay
  <2>2. CASE Do("freshSession", <<>>) /\ SessionFails
    <3>1. todo # <<>> /\ Head(todo) = "freshSession" /\ todo' = Tail(todo)
      BY <1>0, <2>2, DoNothingMore
    <3>2. todo' \in InRoom
      BY <1>1, <3>1 DEF InRoom
    <3> QED
      BY <2>2, <3>2 DEF SessionFails
  <2> QED
    BY <1>5, <2>1, <2>2 DEF FreshSession
<1> QED
  BY <1>2, <1>3, <1>4, <1>5

LEMMA RelayStep == TypeInv /\ RelayInv /\ [Next]_vars => RelayInv'
<1> SUFFICES ASSUME TypeInv, RelayInv, [Next]_vars PROVE RelayInv'
  OBVIOUS
<1>1. CASE LoginWithDiscord
  BY <1>1 DEF LoginWithDiscord, RelayInv
<1>2. CASE Logout \/ RefreshPairing \/ Restart
  <2>1. \/ todo' = <<"stopWatch", "stopCam", "choose", "startRelay">>
        \/ todo' = <<"stopWatch", "clearSaved", "stopWatch", "stopCam", "choose",
                     "startRelay">>
    BY <1>2, Continued DEF Logout, RefreshPairing, Restart, Call
  <2> QED
    BY <2>1 DEF RelayInv, WithRelay
<1>3. CASE StartFreshPairing
  <2>1. todo = <<>> /\ todo' = <<"clearSaved", "stopWatch", "fresh">>
    BY <1>3 DEF StartFreshPairing, Call
  <2>2. todo \notin WithRelay /\ todo' \in InRoom
    BY <2>1 DEF WithRelay, InRoom
  <2> QED
    BY <1>3, <2>2 DEF StartFreshPairing, RelayInv, history
<1>4. CASE StartRelay
  <2>1. todo' = <<>> \/ todo' = <<"stopWatch", "watch">>
    BY <1>4, Phases DEF TypeInv
  <2>2. todo' \in InRoom
    BY <2>1 DEF InRoom
  <2> QED
    BY <1>4, <2>2 DEF StartRelay, RelayInv
<1>5. CASE UiStep /\ ~StartRelay
  <2>1. UNCHANGED drifted
    BY <1>5 DEF UiStep, StopWatch, StopCam, ClearActiveSession, Choose, LegacySession,
       ResumeSession, ResumeDevice, CloudSession, CreateRow, Watch, Fresh, FreshSession,
       NewSession, SessionStarts, SessionFails, history
  <2> QED
    BY <1>5, <2>1, RelayAhead, RelayKept DEF RelayInv
<1>6. CASE \/ TokensChange \/ UNCHANGED vars
           \/ \E d \in Device : ForgetDevice(d)
           \/ \E r \in Room, d \in Device : Approve(r, d)
  BY <1>6 DEF TokensChange, ForgetDevice, Approve, vars, history, RelayInv
<1>7. ASSUME NEW w \in Watcher, WatcherStep(w) PROVE RelayInv'
  <2>1. UNCHANGED <<todo, session, relayRoom, drifted>>
    BY <1>7 DEF WatcherStep, WatcherDone, Tick, GetApproved, GetNothing, VerifyRefused,
       VerifyFails, Verify, Consume, SaveActiveSession, StartCamFeed, WatcherStops, history
  <2> QED
    BY <2>1 DEF RelayInv
<1> QED
  BY <1>1, <1>2, <1>3, <1>4, <1>5, <1>6, <1>7 DEF Next, UiCall

\* Between calls the relay client is in the room of the QR code, whatever the
\* modes of the sessions, except after LoginWithDiscord, which refreshes and does
\* not call startRelayIfConfigured (app.go:176-177, 420-450).
THEOREM RelayInSession == Spec => []RelayFollowsSession
<1>1. Init => RelayInv
  BY Continued DEF Init, RelayInv, WithRelay
<1>2. RelayInv => RelayFollowsSession
  <2>1. <<>> \notin WithRelay
    BY DEF WithRelay
  <2> QED
    BY <2>1 DEF RelayInv, RelayFollowsSession
<1> QED
  BY TypeInit, TypeStep, <1>1, RelayStep, <1>2, PTL DEF Spec
==============================================================================
