# voiXPe3per in TLA+

voiXPe3per mirrors a phone's screen on a desktop.  The desktop shows a QR code,
the phone scans it, is given a trust secret and streams H264 frames over a
direct WebSocket or through a public relay.  This directory specifies the parts
of it whose correctness depends on order: who is trusted, who is in which room,
which device is active, which tokens the desktop holds, whether the picture comes
back, and what is left of all that after concurrent calls, broken links, lost
answers, restarts and full disks.

## Inventory

| Part | State | Operations | Talks to |
|---|---|---|---|
| Trust store: `desktop/pairing` | device map, pairing session, `trusted-devices.json` | `VerifyPairing`, `VerifyReconnect`, `ConnectDevice`, `MarkDeviceOffline`, `ForgetDevice`, `Start...Session`, `persist`, `load` | called by every goroutine of the desktop |
| Streaming server: `desktop/streaming/server.go` | active device, connection map, keyframe requester, metrics | handshakes, bind and disconnect, `RequestKeyframe`, frames | trust store; the UI through events |
| Relay client: `desktop/streaming/relay_client.go` | connection, bound device, `done` | dial and join loop, read loop, `Shutdown` | relay; streaming server |
| Relay: `relay/src/server.js` | `rooms`, `socket.room` | join, leave, forward, login | desktop and phones |
| Application: `desktop/main/app.go` | relay client, approval watcher, camera feed, `active-session.json` | UI calls, restoring a session, polling approvals | all of the above, cloud |
| Cloud client: `desktop/cloud` | tokens, identity, `session.json`, the result channel of a login | `LoginWithDiscord` and its handlers, `AccessToken`, `refresh`, `Logout`, REST calls | Supabase |
| Frontend: `desktop/frontend` | `latestFrame`, `H264Renderer`, the browser's decoder | the effect that pushes a frame, decoding, drawing | application |
| Android phone: `android` | sockets, `SocketRegistry`, retry counter, encoder | reconnect and retry, start and stop a capture, send frames | relay or desktop |
| Other phones: `ios`, `web/pair` | secret, socket | pair, approve, stream | relay or desktop, Supabase |

What is hard about them:

* The trust store has no transaction.  A pairing is four critical sections, and
  every change is followed by a snapshot and a save in two more, often in the
  background.  Counting, inserting, saving and forgetting interleave.
* The active device is one string, set and cleared by many goroutines on behalf
  of connections that may already be gone.
* Relay clients overlap: one that is shut down may still be dialing, reading or
  holding a device while its successor starts.
* Two mutexes, `Server.mu` and `RelayClient.mu`, are each held while the other
  is taken.
* The relay keeps membership twice and forgets everything when it restarts.
* A refresh token can be used once.  `refresh` reads it in one critical section,
  waits for the network with no lock held, and writes the answer in another:
  a second refresh, a logout or a login may have come in between, and whether
  the server saw the token nobody knows when the answer is lost.
* On the phone two owners open sockets and write to one `SocketRegistry`, from
  threads of OkHttp and of the main looper; one socket may report several errors.
* A decoder needs a keyframe to start, refuses and dies on its own, and
  gets its frames through a React state that keeps only the last one.

## Modules

| Module | What it is |
|---|---|
| `TrustStore` | abstract: a map of trust written behind to a file, by whole snapshots |
| `Pairing` | `pairing.Service` over `FileStore`, one action per critical section, refining `TrustStore` |
| `PairingProofs` | its type invariant and the overshoot bound, proved |
| `PairingTrustProofs` | what the file holds, what a restart keeps, when a secret is handed out, who creates trust, and the refinement of `TrustStore`, proved |
| `RoomBus` | abstract: what a relay promises about rooms and messages |
| `Relay` | `server.js`, one action per handler, refining `RoomBus` |
| `RelayProofs` | its type invariant, the agreement of the two records of membership, the refinement, and from it the silence of those who left, proved |
| `Streaming` | `Server` and `RelayClient` with their locks, and the UI calls that replace the client and ask for keyframes |
| `StreamingProofs` | its type invariant, the live connection map, the owner of the active device and what a stopped client leaves, proved |
| `Approval` | abstract: the life of a pairing row, from opened to consumed or full |
| `App` | the application: UI calls as step sequences, approval watchers, saved pairing, session and relay room; refines `Approval` |
| `AppPlanProofs` | lemmas: the sequences of steps a UI call can be left with, and the phases they fall into |
| `AppProofs` | its type invariant, four safety invariants, one action property and the refinement of `Approval`, proved |
| `CloudAuth` | the tokens of `desktop/cloud`: refreshes, logout, browser logins, `session.json`, and the server that issues pairs of tokens |
| `CloudAuthProofs` | its type invariant and five safety invariants, proved |
| `Phone` | the Android phone: `MainActivity`'s reconnects, the capture service, the registry both write to |
| `Renderer` | the page: `latestFrame`, `StreamStage`'s effect, `H264Renderer`, the decoder |
| `Mirror` | the composition of `Phone` and `Renderer` through the frames, with fairness |
| `MirrorProofs` | type correctness, `KeepsTrying` and `DeltasDoNotQueueUp`, proved for any number of sockets |
| `MC*` | the same modules for TLC, with the symmetry sets |

### Pairing

`devices` and `session` are the service's fields, `disk` is what `Load` would read from
the file at this moment.  A `Caller` is a goroutine inside `VerifyPairing`
(`BeginPairing`, `Admit` or `RefuseLimit`, `Insert`, then the save) or `ForgetDevice`; a
`Saver` is one of the goroutines behind `go persist()`.  `TakeSnapshot`, `Truncate` and
`WriteFile` are `persist()` and `Save`: the snapshot under the service's lock, then the
file under the store's. `os.WriteFile` truncates first, so a kill between the last two
finds no devices.  The other operations are one section each and leave a `Saver` behind.
`Restart` is the end of the process at any time and `NewService` after it, which ignores
an error of `Load`: a file that is there and cannot be read (`LoadResults`) leaves the
memory without trust, and the next save overwrites it.  A secret is the number of the
call that drew it and a token the number of its session: neither is ever drawn twice, as
with the 48 random bytes of the code.  `newest`, `newestAt`, `granted` and `unclean` are
history variables.

`TrustStore` has no goroutine, lock or session: `trust` is the map, `pending` the
snapshots on their way, `file` what a restart loads or fails to load, `told` what
the phones know.
It lets snapshots reach the file in any order and fail, as the code does; it does
not let anything else reach it.  The mapping is `trust <- TrustOf(devices)`,
`told <- granted`, `pending <- Pending` (the snapshots of the goroutines in
`persist`), `file <- disk`.

### Relay

`room` is `socket.room`, `rooms` the map; both are kept because the code keeps
both.  Node runs one handler at a time, so an action is a handler with
everything it sends.  A socket that breaks is `closing` until its close event
is handled: nothing is sent to it, but it is still in its room.  `inbox` is
what was sent and not read.  `RoomBus` has no rooms map, only the room each
socket is in; the mapping is `open <- Open, member <- room`.  An action of
`RoomBus` sends to the sockets that are `open` and share the room, which is
what the code computes from the map.

### Streaming

Each worker (a direct connection or a relay client) has a program counter; an
action is one critical section of `Server.mu` or `RelayClient.mu`.  Two locks
are held across actions, because the code calls out while holding them:
`keyframe` names the client `RequestKeyframe` is writing to while it reads
under `Server.mu`, and `ui` in `{"disconnect", "offline"}` is `Shutdown` holding
the current client's lock while it waits for the server.  A client's name is
used again once it stopped.  After `Shutdown` the UI call starts the next client
(`NextClient`), or none if the new session has no relay URL or no room
(`NoNextClient`).  A handshake that the trust store accepts is an
input; one it refuses changes nothing here.

### App

A UI call is `todo`, the sequence of steps it has still to take: `Refresh` is
`refreshPairingInternal`, and a step that branches (`Choose`, `Fresh`,
`ResumeDevice`, every start of a session) puts the steps of its branch in front.
A session starts (`SessionStarts`) or fails to (`SessionFails`): then the one
before stays, with its QR code, and what follows depends on the caller.
`ResumeSession` goes on to a new session; `CloudSession` and `FreshSession` end
with no row and no watcher, the latter without `startRelay` too; `LegacySession`
goes on.  Clearing and saving the pairing may fail, and a save that fails may leave
a truncated file.  A watcher goes through
one round of `watchCloudApprovals` per tick: read the session, ask for its row,
verify, consume, save, start the camera, stop watching.  Between any two steps
of either the other may run, requests may fail, the tokens may vanish
(`TokensChange`, the refused refresh of `cloud.go`) and the process may end.  The
row of a room is created, approved once (`Approve`, the web page), then consumed
or refused as full.  `stolen`, `kept` and `drifted` are history.  `stolen`: a
cancelled watcher stopped the one that replaced it.  `kept`: a session failed to
start, and the one on screen is older than the call.  `drifted`: the login moved the
session and not the relay client.  The first two are the two ways in which a
session that waits loses its watcher, `WatchedUnlessStolen` says that there is no
third; the last is what `RelayFollowsSession` excuses.

`Approval` keeps of all that the rows and what each room paired: a row is opened,
approved for a device, and then either refused, with nobody paired, or used to
pair that device and, if the request gets through, consumed.

### CloudAuth

A pair of tokens is its number, a grant; `owner` is the account it was issued to
and `user` the one the client keeps with it, from which the identity is hydrated.
The two differ when an answer comes without a user and the tokens have changed
meanwhile: `refresh` then keeps the user that is there (`NameAnswer`), that of
another login or nobody after a logout.  `misnamed` holds such pairs and those
refreshed from them in the same way.  A `Caller` is
a goroutine inside `do` (one request): `FindExpired` is the look in `AccessToken`,
`PostRefresh` the read of the refresh token and the request, `ApplyRefresh` and
`ApplyRefusal` the section after the answer, `LoseRefresh` every return in
between.  Time is not kept: tokens may be found expired at any look.  The server
(`Accept`, `RefuseSpent`, `ServerDown`) is external: an answer 200 carries a new
pair and the profile names the account that signed in; any other status may come
before the token was used or after.  A request that was given
up may still have reached it, which `GiveUp` decides at once: the server is seen
through its answers only.  A `Visit` is a handler goroutine of `/token`; it
holds its own pair while it fetches the profile, whether or not
`LoginWithDiscord` still waits.  `Save` may fail without a word and may leave
the truncated file, and `Restore` may fail to read it.  `orphaned`, `shared`,
`misnamed`, `left` and `excused` are history.  `orphaned`: spent tokens whose
replacement was lost.  `shared`: tokens two callers held at once.  `left`: a logout
reached the disk, and nobody that may has signed in since.  `excused`: who may: the
refreshes, waiting logins and handlers that were under way at the logout
(`UnderWay`), and the logins begun afterwards with their handlers.  A handler
of a login that had been given up is among them only if it was fetching its profile
at the logout, because the code stores its tokens all the same (`auth.go:79`).

### Phone, Renderer and Mirror

In `Phone` a socket belongs to `MainActivity` (`Screen`) or to the capture
service (`Service`) and is `asking` from the dial to the first success.  `registry`
is `SocketRegistry.socket`, `encoder` the socket the running `FrameSender` holds;
either may be `Lost`, a socket that ended and is still referred to.  One action is
one callback, except `onError` of a reconnect, whose read of `reconnectAttempts`
(`ReconnectFails`) and write (`PostRetry`) are two, because callbacks of two
sockets run on two threads.  `serving` is the capture service itself, from the grant
to `stopCapture`, which detaches the registry's socket with or without an encoder.
The relay passes every success on to all sockets
of the room, so that a socket that is up may be answered again.

`Renderer` has one variable per piece of the path: `latest` and `due` (React has
not run the effect), `decoder` with its state, `broken`, `queue`, and `picture`.
`attached` says whether the renderer has the canvas that is in the page: the
canvas is mounted only for a device that can stream or with a frame, and the effect
that attaches it runs when the stage appears and not again.  A stage shown without
one keeps `"none"`, and every frame ends in the first branch of `push`
(`PushNowhere`); a stage whose canvas went with its device (`DeviceChanges`) draws on
one that is `"gone"`.
`missed` says that the decoder has not had every frame since the last keyframe;
a delta it takes after that is `torn`.  `Push` has one disjunct per branch of
`push`; where the code calls `decode`, the decoder may accept or throw.
`prepareDecoder` always finds WebCodecs: the fallback drawing is left out.

`Mirror` sends the frames of a live `encoder` to the page.  The way between, the
relay and the server, is `Relay`'s and `Streaming`'s subject: here a frame arrives
(`SendFrame`) or does not (`LoseFrame`).

## Runs

| Run | Shows | Bounds |
|---|---|---|
| `pairing` | cap overshoot, agreement of memory and file, durability of a granted secret, no trust without pairing, refinement of `TrustStore` | 3 devices, a cap of 1, 2 callers, 1 background save at a time, 3 calls, kills and errors of the disk, reading and writing |
| `pairing_limit` | violation: more than `MaxDevices` devices | as `pairing`, no faults |
| `pairing_reorder` | violation: a paired phone is forgotten over a restart | as `pairing` with a cap of 2, restarts only when no call or save runs |
| `relay` | membership, order of `left` and `data`, refinement of `RoomBus` | 3 sockets, 2 rooms, 2 unread messages each |
| `streaming` | no phantom active device, live connection map, nothing left by a stopped client | 2 devices, 1 connection, 2 relay clients, approvals and keyframe requests |
| `streaming_live` | shutdown completes, clients rejoin | 1 device, 2 relay clients, keyframe requests |
| `streaming_truth` | violation: idle although connected | 1 device, 2 connections |
| `app` | watchers replace one another, approvals pair once, the saved pairing is real, a waiting session is watched, the relay is in its room, refinement of `Approval` | 2 devices, a cap of 1, 2 sessions started, 2 watchers alive at once |
| `app_watch` | violation: a session nobody polls | as `app` |
| `streaming_deadlock` | violation: the client is never replaced | 1 device, 2 relay clients |
| `cloud` | which tokens are left, that they can be refreshed, who is on display, that a logout lasts, that a login's handler can end | 2 accounts, 2 callers, 1 login with 1 handler at a time, 3 pairs of tokens |
| `mirror` | retries, the decode queue, the picture comes back | 1 socket each, 1 retry, deltas dropped behind any chunk that waits, 2 chunks in the decoder |

Why these are enough.  The races of the trust store need two callers that pass the limit
check together, and a save that started before another and ends after it: two callers
and one background save.  The relay's bookkeeping is per pair of sockets and per pair of
rooms (the old and the new one); the third socket is the bystander that must hear
nothing.  In the server two clients are the one that is going and the one that is
coming, and the second device is the one that takes a connection over.  In `App` two
rooms and two watchers are the session that was replaced and the one that replaced it,
and the second device meets the full desktop.  In `CloudAuth` a race is between two
refreshes, or a refresh and a login or a logout: two callers and one login, and three
pairs are the one both hold, its successor and the one of the login.  In `Mirror` every
failure of the decoder needs one keyframe and one delta, and its queue one chunk that
waits and one that is added: with `MaxQueue = 0` the limit is met by the first chunk,
where the code has a larger one; the theorem on the queue is for every limit.  Two
chains of retries at once need two sockets of `MainActivity`, too many for TLC together
with the page: that case is covered by the proof, for any number of sockets.  The only
bounds the code does not have are `MaxCalls`, `MaxSessions`, the number of `Saver`s,
`MaxInbox`, `MaxRooms` (sessions drawn; when they are used up, none starts or fails any
more), `MaxGrants` (pairs issued), `MaxTimers` and `MaxBacklog` (keyframes waiting in a
decoder), and the number of relay clients and watchers alive at once; the last only
delays a replacement.

The violation runs are disagreements between the code and what its comments and
README say; PROJECT.json quotes the lines.  `pairing` checks what does hold
instead: `OvershootBound`, and `CleanRestartsKeepTrust`, which says that trust is
lost only over a restart that did not find the newest snapshot on the disk.
`streaming_live` states its properties up to `LockCycle`, the state
`streaming_deadlock` ends in.

Deadlock checking is off where the system may stop: the bounded calls of `Pairing`, the
rooms of `App` and the grants of `CloudAuth` run out, the phone of `Mirror` may have
nobody to ask for a capture, and the workers of `Streaming` may all be idle or, in the
lock cycle, stuck for good.

## Fairness

* `Streaming`: the Go scheduler runs every runnable goroutine (weak fairness), and a
  `sync.Mutex` in starvation mode hands itself to the longest waiter (strong
  fairness where a mutex is waited for).
  `Shutdown`'s snapshot reads under `Server.mu`; Go holds readers back while a
  writer waits, so its fairness is assumed only when nobody does
  (`WriterWaiting`).  Of the network only that a dial and the join after it
  succeed if they are tried for ever: without it no client could be expected
  back.  Links may break at any time.
* `Mirror`: the screen of the phone changes, so that a capture makes a keyframe a
  second (`KEY_I_FRAME_INTERVAL`, `H264Encoder.kt:29`); effects run.  Of the
  keyframes that arrive again and again some are not overtaken before the effect
  runs and are accepted by the decoder (strong fairness of `PushKeyframe`), and of
  the chunks it accepted again and again some are decoded.  Nothing is assumed of
  the user, of the network's links or of retries.
* The safety runs and all the theorems assume no fairness.

## Proofs

Every safety invariant and action property of the runs is a theorem, checked by TLAPS
for every value of the constants that meets the named assumptions, except
`FirstReportNeverBlocks`, which uses `ENABLED`.  The assumptions are those of the
modules: finite sets of callers and savers, a positive cap, names that are no one's,
sets of goroutines, logins and handlers that do not overlap each other or the labels of
`newestAt`.  TLC evaluates them in the runs, and checked the inductive invariants below
on the runs' instances.  No theorem assumes fairness, and the bounds of the runs
(`MaxCalls`, `MaxRooms`, `MaxGrants`, the sets of goroutines) are arbitrary here.

* `Pairing`, the cap: `TypeCorrect`, then `Overshoot`.  The bound on `devices` alone is
  not inductive.  `OvershootInv` counts devices together with those some caller
  has been admitted for: when `Admit` adds one, fewer than `MaxDevices` are in
  the map and at most one is admitted for each other caller.  Snapshots, the
  file and the newest snapshot inherit the bound from the map they are taken
  of.  The cardinality facts are lemmas.
* `Pairing`, the file.  `SavesSettle` and `CleanRestarts` rest on `SaveInv`.
  `NewestKnown` says where the newest snapshot is: with the goroutine that took it and
  is still to write that very map, in the file, or lost.  `OneWriter` says that one
  goroutine writes at a time and that meanwhile the file is not where the newest
  snapshot is; without it a save that ends could be taken for the newest while another
  has truncated the file.  A restart that finds the newest snapshot in the file then
  finds the map in memory, and with it every secret a phone was told.
* `Pairing`, the secrets.  `DurableSuccess` needs `FreshSecrets`, no two callers hold the
  same secret: otherwise a caller could take the secret of another's insertion for its own.
  `SnapshotCarriesSecret` then follows a pairing from its insertion to the write: while
  its secret is current, the snapshot it is about to write holds it.
  `OnlyPairingTrusts` follows from the types, by what each step does to secrets
  (`SecretsChange`).
* `Pairing`, the abstract store: `TrustRefinement`.  One step per action; admission,
  sessions, status changes and background goroutines are stutters.  Two things carry it.
  `SecretsUnused`: a secret that a caller has drawn and not inserted occurs in no map,
  snapshot or file and was told to nobody, which is `Fresh` of the abstract store.  And
  several goroutines may hold equal snapshots: then one member of `pending` stands for
  all, which is why `Done` may leave it there.  That a secret is told by the write that
  puts it in the file comes from `SnapshotCarriesSecret`.
* `Relay`: `TypeCorrect`, then `MembershipHolds` (inductive as stated), and from
  it `Refinement`: the set of peers the code reads off the map is the set the
  bus reads off `member`.  One step per action; `Restart` is `Outage`,
  `StartClosing` is `Drop`, and a `Close` is `Leave`, or a stutter when the
  socket had not joined.  `SilenceHolds` is proved of the bus and holds of the relay by
  the refinement.  Its invariant `SilentInv` adds `Company`: a socket whose last word on
  a peer is that it left is in no room with it, so that data can only follow after one of
  them joined.
* `Streaming`: `TypeCorrect` with `WorkKnown`, a goroutine between two sections has a
  device to hand over.  `LiveConnections` needs `BoundIsMapped`: the goroutine's own
  variable and the map change together.  `ActiveIsOwned` proves more than `NoPhantom`,
  which is not inductive: a connection that comes back with another device is still bound
  to the old one, and its binding no longer says who clears the old one.  `Owned` names
  the worker that will.  `StoppedClientsAreClean` needs `ClientsTidy`: a client has a
  device only between its handshake and the end of `readLoop`, and no open connection
  wherever `runLoop` may return.  `Shutdown` does not matter: what it closes may be
  replaced by a dial that is answered after it.
* `App`: what a call has still to do is `todo`, a sequence.  `AppPlanProofs` shows that only
  the sequences in `Plans` occur and that they fall into phases: `Stopping` (the watcher
  is still to be stopped), `Changing` (it was), `Resumed`, `Starting` (a new session
  whose watcher is to come) and `Idle`.  What holds of the session depends on the phase.
  * `WatchersReplaced`: in `Changing`, `Resumed` and `Starting` no watcher is current
    (`WatchInv`), so that `watch` never overwrites one that runs.
  * `OnePairing` and `SavedPairings` share `PairInv`.  A watcher that is not cancelled polls
    the session on screen, which has paired nobody until it pairs (`LiveInv`), and so
    will the one about to start (`StartInv`); of the watchers that hold an approval,
    cancelled or not, no two hold one of the same room, and before `VerifyPairing` that
    room has paired nobody (`HoldInv`); rooms not drawn yet have no history (`Beyond`);
    what is saved was paired (`SavedInv`).  `ApprovalUsedOnce` is part of `HoldInv`.
  * `WaitingIsWatched`: `WatchedInv` asks for the watcher as soon as the call is in
    `Idle`, unless the session was `kept`, which a failed start sets and the next one
    that succeeds resets.  A watcher that ends takes away the current one only if it was not
    cancelled, and then its session has paired, or it was, and then it is `stolen`.
  * `RelayInSession`: a call either still has `startRelay` to do (`WithRelay`) or
    left the room alone (`InRoom`), unless it is the login that drifts.
  * `ApprovalRefinement`: UI calls, ticks and restarts are stutters, but for the step
    that creates a row.  `RowInv` says that the row of an approval some watcher holds
    is still approved, for the device it holds; with `HoldInv`, which says whether the
    room has paired, a watcher about to verify finds a row that is unused, and one
    about to consume a row whose device was paired.
    `RowOnce` is the lemma that a call creates at most one row.  `RowsTellTheTruth` is
    the invariant of `Approval` (`Truthful`), proved of the abstract rows and carried
    over by the refinement.
* `CloudAuth`: one inductive invariant.  `TokensAreUsable` alone is not inductive:
  a token is spent while somebody still holds it, or while an answer is on its
  way.  The invariant adds `Issued` (tokens, files, held and answered pairs were
  issued, with an owner), `Private` (a pair that was answered and not yet applied
  is nobody else's and is not spent), `Reason` (a token in flight that is spent is
  shared or orphaned), `Kept` (the user kept with a pair is its owner, or the pair is
  `misnamed`) and `Left` (after a logout that reached the disk there are no tokens in
  memory or in the file, and whoever is on the way to sign in again is `excused`).
  One step per action, one lemma per part.  `FirstReportFindsRoom` is `FirstReportNeverBlocks`
  with the guard of `Report` in place of `ENABLED`.
* `Mirror`: `KeepsTrying` is inductive together with the types; the type invariant
  says that neither the registry nor the encoder refers to a socket that is not
  up, which names that are used again need.  `DeltasDoNotQueueUp` is inductive with
  the page's types.

Only checked by TLC, because they are beyond the provers: the liveness properties
`ShutdownCompletes`, `Rejoins` and `PictureComesBack`, and the invariant
`FirstReportNeverBlocks`, which uses `ENABLED`: `FirstReportFindsRoom` proves the part
of it that can be said without.

## What the code does that the properties leave room for

* After a fatal error the decoder has closed itself; the next keyframe calls
  `close()` on it, which throws outside the `try` (`h264Renderer.ts:63`), and React
  takes the page down.  `PictureComesBack` excuses a page that is not shown.
* The comment above the effect that attaches the canvas says that the screen pane
  owns its canvas unconditionally (`StreamStage.tsx:97-98`).  The canvas is mounted
  only for a device that can stream or once there is a frame (69, 161), and the effect
  depends on the renderer alone (113): a stage that appears before its canvas never
  attaches it, and no picture comes until the stage is shown anew.
  `PictureComesBack` is about a stage whose canvas is attached.
* After a drop or a `decode` that threw, deltas go on to the decoder until the
  next keyframe (`h264Renderer.ts:81` asks only whether it is configured): the
  picture may be `torn` in between.
* A capture keeps the socket it began with (`ScreenCaptureService.kt:79`): when that
  ends, a reconnect does not help the encoder.  `Flowing` excuses it.
* `Logout` and a refused refresh leave the identity as it was, `loggedIn` included:
  the page, which asks it (`app.go:421`, `App.tsx:14`), takes the user for signed
  in until the next restart.
* Any answer but 200 wipes the tokens, those of a newer login included.
* An answer to a refresh that carries no user is stored with the user of whatever
  tokens are there by now (`cloud.go:268`).  `IdentityMatchesTokens` excuses it if
  the tokens had changed.
* The handler of a login that was given up before a logout still signs the user in
  again, if it was fetching the profile (`auth.go:73-79`).  `LoggedOutStays` excuses
  it.
* A session that fails to start leaves the one before on screen after its watcher was
  stopped (`app.go:169-172, 232-236, 244-247`): nobody polls it.
  `WatchWhileWaiting` and `WatchedUnlessStolen` excuse it.
* An error of `Load` is ignored (`service.go:49`): the trust in memory is gone although
  the file is intact, until the next save overwrites it.  `CleanRestartsKeepTrust` is
  about restarts that could read the newest snapshot.

## Not modelled

* Formats and rendering: JSON shapes, QR codes, labels, frame headers, metrics,
  the H264 payload, React components.
* The relay's HTTP endpoints and the `role` and `user` fields: no client decides
  anything by them.
* Timestamps: `State()` also looks at the age of the last frame; the model has
  its last case only.  The read deadline is one of the ways a link breaks.
* `Server.Shutdown` and `OnShutdown`: the process ends right after.
* The Android phone's scan and pairing, and `stopCapture` on the main thread while
  `startCapture` runs in a callback; MediaCodec and the virtual display.
* Two phones that stream at once: their frames interleave in one `latestFrame`.
* The iOS phone: the same protocol with less state of its own.
* The camera: `PollCamJPEG` keeps a hash of the last picture, the pane a timer.
* Concurrent UI calls: one at a time in `Streaming` and `App`.  Nothing in the code
  enforces it; what two at once can do is listed under hazards.

## Plan

1. `App` with concurrent UI calls (the relay client shut down twice, leaked
   watchers and camera feeds), and its composition with the active device and
   device statuses.
2. `Phone` with `startCapture` in steps, and two phones in one `Mirror`.
