------------------------------- MODULE Pairing -------------------------------
(***************************************************************************)
(* The desktop's trust store: pairing.Service (desktop/pairing/service.go) *)
(* over pairing.FileStore (desktop/pairing/store.go).                      *)
(*                                                                         *)
(* One Service is called from many goroutines: one per WebSocket, the      *)
(* relay read loop, the cloud approval watcher and the UI.  VerifyPairing  *)
(* takes its lock four times, and every change of the device map is        *)
(* followed by persist(), which takes the snapshot under the service's     *)
(* lock and writes it under the store's: synchronously in VerifyPairing    *)
(* and ForgetDevice, from a new goroutine elsewhere.  An action here is    *)
(* one critical section.                                                   *)
(***************************************************************************)
EXTENDS Integers, FiniteSets

CONSTANTS
    Device,       \* device identifiers
    NoDevice,     \* no device: what an idle goroutine works on
    Caller,       \* goroutines inside VerifyPairing or ForgetDevice
    Saver,        \* goroutines of `go persist()`; a bound, the code has no limit
    MaxDevices,   \* the cap of service.go:28
    MaxCalls,     \* bound on VerifyPairing and ForgetDevice calls
    MaxSessions,  \* bound on sessions started
    Faults        \* what the environment may do: "restart" the desktop while no
                  \* call runs, "kill" it at any time, "diskError" a save or a load

ASSUME ProcAssumption ==
    /\ NoDevice \notin Device
    /\ IsFiniteSet(Caller)
    /\ Caller # {}
    /\ Caller \cap Saver = {}
    /\ {"disk", "lost"} \cap (Caller \cup Saver) = {}   \* values of newestAt
ASSUME BoundAssumption ==
    /\ MaxDevices \in Nat \ {0}
    /\ MaxCalls \in Nat
    /\ MaxSessions \in Nat
ASSUME FaultAssumption == Faults \subseteq {"restart", "kill", "diskError"}

Proc == Caller \cup Saver

\* A secret is the number of the call that drew it: randomToken
\* never repeats.  A token is the number of its session.
NoSecret == 0
NoToken == 0
Secret == Nat
Mode == {"none", "direct", "relay", "cloud"}
Status == {"connected", "offline"}
Trusted == [secret : Secret, status : Status]

\* A Go map from S to T.
IsMap(f, S, T) == DOMAIN f \subseteq S /\ f \in [DOMAIN f -> T]
NoTrust == [d \in {} |-> NoSecret]

VARIABLES
    devices,   \* s.devices
    session,   \* s.session: mode, token and status of the QR on screen
    sessions,  \* sessions started so far (fresh tokens)
    calls,     \* those calls begun so far (fresh secrets)
    pc,        \* where each goroutine stands
    op,        \* what each Caller runs: VerifyPairing or ForgetDevice
    id,        \* the device a Caller works on
    secret,    \* the trust secret drawn by a VerifyPairing
    snap,      \* the snapshot persist() took
    disk,      \* what Load would read from trusted-devices.json
    newest,    \* history: contents of the newest snapshot
    newestAt,  \* history: who holds it, "disk" or "lost"
    granted,   \* history: the last secret a phone was told, still to be good
    unclean    \* history: some restart happened while the newest snapshot was
               \* not on the disk, or could not read the disk

calling == <<pc, op, id, secret, snap>>
history == <<newest, newestAt, granted, unclean>>
vars == <<devices, session, sessions, calls, calling, disk, history>>

Pcs == {"idle", "lookup", "insert", "snapshot", "save", "write"}

TypeOK ==
    /\ IsMap(devices, Device, Trusted)
    /\ session \in [mode : Mode, token : Nat,
                    status : {"none", "waiting", "connected", "restored"}]
    /\ sessions \in Nat
    /\ calls \in Nat
    /\ pc \in [Proc -> Pcs]
    /\ \A s \in Saver : pc[s] \notin {"lookup", "insert"}
    /\ op \in [Proc -> {"none", "pair", "forget"}]
    /\ id \in [Proc -> Device \cup {NoDevice}]
    /\ \A c \in Caller : pc[c] \in {"lookup", "insert"} => id[c] \in Device
    /\ secret \in [Proc -> Secret]
    /\ DOMAIN snap = Proc
    /\ \A p \in Proc : IsMap(snap[p], Device, Secret)
    /\ IsMap(disk, Device, Secret)
    /\ IsMap(newest, Device, Secret)
    /\ newestAt \in Proc \cup {"disk", "lost"}
    /\ granted \in [Device -> Secret]
    /\ unclean \in BOOLEAN

\* What persist() copies of the map: statuses are rewritten to offline.
TrustOf(devs) == [d \in DOMAIN devs |-> devs[d].secret]

\* What load() makes of the file: everybody is offline.
Loaded(file) == [d \in DOMAIN file |-> [secret |-> file[d], status |-> "offline"]]

NoSession == [mode |-> "none", token |-> NoToken, status |-> "none"]

\* s.devices[d] = v
Put(devs, d, v) == [x \in DOMAIN devs \cup {d} |-> IF x = d THEN v ELSE devs[x]]

\* Mutated: the record is emptied, not deleted.
EmptyRecord(devs, d) == Put(devs, d, [secret |-> NoSecret, status |-> ""])

\* delete(s.devices, d)
Delete(devs, d) == [x \in DOMAIN devs \ {d} |-> devs[x]]

Init ==
    /\ disk = NoTrust
    /\ devices = Loaded(disk)
    /\ session = NoSession
    /\ sessions = 0
    /\ calls = 0
    /\ pc = [p \in Proc |-> "idle"]
    /\ op = [p \in Proc |-> "none"]
    /\ id = [p \in Proc |-> NoDevice]
    /\ secret = [p \in Proc |-> NoSecret]
    /\ snap = [p \in Proc |-> NoTrust]
    /\ newest = disk
    /\ newestAt = "disk"
    /\ granted = [d \in Device |-> NoSecret]
    /\ unclean = FALSE

------------------------------------------------------------------------------
\* Sessions: each Start...Session replaces the session in one assignment.

StartSession(m) ==
    /\ sessions < MaxSessions
    /\ sessions' = sessions + 1
    /\ session' = [mode |-> m,
                   token |-> IF m = "direct" THEN sessions + 1 ELSE NoToken,
                   status |-> "waiting"]
    /\ UNCHANGED <<devices, calls, calling, disk, history>>

------------------------------------------------------------------------------
\* VerifyPairing, section by section.  In relay and cloud mode the token is
\* not looked at; a refused token ends the call and changes nothing.

TokenAccepted(t) ==
    session.mode \in {"relay", "cloud"} \/ (t # NoToken /\ t = session.token)

BeginPairing(c, d, t) ==
    /\ pc[c] = "idle"
    /\ calls < MaxCalls
    /\ TokenAccepted(t)
    /\ calls' = calls + 1
    /\ pc' = [pc EXCEPT ![c] = "lookup"]
    /\ op' = [op EXCEPT ![c] = "pair"]
    /\ id' = [id EXCEPT ![c] = d]
    /\ secret' = [secret EXCEPT ![c] = calls + 1]
    /\ UNCHANGED <<devices, session, sessions, snap, disk, history>>

\* The goroutine returns; its locals are gone.
Finish(p) ==
    /\ pc' = [pc EXCEPT ![p] = "idle"]
    /\ op' = [op EXCEPT ![p] = "none"]
    /\ id' = [id EXCEPT ![p] = NoDevice]
    /\ secret' = [secret EXCEPT ![p] = NoSecret]
    /\ snap' = [snap EXCEPT ![p] = NoTrust]
    /\ UNCHANGED <<devices, session, sessions, calls, newest, unclean>>

\* Mutated: the cap is off by one.
UnderLimitOffByOne(d) ==
    d \in DOMAIN devices \/ Cardinality(DOMAIN devices) <= MaxDevices

UnderLimit(d) == d \in DOMAIN devices \/ Cardinality(DOMAIN devices) < MaxDevices

Admit(c) ==
    /\ pc[c] = "lookup"
    /\ UnderLimit(id[c])
    /\ pc' = [pc EXCEPT ![c] = "insert"]
    /\ UNCHANGED <<devices, session, sessions, calls, op, id, secret, snap, disk, history>>

RefuseLimit(c) ==
    /\ pc[c] = "lookup"
    /\ ~UnderLimit(id[c])
    /\ Finish(c)
    /\ UNCHANGED <<disk, newestAt, granted>>

Insert(c) ==
    /\ pc[c] = "insert"
    /\ devices' = Put(devices, id[c], [secret |-> secret[c], status |-> "connected"])
    /\ session' = [session EXCEPT !.status = "connected"]
    /\ pc' = [pc EXCEPT ![c] = "snapshot"]
    /\ granted' = [granted EXCEPT ![id[c]] = NoSecret]
    /\ UNCHANGED <<sessions, calls, op, id, secret, snap, disk, newest, newestAt, unclean>>

ForgetDevice(c, d) ==
    /\ pc[c] = "idle"
    /\ calls < MaxCalls
    /\ calls' = calls + 1
    /\ devices' = Delete(devices, d)
    /\ pc' = [pc EXCEPT ![c] = "snapshot"]
    /\ op' = [op EXCEPT ![c] = "forget"]
    /\ granted' = [granted EXCEPT ![d] = NoSecret]
    /\ UNCHANGED <<session, sessions, id, secret, snap, disk, newest, newestAt, unclean>>

------------------------------------------------------------------------------
\* persist() and FileStore.Save.

TakeSnapshot(p) ==
    /\ pc[p] = "snapshot"
    /\ snap' = [snap EXCEPT ![p] = TrustOf(devices)]
    /\ pc' = [pc EXCEPT ![p] = "save"]
    /\ newest' = TrustOf(devices)
    /\ newestAt' = p
    /\ UNCHANGED <<devices, session, sessions, calls, op, id, secret, disk, granted, unclean>>

\* Mutated: Save does not lock the store.
StoreNeverLocked == TRUE

StoreUnlocked == \A p \in Proc : pc[p] # "write"

\* os.WriteFile opens with O_TRUNC: until the write returns, Load finds an
\* empty file (no devices) or half a document (an error NewService ignores).
Truncate(p) ==
    /\ pc[p] = "save"
    /\ StoreUnlocked
    /\ disk' = NoTrust
    /\ pc' = [pc EXCEPT ![p] = "write"]
    /\ newestAt' = IF newestAt = "disk" THEN "lost" ELSE newestAt
    /\ UNCHANGED <<devices, session, sessions, calls, op, id, secret, snap, newest,
                   granted, unclean>>

\* The caller of VerifyPairing hands the secret to the phone.
Grant(p) ==
    IF op[p] = "pair" /\ id[p] \in DOMAIN devices
                      /\ devices[id[p]].secret = secret[p]
    THEN granted' = [granted EXCEPT ![id[p]] = secret[p]]
    ELSE UNCHANGED granted

\* Mutated: the snapshot is the map itself, not a copy.
WriteLiveMap(p) ==
    /\ pc[p] = "write"
    /\ disk' = TrustOf(devices)
    /\ newestAt' = IF newestAt = p THEN "disk" ELSE newestAt
    /\ Grant(p)
    /\ Finish(p)

WriteFile(p) ==
    /\ pc[p] = "write"
    /\ disk' = snap[p]
    /\ newestAt' = IF newestAt = p THEN "disk" ELSE newestAt
    /\ Grant(p)
    /\ Finish(p)

\* Mutated: VerifyPairing drops the error of persist().
SaveErrorDropped(p) ==
    /\ "diskError" \in Faults
    /\ pc[p] = "save" /\ StoreUnlocked
    /\ newestAt' = IF newestAt = p THEN "lost" ELSE newestAt
    /\ Grant(p)
    /\ Finish(p)
    /\ UNCHANGED disk

\* MkdirAll, opening the file or writing it fails: the caller gets an error
\* (a background save drops it), memory keeps the change.
SaveFails(p) ==
    /\ "diskError" \in Faults
    /\ \/ pc[p] = "save" /\ StoreUnlocked
       \/ pc[p] = "write"
    /\ newestAt' = IF newestAt = p THEN "lost" ELSE newestAt
    /\ Finish(p)
    /\ UNCHANGED <<disk, granted>>

------------------------------------------------------------------------------
\* Operations of one critical section that leave a background persist behind.

GoPersist ==
    \E p \in Saver :
        /\ pc[p] = "idle"
        /\ pc' = [pc EXCEPT ![p] = "snapshot"]
        /\ UNCHANGED <<op, id, secret, snap>>

\* Mutated: the record is built afresh instead of updated.
SetStatusOfNewRecord(d, status) ==
    devices' = Put(devices, d, [secret |-> NoSecret, status |-> status])

SetStatus(d, status) == devices' = [devices EXCEPT ![d].status = status]

VerifyReconnect(d, s) ==
    /\ d \in DOMAIN devices
    /\ devices[d].secret = s
    /\ SetStatus(d, "connected")
    /\ session' = [session EXCEPT !.status = "connected"]
    /\ GoPersist
    /\ UNCHANGED <<sessions, calls, disk, history>>

ConnectDevice(d) ==
    /\ d \in DOMAIN devices
    /\ SetStatus(d, "connected")
    /\ session' = [session EXCEPT !.status = "restored"]
    /\ GoPersist
    /\ UNCHANGED <<sessions, calls, disk, history>>

\* Mutated: no check that the device is still trusted.
MarkAnyDeviceOffline(d) ==
    /\ devices' = Put(devices, d, [secret |-> NoSecret, status |-> "offline"])
    /\ GoPersist
    /\ UNCHANGED <<session, sessions, calls, disk, history>>

MarkDeviceOffline(d) ==
    /\ d \in DOMAIN devices
    /\ SetStatus(d, "offline")
    /\ GoPersist
    /\ UNCHANGED <<session, sessions, calls, disk, history>>

------------------------------------------------------------------------------
\* The process is killed and started again: NewService loads the file and goes
\* on with no devices when it cannot be read; the file stays as it is.

Killed ==
    \/ "kill" \in Faults
    \/ "restart" \in Faults /\ \A p \in Proc : pc[p] = "idle"

NewestOnDisk == newestAt = "disk" /\ \A p \in Proc : pc[p] # "snapshot"

LoadResults == {disk} \cup (IF "diskError" \in Faults THEN {NoTrust} ELSE {})

LoadFile(found) ==
    /\ devices' = Loaded(found)
    /\ newest' = found
    /\ newestAt' = IF found = disk THEN "disk" ELSE "lost"
    /\ unclean' = (unclean \/ ~NewestOnDisk \/ found # disk)

Restart ==
    /\ Killed
    /\ \E found \in LoadResults : LoadFile(found)
    /\ session' = NoSession
    /\ pc' = [p \in Proc |-> "idle"]
    /\ op' = [p \in Proc |-> "none"]
    /\ id' = [p \in Proc |-> NoDevice]
    /\ secret' = [p \in Proc |-> NoSecret]
    /\ snap' = [p \in Proc |-> NoTrust]
    /\ UNCHANGED <<sessions, calls, disk, granted>>

------------------------------------------------------------------------------
SaveStep(p) == TakeSnapshot(p) \/ Truncate(p) \/ WriteFile(p) \/ SaveFails(p)

PairStep(c) == Admit(c) \/ RefuseLimit(c) \/ Insert(c)

Next ==
    \/ \E m \in Mode \ {"none"} : StartSession(m)
    \/ \E c \in Caller, d \in Device :
          \/ \E t \in 0..MaxSessions : BeginPairing(c, d, t)
          \/ ForgetDevice(c, d)
    \/ \E c \in Caller : PairStep(c)
    \/ \E p \in Proc : SaveStep(p)
    \/ \E d \in Device :
          \/ \E s \in 1..MaxCalls : VerifyReconnect(d, s)
          \/ ConnectDevice(d)
          \/ MarkDeviceOffline(d)
    \/ Restart

Spec == Init /\ [][Next]_vars

------------------------------------------------------------------------------
\* Devices some VerifyPairing has let through its limit check.
Admitted == {id[c] : c \in {k \in Caller : pc[k] = "insert"}}

\* VerifyPairing reads the number of devices under one lock and inserts under
\* another (service.go:215-248), so MaxDevices alone does not hold; what holds
\* is that each goroutine can overshoot the cap by one device except one, in
\* memory, in every snapshot on its way to the disk and on the disk.
Capacity == MaxDevices + Cardinality(Caller) - 1
OvershootBound ==
    /\ Cardinality(DOMAIN devices \cup Admitted) <= Capacity
    /\ \A p \in Proc : Cardinality(DOMAIN snap[p]) <= Capacity
    /\ Cardinality(DOMAIN disk) <= Capacity

\* The promise of service.go:27, "MaxDevices caps how many phones may stay
\* paired to one desktop".
DeviceLimit == Cardinality(DOMAIN devices) <= MaxDevices

\* Every change of the trust map is followed by a snapshot: once no goroutine
\* is about to take one, the newest snapshot is the map in memory, and if it
\* is the one the file holds, a restart loads exactly what is in memory.
SettledDisk ==
    (\A p \in Proc : pc[p] # "snapshot") =>
        /\ newest = TrustOf(devices)
        /\ newestAt = "disk" => disk = TrustOf(devices)

\* When VerifyPairing hands out a secret that is still the device's secret in
\* memory, the file holds that secret at this moment (service.go:245-259).
SuccessIsDurable ==
    [][\A d \in Device :
          granted'[d] # granted[d] /\ granted'[d] # NoSecret
              => d \in DOMAIN disk' /\ disk'[d] = granted'[d]]_vars

\* A device becomes trusted, or gets another secret, only by a VerifyPairing
\* that passed its checks, or by a restart that finds it in the file: status
\* changes racing a ForgetDevice never bring the device back
\* (service.go:262-326).
TrustComesFromPairing ==
    [][\A d \in DOMAIN devices' :
          \/ d \in DOMAIN devices /\ devices[d].secret = devices'[d].secret
          \/ \E c \in Caller :
                /\ pc[c] = "insert"
                /\ id[c] = d
                /\ secret[c] = devices'[d].secret
          \/ devices' = Loaded(disk)]_vars

\* A phone that was told a secret, and was neither forgotten nor paired again
\* since, is accepted by VerifyReconnect (README.md:184, "scan QR hanya
\* diperlukan untuk pairing pertama": the QR is needed for the first pairing
\* only).
PairedPhonesReconnect ==
    \A d \in Device :
        granted[d] # NoSecret =>
            d \in DOMAIN devices /\ devices[d].secret = granted[d]

\* The same holds across any number of restarts, as long as each found the
\* newest snapshot on the disk and could read it: no interleaving of calls
\* inside one lifetime of the process loses a secret a phone was told.
CleanRestartsKeepTrust == unclean \/ PairedPhonesReconnect

\* Snapshots taken and not written yet.
Pending == {snap[p] : p \in {q \in Proc : pc[q] \in {"save", "write"}}}

\* The abstract trust store: memory, the snapshots on their way and the file.
Trust == INSTANCE TrustStore WITH
    Secret <- 1..MaxCalls,
    trust <- TrustOf(devices),
    told <- granted,
    pending <- Pending,
    file <- disk

\* The locks, the goroutines and the order in which they reach the file leave no
\* more behind than the abstract store allows: the file is never a mixture of
\* two maps, a restart never revives what no snapshot held, and a phone is told
\* its secret by the write of a snapshot that holds it (service.go:202-351,
\* store.go:27-66).
ImplementsTrustStore == Trust!Spec
=============================================================================
