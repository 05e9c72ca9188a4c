-------------------------- MODULE PairingTrustProofs --------------------------
(***************************************************************************)
(* What the trust store promises about the file and the phones, proved for *)
(* every number of devices, callers and savers and every set of faults:    *)
(* the newest snapshot is always accounted for, a secret is handed out     *)
(* only after it was written, clean restarts lose no phone and only        *)
(* VerifyPairing makes a device trusted.                                   *)
(***************************************************************************)
EXTENDS PairingProofs

\* What a status update leaves of a record.
LEMMA SetStatusKeepsTrust ==
    ASSUME IsMap(devices, Device, Trusted), NEW d \in DOMAIN devices,
           NEW st \in Status, SetStatus(d, st)
    PROVE  /\ DOMAIN devices' = DOMAIN devices
           /\ \A x \in DOMAIN devices : devices'[x].secret = devices[x].secret
           /\ TrustOf(devices') = TrustOf(devices)
BY DEF SetStatus, IsMap, Trusted, TrustOf

\* What a restart loads, it would write again.
LEMMA LoadedTrust ==
    ASSUME NEW file, IsMap(file, Device, Secret)
    PROVE  TrustOf(Loaded(file)) = file
BY DEF IsMap, Loaded, TrustOf

\* A goroutine that returns is idle and changes no other.
LEMMA FinishLocals ==
    ASSUME TypeOK, NEW p \in Proc, Finish(p)
    PROVE  /\ pc'[p] = "idle" /\ op'[p] = "none"
           /\ \A q \in Proc \ {p} :
                 /\ pc'[q] = pc[q] /\ op'[q] = op[q] /\ id'[q] = id[q]
                 /\ secret'[q] = secret[q] /\ snap'[q] = snap[q]
           /\ UNCHANGED <<devices, calls, newest, unclean>>
BY DEF TypeOK, Finish

\* A background save starts in a goroutine that was idle.
LEMMA GoPersistLocals ==
    ASSUME TypeOK, GoPersist
    PROVE  \E p \in Saver :
              /\ pc[p] = "idle" /\ pc'[p] = "snapshot"
              /\ \A q \in Proc \ {p} : pc'[q] = pc[q]
              /\ UNCHANGED <<op, id, secret, snap>>
BY DEF TypeOK, GoPersist, Proc

------------------------------------------------------------------------------
\* Where the newest snapshot is: in the hands of the goroutine that took it, on
\* the disk, or lost.  While a goroutine writes the file, the file holds nothing.
NewestKnown ==
    /\ (\A p \in Proc : pc[p] # "snapshot") => newest = TrustOf(devices)
    /\ newestAt \in Proc => pc[newestAt] \in {"save", "write"} /\ snap[newestAt] = newest
    /\ newestAt = "disk" => disk = newest

OneWriter ==
    \A p, q \in Proc :
        pc[p] = "write" => newestAt # "disk" /\ (pc[q] = "write" => q = p)

SaveInv == NewestKnown /\ OneWriter

LEMMA SaveInvInit == Init => SaveInv
<1> SUFFICES ASSUME Init PROVE SaveInv
  OBVIOUS
<1>1. TrustOf(devices) = disk /\ newest = disk /\ newestAt = "disk"
  BY NoTrustIsMap, LoadedTrust DEF Init
<1>2. \A p \in Proc : pc[p] = "idle"
  BY DEF Init
<1> QED
  BY <1>1, <1>2, ProcAssumption DEF SaveInv, NewestKnown, OneWriter, Proc

\* A change of the trust map announces a snapshot: nothing is settled until it
\* is taken.
LEMMA AnnouncedSnapshot ==
    ASSUME TypeOK, SaveInv, NEW c \in Proc, pc[c] \notin {"save", "write"},
           pc' = [pc EXCEPT ![c] = "snapshot"],
           UNCHANGED <<snap, disk, newest, newestAt>>
    PROVE  SaveInv'
BY DEF TypeOK, SaveInv, NewestKnown, OneWriter

\* So does a status change, by a goroutine of its own.
LEMMA AnnouncedByStatus ==
    ASSUME TypeOK, SaveInv, GoPersist, UNCHANGED <<disk, newest, newestAt>>
    PROVE  SaveInv'
<1>1. PICK c \in Saver : /\ pc[c] = "idle"
                         /\ pc' = [pc EXCEPT ![c] = "snapshot"]
                         /\ UNCHANGED snap
  BY DEF GoPersist
<1> QED
  BY <1>1, AnnouncedSnapshot DEF Proc

LEMMA SaveInvNext == TypeOK /\ SaveInv /\ [Next]_vars => SaveInv'
<1> SUFFICES ASSUME TypeOK, SaveInv, [Next]_vars PROVE SaveInv'
  OBVIOUS
<1>1. CASE \E m \in Mode \ {"none"} : StartSession(m)
  BY <1>1 DEF SaveInv, NewestKnown, OneWriter, StartSession, calling, history
<1>2. ASSUME NEW c \in Caller, NEW d \in Device,
             NEW t \in 0..MaxSessions, BeginPairing(c, d, t)
      PROVE  SaveInv'
  BY <1>2 DEF TypeOK, SaveInv, NewestKnown, OneWriter, BeginPairing, history, Proc
<1>3. ASSUME NEW c \in Caller, NEW d \in Device, ForgetDevice(c, d)
      PROVE  SaveInv'
  BY <1>3, AnnouncedSnapshot DEF ForgetDevice, Proc
<1>4. ASSUME NEW c \in Caller, Admit(c) PROVE SaveInv'
  BY <1>4 DEF TypeOK, SaveInv, NewestKnown, OneWriter, Admit, history, Proc
<1>5. ASSUME NEW c \in Caller, RefuseLimit(c) PROVE SaveInv'
  <2>1. c \in Proc /\ Finish(c) /\ pc[c] = "lookup" /\ UNCHANGED <<disk, newestAt>>
    BY <1>5 DEF RefuseLimit, Proc
  <2> QED
    BY <2>1, FinishLocals DEF SaveInv, NewestKnown, OneWriter
<1>6. ASSUME NEW c \in Caller, Insert(c) PROVE SaveInv'
  BY <1>6, AnnouncedSnapshot DEF Insert, Proc
<1>7. ASSUME NEW p \in Proc, TakeSnapshot(p) PROVE SaveInv'
  BY <1>7, ProcAssumption
  DEF TypeOK, SaveInv, NewestKnown, OneWriter, TakeSnapshot, Proc
<1>8. ASSUME NEW p \in Proc, Truncate(p) PROVE SaveInv'
  BY <1>8, ProcAssumption
  DEF TypeOK, SaveInv, NewestKnown, OneWriter, Truncate, StoreUnlocked, Proc
<1>9. ASSUME NEW p \in Proc, WriteFile(p) PROVE SaveInv'
  <2>1. /\ Finish(p) /\ pc[p] = "write" /\ disk' = snap[p]
        /\ newestAt' = IF newestAt = p THEN "disk" ELSE newestAt
    BY <1>9 DEF WriteFile
  <2> QED
    BY <2>1, FinishLocals, ProcAssumption DEF SaveInv, NewestKnown, OneWriter, Proc
<1>10. ASSUME NEW p \in Proc, SaveFails(p) PROVE SaveInv'
  <2>1. /\ Finish(p) /\ pc[p] \in {"save", "write"} /\ disk' = disk
        /\ newestAt' = IF newestAt = p THEN "lost" ELSE newestAt
    BY <1>10 DEF SaveFails
  <2> QED
    BY <2>1, FinishLocals, ProcAssumption DEF SaveInv, NewestKnown, OneWriter, Proc
<1>11. ASSUME NEW d \in Device, NEW s \in 1..MaxCalls, VerifyReconnect(d, s)
       PROVE  SaveInv'
  BY <1>11, AnnouncedByStatus DEF VerifyReconnect, history
<1>12. ASSUME NEW d \in Device, ConnectDevice(d) PROVE SaveInv'
  BY <1>12, AnnouncedByStatus DEF ConnectDevice, history
<1>13. ASSUME NEW d \in Device, MarkDeviceOffline(d) PROVE SaveInv'
  BY <1>13, AnnouncedByStatus DEF MarkDeviceOffline, history
<1>14. CASE Restart
  <2>1. /\ disk' = disk
        /\ newest' = TrustOf(devices')
        /\ newestAt' \in {"disk", "lost"}
        /\ newestAt' = "disk" => newest' = disk
    <3>1. PICK found \in {disk, NoTrust} : LoadFile(found)
      BY <1>14 DEF Restart, LoadResults
    <3>2. TrustOf(Loaded(found)) = found
      BY <3>1, LoadedTrust, NoTrustIsMap DEF TypeOK
    <3>3. newest' = found /\ TrustOf(devices') = found
      BY <3>1, <3>2 DEF LoadFile
    <3>4. newestAt' \in {"disk", "lost"} /\ (newestAt' = "disk" => found = disk)
      BY <3>1 DEF LoadFile
    <3>5. disk' = disk
      BY <1>14 DEF Restart
    <3> QED
      BY <3>3, <3>4, <3>5
  <2>2. \A p \in Proc : pc'[p] = "idle"
    BY <1>14 DEF Restart
  <2> QED
    BY <2>1, <2>2, ProcAssumption DEF SaveInv, NewestKnown, OneWriter, Proc
<1>15. CASE UNCHANGED vars
  BY <1>15 DEF SaveInv, NewestKnown, OneWriter, vars, calling, history
<1> QED
  BY <1>1, <1>2, <1>3, <1>4, <1>5, <1>6, <1>7, <1>8, <1>9, <1>10, <1>11,
     <1>12, <1>13, <1>14, <1>15 DEF Next, PairStep, SaveStep

LEMMA SaveInvAlways == Spec => [](TypeOK /\ SaveInv)
<1>1. Init => TypeOK /\ SaveInv
  BY InitType, SaveInvInit
<1>2. TypeOK /\ SaveInv /\ [Next]_vars => (TypeOK /\ SaveInv)'
  BY NextType, SaveInvNext
<1> QED
  BY <1>1, <1>2, PTL DEF Spec

\* persist() copies the map under one lock and writes it under another, with any
\* number of goroutines in between (service.go:328-351, store.go:54-66): once no
\* change waits for its snapshot, the newest snapshot is the map in memory, and
\* where the file holds it, the file is what memory says.
THEOREM SavesSettle == Spec => []SettledDisk
<1>1. SaveInv => SettledDisk
  BY DEF SaveInv, NewestKnown, SettledDisk
<1> QED
  BY <1>1, SaveInvAlways, PTL

------------------------------------------------------------------------------
\* A restart that was clean found in the file what memory held: the trust a
\* phone was promised survives.
LEMMA CleanNext ==
    TypeOK /\ SaveInv /\ CleanRestartsKeepTrust /\ [Next]_vars => CleanRestartsKeepTrust'
<1> SUFFICES ASSUME TypeOK, SaveInv, CleanRestartsKeepTrust, [Next]_vars, ~unclean'
             PROVE  PairedPhonesReconnect'
  BY DEF CleanRestartsKeepTrust
<1>0. unclean => unclean'
  BY DEF Next, PairStep, SaveStep, StartSession, BeginPairing, ForgetDevice, Admit,
         RefuseLimit, Insert, TakeSnapshot, Truncate, WriteFile, SaveFails, Finish,
         VerifyReconnect, ConnectDevice, MarkDeviceOffline, Restart, LoadFile, vars, history
<1>00. PairedPhonesReconnect
  BY <1>0 DEF CleanRestartsKeepTrust
\* Most steps leave both the map and the promises alone.
<1>a. ASSUME UNCHANGED <<devices, granted>> PROVE PairedPhonesReconnect'
  BY <1>a, <1>00 DEF PairedPhonesReconnect
\* A status change leaves the secrets alone.
<1>b. ASSUME NEW d \in DOMAIN devices, NEW st \in Status, SetStatus(d, st),
             granted' = granted
      PROVE  PairedPhonesReconnect'
  BY <1>b, <1>00, SetStatusKeepsTrust DEF TypeOK, PairedPhonesReconnect
<1>1. CASE \E m \in Mode \ {"none"} : StartSession(m)
  BY <1>1, <1>a DEF StartSession, history
<1>2. ASSUME NEW c \in Caller, NEW d \in Device,
             NEW t \in 0..MaxSessions, BeginPairing(c, d, t)
      PROVE  PairedPhonesReconnect'
  BY <1>2, <1>a DEF BeginPairing, history
<1>3. ASSUME NEW c \in Caller, NEW d \in Device, ForgetDevice(c, d)
      PROVE  PairedPhonesReconnect'
  BY <1>3, <1>00 DEF TypeOK, ForgetDevice, Delete, PairedPhonesReconnect
<1>4. ASSUME NEW c \in Caller, Admit(c) PROVE PairedPhonesReconnect'
  BY <1>4, <1>a DEF Admit, history
<1>5. ASSUME NEW c \in Caller, RefuseLimit(c) PROVE PairedPhonesReconnect'
  BY <1>5, <1>a DEF RefuseLimit, Finish
<1>6. ASSUME NEW c \in Caller, Insert(c) PROVE PairedPhonesReconnect'
  <2>1. id[c] \in Device
    BY <1>6 DEF TypeOK, Insert
  <2>2. \A d \in Device : granted'[d] # NoSecret => granted'[d] = granted[d] /\ d # id[c]
    BY <1>6, <2>1 DEF TypeOK, Insert
  <2>3. \A x \in DOMAIN devices \ {id[c]} :
           x \in DOMAIN devices' /\ devices'[x] = devices[x]
    <3> DEFINE v == [secret |-> secret[c], status |-> "connected"]
    <3>1. devices' = Put(devices, id[c], v)
      BY <1>6 DEF Insert
    <3> HIDE DEF v
    <3> QED
      BY <3>1 DEF Put
  <2> QED
    BY <1>00, <2>2, <2>3 DEF PairedPhonesReconnect
<1>7. ASSUME NEW p \in Proc, TakeSnapshot(p) PROVE PairedPhonesReconnect'
  BY <1>7, <1>a DEF TakeSnapshot
<1>8. ASSUME NEW p \in Proc, Truncate(p) PROVE PairedPhonesReconnect'
  BY <1>8, <1>a DEF Truncate
<1>9. ASSUME NEW p \in Proc, WriteFile(p) PROVE PairedPhonesReconnect'
  <2>1. devices' = devices /\ Grant(p)
    BY <1>9 DEF WriteFile, Finish
  <2> QED
    BY <2>1, <1>00 DEF Grant, TypeOK, PairedPhonesReconnect
<1>10. ASSUME NEW p \in Proc, SaveFails(p) PROVE PairedPhonesReconnect'
  BY <1>10, <1>a DEF SaveFails, Finish
<1>11. ASSUME NEW d \in Device, NEW s \in 1..MaxCalls, VerifyReconnect(d, s)
       PROVE  PairedPhonesReconnect'
  BY <1>11, <1>b DEF VerifyReconnect, history, Status
<1>12. ASSUME NEW d \in Device, ConnectDevice(d) PROVE PairedPhonesReconnect'
  BY <1>12, <1>b DEF ConnectDevice, history, Status
<1>13. ASSUME NEW d \in Device, MarkDeviceOffline(d) PROVE PairedPhonesReconnect'
  BY <1>13, <1>b DEF MarkDeviceOffline, history, Status
<1>14. CASE Restart
  <2>1. NewestOnDisk /\ granted' = granted /\ devices' = Loaded(disk)
    BY <1>14 DEF Restart, LoadFile
  <2>2. disk = TrustOf(devices)
    BY <2>1 DEF SaveInv, NewestKnown, NewestOnDisk
  <2>3. \A d \in DOMAIN devices : d \in DOMAIN devices' /\ devices'[d].secret = devices[d].secret
    BY <2>1, <2>2 DEF TrustOf, Loaded
  <2> QED
    BY <1>00, <2>1, <2>3 DEF PairedPhonesReconnect
<1>15. CASE UNCHANGED vars
  BY <1>15, <1>a DEF vars, history
<1> QED
  BY <1>1, <1>2, <1>3, <1>4, <1>5, <1>6, <1>7, <1>8, <1>9, <1>10, <1>11,
     <1>12, <1>13, <1>14, <1>15 DEF Next, PairStep, SaveStep

\* A phone that was told a secret and was neither forgotten nor paired again is
\* trusted, across every restart that found the newest snapshot in the file
\* (service.go:28-80, 250-259).
THEOREM CleanRestarts == Spec => []CleanRestartsKeepTrust
<1>1. Init => CleanRestartsKeepTrust
  BY DEF Init, CleanRestartsKeepTrust, PairedPhonesReconnect
<1>2. TypeOK /\ SaveInv /\ CleanRestartsKeepTrust /\ [Next]_vars
        => CleanRestartsKeepTrust'
  BY CleanNext
<1> QED
  BY <1>1, <1>2, SaveInvAlways, PTL DEF Spec

------------------------------------------------------------------------------
\* A device's secret changes only in VerifyPairing and ForgetDevice, and when a
\* restart loads the file.
LEMMA SecretsChange ==
    ASSUME TypeOK, [Next]_vars
    PROVE  \/ DOMAIN devices' \subseteq DOMAIN devices
              /\ \A d \in DOMAIN devices' : devices'[d].secret = devices[d].secret
           \/ \E c \in Caller :
                 /\ Insert(c)
                 /\ DOMAIN devices' = DOMAIN devices \cup {id[c]}
                 /\ devices'[id[c]].secret = secret[c]
                 /\ \A d \in DOMAIN devices \ {id[c]} : devices'[d] = devices[d]
           \/ Restart
<1> DEFINE Kept == /\ DOMAIN devices' \subseteq DOMAIN devices
                   /\ \A d \in DOMAIN devices' : devices'[d].secret = devices[d].secret
<1> SUFFICES ASSUME ~Restart, ~\E c \in Caller : Insert(c) PROVE Kept
  <2> SUFFICES ASSUME NEW c \in Caller, Insert(c)
               PROVE  /\ DOMAIN devices' = DOMAIN devices \cup {id[c]}
                      /\ devices'[id[c]].secret = secret[c]
                      /\ \A d \in DOMAIN devices \ {id[c]} : devices'[d] = devices[d]
    OBVIOUS
  <2> DEFINE v == [secret |-> secret[c], status |-> "connected"]
  <2>1. v.secret = secret[c]
    OBVIOUS
  <2>2. devices' = Put(devices, id[c], v)
    BY DEF Insert
  <2> HIDE DEF v
  <2> QED
    BY <2>1, <2>2 DEF Put
<1>a. ASSUME devices' = devices PROVE Kept
  BY <1>a
<1>b. ASSUME NEW d \in DOMAIN devices, NEW st \in Status, SetStatus(d, st) PROVE Kept
  BY <1>b, SetStatusKeepsTrust DEF TypeOK
<1>c. ASSUME NEW c \in Caller, NEW d \in Device, ForgetDevice(c, d) PROVE Kept
  BY <1>c DEF ForgetDevice, Delete
<1>d. CASE \E c \in Caller, d \in Device, t \in 0..MaxSessions : BeginPairing(c, d, t)
  BY <1>d, <1>a DEF BeginPairing
<1>e. CASE \E m \in Mode \ {"none"} : StartSession(m)
  BY <1>e, <1>a DEF StartSession
<1>f. CASE \E c \in Caller : PairStep(c)
  BY <1>f, <1>a DEF PairStep, Admit, RefuseLimit, Finish
<1>g. CASE \E p \in Proc : SaveStep(p)
  BY <1>g, <1>a DEF SaveStep, TakeSnapshot, Truncate, WriteFile, SaveFails, Finish
<1>h. CASE \E d \in Device : \/ \E s \in 1..MaxCalls : VerifyReconnect(d, s)
                             \/ ConnectDevice(d)
                             \/ MarkDeviceOffline(d)
  BY <1>h, <1>b DEF VerifyReconnect, ConnectDevice, MarkDeviceOffline, Status
<1>i. CASE UNCHANGED vars
  BY <1>i, <1>a DEF vars
<1> HIDE DEF Kept
<1> QED
  BY <1>c, <1>d, <1>e, <1>f, <1>g, <1>h, <1>i DEF Next

\* The status changes that race a ForgetDevice never bring the device back, and
\* no goroutine invents a secret (service.go:262-326).
THEOREM OnlyPairingTrusts == Spec => TrustComesFromPairing
<1>1. TypeOK /\ [Next]_vars =>
        [\A d \in DOMAIN devices' :
          \/ d \in DOMAIN devices /\ devices[d].secret = devices'[d].secret
          \/ \E c \in Caller :
                /\ pc[c] = "insert"
                /\ id[c] = d
                /\ secret[c] = devices'[d].secret
          \/ devices' = Loaded(disk)]_vars
  <2>1. Restart => devices' = Loaded(disk) \/ DOMAIN devices' = {}
    BY DEF Restart, LoadResults, LoadFile, Loaded, NoTrust
  <2> QED
    BY <2>1, SecretsChange DEF Insert
<1> QED
  BY <1>1, TypeCorrect, PTL DEF Spec, TrustComesFromPairing

------------------------------------------------------------------------------
\* Goroutines inside VerifyPairing hold different secrets, all drawn.
FreshSecrets ==
    /\ \A p \in Proc : pc[p] \in {"lookup", "insert"} => op[p] = "pair"
    /\ \A p \in Proc : op[p] = "pair" => secret[p] <= calls /\ pc[p] # "idle"
    /\ \A p, q \in Proc :
          op[p] = "pair" /\ op[q] = "pair" /\ secret[p] = secret[q] => p = q

\* The secret of p is still its device's secret in memory.
Current(p) == id[p] \in DOMAIN devices /\ devices[id[p]].secret = secret[p]

\* Then p took its snapshot when the secret was there, and carries it.
SnapshotCarriesSecret ==
    \A p \in Proc :
        op[p] = "pair" /\ pc[p] \in {"save", "write"} /\ Current(p)
            => id[p] \in DOMAIN snap[p] /\ snap[p][id[p]] = secret[p]

LEMMA FreshInit == Init => FreshSecrets
BY DEF Init, FreshSecrets

LEMMA FreshNext == TypeOK /\ FreshSecrets /\ [Next]_vars => FreshSecrets'
<1> SUFFICES ASSUME TypeOK, FreshSecrets, [Next]_vars PROVE FreshSecrets'
  OBVIOUS
\* The sections between the first and the last of a call keep what it drew.
<1>a. ASSUME NEW p \in Proc, pc[p] # "idle", NEW l \in Pcs \ {"lookup", "idle"},
             l = "insert" => pc[p] = "lookup",
             pc' = [pc EXCEPT ![p] = l], UNCHANGED <<op, secret, calls>>
      PROVE  FreshSecrets'
  BY <1>a DEF TypeOK, FreshSecrets
<1>b. ASSUME NEW p \in Proc, Finish(p) PROVE FreshSecrets'
  BY <1>b, FinishLocals DEF FreshSecrets
<1>c. ASSUME GoPersist, calls' = calls PROVE FreshSecrets'
  BY <1>c DEF TypeOK, FreshSecrets, GoPersist, Proc
<1>d. ASSUME UNCHANGED <<pc, op, secret, calls>> PROVE FreshSecrets'
  BY <1>d DEF FreshSecrets
<1>1. CASE \E m \in Mode \ {"none"} : StartSession(m)
  BY <1>1, <1>d DEF StartSession, calling
<1>2. ASSUME NEW c \in Caller, NEW d \in Device,
             NEW t \in 0..MaxSessions, BeginPairing(c, d, t)
      PROVE  FreshSecrets'
  BY <1>2 DEF TypeOK, FreshSecrets, BeginPairing, Proc, Secret
<1>3. ASSUME NEW c \in Caller, NEW d \in Device, ForgetDevice(c, d)
      PROVE  FreshSecrets'
  BY <1>3 DEF TypeOK, FreshSecrets, ForgetDevice, Proc, Secret
<1>4. ASSUME NEW c \in Caller, Admit(c) PROVE FreshSecrets'
  BY <1>4, <1>a DEF Admit, Proc, Pcs
<1>5. ASSUME NEW c \in Caller, RefuseLimit(c) PROVE FreshSecrets'
  BY <1>5, <1>b DEF RefuseLimit, Proc
<1>6. ASSUME NEW c \in Caller, Insert(c) PROVE FreshSecrets'
  BY <1>6, <1>a DEF Insert, Proc, Pcs
<1>7. ASSUME NEW p \in Proc, TakeSnapshot(p) PROVE FreshSecrets'
  BY <1>7, <1>a DEF TakeSnapshot, Pcs
<1>8. ASSUME NEW p \in Proc, Truncate(p) PROVE FreshSecrets'
  BY <1>8, <1>a DEF Truncate, Pcs
<1>9. ASSUME NEW p \in Proc, WriteFile(p) \/ SaveFails(p) PROVE FreshSecrets'
  BY <1>9, <1>b DEF WriteFile, SaveFails
<1>10. CASE \E d \in Device : \/ \E s \in 1..MaxCalls : VerifyReconnect(d, s)
                              \/ ConnectDevice(d)
                              \/ MarkDeviceOffline(d)
  BY <1>10, <1>c DEF VerifyReconnect, ConnectDevice, MarkDeviceOffline
<1>11. CASE Restart
  BY <1>11 DEF Restart, LoadResults, LoadFile, FreshSecrets
<1>12. CASE UNCHANGED vars
  BY <1>12, <1>d DEF vars, calling
<1> QED
  BY <1>1, <1>2, <1>3, <1>4, <1>5, <1>6, <1>7, <1>8, <1>9, <1>10, <1>11,
     <1>12 DEF Next, PairStep, SaveStep

\* A secret that is current after a step was current before it, but for the
\* goroutine that has just inserted it.
LEMMA StaysCurrent ==
    ASSUME TypeOK, FreshSecrets, [Next]_vars, ~Restart,
           NEW p \in Proc, pc[p] \in {"snapshot", "save", "write"}, op[p] = "pair",
           id'[p] = id[p], secret'[p] = secret[p], Current(p)'
    PROVE  Current(p)
<1>1. CASE /\ DOMAIN devices' \subseteq DOMAIN devices
           /\ \A d \in DOMAIN devices' : devices'[d].secret = devices[d].secret
  BY <1>1 DEF Current
<1>2. ASSUME NEW c \in Caller, Insert(c),
             DOMAIN devices' = DOMAIN devices \cup {id[c]},
             devices'[id[c]].secret = secret[c],
             \A d \in DOMAIN devices \ {id[c]} : devices'[d] = devices[d]
      PROVE  Current(p)
  <2>1. c \in Proc /\ pc[c] = "insert" /\ op[c] = "pair"
    BY <1>2 DEF Insert, FreshSecrets, Proc
  <2>2. secret[c] # secret[p]
    BY <2>1 DEF FreshSecrets
  <2> QED
    BY <1>2, <2>2 DEF Current
<1> QED
  BY <1>1, <1>2, SecretsChange

LEMMA CarriesNext ==
    TypeOK /\ FreshSecrets /\ SnapshotCarriesSecret /\ [Next]_vars
        => SnapshotCarriesSecret'
<1> SUFFICES ASSUME TypeOK, FreshSecrets, SnapshotCarriesSecret, [Next]_vars,
                    NEW p \in Proc, op'[p] = "pair", pc'[p] \in {"save", "write"}, Current(p)'
             PROVE  id'[p] \in DOMAIN snap'[p] /\ snap'[p][id'[p]] = secret'[p]
  BY DEF SnapshotCarriesSecret
<1>1. ~Restart
  BY DEF Restart
\* p was on its way to the file before the step too, unless it takes its
\* snapshot in this step.
<1>2. \/ TakeSnapshot(p)
      \/ /\ pc[p] \in {"save", "write"} /\ op[p] = "pair"
         /\ id'[p] = id[p] /\ secret'[p] = secret[p] /\ snap'[p] = snap[p]
  <2>a. ASSUME NEW q \in Proc, Finish(q)
        PROVE  /\ pc[p] \in {"save", "write"} /\ op[p] = "pair"
               /\ id'[p] = id[p] /\ secret'[p] = secret[p] /\ snap'[p] = snap[p]
    BY <2>a, FinishLocals
  <2>b. ASSUME GoPersist
        PROVE  /\ pc[p] \in {"save", "write"} /\ op[p] = "pair"
               /\ id'[p] = id[p] /\ secret'[p] = secret[p] /\ snap'[p] = snap[p]
    BY <2>b, GoPersistLocals
  <2>c. CASE UNCHANGED vars \/ \E m \in Mode \ {"none"} : StartSession(m)
    BY <2>c DEF vars, calling, StartSession
  <2>d. ASSUME NEW c \in Caller, NEW d \in Device,
               \/ \E t \in 0..MaxSessions : BeginPairing(c, d, t)
               \/ ForgetDevice(c, d)
        PROVE  /\ pc[p] \in {"save", "write"} /\ op[p] = "pair"
               /\ id'[p] = id[p] /\ secret'[p] = secret[p] /\ snap'[p] = snap[p]
    BY <2>d DEF TypeOK, BeginPairing, ForgetDevice, Proc
  <2>e. ASSUME NEW c \in Caller, Admit(c) \/ Insert(c)
        PROVE  /\ pc[p] \in {"save", "write"} /\ op[p] = "pair"
               /\ id'[p] = id[p] /\ secret'[p] = secret[p] /\ snap'[p] = snap[p]
    BY <2>e DEF TypeOK, Admit, Insert, Proc
  <2>f. ASSUME NEW q \in Proc, TakeSnapshot(q), q # p
        PROVE  /\ pc[p] \in {"save", "write"} /\ op[p] = "pair"
               /\ id'[p] = id[p] /\ secret'[p] = secret[p] /\ snap'[p] = snap[p]
    BY <2>f DEF TypeOK, TakeSnapshot
  <2>g. ASSUME NEW q \in Proc, Truncate(q)
        PROVE  /\ pc[p] \in {"save", "write"} /\ op[p] = "pair"
               /\ id'[p] = id[p] /\ secret'[p] = secret[p] /\ snap'[p] = snap[p]
    BY <2>g DEF TypeOK, Truncate
  <2>h. \A c \in Caller : RefuseLimit(c) => c \in Proc /\ Finish(c)
    BY DEF RefuseLimit, Proc
  <2>i. \A q \in Proc : WriteFile(q) \/ SaveFails(q) => Finish(q)
    BY DEF WriteFile, SaveFails
  <2>j. \A d \in Device : \/ \E s \in 1..MaxCalls : VerifyReconnect(d, s)
                          \/ ConnectDevice(d)
                          \/ MarkDeviceOffline(d)
                          => GoPersist
    BY DEF VerifyReconnect, ConnectDevice, MarkDeviceOffline
  <2> QED
    BY <1>1, <2>a, <2>b, <2>c, <2>d, <2>e, <2>f, <2>g, <2>h, <2>i, <2>j
    DEF Next, PairStep, SaveStep
<1>3. CASE TakeSnapshot(p)
  <2>1. /\ snap'[p] = TrustOf(devices)
        /\ UNCHANGED <<devices, id, secret>>
    BY <1>3 DEF TypeOK, TakeSnapshot
  <2> QED
    BY <2>1 DEF Current, TrustOf
<1>4. CASE /\ pc[p] \in {"save", "write"} /\ op[p] = "pair"
           /\ id'[p] = id[p] /\ secret'[p] = secret[p] /\ snap'[p] = snap[p]
  BY <1>1, <1>4, StaysCurrent DEF SnapshotCarriesSecret
<1> QED
  BY <1>2, <1>3, <1>4

\* When VerifyPairing returns a secret that is still the device's secret, the
\* file holds it, whoever saved, forgot, paired or restarted in between
\* (service.go:245-259, store.go:54-66).
THEOREM DurableSuccess == Spec => SuccessIsDurable
<1>1. Init => TypeOK /\ FreshSecrets /\ SnapshotCarriesSecret
  BY InitType, FreshInit DEF Init, SnapshotCarriesSecret
<1>2. TypeOK /\ FreshSecrets /\ SnapshotCarriesSecret /\ [Next]_vars
        => (TypeOK /\ FreshSecrets /\ SnapshotCarriesSecret)'
  BY NextType, FreshNext, CarriesNext
<1>3. TypeOK /\ SnapshotCarriesSecret /\ [Next]_vars =>
        [\A d \in Device :
          granted'[d] # granted[d] /\ granted'[d] # NoSecret
              => d \in DOMAIN disk' /\ disk'[d] = granted'[d]]_vars
  <2> SUFFICES ASSUME TypeOK, SnapshotCarriesSecret, Next, NEW d \in Device,
                      granted'[d] # granted[d], granted'[d] # NoSecret
               PROVE  d \in DOMAIN disk' /\ disk'[d] = granted'[d]
    OBVIOUS
  <2>1. \E p \in Proc : WriteFile(p)
    <3>1. granted' # granted
      OBVIOUS
    <3>2. \A c \in Caller, x \in Device : ~ForgetDevice(c, x)
      BY DEF TypeOK, ForgetDevice
    <3>3. \A c \in Caller : ~Insert(c)
      BY DEF TypeOK, Insert
    <3>4. \A m \in Mode \ {"none"} : ~StartSession(m)
      BY <3>1 DEF StartSession, history
    <3>5. \A c \in Caller, x \in Device, t \in 0..MaxSessions : ~BeginPairing(c, x, t)
      BY <3>1 DEF BeginPairing, history
    <3>6. \A c \in Caller : ~Admit(c) /\ ~RefuseLimit(c)
      BY <3>1 DEF Admit, RefuseLimit, history
    <3>7. \A p \in Proc : ~TakeSnapshot(p) /\ ~Truncate(p) /\ ~SaveFails(p)
      BY <3>1 DEF TakeSnapshot, Truncate, SaveFails
    <3>8. \A x \in Device : /\ \A s \in 1..MaxCalls : ~VerifyReconnect(x, s)
                            /\ ~ConnectDevice(x) /\ ~MarkDeviceOffline(x)
      BY <3>1 DEF VerifyReconnect, ConnectDevice, MarkDeviceOffline, history
    <3>9. ~Restart
      BY <3>1 DEF Restart
    <3> QED
      BY <3>2, <3>3, <3>4, <3>5, <3>6, <3>7, <3>8, <3>9 DEF Next, PairStep, SaveStep
  <2>2. PICK p \in Proc : WriteFile(p)
    BY <2>1
  <2>3. /\ op[p] = "pair" /\ Current(p) /\ id[p] = d
        /\ granted'[d] = secret[p] /\ pc[p] = "write" /\ disk' = snap[p]
    BY <2>2 DEF TypeOK, WriteFile, Grant, Current
  <2> QED
    BY <2>3 DEF SnapshotCarriesSecret
<1> QED
  BY <1>1, <1>2, <1>3, PTL DEF Spec, SuccessIsDurable

------------------------------------------------------------------------------
\* The refinement of the abstract trust store.  What the three sections of
\* persist() do to the set of snapshots on their way:

LEMMA PendingKept ==
    ASSUME \A q \in Proc : pc'[q] \in {"save", "write"} <=> pc[q] \in {"save", "write"},
           snap' = snap
    PROVE  Pending' = Pending
BY DEF Pending

LEMMA PendingTaken ==
    ASSUME TypeOK, NEW p \in Proc, TakeSnapshot(p)
    PROVE  Pending' = Pending \cup {TrustOf(devices)}
BY DEF TypeOK, TakeSnapshot, Pending

LEMMA PendingDone ==
    ASSUME TypeOK, NEW p \in Proc, pc[p] \in {"save", "write"}, Finish(p)
    PROVE  /\ snap[p] \in Pending
           /\ Trust!Done(snap[p])
<1>1. snap[p] \in Pending
  BY DEF Pending
<1>2. \A q \in Proc : /\ pc'[q] \in {"save", "write"} <=> pc[q] \in {"save", "write"} /\ q # p
                      /\ q # p => snap'[q] = snap[q]
  BY FinishLocals
<1>3. CASE \E q \in Proc \ {p} : pc[q] \in {"save", "write"} /\ snap[q] = snap[p]
  <2>1. Pending' = Pending
    BY <1>2, <1>3 DEF Pending
  <2> QED
    BY <1>1, <2>1 DEF Trust!Done
<1>4. CASE ~\E q \in Proc \ {p} : pc[q] \in {"save", "write"} /\ snap[q] = snap[p]
  <2>1. Pending' = Pending \ {snap[p]}
    BY <1>2, <1>4 DEF Pending
  <2> QED
    BY <1>1, <2>1 DEF Trust!Done
<1> QED
  BY <1>3, <1>4

\* Steps that end a call without a snapshot leave the set alone too.
LEMMA PendingUnsaved ==
    ASSUME TypeOK, NEW p \in Proc, pc[p] \notin {"save", "write"}, Finish(p)
    PROVE  Pending' = Pending
<1>1. \A q \in Proc : /\ pc'[q] \in {"save", "write"} <=> pc[q] \in {"save", "write"}
                      /\ pc[q] \in {"save", "write"} => snap'[q] = snap[q]
  BY FinishLocals
<1> QED
  BY <1>1 DEF Pending

LEMMA PendingGoPersist ==
    ASSUME TypeOK, GoPersist
    PROVE  Pending' = Pending
<1>1. snap' = snap /\ \A q \in Proc : pc'[q] \in {"save", "write"} <=> pc[q] \in {"save", "write"}
  BY GoPersistLocals
<1> QED
  BY <1>1, PendingKept

------------------------------------------------------------------------------
\* Secrets that are drawn and not inserted are in no map yet, and those still to
\* be drawn are not either.
SecretsUnused ==
    /\ calls <= MaxCalls
    /\ \A p \in Proc : op[p] = "pair" => secret[p] \in 1..calls
    /\ \A p \in Proc : pc[p] \in {"lookup", "insert"} => Trust!Fresh(secret[p])
    /\ \A s \in Nat : s > calls => Trust!Fresh(s)

TrustInv == TypeOK /\ FreshSecrets /\ SnapshotCarriesSecret /\ SecretsUnused

\* The steps of the abstract store other than a pairing.
QuietStep ==
    \/ \E d \in Device : Trust!Forget(d)
    \/ Trust!Snapshot \/ Trust!Erase \/ Trust!Reload
    \/ \E m \in Pending : Trust!Write(m) \/ Trust!Fail(m)

LEMMA InsertRefines ==
    ASSUME TrustInv, NEW c \in Caller, Insert(c)
    PROVE  Trust!Pair(id[c], secret[c]) /\ id[c] \in Device /\ secret[c] \in 1..MaxCalls
<1>1. c \in Proc /\ pc[c] = "insert" /\ id[c] \in Device
  BY DEF TrustInv, TypeOK, Insert, Proc
<1>2. secret[c] \in 1..MaxCalls /\ Trust!Fresh(secret[c])
  BY <1>1, BoundAssumption DEF TrustInv, TypeOK, FreshSecrets, SecretsUnused
<1>3. TrustOf(devices') = [x \in DOMAIN TrustOf(devices) \cup {id[c]} |->
                             IF x = id[c] THEN secret[c] ELSE TrustOf(devices)[x]]
  <2> DEFINE v == [secret |-> secret[c], status |-> "connected"]
  <2>1. v.secret = secret[c]
    OBVIOUS
  <2>2. devices' = Put(devices, id[c], v)
    BY DEF Insert
  <2> HIDE DEF v
  <2> QED
    BY <2>1, <2>2 DEF Put, TrustOf
<1>4. Pending' = Pending
  <2>1. snap' = snap /\ pc' = [pc EXCEPT ![c] = "snapshot"]
    BY DEF Insert
  <2> QED
    BY <1>1, <2>1, PendingKept DEF TrustInv, TypeOK
<1> QED
  BY <1>1, <1>2, <1>3, <1>4 DEF Insert, Trust!Pair, NoSecret

\* Every step is a pairing, another step of the abstract store or none.
LEMMA StepRefines ==
    ASSUME TrustInv, [Next]_vars
    PROVE  \/ \E c \in Caller : Insert(c)
           \/ QuietStep
           \/ UNCHANGED Trust!vars
<1> USE DEF TrustInv
<1>1. CASE \E m \in Mode \ {"none"} : StartSession(m)
  <2>1. UNCHANGED <<devices, granted, disk>> /\ UNCHANGED <<pc, snap>>
    BY <1>1 DEF StartSession, calling, history
  <2> QED
    BY <2>1, PendingKept DEF Trust!vars, TrustOf
<1>2. ASSUME NEW c \in Caller, NEW d \in Device,
             NEW t \in 0..MaxSessions, BeginPairing(c, d, t)
      PROVE  UNCHANGED Trust!vars
  <2>1. UNCHANGED <<devices, granted, disk, snap>>
    BY <1>2 DEF BeginPairing, history
  <2>2. \A q \in Proc : pc'[q] \in {"save", "write"} <=> pc[q] \in {"save", "write"}
    BY <1>2 DEF BeginPairing, TypeOK, Proc
  <2> QED
    BY <2>1, <2>2, PendingKept DEF Trust!vars, TrustOf
<1>3. ASSUME NEW c \in Caller, NEW d \in Device, ForgetDevice(c, d)
      PROVE  Trust!Forget(d)
  <2>1. \A q \in Proc : pc'[q] \in {"save", "write"} <=> pc[q] \in {"save", "write"}
    BY <1>3 DEF ForgetDevice, TypeOK, Proc
  <2>2. Pending' = Pending
    BY <1>3, <2>1, PendingKept DEF ForgetDevice
  <2>3. TrustOf(devices') = [x \in DOMAIN TrustOf(devices) \ {d} |-> TrustOf(devices)[x]]
    BY <1>3 DEF ForgetDevice, Delete, TrustOf
  <2> QED
    BY <1>3, <2>2, <2>3 DEF ForgetDevice, Trust!Forget, NoSecret
<1>4. ASSUME NEW c \in Caller, Admit(c) PROVE UNCHANGED Trust!vars
  <2>1. UNCHANGED <<devices, granted, disk, snap>>
    BY <1>4 DEF Admit, history
  <2>2. \A q \in Proc : pc'[q] \in {"save", "write"} <=> pc[q] \in {"save", "write"}
    BY <1>4 DEF Admit, TypeOK, Proc
  <2> QED
    BY <2>1, <2>2, PendingKept DEF Trust!vars, TrustOf
<1>5. ASSUME NEW c \in Caller, RefuseLimit(c) PROVE UNCHANGED Trust!vars
  <2>1. c \in Proc /\ pc[c] = "lookup" /\ Finish(c) /\ UNCHANGED <<devices, granted, disk>>
    BY <1>5 DEF RefuseLimit, Finish, Proc
  <2> QED
    BY <2>1, PendingUnsaved DEF Trust!vars, TrustOf
<1>6. ASSUME NEW p \in Proc, TakeSnapshot(p) PROVE Trust!Snapshot
  <2>1. UNCHANGED <<devices, granted, disk>>
    BY <1>6 DEF TakeSnapshot
  <2> QED
    BY <1>6, <2>1, PendingTaken DEF Trust!Snapshot, TrustOf
<1>7. ASSUME NEW p \in Proc, Truncate(p) PROVE Trust!Erase
  <2>1. UNCHANGED <<devices, granted, snap>> /\ disk' = NoTrust /\ pc[p] = "save"
    BY <1>7 DEF Truncate
  <2>2. \A q \in Proc : pc'[q] \in {"save", "write"} <=> pc[q] \in {"save", "write"}
    BY <1>7 DEF Truncate, TypeOK
  <2>3. Pending # {}
    BY <2>1 DEF Pending
  <2> QED
    BY <2>1, <2>2, <2>3, PendingKept DEF Trust!Erase, Trust!Nobody, NoTrust, TrustOf
<1>8. ASSUME NEW p \in Proc, WriteFile(p) PROVE Trust!Write(snap[p])
  <2>1. /\ pc[p] = "write" /\ Finish(p) /\ disk' = snap[p]
        /\ devices' = devices
    BY <1>8 DEF WriteFile, Finish
  <2>2. /\ snap[p] \in Pending /\ Trust!Done(snap[p])
    BY <2>1, PendingDone
  <2>3. \/ granted' = granted
        \/ \E d \in DOMAIN snap[p] \cap DOMAIN TrustOf(devices) :
              /\ snap[p][d] = TrustOf(devices)[d]
              /\ granted' = [granted EXCEPT ![d] = snap[p][d]]
    <3> SUFFICES ASSUME granted' # granted
                 PROVE  \E d \in DOMAIN snap[p] \cap DOMAIN TrustOf(devices) :
                          /\ snap[p][d] = TrustOf(devices)[d]
                          /\ granted' = [granted EXCEPT ![d] = snap[p][d]]
      OBVIOUS
    <3>1. /\ op[p] = "pair" /\ Current(p)
          /\ granted' = [granted EXCEPT ![id[p]] = secret[p]]
      BY <1>8 DEF WriteFile, Grant, Current
    <3>2. id[p] \in DOMAIN snap[p] /\ snap[p][id[p]] = secret[p]
      BY <2>1, <3>1 DEF SnapshotCarriesSecret
    <3> QED
      BY <3>1, <3>2 DEF Current, TrustOf
  <2> QED
    BY <2>1, <2>2, <2>3 DEF Trust!Write, TrustOf
<1>9. ASSUME NEW p \in Proc, SaveFails(p) PROVE Trust!Fail(snap[p])
  <2>1. pc[p] \in {"save", "write"} /\ Finish(p) /\ UNCHANGED <<devices, granted, disk>>
    BY <1>9 DEF SaveFails, Finish
  <2> QED
    BY <2>1, PendingDone DEF Trust!Fail, TrustOf
<1>10. CASE \E d \in Device : \/ \E s \in 1..MaxCalls : VerifyReconnect(d, s)
                              \/ ConnectDevice(d)
                              \/ MarkDeviceOffline(d)
  <2>1. /\ \E d \in DOMAIN devices, st \in Status : SetStatus(d, st)
        /\ GoPersist
        /\ UNCHANGED <<granted, disk>>
    BY <1>10 DEF VerifyReconnect, ConnectDevice, MarkDeviceOffline, history, Status
  <2>2. TrustOf(devices') = TrustOf(devices)
    BY <2>1, SetStatusKeepsTrust DEF TypeOK
  <2> QED
    BY <2>1, <2>2, PendingGoPersist DEF Trust!vars
<1>11. CASE Restart
  <2>1. TrustOf(devices') \in {disk, Trust!Nobody} /\ UNCHANGED <<granted, disk>>
    <3>1. PICK found \in {disk, NoTrust} : LoadFile(found)
      BY <1>11 DEF Restart, LoadResults
    <3>2. TrustOf(Loaded(found)) = found
      BY <3>1, LoadedTrust, NoTrustIsMap DEF TypeOK
    <3> QED
      BY <1>11, <3>1, <3>2 DEF Restart, LoadFile, NoTrust, Trust!Nobody
  <2>2. Pending' = {}
    BY <1>11 DEF Restart, Pending
  <2> QED
    BY <2>1, <2>2 DEF Trust!Reload, QuietStep
<1>12. CASE UNCHANGED vars
  BY <1>12, PendingKept DEF vars, calling, history, Trust!vars, TrustOf
<1>13. \A p \in Proc : WriteFile(p) \/ SaveFails(p) => snap[p] \in Pending
  BY PendingDone DEF WriteFile, SaveFails
<1> QED
  BY <1>1, <1>2, <1>3, <1>4, <1>5, <1>6, <1>7, <1>8, <1>9, <1>10, <1>11, <1>12, <1>13
  DEF Next, PairStep, SaveStep, QuietStep

\* A secret nobody uses stays so until it is paired.
LEMMA FreshKept ==
    ASSUME TypeOK, QuietStep \/ UNCHANGED Trust!vars,
           NEW s \in Nat \ {NoSecret}, Trust!Fresh(s)
    PROVE  Trust!Fresh(s)'
<1> USE DEF Trust!Fresh, Trust!Holds
<1>1. ASSUME NEW d \in Device, Trust!Forget(d) PROVE Trust!Fresh(s)'
  BY <1>1 DEF Trust!Forget, TypeOK
<1>2. CASE Trust!Snapshot
  BY <1>2 DEF Trust!Snapshot
<1>3. CASE Trust!Erase
  BY <1>3 DEF Trust!Erase, Trust!Nobody
<1>4. CASE Trust!Reload
  BY <1>4 DEF Trust!Reload, Trust!Nobody
<1>5. ASSUME NEW m \in Pending, Trust!Write(m) PROVE Trust!Fresh(s)'
  BY <1>5 DEF Trust!Write, Trust!Done, TypeOK
<1>6. ASSUME NEW m \in Pending, Trust!Fail(m) PROVE Trust!Fresh(s)'
  BY <1>6 DEF Trust!Fail, Trust!Done
<1>7. CASE UNCHANGED Trust!vars
  BY <1>7 DEF Trust!vars
<1> QED
  BY <1>1, <1>2, <1>3, <1>4, <1>5, <1>6, <1>7 DEF QuietStep

\* A pairing uses one secret.
LEMMA PairUses ==
    ASSUME TypeOK, NEW d \in Device, NEW t \in Nat, Trust!Pair(d, t),
           NEW s \in Nat \ {NoSecret, t}, Trust!Fresh(s)
    PROVE  Trust!Fresh(s)'
BY DEF Trust!Pair, Trust!Fresh, Trust!Holds, TypeOK

\* A call keeps the secret it drew, and draws the next number.
LEMMA DrawnNext ==
    ASSUME TrustInv, [Next]_vars
    PROVE  /\ calls' \in calls..MaxCalls
           /\ \A p \in Proc : op'[p] = "pair" => secret'[p] \in 1..calls'
           /\ \A p \in Proc : pc'[p] \in {"lookup", "insert"} =>
                 \/ pc[p] \in {"lookup", "insert"} /\ secret'[p] = secret[p]
                 \/ secret'[p] = calls + 1
<1> DEFINE Goal ==
           /\ calls' \in calls..MaxCalls
           /\ \A p \in Proc : op'[p] = "pair" => secret'[p] \in 1..calls'
           /\ \A p \in Proc : pc'[p] \in {"lookup", "insert"} =>
                 \/ pc[p] \in {"lookup", "insert"} /\ secret'[p] = secret[p]
                 \/ secret'[p] = calls + 1
<1> USE DEF TrustInv, SecretsUnused
<1>0. calls \in Nat /\ calls <= MaxCalls /\ MaxCalls \in Nat
  BY BoundAssumption DEF TypeOK
<1>a. ASSUME UNCHANGED <<op, secret, calls>>,
             \A p \in Proc : pc'[p] \in {"lookup", "insert"} => pc[p] \in {"lookup", "insert"}
      PROVE  Goal
  BY <1>0, <1>a
<1>b. ASSUME NEW p \in Proc, Finish(p) PROVE Goal
  BY <1>0, <1>b, FinishLocals
<1>c. ASSUME GoPersist, calls' = calls PROVE Goal
  BY <1>a, <1>c, GoPersistLocals
<1>1. CASE \E m \in Mode \ {"none"} : StartSession(m)
  BY <1>1, <1>a DEF StartSession, calling
<1>2. ASSUME NEW c \in Caller, NEW d \in Device,
             NEW t \in 0..MaxSessions, BeginPairing(c, d, t)
      PROVE  Goal
  BY <1>0, <1>2 DEF TypeOK, BeginPairing, Proc
<1>3. ASSUME NEW c \in Caller, NEW d \in Device, ForgetDevice(c, d)
      PROVE  Goal
  BY <1>0, <1>3 DEF TypeOK, ForgetDevice, Proc
<1>4. ASSUME NEW c \in Caller, Admit(c) \/ Insert(c) PROVE Goal
  BY <1>4, <1>a DEF Admit, Insert, Proc, TypeOK
<1>5. ASSUME NEW c \in Caller, RefuseLimit(c) PROVE Goal
  BY <1>5, <1>b DEF RefuseLimit, Proc
<1>6. ASSUME NEW p \in Proc, TakeSnapshot(p) \/ Truncate(p) PROVE Goal
  BY <1>6, <1>a DEF TakeSnapshot, Truncate, TypeOK
<1>7. ASSUME NEW p \in Proc, WriteFile(p) \/ SaveFails(p) PROVE Goal
  BY <1>7, <1>b DEF WriteFile, SaveFails
<1>8. CASE \E d \in Device : \/ \E s \in 1..MaxCalls : VerifyReconnect(d, s)
                             \/ ConnectDevice(d)
                             \/ MarkDeviceOffline(d)
  BY <1>8, <1>c DEF VerifyReconnect, ConnectDevice, MarkDeviceOffline
<1>9. CASE Restart
  BY <1>0, <1>9 DEF Restart
<1>10. CASE UNCHANGED vars
  BY <1>10, <1>a DEF vars, calling
<1> HIDE DEF Goal
<1> QED
  BY <1>1, <1>2, <1>3, <1>4, <1>5, <1>6, <1>7, <1>8, <1>9, <1>10
  DEF Next, PairStep, SaveStep, Goal

LEMMA TrustInit == Init => TrustInv /\ Trust!Init
<1> SUFFICES ASSUME Init PROVE TrustInv /\ Trust!Init
  OBVIOUS
<1>1. TypeOK /\ FreshSecrets /\ SnapshotCarriesSecret
  BY InitType, FreshInit DEF Init, SnapshotCarriesSecret
<1>2. Pending = {}
  BY DEF Init, Pending
<1>3. TrustOf(devices) = NoTrust
  BY NoTrustIsMap, LoadedTrust DEF Init
<1>4. Trust!Init
  BY <1>2, <1>3 DEF Init, Trust!Init, Trust!Nobody, NoTrust, NoSecret
<1>5. \A s \in Nat : s > 0 => Trust!Fresh(s)
  BY <1>4 DEF Trust!Init, Trust!Nobody, Trust!Fresh, Trust!Holds, NoSecret
<1>6. SecretsUnused
  BY <1>5, BoundAssumption DEF Init, SecretsUnused
<1> QED
  BY <1>1, <1>4, <1>6 DEF TrustInv

LEMMA UnusedNext == TrustInv /\ [Next]_vars => SecretsUnused'
<1> SUFFICES ASSUME TrustInv, [Next]_vars PROVE SecretsUnused'
  OBVIOUS
<1>0. TypeOK /\ TypeOK' /\ calls \in Nat /\ calls' \in Nat
  BY NextType DEF TrustInv, TypeOK
\* What is fresh and not inserted by this step stays fresh.
<1>1. ASSUME NEW s \in Nat \ {NoSecret}, Trust!Fresh(s),
             \A c \in Caller : Insert(c) => secret[c] # s
      PROVE  Trust!Fresh(s)'
  <2>1. CASE \E c \in Caller : Insert(c)
    <3>1. PICK c \in Caller : Insert(c)
      BY <2>1
    <3>2. Trust!Pair(id[c], secret[c]) /\ id[c] \in Device /\ secret[c] \in Nat
      BY <3>1, InsertRefines, BoundAssumption
    <3> QED
      BY <1>0, <1>1, <3>1, <3>2, PairUses
  <2>2. CASE QuietStep \/ UNCHANGED Trust!vars
    BY <1>0, <1>1, <2>2, FreshKept
  <2> QED
    BY <2>1, <2>2, StepRefines
<1>2. \A c \in Caller : Insert(c) =>
         c \in Proc /\ op[c] = "pair" /\ secret[c] \in 1..calls /\ pc'[c] = "snapshot"
  BY <1>0 DEF TrustInv, TypeOK, FreshSecrets, SecretsUnused, Insert, Proc
<1>3. ASSUME NEW s \in Nat, s > calls' PROVE Trust!Fresh(s)'
  <2>1. s > calls
    BY <1>0, <1>3, DrawnNext
  <2> QED
    BY <1>0, <1>1, <1>2, <2>1 DEF TrustInv, SecretsUnused, NoSecret
<1>4. ASSUME NEW p \in Proc, pc'[p] \in {"lookup", "insert"},
             NEW s \in Nat, s = secret'[p]
      PROVE  Trust!Fresh(s)'
  <2>1. CASE s = calls + 1
    BY <1>0, <1>1, <1>2, <2>1 DEF TrustInv, SecretsUnused, NoSecret
  <2>2. CASE pc[p] \in {"lookup", "insert"} /\ s = secret[p]
    <3>1. op[p] = "pair" /\ secret[p] \in 1..calls /\ Trust!Fresh(s)
      BY <2>2 DEF TrustInv, FreshSecrets, SecretsUnused
    <3>2. \A c \in Caller : Insert(c) => secret[c] # s
      BY <1>2, <1>4, <2>2, <3>1 DEF TrustInv, FreshSecrets
    <3> QED
      BY <1>0, <1>1, <2>2, <3>1, <3>2 DEF NoSecret
  <2> QED
    BY <1>4, <2>1, <2>2, DrawnNext
<1>5. ASSUME NEW p \in Proc, pc'[p] \in {"lookup", "insert"}
      PROVE  Trust!Fresh(secret[p])'
  <2>1. secret'[p] \in Nat
    BY <1>0 DEF TypeOK, Secret
  <2> QED
    BY <1>4, <1>5, <2>1 DEF Trust!Fresh, Trust!Holds
<1> QED
  BY <1>0, <1>3, <1>5, DrawnNext DEF SecretsUnused

\* The trust store of the desktop implements the abstract one, for every number
\* of goroutines, devices and calls and every set of faults (service.go:202-351,
\* store.go:27-66).
THEOREM TrustRefinement == Spec => ImplementsTrustStore
<1>1. Init => TrustInv /\ Trust!Init
  BY TrustInit
<1>2. TrustInv /\ [Next]_vars => TrustInv'
  BY NextType, FreshNext, CarriesNext, UnusedNext DEF TrustInv
<1>3. TrustInv /\ [Next]_vars => [Trust!Next]_(Trust!vars)
  BY InsertRefines, StepRefines DEF QuietStep, Trust!Next
<1> QED
  BY <1>1, <1>2, <1>3, PTL DEF Spec, ImplementsTrustStore, Trust!Spec
===============================================================================
