---------------------------- MODULE PairingProofs ----------------------------
(***************************************************************************)
(* Proofs about Pairing for every number of devices, callers and savers,   *)
(* every cap and every set of faults.                                      *)
(***************************************************************************)
EXTENDS Pairing, FiniteSetTheorems, TLAPS

\* What persist() copies of the map has the map's keys.
LEMMA TrustOfIsMap ==
    ASSUME NEW devs, IsMap(devs, Device, Trusted)
    PROVE  /\ IsMap(TrustOf(devs), Device, Secret)
           /\ DOMAIN TrustOf(devs) = DOMAIN devs
BY DEF IsMap, TrustOf, Trusted, Secret

\* load() trusts exactly the devices of the file.
LEMMA LoadedIsMap ==
    ASSUME NEW file, IsMap(file, Device, Secret)
    PROVE  /\ IsMap(Loaded(file), Device, Trusted)
           /\ DOMAIN Loaded(file) = DOMAIN file
BY DEF IsMap, Loaded, Trusted, Status

\* An insertion adds one key.
LEMMA PutIsMap ==
    ASSUME NEW devs, IsMap(devs, Device, Trusted),
           NEW d \in Device, NEW v \in Trusted
    PROVE  /\ IsMap(Put(devs, d, v), Device, Trusted)
           /\ DOMAIN Put(devs, d, v) = DOMAIN devs \cup {d}
BY DEF IsMap, Put

\* A deletion removes at most one key.
LEMMA DeleteIsMap ==
    ASSUME NEW devs, IsMap(devs, Device, Trusted), NEW d
    PROVE  /\ IsMap(Delete(devs, d), Device, Trusted)
           /\ DOMAIN Delete(devs, d) = DOMAIN devs \ {d}
BY DEF IsMap, Delete

\* The empty file is a map without keys.
LEMMA NoTrustIsMap == IsMap(NoTrust, Device, Secret) /\ DOMAIN NoTrust = {}
BY DEF IsMap, NoTrust, Secret, NoSecret

\* A status update keeps the keys and the type of the map.
LEMMA SetStatusKeepsMap ==
    ASSUME IsMap(devices, Device, Trusted), NEW d \in DOMAIN devices,
           NEW st \in Status, SetStatus(d, st)
    PROVE  /\ IsMap(devices', Device, Trusted)
           /\ DOMAIN devices' = DOMAIN devices
BY DEF SetStatus, IsMap, Trusted

------------------------------------------------------------------------------
\* A returning goroutine keeps the types of its locals.
LEMMA FinishType ==
    ASSUME TypeOK, NEW p \in Proc, Finish(p)
    PROVE  /\ pc' \in [Proc -> Pcs]
           /\ \A s \in Saver : pc'[s] \notin {"lookup", "insert"}
           /\ op' \in [Proc -> {"none", "pair", "forget"}]
           /\ id' \in [Proc -> Device \cup {NoDevice}]
           /\ \A c \in Caller : pc'[c] \in {"lookup", "insert"} => id'[c] \in Device
           /\ secret' \in [Proc -> Secret]
           /\ DOMAIN snap' = Proc
           /\ \A q \in Proc : IsMap(snap'[q], Device, Secret)
           /\ UNCHANGED <<devices, session, sessions, calls, newest, unclean>>
BY NoTrustIsMap DEF TypeOK, Finish, Pcs, Proc, Secret, NoSecret

LEMMA GoPersistType ==
    ASSUME TypeOK, GoPersist
    PROVE  /\ pc' \in [Proc -> Pcs]
           /\ \A s \in Saver : pc'[s] \notin {"lookup", "insert"}
           /\ \A c \in Caller : pc'[c] = pc[c]
           /\ UNCHANGED <<op, id, secret, snap>>
BY ProcAssumption DEF TypeOK, GoPersist, Pcs, Proc

LEMMA InitType == Init => TypeOK
<1> SUFFICES ASSUME Init PROVE TypeOK
  OBVIOUS
<1>1. IsMap(devices, Device, Trusted)
  BY NoTrustIsMap, LoadedIsMap DEF Init
<1> QED
  BY <1>1, NoTrustIsMap
  DEF Init, TypeOK, Pcs, Proc, NoSession, Mode, NoToken, Secret, NoSecret

\* One step per action of Next.
LEMMA NextType == TypeOK /\ [Next]_vars => TypeOK'
<1> SUFFICES ASSUME TypeOK, [Next]_vars PROVE TypeOK'
  OBVIOUS
<1> USE ProcAssumption, BoundAssumption
<1>1. CASE \E m \in Mode \ {"none"} : StartSession(m)
  BY <1>1 DEF TypeOK, StartSession, calling, history, Mode, NoToken, Proc
<1>2. ASSUME NEW c \in Caller, NEW d \in Device,
             NEW t \in 0..MaxSessions, BeginPairing(c, d, t)
      PROVE  TypeOK'
  BY <1>2 DEF TypeOK, BeginPairing, history, Pcs, Proc, Secret
<1>3. ASSUME NEW c \in Caller, NEW d \in Device, ForgetDevice(c, d)
      PROVE  TypeOK'
  <2>1. IsMap(devices', Device, Trusted)
    BY <1>3, DeleteIsMap DEF TypeOK, ForgetDevice
  <2> QED
    BY <1>3, <2>1 DEF TypeOK, ForgetDevice, Pcs, Proc, Secret, NoSecret
<1>4. ASSUME NEW c \in Caller, Admit(c) PROVE TypeOK'
  BY <1>4 DEF TypeOK, Admit, history, Pcs, Proc
<1>5. ASSUME NEW c \in Caller, RefuseLimit(c) PROVE TypeOK'
  <2>1. c \in Proc /\ Finish(c) /\ UNCHANGED <<disk, newestAt, granted>>
    BY <1>5 DEF RefuseLimit, Proc
  <2> QED
    BY <2>1, FinishType DEF TypeOK
<1>6. ASSUME NEW c \in Caller, Insert(c) PROVE TypeOK'
  <2>1. id[c] \in Device /\ secret[c] \in Secret
    BY <1>6 DEF TypeOK, Insert, Proc
  <2>2. IsMap(devices', Device, Trusted)
    BY <1>6, <2>1, PutIsMap DEF TypeOK, Insert, Trusted, Status
  <2> QED
    BY <1>6, <2>1, <2>2 DEF TypeOK, Insert, Pcs, Proc, Secret, NoSecret
<1>7. ASSUME NEW p \in Proc, TakeSnapshot(p) PROVE TypeOK'
  <2>1. IsMap(TrustOf(devices), Device, Secret)
    BY TrustOfIsMap DEF TypeOK
  <2> QED
    BY <1>7, <2>1 DEF TypeOK, TakeSnapshot, Pcs, Proc
<1>8. ASSUME NEW p \in Proc, Truncate(p) PROVE TypeOK'
  BY <1>8, NoTrustIsMap DEF TypeOK, Truncate, Pcs, Proc
<1>9. ASSUME NEW p \in Proc, WriteFile(p) PROVE TypeOK'
  <2>1. Finish(p) /\ IsMap(disk', Device, Secret)
    BY <1>9 DEF TypeOK, WriteFile
  <2>2. newestAt' \in Proc \cup {"disk", "lost"}
    BY <1>9 DEF TypeOK, WriteFile
  <2>3. granted' \in [Device -> Secret]
    BY <1>9 DEF TypeOK, WriteFile, Grant
  <2> QED
    BY <2>1, <2>2, <2>3, FinishType DEF TypeOK
<1>10. ASSUME NEW p \in Proc, SaveFails(p) PROVE TypeOK'
  <2>1. Finish(p) /\ UNCHANGED <<disk, granted>>
    BY <1>10 DEF SaveFails
  <2>2. newestAt' \in Proc \cup {"disk", "lost"}
    BY <1>10 DEF TypeOK, SaveFails
  <2> QED
    BY <2>1, <2>2, FinishType DEF TypeOK
<1>11. ASSUME NEW d \in Device, NEW s \in 1..MaxCalls, VerifyReconnect(d, s)
       PROVE  TypeOK'
  <2>1. IsMap(devices', Device, Trusted)
    BY <1>11, SetStatusKeepsMap DEF TypeOK, VerifyReconnect, Status
  <2> QED
    BY <1>11, <2>1, GoPersistType DEF TypeOK, VerifyReconnect, history
<1>12. ASSUME NEW d \in Device, ConnectDevice(d) PROVE TypeOK'
  <2>1. IsMap(devices', Device, Trusted)
    BY <1>12, SetStatusKeepsMap DEF TypeOK, ConnectDevice, Status
  <2> QED
    BY <1>12, <2>1, GoPersistType DEF TypeOK, ConnectDevice, history
<1>13. ASSUME NEW d \in Device, MarkDeviceOffline(d) PROVE TypeOK'
  <2>1. IsMap(devices', Device, Trusted)
    BY <1>13, SetStatusKeepsMap DEF TypeOK, MarkDeviceOffline, Status
  <2> QED
    BY <1>13, <2>1, GoPersistType DEF TypeOK, MarkDeviceOffline, history
<1>14. CASE Restart
  <2>1. PICK found \in {disk, NoTrust} : LoadFile(found)
    BY <1>14 DEF Restart, LoadResults
  <2>2. IsMap(found, Device, Secret)
    BY <2>1, NoTrustIsMap DEF TypeOK
  <2>3. IsMap(devices', Device, Trusted)
    BY <2>1, <2>2, LoadedIsMap DEF LoadFile
  <2> QED
    BY <1>14, <2>1, <2>2, <2>3, NoTrustIsMap
    DEF TypeOK, Restart, LoadFile, NoSession, Mode, NoToken, Pcs, Proc, Secret, NoSecret
<1>15. CASE UNCHANGED vars
  BY <1>15 DEF TypeOK, vars, calling, history
<1> QED
  BY <1>1, <1>2, <1>3, <1>4, <1>5, <1>6, <1>7, <1>8, <1>9, <1>10, <1>11,
     <1>12, <1>13, <1>14, <1>15 DEF Next, PairStep, SaveStep

\* Every state of the trust store has its type, whatever the number of
\* devices, goroutines and restarts (service.go, store.go).
THEOREM TypeCorrect == Spec => []TypeOK
<1>1. Init => TypeOK
  BY InitType
<1>2. TypeOK /\ [Next]_vars => TypeOK'
  BY NextType
<1> QED
  BY <1>1, <1>2, PTL DEF Spec

------------------------------------------------------------------------------
\* The overshoot bound.  Cardinality says something of finite sets only, so
\* the inductive invariant carries finiteness along.
Bounded(S) == IsFiniteSet(S) /\ Cardinality(S) <= Capacity

OvershootInv ==
    /\ Bounded(DOMAIN devices \cup Admitted)
    /\ \A p \in Proc : Bounded(DOMAIN snap[p])
    /\ Bounded(DOMAIN disk)

\* A part of a bounded set is bounded, and so is the empty set.
LEMMA BoundedSubset ==
    ASSUME NEW S, Bounded(S), NEW T \in SUBSET S
    PROVE  Bounded(T)
<1>1. Capacity \in Int
  BY ProcAssumption, BoundAssumption, FS_CardinalityType DEF Capacity
<1>2. IsFiniteSet(T) /\ Cardinality(T) <= Cardinality(S)
  BY FS_Subset DEF Bounded
<1>3. Cardinality(S) \in Nat /\ Cardinality(T) \in Nat
  BY <1>2, FS_CardinalityType DEF Bounded
<1> QED
  BY <1>1, <1>2, <1>3 DEF Bounded

LEMMA BoundedEmpty == Bounded({})
<1>1. Cardinality(Caller) \in Nat /\ Cardinality(Caller) # 0
  BY ProcAssumption, FS_CardinalityType, FS_EmptySet
<1> QED
  BY <1>1, FS_EmptySet, BoundAssumption DEF Bounded, Capacity

\* Each caller holds at most one admitted device.
LEMMA AdmittedFinite ==
    ASSUME NEW f, NEW K \in SUBSET Caller
    PROVE  LET A == {f[c] : c \in K}
           IN  IsFiniteSet(A) /\ Cardinality(A) <= Cardinality(Caller)
<1> DEFINE A == {f[c] : c \in K}
<1> DEFINE g == [c \in K |-> f[c]]
<1>1. IsFiniteSet(K) /\ Cardinality(K) <= Cardinality(Caller)
  BY ProcAssumption, FS_Subset
<1>2. g \in Surjection(K, A)
  BY DEF Surjection
<1> HIDE DEF A, g
<1>3. IsFiniteSet(A) /\ Cardinality(A) <= Cardinality(K)
  BY <1>1, <1>2, FS_Surjection
<1>4. Cardinality(A) \in Nat /\ Cardinality(K) \in Nat /\ Cardinality(Caller) \in Nat
  BY <1>1, <1>3, ProcAssumption, FS_CardinalityType
<1>5. Cardinality(A) <= Cardinality(Caller)
  BY <1>1, <1>3, <1>4
<1> QED
  BY <1>3, <1>5 DEF A

\* The heart of the bound: a caller that saw fewer than MaxDevices devices may
\* be let through beside every other caller, and no further.
LEMMA AdmitBounded ==
    ASSUME TypeOK, OvershootInv, NEW c \in Caller, Admit(c)
    PROVE  Bounded(DOMAIN devices \cup Admitted')
<1>1. id' = id
  BY DEF Admit
<1>2. CASE id[c] \in DOMAIN devices
  <2>1. {k \in Caller : pc'[k] = "insert"} \subseteq {k \in Caller : pc[k] = "insert"} \cup {c}
    BY DEF Admit, TypeOK
  <2>2. DOMAIN devices \cup Admitted' \subseteq DOMAIN devices \cup Admitted
    BY <1>1, <1>2, <2>1 DEF Admitted
  <2> QED
    BY <2>2, BoundedSubset DEF OvershootInv
<1>3. CASE Cardinality(DOMAIN devices) < MaxDevices
  <2> DEFINE D == DOMAIN devices
  <2> DEFINE K == {k \in Caller : pc'[k] = "insert"}
  <2> DEFINE A == {id'[k] : k \in K}
  <2>1. IsFiniteSet(D)
    BY FS_Subset DEF OvershootInv, Bounded
  <2>2. IsFiniteSet(A) /\ Cardinality(A) <= Cardinality(Caller)
    <3>1. K \in SUBSET Caller
      OBVIOUS
    <3> HIDE DEF K
    <3> QED
      BY <3>1, AdmittedFinite
  <2>3. A = Admitted'
    BY DEF Admitted
  <2> HIDE DEF A, D
  <2>4. /\ IsFiniteSet(D \cup A)
        /\ Cardinality(D \cup A) = Cardinality(D) + Cardinality(A) - Cardinality(D \cap A)
    BY <2>1, <2>2, FS_Union
  <2>5. IsFiniteSet(D \cap A)
    BY <2>1, FS_Intersection
  <2>6. /\ Cardinality(D) \in Nat
        /\ Cardinality(A) \in Nat
        /\ Cardinality(D \cap A) \in Nat
        /\ Cardinality(Caller) \in Nat
    BY <2>1, <2>2, <2>5, ProcAssumption, FS_CardinalityType
  <2>7. Cardinality(D) < MaxDevices
    BY <1>3 DEF D
  <2>8. Cardinality(D \cup A) <= MaxDevices + Cardinality(Caller) - 1
    BY <2>2, <2>4, <2>6, <2>7, BoundAssumption
  <2> QED
    BY <2>3, <2>4, <2>8 DEF Bounded, Capacity, D
<1> QED
  BY <1>2, <1>3 DEF Admit, UnderLimit

\* A step after which the map and the admitted devices together name no new
\* device keeps them bounded.
LEMMA ShrinkBounded ==
    ASSUME OvershootInv,
           DOMAIN devices' \cup Admitted' \subseteq DOMAIN devices \cup Admitted
    PROVE  Bounded(DOMAIN devices' \cup Admitted')
BY BoundedSubset DEF OvershootInv

LEMMA OvershootInit == Init => OvershootInv
<1> SUFFICES ASSUME Init PROVE OvershootInv
  OBVIOUS
<1>1. DOMAIN devices = {} /\ DOMAIN disk = {}
  BY NoTrustIsMap, LoadedIsMap DEF Init
<1>2. Admitted = {}
  BY DEF Init, Admitted, Proc
<1>3. \A p \in Proc : DOMAIN snap[p] = {}
  BY NoTrustIsMap DEF Init
<1> QED
  BY <1>1, <1>2, <1>3, BoundedEmpty DEF OvershootInv

\* A returning goroutine admits nobody and holds no snapshot.
LEMMA FinishBounded ==
    ASSUME TypeOK, OvershootInv, NEW p \in Proc, Finish(p)
    PROVE  /\ Bounded(DOMAIN devices' \cup Admitted')
           /\ \A q \in Proc : Bounded(DOMAIN snap'[q])
<1>1. Admitted' \subseteq Admitted
  BY DEF TypeOK, Finish, Admitted, Proc
<1>2. devices' = devices
  BY DEF Finish
<1>3. \A q \in Proc : snap'[q] = NoTrust \/ snap'[q] = snap[q]
  BY DEF TypeOK, Finish
<1> QED
  BY <1>1, <1>2, <1>3, ShrinkBounded, NoTrustIsMap, BoundedEmpty DEF OvershootInv

\* A status change with its background save names no device.
LEMMA StatusBounded ==
    ASSUME TypeOK, OvershootInv, NEW d \in DOMAIN devices, NEW st \in Status,
           SetStatus(d, st), GoPersist, disk' = disk
    PROVE  OvershootInv'
<1>1. DOMAIN devices' = DOMAIN devices
  BY SetStatusKeepsMap DEF TypeOK
<1>2. id' = id /\ snap' = snap /\ \A c \in Caller : pc'[c] = pc[c]
  BY GoPersistType
<1>3. Admitted' = Admitted
  BY <1>2 DEF Admitted
<1> QED
  BY <1>1, <1>2, <1>3 DEF OvershootInv

LEMMA OvershootNext == TypeOK /\ OvershootInv /\ [Next]_vars => OvershootInv'
<1> SUFFICES ASSUME TypeOK, OvershootInv, [Next]_vars PROVE OvershootInv'
  OBVIOUS
<1> USE ProcAssumption, BoundAssumption
<1>1. CASE \E m \in Mode \ {"none"} : StartSession(m)
  BY <1>1 DEF OvershootInv, StartSession, calling, Admitted
<1>2. ASSUME NEW c \in Caller, NEW d \in Device,
             NEW t \in 0..MaxSessions, BeginPairing(c, d, t)
      PROVE  OvershootInv'
  <2>1. devices' = devices /\ Admitted' \subseteq Admitted
    BY <1>2 DEF TypeOK, BeginPairing, Admitted, Proc
  <2> QED
    BY <1>2, <2>1, ShrinkBounded DEF OvershootInv, BeginPairing
<1>3. ASSUME NEW c \in Caller, NEW d \in Device, ForgetDevice(c, d)
      PROVE  OvershootInv'
  <2>1. DOMAIN devices' \subseteq DOMAIN devices
    <3>1. IsMap(devices, Device, Trusted) /\ devices' = Delete(devices, d)
      BY <1>3 DEF TypeOK, ForgetDevice
    <3> QED
      BY <3>1, DeleteIsMap
  <2>2. Admitted' \subseteq Admitted
    BY <1>3 DEF TypeOK, ForgetDevice, Admitted, Proc
  <2> QED
    BY <1>3, <2>1, <2>2, ShrinkBounded DEF OvershootInv, ForgetDevice
<1>4. ASSUME NEW c \in Caller, Admit(c) PROVE OvershootInv'
  <2>1. devices' = devices /\ snap' = snap /\ disk' = disk
    BY <1>4 DEF Admit
  <2> QED
    BY <1>4, <2>1, AdmitBounded DEF OvershootInv
<1>5. ASSUME NEW c \in Caller, RefuseLimit(c) PROVE OvershootInv'
  BY <1>5, FinishBounded DEF RefuseLimit, OvershootInv, Proc
<1>6. ASSUME NEW c \in Caller, Insert(c) PROVE OvershootInv'
  <2>1. id[c] \in Admitted
    BY <1>6 DEF Insert, Admitted
  <2>2. id[c] \in Device /\ secret[c] \in Secret
    BY <1>6 DEF TypeOK, Insert, Proc
  <2>3. DOMAIN devices' = DOMAIN devices \cup {id[c]}
    <3> DEFINE v == [secret |-> secret[c], status |-> "connected"]
    <3>1. v \in Trusted
      BY <2>2 DEF Trusted, Status
    <3>2. IsMap(devices, Device, Trusted) /\ devices' = Put(devices, id[c], v)
      BY <1>6 DEF TypeOK, Insert
    <3> HIDE DEF v
    <3> QED
      BY <2>2, <3>1, <3>2, PutIsMap
  <2>4. Admitted' \subseteq Admitted
    BY <1>6 DEF TypeOK, Insert, Admitted, Proc
  <2> QED
    BY <1>6, <2>1, <2>3, <2>4, ShrinkBounded DEF OvershootInv, Insert
<1>7. ASSUME NEW p \in Proc, TakeSnapshot(p) PROVE OvershootInv'
  <2>1. devices' = devices /\ disk' = disk /\ Admitted' \subseteq Admitted
    BY <1>7 DEF TypeOK, TakeSnapshot, Admitted, Proc
  <2>2. Bounded(DOMAIN devices)
    BY BoundedSubset DEF OvershootInv
  <2>3. DOMAIN TrustOf(devices) = DOMAIN devices
    BY TrustOfIsMap DEF TypeOK
  <2>4. \A q \in Proc : snap'[q] = TrustOf(devices) \/ snap'[q] = snap[q]
    BY <1>7 DEF TypeOK, TakeSnapshot
  <2> QED
    BY <2>1, <2>2, <2>3, <2>4, ShrinkBounded DEF OvershootInv
<1>8. ASSUME NEW p \in Proc, Truncate(p) PROVE OvershootInv'
  <2>1. /\ devices' = devices /\ snap' = snap /\ disk' = NoTrust
        /\ Admitted' \subseteq Admitted
    BY <1>8 DEF TypeOK, Truncate, Admitted, Proc
  <2> QED
    BY <2>1, ShrinkBounded, NoTrustIsMap, BoundedEmpty DEF OvershootInv
<1>9. ASSUME NEW p \in Proc, WriteFile(p) PROVE OvershootInv'
  <2>1. Finish(p) /\ disk' = snap[p]
    BY <1>9 DEF WriteFile
  <2> QED
    BY <2>1, FinishBounded DEF OvershootInv
<1>10. ASSUME NEW p \in Proc, SaveFails(p) PROVE OvershootInv'
  <2>1. Finish(p) /\ disk' = disk
    BY <1>10 DEF SaveFails
  <2> QED
    BY <2>1, FinishBounded DEF OvershootInv
<1>11. ASSUME NEW d \in Device, NEW s \in 1..MaxCalls, VerifyReconnect(d, s)
       PROVE  OvershootInv'
  BY <1>11, StatusBounded DEF VerifyReconnect, Status
<1>12. ASSUME NEW d \in Device, ConnectDevice(d) PROVE OvershootInv'
  BY <1>12, StatusBounded DEF ConnectDevice, Status
<1>13. ASSUME NEW d \in Device, MarkDeviceOffline(d) PROVE OvershootInv'
  BY <1>13, StatusBounded DEF MarkDeviceOffline, Status
<1>14. CASE Restart
  <2>1. DOMAIN devices' \in {DOMAIN disk, {}} /\ disk' = disk
    BY <1>14 DEF Restart, LoadResults, LoadFile, Loaded, NoTrust
  <2>2. Admitted' = {}
    BY <1>14 DEF Restart, Admitted, Proc
  <2>3. \A p \in Proc : snap'[p] = NoTrust
    BY <1>14 DEF Restart
  <2> QED
    BY <2>1, <2>2, <2>3, NoTrustIsMap, BoundedEmpty DEF OvershootInv
<1>15. CASE UNCHANGED vars
  BY <1>15 DEF OvershootInv, vars, calling, Admitted
<1> QED
  BY <1>1, <1>2, <1>3, <1>4, <1>5, <1>6, <1>7, <1>8, <1>9, <1>10, <1>11,
     <1>12, <1>13, <1>14, <1>15 DEF Next, PairStep, SaveStep

\* VerifyPairing's check and its insertion are two critical sections
\* (service.go:215-248): with n goroutines pairing at once the desktop trusts
\* at most MaxDevices + n - 1 devices, in memory and on disk, across restarts.
THEOREM Overshoot == Spec => []OvershootBound
<1>1. Init => TypeOK /\ OvershootInv
  BY InitType, OvershootInit
<1>2. TypeOK /\ OvershootInv /\ [Next]_vars => (TypeOK /\ OvershootInv)'
  BY NextType, OvershootNext
<1>3. OvershootInv => OvershootBound
  BY DEF OvershootInv, OvershootBound, Bounded
<1> QED
  BY <1>1, <1>2, <1>3, PTL DEF Spec
==============================================================================
