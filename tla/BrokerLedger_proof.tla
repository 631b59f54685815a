------------------------- MODULE BrokerLedger_proof -------------------------
(***************************************************************************)
(* The advertisements implement the ledger of ResourceLedger: every write  *)
(* that the API server accepts is one atomic entry against the current     *)
(* state, although its author works on a copy from the cache.              *)
(***************************************************************************)
EXTENDS BrokerSafety_proof, SumTheorems

(* A nil Reserved holds nothing, and an advertisement starts with it.      *)
ReservedInv ==
  \A c \in Clusters : /\ ~ adv[c].hasReserved => adv[c].reserved = NoResources
                      /\ adv[c].rv = 0 => ~ adv[c].hasReserved

LedgerInv == TypeInv /\ VersionInv /\ ReservedInv

(* What one write of the advertisement of c makes of it.                   *)
Wrote(c, a) == adv' = [adv EXCEPT ![c] = a]

(* A lock, release, report or status update, as an entry of the ledger.    *)
Entry == \/ \E c \in Clusters, r \in Reservations :
              Ledger!Hold(c, Requested[r]) \/ Ledger!Release(c, Requested[r])
         \/ \E c \in Clusters, report \in Reports : Ledger!Report(c, report)
         \/ UNCHANGED Ledger!ledgerVars

LEMMA EntryIsLedgerStep == Entry => [Ledger!LedgerNext]_(Ledger!ledgerVars)
  BY DEF Entry, Ledger!LedgerNext

(* The mapped variables, after one advertisement is written.               *)
LEMMA WriteMaps ==
  ASSUME adv \in [Clusters -> Advertisement], NEW c \in Clusters,
         NEW a \in Advertisement, Wrote(c, a)
  PROVE  /\ [d \in Clusters |-> adv'[d].reserved]
              = [[d \in Clusters |-> adv[d].reserved] EXCEPT ![c] = a.reserved]
         /\ [d \in Clusters |-> Plus(adv'[d].available, adv'[d].reserved)]
              = [[d \in Clusters |-> Plus(adv[d].available, adv[d].reserved)]
                   EXCEPT ![c] = Plus(a.available, a.reserved)]
  BY DEF Wrote

(* A write that leaves what is held, or what was reported, as it is.       *)
LEMMA WriteKeepsMaps ==
  ASSUME adv \in [Clusters -> Advertisement], NEW c \in Clusters,
         NEW a \in Advertisement, Wrote(c, a)
  PROVE  /\ a.reserved = adv[c].reserved =>
              [d \in Clusters |-> adv'[d].reserved] = [d \in Clusters |-> adv[d].reserved]
         /\ Plus(a.available, a.reserved) = Plus(adv[c].available, adv[c].reserved) =>
              [d \in Clusters |-> Plus(adv'[d].available, adv'[d].reserved)]
                = [d \in Clusters |-> Plus(adv[d].available, adv[d].reserved)]
<1>1. \A d \in Clusters : adv'[d] = IF d = c THEN a ELSE adv[d]
  BY DEF Wrote
<1>2. ASSUME a.reserved = adv[c].reserved
      PROVE  [d \in Clusters |-> adv'[d].reserved] = [d \in Clusters |-> adv[d].reserved]
  BY <1>1, <1>2
<1>3. ASSUME Plus(a.available, a.reserved) = Plus(adv[c].available, adv[c].reserved)
      PROVE  [d \in Clusters |-> Plus(adv'[d].available, adv'[d].reserved)]
               = [d \in Clusters |-> Plus(adv[d].available, adv[d].reserved)]
  BY <1>1, <1>3
<1> QED
  BY <1>2, <1>3

(* Only the advertisement written has to be looked at.                     *)
LEMMA WriteKeepsReservedInv ==
  ASSUME adv \in [Clusters -> Advertisement], ReservedInv,
         NEW c \in Clusters, NEW a \in Advertisement, Wrote(c, a),
         ~ a.hasReserved => a.reserved = NoResources,
         a.rv = 0 => ~ a.hasReserved
  PROVE  ReservedInv'
<1>1. \A d \in Clusters : adv'[d] = IF d = c THEN a ELSE adv[d]
  BY DEF Wrote
<1> QED
  BY <1>1 DEF ReservedInv

(* The new version of an advertisement.                                    *)
LEMMA NewVersion ==
  ASSUME adv \in [Clusters -> Advertisement], NEW c \in Clusters, NEW a \in Advertisement
  PROVE  LET b == [a EXCEPT !.rv = adv[c].rv + 1] IN
         /\ b \in Advertisement
         /\ b.rv # 0
         /\ b.available = a.available /\ b.reserved = a.reserved
         /\ b.hasReserved = a.hasReserved
<1>1. adv[c].rv \in Nat
  BY DEF Advertisement
<1>2. adv[c].rv + 1 \in Nat /\ adv[c].rv + 1 # 0
  BY <1>1
<1> QED
  BY <1>2 DEF Advertisement

(* An accepted update was made from the current version.                   *)
LEMMA CurrentCopy ==
  ASSUME VersionInv, NEW c \in Clusters, CurrentAdv(c)
  PROVE  advCache[c] = adv[c]
  BY DEF VersionInv, CopyOf, CurrentAdv

(* The check of CanReserve is made against what is really available.       *)
LEMMA LockIsHold ==
  ASSUME LedgerInv, NEW r \in Reservations, NEW c, Lock(r, c)
  PROVE  Entry /\ ReservedInv'
<1> DEFINE q == Requested[r]
           a == [AddReservation(adv[c], q) EXCEPT !.rv = adv[c].rv + 1]
<1>1. c \in Clusters /\ advCache[c] = adv[c]
  BY CurrentCopy DEF Lock, Fits, Known, LedgerInv
<1>2. /\ adv \in [Clusters -> Advertisement] /\ adv[c] \in Advertisement
      /\ q \in Quantities
  BY <1>1, DataAssumption DEF LedgerInv, TypeInv, TypeOK
<1>3. /\ a \in Advertisement
      /\ a.reserved = Plus(adv[c].reserved, q)
      /\ a.hasReserved
      /\ a.rv # 0
      /\ Plus(a.available, a.reserved) = Plus(adv[c].available, adv[c].reserved)
  <2>1. AddReservation(adv[c], q) \in Advertisement
    BY <1>2, LockAndReleaseKeepTheSum
  <2>2. /\ AddReservation(adv[c], q).reserved = Plus(adv[c].reserved, q)
        /\ AddReservation(adv[c], q).hasReserved
    BY <1>2 DEF AddReservation, Advertisement
  <2> QED
    BY <1>1, <1>2, <2>1, <2>2, NewVersion, LockAndReleaseKeepTheSum
<1>4. Wrote(c, a)
  BY <1>1 DEF Lock, PutAdv, Wrote
<1>5. Covers(adv[c].available, q)
  BY <1>1 DEF Lock, Fits, CanReserve
<1>6. \A k \in Kinds : /\ Plus(adv[c].available, adv[c].reserved)[k] - adv[c].reserved[k] >= q[k]
                      /\ Plus(adv[c].reserved, q)[k] = adv[c].reserved[k] + q[k]
  <2>1. /\ adv[c].available \in [Kinds -> Int] /\ adv[c].reserved \in [Kinds -> Int]
        /\ q \in [Kinds -> Int]
    BY <1>2 DEF Advertisement, Quantities
  <2>2. ASSUME NEW k \in Kinds
        PROVE  /\ Plus(adv[c].available, adv[c].reserved)[k] - adv[c].reserved[k] >= q[k]
               /\ Plus(adv[c].reserved, q)[k] = adv[c].reserved[k] + q[k]
    <3>1. /\ Plus(adv[c].available, adv[c].reserved)[k]
               = adv[c].available[k] + adv[c].reserved[k]
          /\ Plus(adv[c].reserved, q)[k] = adv[c].reserved[k] + q[k]
      BY DEF Plus
    <3>2. /\ adv[c].available[k] \in Int /\ adv[c].reserved[k] \in Int /\ q[k] \in Int
          /\ adv[c].available[k] >= q[k]
      BY <1>5, <2>1 DEF Covers
    <3> HIDE DEF q
    <3> QED
      BY <3>1, <3>2
  <2> QED
    BY <2>2
<1>7. Ledger!Hold(c, q)
  <2>1. Plus(adv[c].reserved, q) = [k \in Kinds |-> adv[c].reserved[k] + q[k]]
    BY DEF Plus
  <2>2. [d \in Clusters |-> adv'[d].reserved]
          = [[d \in Clusters |-> adv[d].reserved] EXCEPT ![c] = Plus(adv[c].reserved, q)]
    BY <1>2, <1>3, <1>4, <1>1, WriteMaps
  <2>3. [d \in Clusters |-> Plus(adv'[d].available, adv'[d].reserved)]
          = [d \in Clusters |-> Plus(adv[d].available, adv[d].reserved)]
    BY <1>2, <1>3, <1>4, <1>1, WriteKeepsMaps
  <2> QED
    BY <1>1, <1>6, <2>1, <2>2, <2>3 DEF Ledger!Hold
<1>8. ReservedInv'
  BY <1>1, <1>2, <1>3, <1>4, WriteKeepsReservedInv DEF LedgerInv
<1> QED
  BY <1>1, <1>7, <1>8 DEF Entry

LEMMA ReleaseIsRelease ==
  ASSUME LedgerInv, NEW r \in Reservations, r = wr, NEW c \in Clusters, Release(c)
  PROVE  Entry /\ ReservedInv'
<1> DEFINE q == Requested[r]
           a == [RemoveReservation(adv[c], q) EXCEPT !.rv = adv[c].rv + 1]
<1>1. advCache[c] = adv[c]
  BY CurrentCopy DEF Release, LedgerInv
<1>2. /\ adv \in [Clusters -> Advertisement] /\ adv[c] \in Advertisement
      /\ q \in Quantities
      /\ adv[c].hasReserved
  BY <1>1, DataAssumption DEF LedgerInv, TypeInv, TypeOK, Release, CanRemove
<1>3. /\ a \in Advertisement
      /\ a.reserved = Minus(adv[c].reserved, q)
      /\ a.hasReserved
      /\ a.rv # 0
      /\ Plus(a.available, a.reserved) = Plus(adv[c].available, adv[c].reserved)
  <2>1. RemoveReservation(adv[c], q) \in Advertisement
    BY <1>2, LockAndReleaseKeepTheSum
  <2>2. /\ RemoveReservation(adv[c], q).reserved = Minus(adv[c].reserved, q)
        /\ RemoveReservation(adv[c], q).hasReserved
    BY <1>2 DEF RemoveReservation, Advertisement
  <2> QED
    BY <1>2, <2>1, <2>2, NewVersion, LockAndReleaseKeepTheSum
<1>4. Wrote(c, a)
  BY <1>1 DEF Release, PutAdv, Wrote
<1> HIDE DEF a
<1>5. Ledger!Release(c, q)
  <2>1. Minus(adv[c].reserved, q) = [k \in Kinds |-> adv[c].reserved[k] - q[k]]
    BY DEF Minus
  <2>2. [d \in Clusters |-> adv'[d].reserved]
          = [[d \in Clusters |-> adv[d].reserved] EXCEPT ![c] = Minus(adv[c].reserved, q)]
    BY <1>2, <1>3, <1>4, WriteMaps
  <2>3. [d \in Clusters |-> Plus(adv'[d].available, adv'[d].reserved)]
          = [d \in Clusters |-> Plus(adv[d].available, adv[d].reserved)]
    BY <1>2, <1>3, <1>4, WriteKeepsMaps
  <2> QED
    BY <2>1, <2>2, <2>3 DEF Ledger!Release
<1>6. ReservedInv'
  BY <1>2, <1>3, <1>4, WriteKeepsReservedInv DEF LedgerInv
<1> QED
  BY <1>5, <1>6 DEF Entry

(* What a report writes: Available becomes the report less what is held.   *)
LEMMA ReportWrites ==
  ASSUME LedgerInv, NEW c \in Clusters, NEW report \in Reports, PostAdvertisement(c, report)
  PROVE  \E a \in Advertisement : /\ Wrote(c, a)
                                  /\ a.reserved = adv[c].reserved
                                  /\ a.hasReserved = adv[c].hasReserved
                                  /\ a.rv # 0
                                  /\ Plus(a.available, a.reserved) = report
<1>0. /\ adv \in [Clusters -> Advertisement] /\ adv[c] \in Advertisement
      /\ report \in Quantities
  BY DataAssumption DEF LedgerInv, TypeInv, TypeOK
<1>1. CASE adv[c].rv = 0 /\ adv' = [adv EXCEPT ![c] = NewAdvertisement(report)]
  <2>1. /\ NewAdvertisement(report) \in Advertisement
        /\ NewAdvertisement(report).reserved = NoResources
        /\ ~ NewAdvertisement(report).hasReserved
        /\ NewAdvertisement(report).rv = 1
        /\ NewAdvertisement(report).available = report
    BY <1>0, NewObjectsType DEF NewAdvertisement, NoAdvertisement
  <2>2. adv[c].reserved = NoResources /\ adv[c].hasReserved = FALSE
    BY <1>0, <1>1 DEF LedgerInv, ReservedInv, Advertisement
  <2>3. Plus(report, NoResources) = report
    BY <1>0 DEF Plus, NoResources, Quantities
  <2> DEFINE a == NewAdvertisement(report)
  <2>4. Wrote(c, a)
    BY <1>1 DEF Wrote
  <2>5. /\ a \in Advertisement
        /\ a.reserved = adv[c].reserved
        /\ a.hasReserved = adv[c].hasReserved
        /\ a.rv # 0
        /\ Plus(a.available, a.reserved) = report
    <3>1. NewAdvertisement(report).hasReserved = FALSE
      BY DEF NewAdvertisement, NoAdvertisement
    <3>2. NewAdvertisement(report).rv # 0
      BY <2>1
    <3> QED
      BY <2>1, <2>2, <2>3, <3>1, <3>2
  <2> HIDE DEF a
  <2> QED
    BY <2>4, <2>5
<1>2. CASE CurrentAdv(c) /\ PutAdv(c, Merge(advCache[c], report))
  <2> DEFINE m == Merge(adv[c], report)
             a == [m EXCEPT !.rv = adv[c].rv + 1]
  <2>1. advCache[c] = adv[c]
    BY <1>2, CurrentCopy DEF LedgerInv
  <2>2. /\ m \in Advertisement
        /\ m.reserved = adv[c].reserved
        /\ m.hasReserved = adv[c].hasReserved
        /\ m.available = IF adv[c].hasReserved THEN Minus(report, adv[c].reserved) ELSE report
    BY <1>0, MergeType DEF Merge, Advertisement
  <2>3. Plus(m.available, m.reserved) = report
    <3>1. report \in [Kinds -> Int] /\ adv[c].reserved \in [Kinds -> Int]
      BY <1>0 DEF Advertisement, Quantities
    <3>2. Plus(Minus(report, adv[c].reserved), adv[c].reserved) = report
      BY <3>1 DEF Plus, Minus
    <3>3. ~ adv[c].hasReserved => Plus(report, adv[c].reserved) = report
      BY <3>1 DEF LedgerInv, ReservedInv, Plus, NoResources
    <3> QED
      BY <2>2, <3>2, <3>3
  <2>4. Wrote(c, a)
    BY <1>2, <2>1 DEF PutAdv, Wrote
  <2> HIDE DEF m
  <2>5. /\ a \in Advertisement
        /\ a.rv # 0
        /\ a.available = m.available /\ a.reserved = m.reserved
        /\ a.hasReserved = m.hasReserved
    BY <1>0, <2>2, NewVersion
  <2> HIDE DEF a
  <2> QED
    BY <2>2, <2>3, <2>4, <2>5
<1> QED
  BY <1>1, <1>2 DEF PostAdvertisement

(* Available after a report is the report less what is held.               *)
LEMMA PostIsReport ==
  ASSUME LedgerInv, NEW c \in Clusters, NEW report \in Reports, PostAdvertisement(c, report)
  PROVE  Entry /\ ReservedInv'
<1>1. /\ adv \in [Clusters -> Advertisement] /\ adv[c] \in Advertisement
      /\ report \in Quantities
  BY DataAssumption DEF LedgerInv, TypeInv, TypeOK
<1>2. PICK a \in Advertisement : /\ Wrote(c, a)
                                 /\ a.reserved = adv[c].reserved
                                 /\ a.hasReserved = adv[c].hasReserved
                                 /\ a.rv # 0
                                 /\ Plus(a.available, a.reserved) = report
  BY ReportWrites
<1>3. Ledger!Report(c, report)
  <2>1. [d \in Clusters |-> adv'[d].reserved] = [d \in Clusters |-> adv[d].reserved]
    BY <1>1, <1>2, WriteKeepsMaps
  <2>2. [d \in Clusters |-> Plus(adv'[d].available, adv'[d].reserved)]
          = [[d \in Clusters |-> Plus(adv[d].available, adv[d].reserved)] EXCEPT ![c] = report]
    BY <1>1, <1>2, WriteMaps
  <2> QED
    BY <2>1, <2>2 DEF Ledger!Report
<1>4. ReservedInv'
  <2>1. ~ a.hasReserved => a.reserved = NoResources
    BY <1>2 DEF LedgerInv, ReservedInv
  <2> QED
    BY <1>1, <1>2, <2>1, WriteKeepsReservedInv DEF LedgerInv
<1> QED
  BY <1>3, <1>4 DEF Entry

LEMMA NoWriteIsStutter ==
  ASSUME ReservedInv, UNCHANGED adv
  PROVE  Entry /\ ReservedInv'
  BY DEF Entry, Ledger!ledgerVars, ReservedInv

LEMMA ReconcileIsStutter ==
  ASSUME LedgerInv, NEW c \in Clusters, ReconcileAdvertisement(c)
  PROVE  Entry /\ ReservedInv'
<1>1. advCache[c] = adv[c]
  BY CurrentCopy DEF ReconcileAdvertisement, LedgerInv
<1>2. adv \in [Clusters -> Advertisement] /\ adv[c] \in Advertisement
  BY DEF LedgerInv, TypeInv, TypeOK
<1>3. PICK fresh \in BOOLEAN :
        Wrote(c, [[adv[c] EXCEPT !.active = fresh] EXCEPT !.rv = adv[c].rv + 1])
  BY <1>1 DEF ReconcileAdvertisement, PutAdv, Wrote
<1> DEFINE m == [adv[c] EXCEPT !.active = fresh]
           a == [m EXCEPT !.rv = adv[c].rv + 1]
<1>4. /\ m \in Advertisement
      /\ m.reserved = adv[c].reserved
      /\ m.available = adv[c].available
      /\ m.hasReserved = adv[c].hasReserved
  BY <1>2 DEF Advertisement
<1> HIDE DEF m
<1>5. /\ a \in Advertisement
      /\ a.reserved = adv[c].reserved
      /\ a.available = adv[c].available
      /\ a.hasReserved = adv[c].hasReserved
      /\ a.rv # 0
  BY <1>2, <1>4, NewVersion
<1>6. Wrote(c, a)
  BY <1>3 DEF m
<1> HIDE DEF a
<1>7. UNCHANGED Ledger!ledgerVars
  <2>1. Plus(a.available, a.reserved) = Plus(adv[c].available, adv[c].reserved)
    BY <1>5
  <2>2. [d \in Clusters |-> adv'[d].reserved] = [d \in Clusters |-> adv[d].reserved]
    BY <1>2, <1>5, <1>6, WriteKeepsMaps
  <2>3. [d \in Clusters |-> Plus(adv'[d].available, adv'[d].reserved)]
          = [d \in Clusters |-> Plus(adv[d].available, adv[d].reserved)]
    BY <1>2, <1>5, <1>6, <2>1, WriteKeepsMaps
  <2> QED
    BY <2>2, <2>3 DEF Ledger!ledgerVars
<1>8. ReservedInv'
  <2>1. ~ a.hasReserved => a.reserved = NoResources
    BY <1>5 DEF LedgerInv, ReservedInv
  <2> QED
    BY <1>2, <1>5, <1>6, <2>1, WriteKeepsReservedInv DEF LedgerInv
<1> QED
  BY <1>7, <1>8 DEF Entry

-----------------------------------------------------------------------------
(* Every step of the broker.                                               *)
LEMMA NextIsEntry ==
  ASSUME LedgerInv, [Next]_vars
  PROVE  Entry /\ ReservedInv'
<1> USE DEF LedgerInv
<1>t. /\ wpc # "idle" => wr \in Reservations
      /\ HttpRequests \subseteq Reservations
  BY SetsAssumption DEF TypeInv, WorkerInv
<1>0. CASE UNCHANGED adv
  BY <1>0, NoWriteIsStutter
<1>1. ASSUME NEW r \in HttpRequests, HttpStep(r) PROVE Entry /\ ReservedInv'
  <2>1. CASE HttpLock(r)
    BY <1>0, <1>t, <2>1, LockIsHold DEF HttpLock
  <2> QED
    BY <1>0, <1>1, <2>1
       DEF HttpStep, HttpCreate, HttpAddFinalizer, HttpMarkReserved, HttpMarkFailed,
           HttpWriteStatus
<1>2. ASSUME NEW c \in Clusters,
             \/ \E report \in Reports : PostAdvertisement(c, report)
             \/ ReconcileAdvertisement(c) \/ SyncAdvertisement(c)
      PROVE  Entry /\ ReservedInv'
  <2>1. CASE SyncAdvertisement(c)
    BY <1>0, <2>1 DEF SyncAdvertisement, store
  <2> QED
    BY <1>2, <2>1, PostIsReport, ReconcileIsStutter
<1>3. ASSUME NEW r \in Reservations,
             \/ StartReconcile(r) \/ SyncReservation(r)
             \/ CreateReservation(r) \/ DeleteReservation(r)
             \/ SignalRequester(r) \/ PostPeeringKubeconfig(r)
      PROVE  Entry /\ ReservedInv'
  BY <1>0, <1>3 DEF StartReconcile, SyncReservation, CreateReservation, DeleteReservation,
                    SignalRequester, PostPeeringKubeconfig, UserWrite, store
<1>4. CASE Reconcile
  <2>1. CASE ReserveInTargetCluster
    BY <1>0, <1>t, <2>1, LockIsHold DEF ReserveInTargetCluster
  <2>2. CASE ReleaseResources
    <3>1. CASE Holds(wobj) /\ Release(wobj.target)
      <4>1. wobj.target \in Clusters /\ wr \in Reservations
        BY <1>t, <2>2, <3>1 DEF Holds, Known, ReleaseResources
      <4> QED
        BY <3>1, <4>1, ReleaseIsRelease
    <3> QED
      BY <1>0, <2>2, <3>1 DEF ReleaseResources
  <2> QED
    BY <1>0, <1>4, <2>1, <2>2
       DEF Reconcile, ReconcileDeleted, AddFinalizer, RejectInvalid, ReconcileTargeted,
           ReconcileUntargeted, ReconcileReserved, ReconcileActive, ReconcileTerminal,
           WriteStatus, RemoveFinalizer, store
<1>5. CASE Tick \/ Crash \/ UNCHANGED vars
  BY <1>0, <1>5 DEF Tick, Crash, vars, store
<1>6. CASE CallFails
  <2>1. ASSUME NEW r \in HttpRequests, HttpLockAnswerLost(r) PROVE Entry /\ ReservedInv'
    BY <1>t, <2>1, LockIsHold DEF HttpLockAnswerLost
  <2> QED
    BY <1>0, <1>6, <2>1 DEF CallFails, HttpCallFails, WorkerCallFails, store
<1> QED
  BY <1>1, <1>2, <1>3, <1>4, <1>5, <1>6 DEF Next, CallFails

LEMMA InitLedger == Init => ReservedInv /\ Ledger!LedgerInit
<1> SUFFICES ASSUME Init PROVE ReservedInv /\ Ledger!LedgerInit
  OBVIOUS
<1>1. PICK report \in [Registered -> Reports] :
        adv = [c \in Clusters |-> IF c \in Registered
                                  THEN [NewAdvertisement(report[c]) EXCEPT !.active = TRUE]
                                  ELSE NoAdvertisement]
  BY DEF Init
<1>2. \A c \in Clusters :
        /\ adv[c].reserved = NoResources
        /\ adv[c].hasReserved = FALSE
        /\ adv[c].available \in Reports \cup {NoResources}
  BY <1>1 DEF NewAdvertisement, NoAdvertisement
<1>3. \A x \in Reports \cup {NoResources} : Plus(x, NoResources) = x
  BY DataAssumption DEF Plus, NoResources, Quantities
<1>4. Ledger!Zero = NoResources
  BY DEF Ledger!Zero, NoResources
<1> QED
  BY <1>2, <1>3, <1>4 DEF ReservedInv, Ledger!LedgerInit

(* Every behaviour of the broker is one of the ledger: whatever the        *)
(* handlers, the worker, its retries and restarts do to the advertisements *)
(* is a sequence of atomic entries, and none is made that the current      *)
(* Available does not cover.                                               *)
THEOREM LedgerImplemented == Spec => ImplementsLedger
<1>1. Init => LedgerInv /\ Ledger!LedgerInit
  BY InitTypeInv, InitVersionInv, InitLedger DEF LedgerInv
<1>2. LedgerInv /\ [Next]_vars => LedgerInv' /\ [Ledger!LedgerNext]_(Ledger!ledgerVars)
  BY NextTypeInv, NextVersionInv, NextIsEntry, EntryIsLedgerStep DEF LedgerInv
<1> QED
  BY <1>1, <1>2, PTL DEF Spec, ImplementsLedger, Ledger!LedgerSpec

-----------------------------------------------------------------------------
(* Whom the resources are held for.                                        *)

(* The target of a Reservation is set once, and before that nothing is     *)
(* locked on its behalf.  A copy may have been made earlier.               *)
Agrees(r, o) == o.target \in {None, rsv[r].target}

TargetsInv ==
  /\ \A r \in Reservations :
       /\ rsv[r].rv = 0 => rsv[r].target = None
       /\ rsv[r].target = None => locks[r] = 0 /\ unlocks[r] = 0
       /\ Agrees(r, rsvCache[r])
  /\ wpc # "idle" => Agrees(wr, wobj)

(* A write that leaves the target, unless there is none yet.               *)
TargetKept(r, o) == rsv[r].target \in {None, o.target}

TargetWrite == UNCHANGED rsv \/ \E r \in Reservations, o \in Reservation :
                                  PutRsv(r, o) /\ TargetKept(r, o)

LEMMA EditsKeepTarget ==
  ASSUME NEW r \in Reservations, NEW o \in Reservation
  PROVE  /\ AsReserved(r, o).target = o.target
         /\ [o EXCEPT !.finalizer = TRUE].target = o.target
         /\ [o EXCEPT !.finalizer = FALSE, !.exists = FALSE].target = o.target
         /\ [o EXCEPT !.exists = FALSE].target = o.target
         /\ [o EXCEPT !.deleting = TRUE].target = o.target
         /\ [o EXCEPT !.requesterActive = TRUE].target = o.target
         /\ [o EXCEPT !.requesterReleased = TRUE].target = o.target
         /\ [o EXCEPT !.kubeconfig = TRUE].target = o.target
         /\ \A phase \in Phases : [o EXCEPT !.phase = phase].target = o.target
  BY DEF AsReserved, Reservation

LEMMA KeptSuffices ==
  ASSUME NEW r \in Reservations, NEW o \in Reservation, PutRsv(r, o), TargetKept(r, o)
  PROVE  TargetWrite
  BY DEF TargetWrite

(* Every edit but that of the target.                                      *)
LEMMA EditKeepsTarget ==
  ASSUME NEW r \in Reservations, rsv[r] \in Reservation, clock \in Nat,
         \/ PutRsv(r, AsReserved(r, rsv[r]))
         \/ PutRsv(r, [rsv[r] EXCEPT !.finalizer = TRUE])
         \/ PutRsv(r, [rsv[r] EXCEPT !.finalizer = FALSE, !.exists = FALSE])
         \/ PutRsv(r, [rsv[r] EXCEPT !.exists = FALSE])
         \/ PutRsv(r, [rsv[r] EXCEPT !.deleting = TRUE])
         \/ PutRsv(r, [rsv[r] EXCEPT !.requesterActive = TRUE])
         \/ PutRsv(r, [rsv[r] EXCEPT !.requesterReleased = TRUE])
         \/ PutRsv(r, [rsv[r] EXCEPT !.kubeconfig = TRUE])
         \/ \E phase \in Phases : PutRsv(r, [rsv[r] EXCEPT !.phase = phase])
  PROVE  TargetWrite
<1>1. ASSUME NEW o \in Reservation, o.target = rsv[r].target, PutRsv(r, o)
      PROVE  TargetWrite
  BY <1>1, KeptSuffices DEF TargetKept
<1> QED
  BY <1>1, AsReservedType, EditsType, EditsKeepTarget

LEMMA HttpKeepsTarget ==
  ASSUME TypeInv, VersionInv, TargetsInv, NEW r \in HttpRequests, HttpStep(r)
  PROVE  TargetWrite
<1>t. /\ clock \in Nat /\ r \in Reservations
      /\ rsv[r] \in Reservation /\ rsvCache[r] \in Reservation
      /\ CurrentRsv(r, rsvCache[r]) => rsvCache[r] = rsv[r]
  BY BoundsType, SetsAssumption, CurrentObject DEF TypeInv, TypeOK
<1>1. CASE HttpCreate(r)
  <2>1. PICK c \in Clusters : PutRsv(r, NewReservation(c))
    BY <1>1 DEF HttpCreate, ActiveTargets
  <2>2. TargetKept(r, NewReservation(c))
    BY <1>1, <1>t DEF HttpCreate, TargetsInv, TargetKept
  <2> QED
    BY <1>t, <2>1, <2>2, NewObjectsType, KeptSuffices
<1>2. CASE HttpAddFinalizer(r)
  BY <1>2, <1>t, EditKeepsTarget DEF HttpAddFinalizer, TargetWrite
<1>3. CASE HttpLock(r)
  BY <1>3 DEF HttpLock, TargetWrite
<1>4. CASE HttpMarkReserved(r)
  <2>1. UNCHANGED rsv \/ (CurrentRsv(r, rsvCache[r]) /\ PutRsv(r, AsReserved(r, rsvCache[r])))
    BY <1>4 DEF HttpMarkReserved, HttpWriteStatus
  <2> QED
    BY <1>t, <2>1, EditKeepsTarget DEF TargetWrite
<1>5. CASE HttpMarkFailed(r)
  <2>1. \/ UNCHANGED rsv
        \/ /\ CurrentRsv(r, rsvCache[r])
           /\ PutRsv(r, [rsvCache[r] EXCEPT !.phase = "Failed"])
    BY <1>5 DEF HttpMarkFailed, HttpWriteStatus
  <2>2. "Failed" \in Phases
    BY DEF Phases
  <2> QED
    BY <1>t, <2>1, <2>2, EditKeepsTarget DEF TargetWrite
<1> QED
  BY <1>1, <1>2, <1>3, <1>4, <1>5 DEF HttpStep

LEMMA UsersKeepTarget ==
  ASSUME TypeInv, VersionInv, TargetsInv, NEW r \in Reservations,
         \/ StartReconcile(r) \/ SyncReservation(r)
         \/ CreateReservation(r) \/ DeleteReservation(r)
         \/ SignalRequester(r) \/ PostPeeringKubeconfig(r)
  PROVE  TargetWrite
<1>t. /\ clock \in Nat
      /\ rsv[r] \in Reservation /\ rsvCache[r] \in Reservation
      /\ CurrentRsv(r, rsvCache[r]) => rsvCache[r] = rsv[r]
  BY BoundsType, CurrentObject DEF TypeInv, TypeOK
<1>1. CASE StartReconcile(r) \/ SyncReservation(r)
  BY <1>1 DEF StartReconcile, SyncReservation, store, TargetWrite
<1>2. CASE CreateReservation(r)
  <2>1. PICK c \in Clusters \cup {None} : PutRsv(r, NewReservation(c))
    BY <1>2 DEF CreateReservation
  <2>2. TargetKept(r, NewReservation(c))
    BY <1>2 DEF CreateReservation, TargetsInv, TargetKept
  <2> QED
    BY <2>1, <2>2, NewObjectsType, KeptSuffices
<1>3. CASE DeleteReservation(r)
  BY <1>3, <1>t, EditKeepsTarget DEF DeleteReservation, TargetWrite
<1>4. CASE SignalRequester(r)
  BY <1>4, <1>t, EditKeepsTarget DEF SignalRequester, TargetWrite
<1>5. CASE PostPeeringKubeconfig(r)
  BY <1>5, <1>t, EditKeepsTarget DEF PostPeeringKubeconfig, TargetWrite
<1> QED
  BY <1>1, <1>2, <1>3, <1>4, <1>5

(* Only ReconcileUntargeted sets a target, where the current version has   *)
(* none.                                                                   *)
LEMMA WorkerKeepsTarget ==
  ASSUME TypeInv, VersionInv, TargetsInv, Reconcile
  PROVE  TargetWrite
<1>t. /\ clock \in Nat /\ wobj \in Reservation
      /\ wpc # "idle" => wr \in Reservations
      /\ wpc = "status" => wgoal \in Phases
      /\ wpc # "idle" /\ CurrentRsv(wr, wobj) => wobj = rsv[wr]
  BY BoundsType, CurrentObject DEF TypeInv, TypeOK, WorkerInv, Phases
<1>0. CASE UNCHANGED rsv
  BY <1>0 DEF TargetWrite
<1>1. CASE AddFinalizer
  BY <1>1, <1>t, EditKeepsTarget DEF AddFinalizer, TargetWrite
<1>2. CASE ReconcileUntargeted
  <2>1. ASSUME NEW c \in Clusters, CurrentRsv(wr, wobj), PutRsv(wr, [wobj EXCEPT !.target = c])
        PROVE  TargetWrite
    <3>1. wr \in Reservations /\ rsv[wr].target = None
      BY <1>2, <1>t, <2>1 DEF ReconcileUntargeted, InPhase
    <3> QED
      BY <1>t, <2>1, <3>1, EditsType, KeptSuffices DEF TargetKept
  <2> QED
    BY <1>0, <1>2, <2>1 DEF ReconcileUntargeted, Candidates
<1>3. CASE WriteStatus
  <2>1. CASE wgoal = "Reserved" /\ CurrentRsv(wr, wobj) /\ PutRsv(wr, AsReserved(wr, wobj))
    BY <1>3, <1>t, <2>1, EditKeepsTarget DEF WriteStatus, TargetWrite
  <2>2. CASE CurrentRsv(wr, wobj) /\ PutRsv(wr, [wobj EXCEPT !.phase = wgoal])
    BY <1>3, <1>t, <2>2, EditKeepsTarget DEF WriteStatus, TargetWrite
  <2> QED
    BY <1>0, <1>3, <2>1, <2>2 DEF WriteStatus
<1>4. CASE RemoveFinalizer
  BY <1>4, <1>t, EditKeepsTarget DEF RemoveFinalizer, TargetWrite
<1> QED
  BY <1>0, <1>1, <1>2, <1>3, <1>4
     DEF Reconcile, ReconcileDeleted, RejectInvalid, ReconcileTargeted, ReconcileReserved,
         ReconcileActive, ReconcileTerminal, ReserveInTargetCluster, ReleaseResources, store

LEMMA TargetStays ==
  ASSUME TypeInv, VersionInv, TargetsInv, [Next]_vars, NEW x \in Reservations
  PROVE  rsv[x].target \in {None, rsv'[x].target}
<1>1. TargetWrite
  <2>1. ASSUME NEW c \in Clusters,
               \/ \E report \in Reports : PostAdvertisement(c, report)
               \/ ReconcileAdvertisement(c) \/ SyncAdvertisement(c)
        PROVE  UNCHANGED rsv
    BY <2>1 DEF PostAdvertisement, ReconcileAdvertisement, SyncAdvertisement, store
  <2>2. CASE Tick \/ Crash \/ UNCHANGED vars
    BY <2>2 DEF Tick, Crash, vars, store, TargetWrite
  <2>3. CASE CallFails
    BY <2>3 DEF CallFails, HttpCallFails, HttpLockAnswerLost, WorkerCallFails, store, TargetWrite
  <2> QED
    BY <2>1, <2>2, <2>3, HttpKeepsTarget, UsersKeepTarget, WorkerKeepsTarget
       DEF Next, TargetWrite, CallFails
<1>2. ASSUME NEW r \in Reservations, NEW o \in Reservation, PutRsv(r, o), TargetKept(r, o)
      PROVE  rsv[x].target \in {None, rsv'[x].target}
  <2>1. [o EXCEPT !.rv = rsv[r].rv + 1].target = o.target
    BY DEF Reservation
  <2> QED
    BY <1>2, <2>1 DEF PutRsv, TargetKept, TypeInv, TypeOK
<1> QED
  BY <1>1, <1>2 DEF TargetWrite

(* What a step books: resources locked or released on behalf of r in its   *)
(* target c, or nothing.                                                   *)
Books(r, c, held) ==
  /\ c \in Clusters /\ rsv[r].target = c /\ UNCHANGED rsv
  /\ \A d \in Clusters : adv'[d].reserved = IF d = c THEN held ELSE adv[d].reserved

Locks(r, c) ==
  /\ Books(r, c, Plus(adv[c].reserved, Requested[r]))
  /\ locks' = [locks EXCEPT ![r] = @ + 1]
  /\ UNCHANGED unlocks

Releases(r, c) ==
  /\ Books(r, c, Minus(adv[c].reserved, Requested[r]))
  /\ unlocks' = [unlocks EXCEPT ![r] = @ + 1]
  /\ UNCHANGED locks

BooksNothing ==
  /\ \A d \in Clusters : adv'[d].reserved = adv[d].reserved
  /\ UNCHANGED locks /\ UNCHANGED unlocks

Booking == BooksNothing \/ \E r \in Reservations, c \in Clusters : Locks(r, c) \/ Releases(r, c)

LEMMA LockBooks ==
  ASSUME LedgerInv, NEW r \in Reservations, NEW c, Lock(r, c),
         c \in {None, rsv[r].target}, UNCHANGED rsv, UNCHANGED unlocks
  PROVE  Booking
<1>1. c \in Clusters /\ advCache[c] = adv[c] /\ c = rsv[r].target
  BY CurrentCopy, SetsAssumption DEF Lock, Fits, Known, LedgerInv
<1>2. /\ adv \in [Clusters -> Advertisement] /\ adv[c] \in Advertisement
      /\ Requested[r] \in Quantities
  BY <1>1, DataAssumption DEF LedgerInv, TypeInv, TypeOK
<1> DEFINE a == [AddReservation(adv[c], Requested[r]) EXCEPT !.rv = adv[c].rv + 1]
<1>3. a.reserved = Plus(adv[c].reserved, Requested[r])
  BY <1>2 DEF AddReservation, Advertisement
<1>4. adv' = [adv EXCEPT ![c] = a]
  BY <1>1 DEF Lock, PutAdv
<1> HIDE DEF a
<1>5. \A d \in Clusters :
        adv'[d].reserved = IF d = c THEN Plus(adv[c].reserved, Requested[r]) ELSE adv[d].reserved
  BY <1>2, <1>3, <1>4
<1>6. Locks(r, c)
  BY <1>1, <1>5 DEF Lock, Locks, Books
<1> QED
  BY <1>1, <1>6 DEF Booking

LEMMA ReleaseBooks ==
  ASSUME LedgerInv, wr \in Reservations, NEW c, Release(c), c \in Clusters,
         c = rsv[wr].target, UNCHANGED rsv, UNCHANGED locks
  PROVE  Booking
<1>1. advCache[c] = adv[c]
  BY CurrentCopy DEF Release, LedgerInv
<1>2. /\ adv \in [Clusters -> Advertisement] /\ adv[c] \in Advertisement
      /\ Requested[wr] \in Quantities
  BY DataAssumption DEF LedgerInv, TypeInv, TypeOK
<1> DEFINE a == [RemoveReservation(adv[c], Requested[wr]) EXCEPT !.rv = adv[c].rv + 1]
<1>3. a.reserved = Minus(adv[c].reserved, Requested[wr])
  BY <1>2 DEF RemoveReservation, Advertisement
<1>4. adv' = [adv EXCEPT ![c] = a]
  BY <1>1 DEF Release, PutAdv
<1> HIDE DEF a
<1>5. \A d \in Clusters :
        adv'[d].reserved = IF d = c THEN Minus(adv[c].reserved, Requested[wr]) ELSE adv[d].reserved
  BY <1>2, <1>3, <1>4
<1>6. Releases(wr, c)
  BY <1>5 DEF Release, Releases, Books
<1> QED
  BY <1>6 DEF Booking

LEMMA NothingBooked ==
  ASSUME UNCHANGED adv, UNCHANGED ghosts
  PROVE  Booking
  BY DEF ghosts, Booking, BooksNothing

LEMMA ReportBooksNothing ==
  ASSUME LedgerInv, NEW c \in Clusters,
         (\E report \in Reports : PostAdvertisement(c, report)) \/ ReconcileAdvertisement(c)
  PROVE  Booking
<1>1. adv \in [Clusters -> Advertisement] /\ adv[c] \in Advertisement
  BY DEF LedgerInv, TypeInv, TypeOK
<1>2. UNCHANGED locks /\ UNCHANGED unlocks
  BY DEF PostAdvertisement, ReconcileAdvertisement, ghosts
<1>3. \E a \in Advertisement : Wrote(c, a) /\ a.reserved = adv[c].reserved
  <2>1. ASSUME NEW report \in Reports, PostAdvertisement(c, report)
        PROVE  \E a \in Advertisement : Wrote(c, a) /\ a.reserved = adv[c].reserved
    BY <2>1, ReportWrites
  <2>2. CASE ReconcileAdvertisement(c)
    <3>1. advCache[c] = adv[c]
      BY <2>2, CurrentCopy DEF ReconcileAdvertisement, LedgerInv
    <3>2. PICK fresh \in BOOLEAN :
            Wrote(c, [[adv[c] EXCEPT !.active = fresh] EXCEPT !.rv = adv[c].rv + 1])
      BY <2>2, <3>1 DEF ReconcileAdvertisement, PutAdv, Wrote
    <3> DEFINE m == [adv[c] EXCEPT !.active = fresh]
               a == [m EXCEPT !.rv = adv[c].rv + 1]
    <3>3. m \in Advertisement /\ m.reserved = adv[c].reserved
      BY <1>1 DEF Advertisement
    <3> HIDE DEF m
    <3>4. a \in Advertisement /\ a.reserved = adv[c].reserved
      BY <1>1, <3>3, NewVersion
    <3>5. Wrote(c, a)
      BY <3>2 DEF m
    <3> HIDE DEF a
    <3> QED
      BY <3>4, <3>5
  <2> QED
    BY <2>1, <2>2
<1>4. PICK a \in Advertisement : Wrote(c, a) /\ a.reserved = adv[c].reserved
  BY <1>3
<1>5. \A d \in Clusters : adv'[d].reserved = adv[d].reserved
  BY <1>1, <1>4 DEF Wrote
<1> QED
  BY <1>2, <1>5 DEF Booking, BooksNothing

LEMMA NextBooks ==
  ASSUME LedgerInv, TargetsInv, [Next]_vars
  PROVE  Booking
<1> USE DEF LedgerInv
<1>t. /\ wpc # "idle" => wr \in Reservations /\ wobj.target \in {None, rsv[wr].target}
      /\ HttpRequests \subseteq Reservations
  BY SetsAssumption DEF TypeInv, WorkerInv, TargetsInv, Agrees
<1>0. CASE UNCHANGED adv /\ UNCHANGED ghosts
  BY <1>0, NothingBooked
<1>1. ASSUME NEW r \in HttpRequests, HttpStep(r) PROVE Booking
  <2>1. CASE HttpLock(r)
    <3>1. CASE Lock(r, rsv[r].target)
      <4>1. UNCHANGED rsv /\ UNCHANGED unlocks
        BY <2>1 DEF HttpLock
      <4> QED
        BY <1>t, <3>1, <4>1, LockBooks
    <3> QED
      BY <1>0, <2>1, <3>1 DEF HttpLock, ghosts
  <2> QED
    BY <1>0, <1>1, <2>1
       DEF HttpStep, HttpCreate, HttpAddFinalizer, HttpMarkReserved, HttpMarkFailed,
           HttpWriteStatus
<1>2. ASSUME NEW c \in Clusters,
             \/ \E report \in Reports : PostAdvertisement(c, report)
             \/ ReconcileAdvertisement(c) \/ SyncAdvertisement(c)
      PROVE  Booking
  <2>1. CASE SyncAdvertisement(c)
    BY <1>0, <2>1 DEF SyncAdvertisement, store
  <2> QED
    BY <1>2, <2>1, ReportBooksNothing
<1>3. ASSUME NEW r \in Reservations,
             \/ StartReconcile(r) \/ SyncReservation(r)
             \/ CreateReservation(r) \/ DeleteReservation(r)
             \/ SignalRequester(r) \/ PostPeeringKubeconfig(r)
      PROVE  Booking
  BY <1>0, <1>3 DEF StartReconcile, SyncReservation, CreateReservation, DeleteReservation,
                    SignalRequester, PostPeeringKubeconfig, UserWrite, store
<1>4. CASE Reconcile
  <2>1. CASE ReserveInTargetCluster
    <3>1. UNCHANGED rsv /\ UNCHANGED unlocks /\ wpc = "lock"
      BY <2>1 DEF ReserveInTargetCluster
    <3>2. CASE Lock(wr, wobj.target)
      BY <1>t, <3>1, <3>2, LockBooks
    <3> QED
      BY <1>0, <2>1, <3>1, <3>2 DEF ReserveInTargetCluster, ghosts
  <2>2. CASE ReleaseResources
    <3>1. UNCHANGED rsv /\ UNCHANGED locks /\ wpc = "release"
      BY <2>2 DEF ReleaseResources
    <3>2. CASE Holds(wobj) /\ Release(wobj.target)
      <4>1. wobj.target \in Clusters
        BY <3>2 DEF Holds, Known
      <4>2. wobj.target = rsv[wr].target
        BY <1>t, <3>1, <4>1, SetsAssumption
      <4> QED
        BY <1>t, <3>1, <3>2, <4>1, <4>2, ReleaseBooks
    <3> QED
      BY <1>0, <2>2, <3>1, <3>2 DEF ReleaseResources, ghosts
  <2> QED
    BY <1>0, <1>4, <2>1, <2>2
       DEF Reconcile, ReconcileDeleted, AddFinalizer, RejectInvalid, ReconcileTargeted,
           ReconcileUntargeted, ReconcileReserved, ReconcileActive, ReconcileTerminal,
           WriteStatus, RemoveFinalizer, store
<1>5. CASE Tick \/ Crash \/ UNCHANGED vars
  BY <1>0, <1>5 DEF Tick, Crash, vars, store
<1>6. CASE CallFails
  <2>1. ASSUME NEW r \in HttpRequests, HttpLockAnswerLost(r) PROVE Booking
    <3>1. UNCHANGED rsv /\ UNCHANGED unlocks /\ Lock(r, rsv[r].target)
      BY <2>1 DEF HttpLockAnswerLost
    <3> QED
      BY <1>t, <3>1, LockBooks
  <2> QED
    BY <1>0, <1>6, <2>1 DEF CallFails, HttpCallFails, WorkerCallFails, store
<1> QED
  BY <1>1, <1>2, <1>3, <1>4, <1>5, <1>6 DEF Next, CallFails

LEMMA NextTargetsInv ==
  ASSUME LedgerInv, TargetsInv, [Next]_vars
  PROVE  TargetsInv'
<1>t. TypeInv /\ VersionInv /\ None \notin Clusters
  BY SetsAssumption DEF LedgerInv
<1>1. \A r \in Reservations : rsv[r].target \in {None, rsv'[r].target}
  BY <1>t, TargetStays
<1>2. ASSUME NEW r \in Reservations, rsv'[r].rv = 0
      PROVE  rsv'[r].target = None
  <2>1. rsv[r].rv \in Nat
    BY <1>t DEF TypeInv, TypeOK, Reservation
  <2>2. rsv'[r] = rsv[r] \/ rsv'[r].rv > rsv[r].rv
    BY <1>t, RsvStep DEF RsvGrows
  <2>3. rsv'[r] = rsv[r]
    BY <1>2, <2>1, <2>2
  <2> QED
    BY <1>2, <2>3 DEF TargetsInv
<1>3. ASSUME NEW r \in Reservations, rsv'[r].target = None
      PROVE  locks'[r] = 0 /\ unlocks'[r] = 0
  <2>1. rsv[r].target = None /\ locks[r] = 0 /\ unlocks[r] = 0
    BY <1>1, <1>3 DEF TargetsInv
  <2>2. locks'[r] = locks[r] /\ unlocks'[r] = unlocks[r]
    BY <1>t, <2>1, NextBooks
       DEF Booking, BooksNothing, Locks, Releases, Books, TypeInv, TypeOK
  <2> QED
    BY <2>1, <2>2
<1>4. \A r \in Reservations : rsvCache'[r].target \in {None, rsv'[r].target}
  <2> SUFFICES ASSUME NEW r \in Reservations
               PROVE  rsvCache'[r].target \in {None, rsv'[r].target}
    OBVIOUS
  <2>1. rsvCache'[r] \in {rsvCache[r], rsv[r]}
    BY <1>t, CacheStep
  <2>2. rsvCache[r].target \in {None, rsv[r].target}
    BY DEF TargetsInv, Agrees
  <2> QED
    BY <1>1, <2>1, <2>2
<1>5. ASSUME wpc' # "idle"
      PROVE  wobj'.target \in {None, rsv'[wr'].target}
  <2>1. CASE wr' = wr /\ wpc # "idle" /\ wobj' \in {wobj, rsv'[wr]}
    <3>1. wr \in Reservations /\ wobj.target \in {None, rsv[wr].target}
      BY <1>t, <2>1 DEF TypeInv, WorkerInv, TargetsInv, Agrees
    <3> QED
      BY <1>1, <2>1, <3>1
  <2>2. CASE wr' \in Reservations /\ UNCHANGED rsv /\ wobj' = rsvCache[wr']
    BY <2>2 DEF TargetsInv, Agrees
  <2> QED
    BY <1>t, <1>5, <2>1, <2>2, WorkerStep
<1> QED
  BY <1>2, <1>3, <1>4, <1>5 DEF TargetsInv, Agrees

-----------------------------------------------------------------------------
(* What the reservations account for.                                      *)

Share(r, c, k) == IF rsv[r].target = c THEN (locks[r] - unlocks[r]) * Requested[r][k] ELSE 0

Shares(c, k) == [r \in Reservations |-> Share(r, c, k)]

IdentityInv ==
  \A c \in Clusters : \A k \in Kinds :
    adv[c].reserved[k] = SumFunctionOnSet(Shares(c, k), Reservations)

LEMMA OnceMore ==
  ASSUME NEW a \in Int, NEW b \in Int, NEW q \in Int
  PROVE  /\ (a - b) * q \in Int
         /\ ((a + 1) - b) * q = (a - b) * q + q
         /\ (a - (b + 1)) * q = (a - b) * q - q
         /\ (0 - 0) * q = 0
  OBVIOUS

LEMMA ShareIsInt ==
  ASSUME TypeInv, NEW r \in Reservations, NEW c, NEW k \in Kinds
  PROVE  /\ Share(r, c, k) \in Int
         /\ locks[r] \in Int /\ unlocks[r] \in Int /\ Requested[r][k] \in Int
<1>1. locks[r] \in Int /\ unlocks[r] \in Int
  <2>1. locks \in [Reservations -> Nat] /\ unlocks \in [Reservations -> Nat]
    BY DEF TypeInv, TypeOK
  <2> QED
    BY <2>1
<1>2. Requested[r][k] \in Int
  BY DataAssumption DEF Quantities
<1>3. (locks[r] - unlocks[r]) * Requested[r][k] \in Int
  BY <1>1, <1>2
<1> QED
  BY <1>1, <1>2, <1>3 DEF Share

(* The share of a reservation changes with its bookings only: when it gets *)
(* its target it has none.                                                 *)
LEMMA ShareStays ==
  ASSUME LedgerInv, TargetsInv, [Next]_vars, NEW r \in Reservations, NEW c \in Clusters,
         NEW k \in Kinds, locks'[r] = locks[r], unlocks'[r] = unlocks[r]
  PROVE  Share(r, c, k)' = Share(r, c, k)
<1>1. rsv[r].target \in {None, rsv'[r].target}
  BY TargetStays DEF LedgerInv
<1>2. CASE rsv'[r].target = rsv[r].target
  BY <1>2 DEF Share
<1>3. CASE rsv[r].target = None
  <2>1. locks[r] = 0 /\ unlocks[r] = 0 /\ c # None
    BY <1>3, SetsAssumption DEF TargetsInv
  <2>2. Requested[r][k] \in Int
    BY ShareIsInt DEF LedgerInv
  <2>3. (0 - 0) * Requested[r][k] = 0
    BY <2>2
  <2> QED
    BY <1>3, <2>1, <2>3 DEF Share
<1> QED
  BY <1>1, <1>2, <1>3

LEMMA ShareChanges ==
  ASSUME LedgerInv, NEW r \in Reservations, NEW c \in Clusters, NEW k \in Kinds
  PROVE  /\ Locks(r, c) => Share(r, c, k)' = Share(r, c, k) + Requested[r][k]
         /\ Releases(r, c) => Share(r, c, k)' = Share(r, c, k) - Requested[r][k]
<1>1. /\ locks[r] \in Int /\ unlocks[r] \in Int /\ Requested[r][k] \in Int
      /\ locks \in [Reservations -> Nat] /\ unlocks \in [Reservations -> Nat]
  BY ShareIsInt DEF LedgerInv, TypeInv, TypeOK
<1>2. ASSUME Locks(r, c)
      PROVE  Share(r, c, k)' = Share(r, c, k) + Requested[r][k]
  <2>1. locks'[r] = locks[r] + 1 /\ unlocks'[r] = unlocks[r]
    BY <1>1, <1>2 DEF Locks
  <2>2. rsv'[r].target = c /\ rsv[r].target = c
    BY <1>2 DEF Locks, Books
  <2>3. ((locks[r] + 1) - unlocks[r]) * Requested[r][k]
          = (locks[r] - unlocks[r]) * Requested[r][k] + Requested[r][k]
    BY <1>1, OnceMore
  <2> QED
    BY <2>1, <2>2, <2>3 DEF Share
<1>3. ASSUME Releases(r, c)
      PROVE  Share(r, c, k)' = Share(r, c, k) - Requested[r][k]
  <2>1. unlocks'[r] = unlocks[r] + 1 /\ locks'[r] = locks[r]
    BY <1>1, <1>3 DEF Releases
  <2>2. rsv'[r].target = c /\ rsv[r].target = c
    BY <1>3 DEF Releases, Books
  <2>3. (locks[r] - (unlocks[r] + 1)) * Requested[r][k]
          = (locks[r] - unlocks[r]) * Requested[r][k] - Requested[r][k]
    BY <1>1, OnceMore
  <2> QED
    BY <2>1, <2>2, <2>3 DEF Share
<1> QED
  BY <1>2, <1>3

LEMMA NextIdentity ==
  ASSUME LedgerInv, TargetsInv, IdentityInv, [Next]_vars
  PROVE  IdentityInv'
<1> SUFFICES ASSUME NEW c \in Clusters, NEW k \in Kinds
             PROVE  adv'[c].reserved[k] = SumFunctionOnSet(Shares(c, k)', Reservations)
  BY DEF IdentityInv
<1> DEFINE S == Shares(c, k)
           T == Shares(c, k)'
<1>1. adv[c].reserved[k] = SumFunctionOnSet(S, Reservations)
  BY DEF IdentityInv
<1>2. \A x \in Reservations : S[x] = Share(x, c, k) /\ T[x] = Share(x, c, k)'
  BY DEF Shares
<1>3. \A x \in Reservations : S[x] \in Int /\ T[x] \in Int
  <2>1. TypeInv /\ TypeInv'
    BY NextTypeInv DEF LedgerInv
  <2>2. \A x \in Reservations : Share(x, c, k) \in Int
    BY <2>1, ShareIsInt
  <2>3. ASSUME NEW x \in Reservations
        PROVE  Share(x, c, k)' \in Int
    <3>1. locks' \in [Reservations -> Nat] /\ unlocks' \in [Reservations -> Nat]
      BY <2>1 DEF TypeInv, TypeOK
    <3>2. locks'[x] \in Int /\ unlocks'[x] \in Int /\ Requested[x][k] \in Int
      BY <2>1, <3>1, ShareIsInt
    <3>3. (locks'[x] - unlocks'[x]) * Requested[x][k] \in Int
      BY <3>2
    <3> QED
      BY <3>3 DEF Share
  <2> HIDE DEF S, T
  <2> QED
    BY <1>2, <2>2, <2>3
<1>4. \A x \in Reservations :
        locks'[x] = locks[x] /\ unlocks'[x] = unlocks[x] => T[x] = S[x]
  BY <1>2, ShareStays
<1>t. /\ locks \in [Reservations -> Nat] /\ unlocks \in [Reservations -> Nat]
      /\ adv[c].reserved \in [Kinds -> Int]
      /\ \A r \in Reservations : Requested[r] \in [Kinds -> Int]
  BY DataAssumption DEF LedgerInv, TypeInv, TypeOK, Advertisement, Quantities
<1> HIDE DEF S, T
<1>5. CASE BooksNothing
  <2>1. adv'[c].reserved[k] = adv[c].reserved[k] /\ UNCHANGED locks /\ UNCHANGED unlocks
    BY <1>5 DEF BooksNothing
  <2>2. SumFunctionOnSet(T, Reservations) = SumFunctionOnSet(S, Reservations)
    BY <1>3, <1>4, <2>1, FinitenessAssumption, SumsAreEqual
  <2> QED
    BY <1>1, <2>1, <2>2 DEF T
<1>6. ASSUME NEW r \in Reservations, NEW d \in Clusters, Locks(r, d) \/ Releases(r, d)
      PROVE  adv'[c].reserved[k] = SumFunctionOnSet(T, Reservations)
  <2>1. \A y \in Reservations : y # r => T[y] = S[y]
    BY <1>4, <1>6, <1>t DEF Locks, Releases
  <2>2. SumFunctionOnSet(T, Reservations) = SumFunctionOnSet(S, Reservations) + (T[r] - S[r])
    BY <1>3, <2>1, FinitenessAssumption, SumChanges
  <2>3. S[r] \in Int /\ T[r] \in Int /\ SumFunctionOnSet(S, Reservations) \in Int
    BY <1>3, FinitenessAssumption, SumIsInt
  <2>4. ASSUME d # c
        PROVE  adv'[c].reserved[k] = SumFunctionOnSet(T, Reservations)
    <3>1. adv'[c].reserved = adv[c].reserved /\ rsv'[r].target = d /\ rsv[r].target = d
      BY <1>6, <2>4 DEF Locks, Releases, Books
    <3>2. S[r] = 0 /\ T[r] = 0
      BY <1>2, <2>4, <3>1 DEF Share
    <3> QED
      BY <1>1, <2>2, <2>3, <3>1, <3>2
  <2>5. ASSUME d = c, Locks(r, c)
        PROVE  adv'[c].reserved[k] = SumFunctionOnSet(T, Reservations)
    <3>1. adv'[c].reserved = Plus(adv[c].reserved, Requested[r])
      BY <2>5 DEF Locks, Books
    <3>2. /\ adv'[c].reserved[k] = adv[c].reserved[k] + Requested[r][k]
          /\ Requested[r][k] \in Int
      BY <1>t, <3>1 DEF Plus
    <3>3. T[r] = S[r] + Requested[r][k]
      BY <1>2, <2>5, ShareChanges
    <3> QED
      BY <1>1, <2>2, <2>3, <3>2, <3>3
  <2>6. ASSUME d = c, Releases(r, c)
        PROVE  adv'[c].reserved[k] = SumFunctionOnSet(T, Reservations)
    <3>1. adv'[c].reserved = Minus(adv[c].reserved, Requested[r])
      BY <2>6 DEF Releases, Books
    <3>2. /\ adv'[c].reserved[k] = adv[c].reserved[k] - Requested[r][k]
          /\ Requested[r][k] \in Int
      BY <1>t, <3>1 DEF Minus
    <3>3. T[r] = S[r] - Requested[r][k]
      BY <1>2, <2>6, ShareChanges
    <3> QED
      BY <1>1, <2>2, <2>3, <3>2, <3>3
  <2> QED
    BY <1>6, <2>4, <2>5, <2>6
<1>7. adv'[c].reserved[k] = SumFunctionOnSet(T, Reservations)
  BY <1>5, <1>6, NextBooks DEF Booking, T
<1> QED
  BY <1>7 DEF T

LEMMA InitIdentity == Init => TargetsInv /\ IdentityInv
<1> SUFFICES ASSUME Init PROVE TargetsInv /\ IdentityInv
  OBVIOUS
<1>1. /\ rsv = [r \in Reservations |-> NoReservation] /\ rsvCache = rsv
      /\ locks = [r \in Reservations |-> 0] /\ unlocks = [r \in Reservations |-> 0]
      /\ wpc = "idle"
  BY DEF Init
<1>2. TargetsInv
  BY <1>1 DEF TargetsInv, Agrees, NoReservation
<1>3. ASSUME NEW c \in Clusters, NEW k \in Kinds
      PROVE  adv[c].reserved[k] = SumFunctionOnSet(Shares(c, k), Reservations)
  <2> DEFINE S == Shares(c, k)
  <2>1. \A r \in Reservations : S[r] = 0
    BY <1>1, SetsAssumption DEF Shares, Share, NoReservation
  <2>2. adv[c].reserved[k] = 0
    <3>1. PICK report \in [Registered -> Reports] :
            adv = [d \in Clusters |-> IF d \in Registered
                                      THEN [NewAdvertisement(report[d]) EXCEPT !.active = TRUE]
                                      ELSE NoAdvertisement]
      BY DEF Init
    <3>2. adv[c].reserved = NoResources
      BY <3>1 DEF NewAdvertisement, NoAdvertisement
    <3> QED
      BY <3>2 DEF NoResources
  <2> HIDE DEF S
  <2>3. SumFunctionOnSet(S, {}) = SumFunctionOnSet(S, Reservations)
    BY <2>1, FinitenessAssumption, SumOfTheRest
  <2>4. SumFunctionOnSet(S, {}) = 0
    BY SumOverNone
  <2> QED
    BY <2>2, <2>3, <2>4 DEF S
<1> QED
  BY <1>2, <1>3 DEF IdentityInv

(* The sum over the reservations of one cluster.                           *)
LEMMA SharesAddUp ==
  ASSUME TypeInv, IdentityInv
  PROVE  LedgerIdentity
<1> SUFFICES ASSUME NEW c \in Clusters, NEW k \in Kinds
             PROVE  adv[c].reserved[k] =
                      SumFunction([r \in {x \in Reservations : rsv[x].target = c} |->
                                     (locks[r] - unlocks[r]) * Requested[r][k]])
  BY DEF LedgerIdentity
<1> DEFINE R == {x \in Reservations : rsv[x].target = c}
           f == [r \in R |-> (locks[r] - unlocks[r]) * Requested[r][k]]
           S == Shares(c, k)
<1>1. \A r \in R : f[r] = S[r]
  BY DEF Shares, Share
<1>2. \A r \in Reservations : S[r] \in Int
  BY ShareIsInt DEF Shares
<1>3. \A r \in Reservations \ R : S[r] = 0
  BY DEF Shares, Share
<1>4. R \in SUBSET Reservations /\ DOMAIN f = R
  OBVIOUS
<1>5. adv[c].reserved[k] = SumFunctionOnSet(S, Reservations)
  BY DEF IdentityInv
<1> HIDE DEF R, f, S
<1>6. SumFunction(f) = SumFunctionOnSet(f, R)
  BY <1>4 DEF SumFunction
<1>7. SumFunctionOnSet(f, R) = SumFunctionOnSet(S, Reservations)
  <2>1. \A r \in R : f[r] \in Int /\ S[r] = f[r]
    BY <1>1, <1>2, <1>4
  <2> QED
    BY <1>3, <1>4, <2>1, FinitenessAssumption, SumOfTheRest
<1> QED
  BY <1>5, <1>6, <1>7 DEF R, f

(* Reserved is what the locks and releases add up to, for any number of    *)
(* reservations and clusters, and whatever lost the race for an update:    *)
(* lock and releaseResources write from a copy that is current, and book   *)
(* in the cluster that the Reservation names and will go on naming.        *)
THEOREM ReservedAddsUp == Spec => []LedgerIdentity
<1>1. Init => LedgerInv /\ TargetsInv /\ IdentityInv
  BY InitTypeInv, InitVersionInv, InitLedger, InitIdentity DEF LedgerInv
<1>2. LedgerInv /\ TargetsInv /\ IdentityInv /\ [Next]_vars
        => LedgerInv' /\ TargetsInv' /\ IdentityInv'
  BY NextTypeInv, NextVersionInv, NextIsEntry, NextTargetsInv, NextIdentity DEF LedgerInv
<1>3. LedgerInv /\ IdentityInv => LedgerIdentity
  BY SharesAddUp DEF LedgerInv
<1> QED
  BY <1>1, <1>2, <1>3, PTL DEF Spec


-----------------------------------------------------------------------------
(* When nothing goes wrong, an agent that keeps reporting the same has     *)
(* room for what is held in its cluster.                                   *)
RoomInv(report) ==
  \A c \in Clusters :
    /\ \A k \in Kinds : adv[c].available[k] >= 0
    /\ adv[c].rv # 0 => Plus(adv[c].available, adv[c].reserved) = report

LEMMA RoomSuffices ==
  ASSUME TypeInv, NEW report, RoomInv(report), NEW c \in Clusters, NEW a \in Advertisement,
         Wrote(c, a), \A k \in Kinds : a.available[k] >= 0,
         Plus(a.available, a.reserved) = report
  PROVE  RoomInv(report)'
<1>1. \A d \in Clusters : adv'[d] = IF d = c THEN a ELSE adv[d]
  BY DEF Wrote, TypeInv, TypeOK
<1> QED
  BY <1>1 DEF RoomInv

LEMMA LockLeavesRoom ==
  ASSUME LedgerInv, NEW report, RoomInv(report), NEW r \in Reservations, NEW c, Lock(r, c)
  PROVE  RoomInv(report)'
<1> DEFINE q == Requested[r]
           m == AddReservation(adv[c], q)
           a == [m EXCEPT !.rv = adv[c].rv + 1]
<1>1. c \in Clusters /\ advCache[c] = adv[c]
  BY CurrentCopy DEF Lock, Fits, Known, LedgerInv
<1>2. /\ adv[c] \in Advertisement /\ q \in Quantities /\ adv[c].rv # 0
      /\ Covers(adv[c].available, q)
  <2>1. adv[c].rv > 0
    BY <1>1 DEF Lock, Fits, Known
  <2>2. adv[c].rv # 0
    BY <2>1
  <2> QED
    BY <1>1, <2>2, DataAssumption DEF LedgerInv, TypeInv, TypeOK, Lock, Fits, CanReserve
<1>3. /\ m \in Advertisement
      /\ Plus(m.available, m.reserved) = Plus(adv[c].available, adv[c].reserved)
  BY <1>2, LockAndReleaseKeepTheSum
<1>4. m.available = Minus(adv[c].available, q)
  BY <1>2 DEF AddReservation, Advertisement
<1>5. \A k \in Kinds : m.available[k] >= 0
  <2> SUFFICES ASSUME NEW k \in Kinds PROVE m.available[k] >= 0
    OBVIOUS
  <2>1. adv[c].available \in [Kinds -> Int] /\ q \in [Kinds -> Int]
    BY <1>2 DEF Advertisement, Quantities
  <2>2. m.available[k] = adv[c].available[k] - q[k]
    BY <1>4 DEF Minus
  <2>3. adv[c].available[k] \in Int /\ q[k] \in Int /\ adv[c].available[k] >= q[k]
    BY <1>2, <2>1 DEF Covers
  <2> HIDE DEF m, q
  <2> QED
    BY <2>2, <2>3
<1>6. Wrote(c, a)
  BY <1>1 DEF Lock, PutAdv, Wrote
<1> HIDE DEF m
<1>7. a \in Advertisement /\ a.available = m.available /\ a.reserved = m.reserved
  BY <1>1, <1>3, NewVersion DEF LedgerInv, TypeInv, TypeOK
<1>8. Plus(a.available, a.reserved) = report
  BY <1>1, <1>2, <1>3, <1>7 DEF RoomInv
<1> HIDE DEF a
<1> QED
  BY <1>1, <1>5, <1>6, <1>7, <1>8, RoomSuffices DEF LedgerInv

LEMMA ReleaseLeavesRoom ==
  ASSUME LedgerInv, NEW report, RoomInv(report), wr \in Reservations, Valid(wr),
         NEW c \in Clusters, Known(c), Release(c)
  PROVE  RoomInv(report)'
<1> DEFINE q == Requested[wr]
           m == RemoveReservation(adv[c], q)
           a == [m EXCEPT !.rv = adv[c].rv + 1]
<1>1. advCache[c] = adv[c]
  BY CurrentCopy DEF Release, LedgerInv
<1>2. adv[c] \in Advertisement /\ q \in Quantities /\ adv[c].rv # 0
  <2>1. adv[c].rv > 0
    BY <1>1 DEF Known
  <2>2. adv[c].rv # 0
    BY <2>1
  <2> QED
    BY <2>2, DataAssumption DEF LedgerInv, TypeInv, TypeOK
<1>3. /\ m \in Advertisement
      /\ Plus(m.available, m.reserved) = Plus(adv[c].available, adv[c].reserved)
  BY <1>1, <1>2, LockAndReleaseKeepTheSum DEF Release, CanRemove
<1>4. m.available = Plus(adv[c].available, q)
  BY <1>2 DEF RemoveReservation, Advertisement
<1>5. \A k \in Kinds : m.available[k] >= 0
  <2> SUFFICES ASSUME NEW k \in Kinds PROVE m.available[k] >= 0
    OBVIOUS
  <2>1. adv[c].available \in [Kinds -> Int] /\ q \in [Kinds -> Int]
    BY <1>2 DEF Advertisement, Quantities
  <2>2. m.available[k] = adv[c].available[k] + q[k]
    BY <1>4 DEF Plus
  <2>3. adv[c].available[k] \in Int /\ q[k] \in Int /\ adv[c].available[k] >= 0 /\ q[k] > 0
    BY <2>1 DEF Valid, RoomInv
  <2> HIDE DEF m, q
  <2> QED
    BY <2>2, <2>3
<1>6. Wrote(c, a)
  BY <1>1 DEF Release, PutAdv, Wrote
<1> HIDE DEF m
<1>7. a \in Advertisement /\ a.available = m.available /\ a.reserved = m.reserved
  BY <1>1, <1>3, NewVersion DEF LedgerInv, TypeInv, TypeOK
<1>8. Plus(a.available, a.reserved) = report
  BY <1>2, <1>3, <1>7 DEF RoomInv
<1> HIDE DEF a
<1> QED
  BY <1>5, <1>6, <1>7, <1>8, RoomSuffices DEF LedgerInv


(* The same report again leaves Available as it is.                        *)
LEMMA ReportLeavesRoom ==
  ASSUME LedgerInv, NEW report \in Reports, \A k \in Kinds : report[k] >= 0, RoomInv(report),
         NEW c \in Clusters, PostAdvertisement(c, report)
  PROVE  RoomInv(report)'
<1>1. /\ adv[c] \in Advertisement /\ report \in [Kinds -> Int]
      /\ adv[c].available \in [Kinds -> Int] /\ adv[c].reserved \in [Kinds -> Int]
  BY DataAssumption DEF LedgerInv, TypeInv, TypeOK, Advertisement, Quantities
<1>2. PICK a \in Advertisement : /\ Wrote(c, a)
                                 /\ a.reserved = adv[c].reserved
                                 /\ Plus(a.available, a.reserved) = report
  BY ReportWrites
<1>3. ASSUME NEW k \in Kinds PROVE a.available[k] >= 0
  <2>1. /\ a.available[k] \in Int /\ adv[c].available[k] \in Int
        /\ adv[c].reserved[k] \in Int /\ report[k] \in Int
    BY <1>1 DEF Advertisement, Quantities
  <2>2. a.available[k] + adv[c].reserved[k] = report[k]
    BY <1>2 DEF Plus
  <2>3. CASE adv[c].rv # 0
    <3>1. adv[c].available[k] + adv[c].reserved[k] = report[k] /\ adv[c].available[k] >= 0
      BY <2>3 DEF RoomInv, Plus
    <3> QED
      BY <2>1, <2>2, <3>1
  <2>4. CASE adv[c].rv = 0
    <3>1. adv[c].reserved[k] = 0
      BY <1>1, <2>4 DEF LedgerInv, ReservedInv, NoResources
    <3> QED
      BY <2>1, <2>2, <3>1
  <2> QED
    BY <2>3, <2>4
<1> QED
  BY <1>2, <1>3, RoomSuffices DEF LedgerInv

LEMMA StatusLeavesRoom ==
  ASSUME LedgerInv, NEW report, RoomInv(report), NEW c \in Clusters, ReconcileAdvertisement(c)
  PROVE  RoomInv(report)'
<1>1. /\ advCache[c] = adv[c] /\ adv[c] \in Advertisement
      /\ adv[c].rv # 0
  <2>1. advCache[c] = adv[c] /\ adv[c].rv > 0
    BY CurrentCopy DEF ReconcileAdvertisement, LedgerInv, Known
  <2>2. adv[c].rv # 0
    BY <2>1
  <2> QED
    BY <2>1, <2>2 DEF LedgerInv, TypeInv, TypeOK
<1>2. PICK fresh \in BOOLEAN :
        Wrote(c, [[adv[c] EXCEPT !.active = fresh] EXCEPT !.rv = adv[c].rv + 1])
  BY <1>1 DEF ReconcileAdvertisement, PutAdv, Wrote
<1> DEFINE m == [adv[c] EXCEPT !.active = fresh]
           a == [m EXCEPT !.rv = adv[c].rv + 1]
<1>3. m \in Advertisement /\ m.reserved = adv[c].reserved /\ m.available = adv[c].available
  BY <1>1 DEF Advertisement
<1>4. Wrote(c, a)
  BY <1>2
<1> HIDE DEF m
<1>5. a \in Advertisement /\ a.reserved = adv[c].reserved /\ a.available = adv[c].available
  BY <1>3, NewVersion DEF LedgerInv, TypeInv, TypeOK
<1> HIDE DEF a
<1>6. Plus(a.available, a.reserved) = report /\ \A k \in Kinds : a.available[k] >= 0
  BY <1>1, <1>5 DEF RoomInv
<1> QED
  BY <1>4, <1>5, <1>6, RoomSuffices DEF LedgerInv

LEMMA NextLeavesRoom ==
  ASSUME Quiet, NEW report \in Quantities, \A k \in Kinds : report[k] >= 0,
         Reports \subseteq {report},
         LedgerInv, SafetyInv, QuietInv, RoomInv(report), [Next]_vars
  PROVE  RoomInv(report)'
<1>0. ASSUME UNCHANGED adv PROVE RoomInv(report)'
  BY <1>0 DEF RoomInv
<1>t. TypeInv /\ VersionInv
  BY DEF LedgerInv
<1>1. ASSUME NEW c \in Clusters,
             \/ \E x \in Reports : PostAdvertisement(c, x)
             \/ ReconcileAdvertisement(c) \/ SyncAdvertisement(c)
      PROVE  RoomInv(report)'
  <2>1. ASSUME NEW x \in Reports, PostAdvertisement(c, x) PROVE RoomInv(report)'
    <3>1. x = report
      BY <2>1
    <3> QED
      BY <2>1, <3>1, ReportLeavesRoom
  <2>2. CASE SyncAdvertisement(c)
    BY <1>0, <2>2 DEF SyncAdvertisement, store
  <2> QED
    BY <1>1, <2>1, <2>2, StatusLeavesRoom
<1>2. ASSUME NEW r \in Reservations,
             \/ StartReconcile(r) \/ SyncReservation(r)
             \/ CreateReservation(r) \/ DeleteReservation(r)
             \/ SignalRequester(r) \/ PostPeeringKubeconfig(r)
      PROVE  UNCHANGED adv
  BY <1>2 DEF StartReconcile, SyncReservation, CreateReservation, DeleteReservation,
              SignalRequester, PostPeeringKubeconfig, UserWrite, store
<1>3. CASE Reconcile
  <2>1. CASE ReserveInTargetCluster
    <3>1. wr \in Reservations
      BY <1>t, <2>1 DEF ReserveInTargetCluster, TypeInv, WorkerInv
    <3> QED
      BY <1>0, <2>1, <3>1, LockLeavesRoom DEF ReserveInTargetCluster
  <2>2. CASE ReleaseResources
    <3>1. wr \in Reservations /\ wpc # "idle"
      BY <1>t, <2>2 DEF ReleaseResources, TypeInv, WorkerInv
    <3>2. wobj.phase = "Reserved" => Valid(wr)
      BY <1>t, <3>1, AtWork
    <3>3. ASSUME Holds(wobj), Release(wobj.target) PROVE RoomInv(report)'
      <4>1. wobj.target \in Clusters /\ Known(wobj.target) /\ Valid(wr)
        BY <3>2, <3>3 DEF Holds, Known
      <4> QED
        BY <3>1, <3>3, <4>1, ReleaseLeavesRoom
    <3> QED
      BY <1>0, <2>2, <3>3 DEF ReleaseResources
  <2> QED
    BY <1>0, <1>3, <2>1, <2>2
       DEF Reconcile, ReconcileDeleted, AddFinalizer, RejectInvalid, ReconcileTargeted,
           ReconcileUntargeted, ReconcileReserved, ReconcileActive, ReconcileTerminal,
           WriteStatus, RemoveFinalizer, store
<1>4. CASE Tick \/ Crash \/ UNCHANGED vars
  BY <1>0, <1>4 DEF Tick, Crash, vars, store
<1>5. ~ CallFails
  <2>1. errors \in 0 .. MaxErrors /\ MaxErrors = 0
    BY <1>t DEF TypeInv, TypeOK, Quiet
  <2> QED
    BY <2>1 DEF CallFails, HttpCallFails, HttpLockAnswerLost, WorkerCallFails, ApiError
<1> QED
  BY <1>0, <1>1, <1>2, <1>3, <1>4, <1>5 DEF Next, Quiet, CallFails

LEMMA InitRoom ==
  ASSUME NEW report \in Quantities, \A k \in Kinds : report[k] >= 0,
         Reports \subseteq {report}, Init
  PROVE  RoomInv(report)
<1>1. PICK first \in [Registered -> Reports] :
        adv = [c \in Clusters |-> IF c \in Registered
                                  THEN [NewAdvertisement(first[c]) EXCEPT !.active = TRUE]
                                  ELSE NoAdvertisement]
  BY DEF Init
<1> SUFFICES ASSUME NEW c \in Clusters
             PROVE  /\ \A k \in Kinds : adv[c].available[k] >= 0
                    /\ adv[c].rv # 0 => Plus(adv[c].available, adv[c].reserved) = report
  BY DEF RoomInv
<1>2. CASE c \in Registered
  <2>1. first[c] = report
    BY <1>2
  <2>2. adv[c].available = report /\ adv[c].reserved = NoResources
    BY <1>1, <1>2, <2>1 DEF NewAdvertisement, NoAdvertisement
  <2>3. Plus(report, NoResources) = report
    BY DEF Plus, NoResources, Quantities
  <2> QED
    BY <2>2, <2>3
<1>3. CASE c \notin Registered
  <2>1. adv[c].available = NoResources /\ adv[c].rv = 0
    BY <1>1, <1>3 DEF NoAdvertisement
  <2>2. ASSUME NEW k \in Kinds PROVE NoResources[k] >= 0
    <3>1. NoResources[k] = 0
      BY DEF NoResources
    <3>2. 0 >= 0
      OBVIOUS
    <3> QED
      BY <3>1, <3>2
  <2> QED
    BY <2>1, <2>2
<1> QED
  BY <1>2, <1>3


(* A reservation that stands has its share, and no other takes any away.   *)
LEMMA StandingHasShare ==
  ASSUME TypeInv, VersionInv, SafetyInv, QuietInv,
         NEW r \in Reservations, NEW c \in Clusters, NEW k \in Kinds
  PROVE  /\ Share(r, c, k) >= 0
         /\ Standing(r) /\ rsv[r].target = c => Share(r, c, k) = Requested[r][k]
<1>1. /\ locks[r] \in Int /\ unlocks[r] \in Int /\ Requested[r][k] \in Int
      /\ Share(r, c, k) \in Int
  BY ShareIsInt
<1>2. \/ Balance(r) = 0 /\ ~ Standing(r)
      \/ Balance(r) = 1 /\ Valid(r)
  <2>1. CASE r # wr
    BY <2>1 DEF QuietInv, Holding, Standing
  <2>2. CASE r = wr
    <3>1. Working(r) /\ wpc # "idle"
      BY <2>2, SetsAssumption DEF QuietInv
    <3>2. rsv[r].phase = "Reserved" => Valid(r)
      BY DEF QuietInv
    <3>3. wpc \in {"reconcile", "lock", "release", "status", "finalizer"}
      BY <3>1 DEF TypeInv, TypeOK
    <3> QED
      BY <3>1, <3>2, <3>3 DEF Working, GivingUp, Holding, Standing
  <2> QED
    BY <2>1, <2>2
<1>3. CASE Balance(r) = 0 /\ ~ Standing(r)
  <2>1. (locks[r] - unlocks[r]) * Requested[r][k] = 0
    BY <1>1, <1>3 DEF Balance
  <2> QED
    BY <1>3, <2>1 DEF Share
<1>4. CASE Balance(r) = 1 /\ Valid(r)
  <2>1. (locks[r] - unlocks[r]) * Requested[r][k] = Requested[r][k] /\ Requested[r][k] > 0
    BY <1>1, <1>4 DEF Balance, Valid
  <2> QED
    BY <1>1, <2>1 DEF Share
<1> QED
  BY <1>2, <1>3, <1>4

LEMMA StandingFits ==
  ASSUME LedgerInv, SafetyInv, IdentityInv, QuietInv, NEW report, RoomInv(report)
  PROVE  NoDoubleBooking
<1> SUFFICES ASSUME NEW c \in Clusters, NEW k \in Kinds
             PROVE  SumFunction([r \in {x \in Reservations : Standing(x) /\ rsv[x].target = c}
                                   |-> Requested[r][k]])
                      <= adv[c].available[k] + adv[c].reserved[k]
  BY DEF NoDoubleBooking
<1> DEFINE R == {x \in Reservations : Standing(x) /\ rsv[x].target = c}
           f == [r \in R |-> Requested[r][k]]
           g == [r \in Reservations |-> IF r \in R THEN Requested[r][k] ELSE 0]
           S == Shares(c, k)
<1>1. /\ R \in SUBSET Reservations /\ DOMAIN f = R
      /\ \A r \in R : f[r] \in Int /\ g[r] = f[r]
      /\ \A r \in Reservations \ R : g[r] = 0
  <2>1. \A r \in R : Requested[r][k] \in Int
    BY DataAssumption DEF Quantities
  <2> QED
    BY <2>1
<1>2. \A r \in Reservations : g[r] \in Int /\ S[r] \in Int /\ g[r] <= S[r]
  <2> SUFFICES ASSUME NEW r \in Reservations
               PROVE  g[r] \in Int /\ S[r] \in Int /\ g[r] <= S[r]
    OBVIOUS
  <2>1. S[r] = Share(r, c, k) /\ Share(r, c, k) \in Int /\ Requested[r][k] \in Int
    BY ShareIsInt DEF Shares, LedgerInv
  <2>2. /\ Share(r, c, k) >= 0
        /\ r \in R => Share(r, c, k) = Requested[r][k]
    BY StandingHasShare DEF LedgerInv
  <2> QED
    BY <2>1, <2>2
<1>3. adv[c].reserved[k] = SumFunctionOnSet(S, Reservations)
  BY DEF IdentityInv
<1>4. /\ adv[c].available[k] \in Int /\ adv[c].reserved[k] \in Int
      /\ adv[c].available[k] >= 0
  <2>1. adv[c].available \in [Kinds -> Int] /\ adv[c].reserved \in [Kinds -> Int]
    BY DEF LedgerInv, TypeInv, TypeOK, Advertisement, Quantities
  <2> QED
    BY <2>1 DEF RoomInv
<1> HIDE DEF R, f, g, S
<1>5. SumFunction(f) = SumFunctionOnSet(f, R)
  BY <1>1, SumOfFunction
<1>6. SumFunctionOnSet(f, R) = SumFunctionOnSet(g, Reservations)
  BY <1>1, FinitenessAssumption, SumOfTheRest
<1>7. SumFunctionOnSet(g, Reservations) <= SumFunctionOnSet(S, Reservations)
  BY <1>2, FinitenessAssumption, SumIsMonotonic
<1>8. SumFunctionOnSet(g, Reservations) \in Int
  BY <1>2, FinitenessAssumption, SumIsInt
<1>9. SumFunction(f) <= adv[c].available[k] + adv[c].reserved[k]
  BY <1>3, <1>4, <1>5, <1>6, <1>7, <1>8
<1> QED
  BY <1>9 DEF f, R

(* When nothing goes wrong and the agents keep reporting the same, the     *)
(* reservations standing in a cluster never ask for more than that: the    *)
(* availability that lock checks has been reduced by all of them.          *)
THEOREM NothingIsBookedTwice ==
  ASSUME Quiet, NEW CONSTANT report \in Quantities, \A k \in Kinds : report[k] >= 0,
         Reports \subseteq {report}
  PROVE  Spec => []NoDoubleBooking
<1>1. Init => LedgerInv /\ SafetyInv /\ TargetsInv /\ IdentityInv /\ QuietInv /\ RoomInv(report)
  BY InitTypeInv, InitVersionInv, InitLedger, InitSafetyInv, InitIdentity, InitQuietInv, InitRoom
     DEF LedgerInv
<1>2. /\ LedgerInv /\ SafetyInv /\ TargetsInv /\ IdentityInv /\ QuietInv /\ RoomInv(report)
      /\ [Next]_vars
      => LedgerInv' /\ SafetyInv' /\ TargetsInv' /\ IdentityInv' /\ QuietInv' /\ RoomInv(report)'
  BY NextTypeInv, NextVersionInv, NextIsEntry, NextSafetyInv, NextTargetsInv, NextIdentity,
     NextIsQuiet, NextLeavesRoom DEF LedgerInv
<1>3. LedgerInv /\ SafetyInv /\ IdentityInv /\ QuietInv /\ RoomInv(report) => NoDoubleBooking
  BY StandingFits
<1> QED
  BY <1>1, <1>2, <1>3, PTL DEF Spec
=============================================================================
