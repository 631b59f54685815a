---------------------------- MODULE Broker_proof ----------------------------
(***************************************************************************)
(* What holds of the reservation core for every set of clusters and        *)
(* reservations, every request, every bound and every interleaving.        *)
(***************************************************************************)
EXTENDS Broker, TLAPS

-----------------------------------------------------------------------------
(* The resource arithmetic stays within quantities.                        *)

LEMMA QuantitiesClosed ==
  /\ NoResources \in Quantities
  /\ \A a, b \in Quantities : Plus(a, b) \in Quantities /\ Minus(a, b) \in Quantities
  BY DEF Quantities, NoResources, Plus, Minus

(* Locking and releasing move resources between Available and Reserved and *)
(* keep their sum, kind by kind.                                           *)
LEMMA LockAndReleaseKeepTheSum ==
  ASSUME NEW a \in Advertisement, NEW q \in Quantities
  PROVE  /\ AddReservation(a, q) \in Advertisement
         /\ RemoveReservation(a, q) \in Advertisement
         /\ Plus(AddReservation(a, q).available, AddReservation(a, q).reserved)
              = Plus(a.available, a.reserved)
         /\ Plus(RemoveReservation(a, q).available, RemoveReservation(a, q).reserved)
              = Plus(a.available, a.reserved)
<1>1. /\ a.available \in [Kinds -> Int] /\ a.reserved \in [Kinds -> Int] /\ q \in [Kinds -> Int]
      /\ a = [rv |-> a.rv, available |-> a.available, reserved |-> a.reserved,
              hasReserved |-> a.hasReserved, active |-> a.active]
  BY DEF Advertisement, Quantities
<1>2. /\ AddReservation(a, q).available = Minus(a.available, q)
      /\ AddReservation(a, q).reserved = Plus(a.reserved, q)
      /\ RemoveReservation(a, q).available = Plus(a.available, q)
      /\ RemoveReservation(a, q).reserved = Minus(a.reserved, q)
  BY DEF Advertisement, AddReservation, RemoveReservation
<1>3. /\ AddReservation(a, q) \in Advertisement
      /\ RemoveReservation(a, q) \in Advertisement
  BY QuantitiesClosed DEF Advertisement, AddReservation, RemoveReservation
<1>4. /\ Plus(Minus(a.available, q), Plus(a.reserved, q)) = Plus(a.available, a.reserved)
      /\ Plus(Plus(a.available, q), Minus(a.reserved, q)) = Plus(a.available, a.reserved)
  BY <1>1 DEF Plus, Minus
<1> QED
  BY <1>2, <1>3, <1>4

LEMMA MergeType ==
  ASSUME NEW a \in Advertisement, NEW report \in Quantities
  PROVE  Merge(a, report) \in Advertisement
  BY QuantitiesClosed DEF Merge, Advertisement
-----------------------------------------------------------------------------
(* Type correctness.                                                       *)

LEMMA NewObjectsType ==
  /\ NoReservation \in Reservation
  /\ \A c \in Clusters \cup {None} : NewReservation(c) \in Reservation
  /\ NoAdvertisement \in Advertisement
  /\ \A report \in Quantities : NewAdvertisement(report) \in Advertisement
<1>1. NoReservation \in Reservation
  BY DEF NoReservation, Reservation, Phases
<1>2. \A c \in Clusters \cup {None} : NewReservation(c) \in Reservation
  BY DEF NewReservation, NoReservation, Reservation, Phases
<1>3. NoAdvertisement \in Advertisement
  BY QuantitiesClosed DEF NoAdvertisement, Advertisement
<1>4. \A report \in Quantities : NewAdvertisement(report) \in Advertisement
  BY QuantitiesClosed DEF NewAdvertisement, NoAdvertisement, Advertisement
<1> QED
  BY <1>1, <1>2, <1>3, <1>4

LEMMA PutAdvType ==
  ASSUME adv \in [Clusters -> Advertisement],
         NEW c \in Clusters, NEW a \in Advertisement, PutAdv(c, a)
  PROVE  adv' \in [Clusters -> Advertisement]
<1>1. adv[c].rv + 1 \in Nat
  BY DEF Advertisement
<1>2. [a EXCEPT !.rv = adv[c].rv + 1] \in Advertisement
  BY <1>1 DEF Advertisement
<1> QED
  BY <1>2 DEF PutAdv

LEMMA PutRsvType ==
  ASSUME rsv \in [Reservations -> Reservation],
         NEW r \in Reservations, NEW o \in Reservation, PutRsv(r, o)
  PROVE  rsv' \in [Reservations -> Reservation]
<1>1. rsv[r].rv + 1 \in Nat
  BY DEF Reservation
<1>2. [o EXCEPT !.rv = rsv[r].rv + 1] \in Reservation
  BY <1>1 DEF Reservation
<1> QED
  BY <1>2 DEF PutRsv

LEMMA AsReservedType ==
  ASSUME clock \in Nat, NEW r \in Reservations, NEW o \in Reservation
  PROVE  AsReserved(r, o) \in Reservation
<1>1. /\ clock + Duration[r] \in Nat
      /\ o.expiresAt \in Nat
  BY DataAssumption DEF Reservation
<1> QED
  BY <1>1 DEF AsReserved, Reservation, Phases

(* TypeOK is not inductive: the worker's program counter says which values *)
(* its other variables can have.                                           *)
WorkerInv ==
  /\ wpc # "idle" => wr \in Reservations
  /\ wpc = "release" => wgoal \in {"Active", "Released", "gone"}
  /\ wpc = "status" => wgoal \in {"Reserved", "Active", "Released", "Failed"}

TypeInv == TypeOK /\ WorkerInv

LEMMA BoundsType ==
  /\ \A n \in {MaxTime, MaxReports, MaxTouches, MaxUserWrites, MaxStaleStarts, MaxCrashes,
            MaxErrors} :
       n \in Nat /\ 0 \in 0 .. n /\ \A m \in 0 .. n : m \in Nat /\ (m < n => m + 1 \in 0 .. n)
  BY BoundsAssumption

LEMMA InitTypeInv == Init => TypeInv
<1> SUFFICES ASSUME Init PROVE TypeInv
  OBVIOUS
<1>1. PICK report \in [Registered -> Reports] :
        adv = [c \in Clusters |-> IF c \in Registered
                                  THEN [NewAdvertisement(report[c]) EXCEPT !.active = TRUE]
                                  ELSE NoAdvertisement]
  BY DEF Init
<1>2. \A c \in Registered :
        [NewAdvertisement(report[c]) EXCEPT !.active = TRUE] \in Advertisement
  BY NewObjectsType, DataAssumption DEF Advertisement
<1>3. adv \in [Clusters -> Advertisement]
  BY <1>1, <1>2, NewObjectsType, SetsAssumption
<1>4. rsv \in [Reservations -> Reservation] /\ wobj \in Reservation
  BY NewObjectsType DEF Init
<1> QED
  BY <1>3, <1>4, BoundsType DEF Init, TypeInv, TypeOK, WorkerInv

LEMMA LockType ==
  ASSUME adv \in [Clusters -> Advertisement], advCache \in [Clusters -> Advertisement],
         locks \in [Reservations -> Nat], NEW r \in Reservations, NEW c, Lock(r, c)
  PROVE  c \in Clusters /\ adv' \in [Clusters -> Advertisement]
                        /\ locks' \in [Reservations -> Nat]
<1>1. /\ c \in Clusters
      /\ AddReservation(advCache[c], Requested[r]) \in Advertisement
  BY LockAndReleaseKeepTheSum, DataAssumption DEF Lock, Fits, Known
<1>2. adv' \in [Clusters -> Advertisement]
  BY <1>1, PutAdvType DEF Lock
<1>3. locks[r] + 1 \in Nat
  OBVIOUS
<1>4. locks' \in [Reservations -> Nat]
  BY <1>3 DEF Lock
<1> QED
  BY <1>1, <1>2, <1>4

(* The objects the actions write.                                          *)
LEMMA EditsType ==
  ASSUME NEW o \in Reservation
  PROVE  /\ [o EXCEPT !.finalizer = TRUE] \in Reservation
         /\ [o EXCEPT !.finalizer = FALSE, !.exists = FALSE] \in Reservation
         /\ [o EXCEPT !.exists = FALSE] \in Reservation
         /\ [o EXCEPT !.deleting = TRUE] \in Reservation
         /\ [o EXCEPT !.requesterActive = TRUE] \in Reservation
         /\ [o EXCEPT !.requesterReleased = TRUE] \in Reservation
         /\ [o EXCEPT !.kubeconfig = TRUE] \in Reservation
         /\ \A c \in Clusters : [o EXCEPT !.target = c] \in Reservation
         /\ \A phase \in Phases : [o EXCEPT !.phase = phase] \in Reservation
  BY DEF Reservation

LEMMA HttpTypeInv ==
  ASSUME TypeInv, NEW r \in HttpRequests, HttpStep(r)
  PROVE  TypeInv'
<1> USE DEF TypeInv, TypeOK, WorkerInv, store, cache, worker, counts, ghosts
<1>r. r \in Reservations /\ clock \in Nat
  BY SetsAssumption, BoundsType
<1>1. CASE HttpCreate(r)
  <2>1. rsv' \in [Reservations -> Reservation]
    BY <1>1, <1>r, NewObjectsType, PutRsvType DEF HttpCreate, ActiveTargets
  <2> QED
    BY <2>1, <1>1 DEF HttpCreate
<1>2. CASE HttpAddFinalizer(r)
  <2>1. [rsv[r] EXCEPT !.finalizer = TRUE] \in Reservation
    BY <1>r DEF Reservation
  <2>2. rsv' \in [Reservations -> Reservation]
    BY <1>2, <1>r, <2>1, PutRsvType DEF HttpAddFinalizer
  <2> QED
    BY <2>2, <1>2 DEF HttpAddFinalizer
<1>3. CASE HttpLock(r)
  <2>1. adv' \in [Clusters -> Advertisement] /\ locks' \in [Reservations -> Nat]
    BY <1>3, <1>r, LockType DEF HttpLock
  <2> QED
    BY <2>1, <1>3 DEF HttpLock
<1>4. ASSUME NEW o \in Reservation, HttpWriteStatus(r, o) PROVE TypeInv'
  <2>1. rsv' \in [Reservations -> Reservation]
    BY <1>4, <1>r, PutRsvType DEF HttpWriteStatus
  <2> QED
    BY <2>1, <1>4 DEF HttpWriteStatus
<1>5. CASE HttpMarkReserved(r)
  BY <1>4, <1>5, <1>r, AsReservedType DEF HttpMarkReserved
<1>6. CASE HttpMarkFailed(r)
  <2> DEFINE o == [rsvCache[r] EXCEPT !.phase = "Failed"]
  <2>1. o \in Reservation
    BY <1>r, EditsType DEF Phases
  <2>2. HttpWriteStatus(r, o)
    BY <1>6 DEF HttpMarkFailed
  <2> HIDE DEF o, TypeInv
  <2> QED
    BY <1>4, <2>1, <2>2
<1> QED
  BY <1>1, <1>2, <1>3, <1>5, <1>6 DEF HttpStep

LEMMA AdvertisementTypeInv ==
  ASSUME TypeInv, NEW c \in Clusters,
         \/ \E report \in Reports : PostAdvertisement(c, report)
         \/ ReconcileAdvertisement(c)
         \/ SyncAdvertisement(c)
  PROVE  TypeInv'
<1> USE DEF TypeInv, TypeOK, WorkerInv, store, cache, worker, counts, ghosts
<1>1. ASSUME NEW report \in Reports, PostAdvertisement(c, report) PROVE TypeInv'
  <2>1. report \in Quantities
    BY DataAssumption
  <2>2. adv' \in [Clusters -> Advertisement]
    BY <1>1, <2>1, NewObjectsType, MergeType, PutAdvType DEF PostAdvertisement
  <2>3. reports' \in 0 .. MaxReports
    BY <1>1, BoundsType DEF PostAdvertisement
  <2> QED
    BY <1>1, <2>2, <2>3 DEF PostAdvertisement
<1>2. CASE ReconcileAdvertisement(c)
  <2>1. \A fresh \in BOOLEAN : [advCache[c] EXCEPT !.active = fresh] \in Advertisement
    BY DEF Advertisement
  <2>2. adv' \in [Clusters -> Advertisement]
    BY <1>2, <2>1, PutAdvType DEF ReconcileAdvertisement
  <2>3. touches' \in 0 .. MaxTouches
    BY <1>2, BoundsType DEF ReconcileAdvertisement
  <2> QED
    BY <1>2, <2>2, <2>3 DEF ReconcileAdvertisement
<1>3. CASE SyncAdvertisement(c)
  BY <1>3 DEF SyncAdvertisement
<1> QED
  BY <1>1, <1>2, <1>3

LEMMA ReleaseType ==
  ASSUME adv \in [Clusters -> Advertisement], advCache \in [Clusters -> Advertisement],
         unlocks \in [Reservations -> Nat], wr \in Reservations,
         NEW c \in Clusters, Release(c)
  PROVE  adv' \in [Clusters -> Advertisement] /\ unlocks' \in [Reservations -> Nat]
<1>1. RemoveReservation(advCache[c], Requested[wr]) \in Advertisement
  BY LockAndReleaseKeepTheSum, DataAssumption
<1>2. adv' \in [Clusters -> Advertisement]
  BY <1>1, PutAdvType DEF Release
<1>3. unlocks[wr] + 1 \in Nat
  OBVIOUS
<1>4. unlocks' \in [Reservations -> Nat]
  BY <1>3 DEF Release
<1> QED
  BY <1>2, <1>4

LEMMA WorkerTypeInv ==
  ASSUME TypeInv, Reconcile
  PROVE  TypeInv'
<1> USE DEF TypeInv, TypeOK, WorkerInv, store, cache, counts, ghosts,
            Finish, Requeue, Done, Goto
<1>n. NoReservation \in Reservation
  BY NewObjectsType
<1>1. CASE ReconcileDeleted
  BY <1>1, <1>n DEF ReconcileDeleted
<1>2. CASE AddFinalizer
  <2>1. [wobj EXCEPT !.finalizer = TRUE] \in Reservation
    BY DEF Reservation
  <2>2. wr \in Reservations
    BY <1>2 DEF AddFinalizer
  <2>3. rsv' \in [Reservations -> Reservation]
    BY <1>2, <2>1, <2>2, PutRsvType DEF AddFinalizer
  <2> QED
    BY <1>2, <1>n, <2>2, <2>3 DEF AddFinalizer
<1>3. CASE RejectInvalid
  BY <1>3 DEF RejectInvalid, InPhase
<1>4. CASE ReconcileTargeted
  BY <1>4 DEF ReconcileTargeted, InPhase
<1>5. CASE ReconcileUntargeted
  <2>1. \A c \in Clusters : [wobj EXCEPT !.target = c] \in Reservation
    BY DEF Reservation
  <2>2. wr \in Reservations
    BY <1>5 DEF ReconcileUntargeted, InPhase
  <2>3. rsv' \in [Reservations -> Reservation]
    BY <1>5, <2>1, <2>2, PutRsvType DEF ReconcileUntargeted, Candidates
  <2> QED
    BY <1>5, <1>n, <2>2, <2>3 DEF ReconcileUntargeted, InPhase
<1>6. CASE ReconcileReserved
  BY <1>6, <1>n DEF ReconcileReserved, InPhase
<1>7. CASE ReconcileActive
  BY <1>7, <1>n DEF ReconcileActive, InPhase
<1>8. CASE ReconcileTerminal
  BY <1>8, <1>n DEF ReconcileTerminal, InPhase
<1>9. CASE ReserveInTargetCluster
  <2>1. wr \in Reservations
    BY <1>9 DEF ReserveInTargetCluster
  <2>2. adv' \in [Clusters -> Advertisement] /\ locks' \in [Reservations -> Nat]
    BY <1>9, <2>1, LockType DEF ReserveInTargetCluster
  <2> QED
    BY <1>9, <1>n, <2>1, <2>2 DEF ReserveInTargetCluster
<1>10. CASE ReleaseResources
  <2>1. wr \in Reservations
    BY <1>10 DEF ReleaseResources
  <2>2. adv' \in [Clusters -> Advertisement] /\ unlocks' \in [Reservations -> Nat]
    BY <1>10, <2>1, ReleaseType DEF ReleaseResources, Holds, Known
  <2> QED
    BY <1>10, <1>n, <2>1, <2>2 DEF ReleaseResources, AfterRelease
<1>11. CASE WriteStatus
  <2>1. /\ wr \in Reservations
        /\ wgoal \in Phases
        /\ clock \in Nat
    BY <1>11, BoundsType DEF WriteStatus, Phases
  <2>2. /\ AsReserved(wr, wobj) \in Reservation
        /\ [wobj EXCEPT !.phase = wgoal] \in Reservation
    BY <2>1, AsReservedType DEF Reservation
  <2>3. rsv' \in [Reservations -> Reservation]
    BY <1>11, <2>1, <2>2, PutRsvType DEF WriteStatus
  <2> QED
    BY <1>11, <1>n, <2>1, <2>3 DEF WriteStatus
<1>12. CASE RemoveFinalizer
  <2>1. /\ wr \in Reservations
        /\ [wobj EXCEPT !.finalizer = FALSE, !.exists = FALSE] \in Reservation
    BY <1>12 DEF RemoveFinalizer, Reservation
  <2>2. rsv' \in [Reservations -> Reservation]
    BY <1>12, <2>1, PutRsvType DEF RemoveFinalizer
  <2> QED
    BY <1>12, <1>n, <2>1, <2>2 DEF RemoveFinalizer
<1> QED
  BY <1>1, <1>2, <1>3, <1>4, <1>5, <1>6, <1>7, <1>8, <1>9, <1>10, <1>11, <1>12
     DEF Reconcile

LEMMA ReservationTypeInv ==
  ASSUME TypeInv, NEW r \in Reservations,
         \/ StartReconcile(r) \/ SyncReservation(r)
         \/ CreateReservation(r) \/ DeleteReservation(r)
         \/ SignalRequester(r) \/ PostPeeringKubeconfig(r)
  PROVE  TypeInv'
<1> USE DEF TypeInv, TypeOK, WorkerInv, store, cache, worker, counts, ghosts
<1>1. CASE StartReconcile(r)
  <2>1. staleStarts' \in 0 .. MaxStaleStarts
    BY <1>1, BoundsType DEF StartReconcile
  <2>2. rsvCache[r] \in Reservation
    OBVIOUS
  <2> QED
    BY <1>1, <2>1, <2>2 DEF StartReconcile
<1>2. CASE SyncReservation(r)
  BY <1>2 DEF SyncReservation
<1>3. CASE CreateReservation(r)
  <2>1. rsv' \in [Reservations -> Reservation]
    BY <1>3, NewObjectsType, PutRsvType DEF CreateReservation
  <2> QED
    BY <1>3, <2>1 DEF CreateReservation
<1>4. ASSUME NEW o \in Reservation, UserWrite(r), PutRsv(r, o) PROVE TypeInv'
  <2>1. userWrites' \in 0 .. MaxUserWrites
    BY <1>4, BoundsType DEF UserWrite
  <2>2. rsv' \in [Reservations -> Reservation]
    BY <1>4, PutRsvType
  <2> QED
    BY <1>4, <2>1, <2>2 DEF UserWrite
<1>5. CASE DeleteReservation(r)
  <2>1. /\ [rsv[r] EXCEPT !.deleting = TRUE] \in Reservation
        /\ [rsv[r] EXCEPT !.exists = FALSE] \in Reservation
    BY DEF Reservation
  <2> QED
    BY <1>4, <1>5, <2>1 DEF DeleteReservation
<1>6. CASE SignalRequester(r)
  <2>1. /\ [rsv[r] EXCEPT !.requesterActive = TRUE] \in Reservation
        /\ [rsv[r] EXCEPT !.requesterReleased = TRUE] \in Reservation
    BY DEF Reservation
  <2> QED
    BY <1>4, <1>6, <2>1 DEF SignalRequester
<1>7. CASE PostPeeringKubeconfig(r)
  <2>1. [rsvCache[r] EXCEPT !.kubeconfig = TRUE] \in Reservation
    BY DEF Reservation
  <2> QED
    BY <1>4, <1>7, <2>1 DEF PostPeeringKubeconfig
<1> QED
  BY <1>1, <1>2, <1>3, <1>5, <1>6, <1>7

(* A call that fails: nothing is written, or the lock whose answer is lost.*)
CallFails ==
  \/ \E r \in HttpRequests : HttpCallFails(r) \/ HttpLockAnswerLost(r)
  \/ WorkerCallFails

LEMMA ErrorTypeInv ==
  ASSUME TypeInv, CallFails
  PROVE  TypeInv'
<1> USE DEF TypeInv, TypeOK, WorkerInv, store, cache, worker, counts, ghosts
<1>e. ApiError => errors' \in 0 .. MaxErrors
  BY BoundsType DEF ApiError
<1>1. ASSUME NEW r \in HttpRequests, HttpCallFails(r) PROVE TypeInv'
  BY <1>1, <1>e DEF HttpCallFails
<1>2. ASSUME NEW r \in HttpRequests, HttpLockAnswerLost(r) PROVE TypeInv'
  <2>1. adv' \in [Clusters -> Advertisement] /\ locks' \in [Reservations -> Nat]
    BY <1>2, SetsAssumption, LockType DEF HttpLockAnswerLost
  <2> QED
    BY <1>2, <1>e, <2>1 DEF HttpLockAnswerLost
<1>3. CASE WorkerCallFails
  <2>1. wr \in Reservations
    BY <1>3 DEF WorkerCallFails
  <2> QED
    BY <1>3, <1>e, <2>1, NewObjectsType DEF WorkerCallFails, Requeue, Finish
<1> QED
  BY <1>1, <1>2, <1>3 DEF CallFails

LEMMA NextTypeInv == TypeInv /\ [Next]_vars => TypeInv'
<1> SUFFICES ASSUME TypeInv, [Next]_vars PROVE TypeInv'
  OBVIOUS
<1>1. CASE Tick
  <2>1. clock' \in 0 .. MaxTime
    BY <1>1, BoundsType DEF Tick, TypeInv, TypeOK
  <2> QED
    BY <1>1, <2>1 DEF Tick, TypeInv, TypeOK, WorkerInv, store, cache, worker, counts, ghosts
<1>2. CASE Crash
  <2>1. crashes' \in 0 .. MaxCrashes
    BY <1>2, BoundsType DEF Crash, TypeInv, TypeOK
  <2> QED
    BY <1>2, <2>1, NewObjectsType
       DEF Crash, Finish, TypeInv, TypeOK, WorkerInv, store, ghosts
<1>3. CASE UNCHANGED vars
  BY <1>3 DEF vars, TypeInv, TypeOK, WorkerInv, store, cache, worker, counts, ghosts
<1> QED
  BY <1>1, <1>2, <1>3, HttpTypeInv, AdvertisementTypeInv, ReservationTypeInv, WorkerTypeInv,
     ErrorTypeInv
     DEF Next, CallFails

(* Every variable keeps its type, whatever the sets, requests and bounds:  *)
(* quantities stay quantities, the worker never writes its removal goal    *)
(* as a phase, and every counter stays within its bound.                   *)
THEOREM TypeCorrect == Spec => []TypeOK
<1>1. TypeInv => TypeOK
  BY DEF TypeInv
<1> QED
  BY <1>1, InitTypeInv, NextTypeInv, PTL DEF Spec

-----------------------------------------------------------------------------
(* Optimistic concurrency: what a resourceVersion stands for.              *)

(* A copy of an object is never newer than the object, and a copy of the   *)
(* current version is the object.                                          *)
CopyOf(copy, object) == copy.rv <= object.rv /\ (copy.rv = object.rv => copy = object)

VersionInv ==
  /\ \A c \in Clusters : CopyOf(advCache[c], adv[c])
  /\ \A r \in Reservations : CopyOf(rsvCache[r], rsv[r])
  /\ wpc # "idle" => CopyOf(wobj, rsv[wr])

(* Any change of an object in a step gives it a new version.               *)
AdvGrows == \A c \in Clusters : adv'[c] = adv[c] \/ adv'[c].rv > adv[c].rv
RsvGrows == \A r \in Reservations : rsv'[r] = rsv[r] \/ rsv'[r].rv > rsv[r].rv

LEMMA PutAdvGrows ==
  ASSUME adv \in [Clusters -> Advertisement], NEW c \in Clusters,
         NEW a \in Advertisement, PutAdv(c, a)
  PROVE  AdvGrows
<1>1. adv[c].rv \in Nat
  BY DEF Advertisement
<1>2. [a EXCEPT !.rv = adv[c].rv + 1].rv = adv[c].rv + 1
  BY DEF Advertisement
<1>3. \A d \in Clusters : adv'[d] = IF d = c THEN [a EXCEPT !.rv = adv[c].rv + 1] ELSE adv[d]
  BY DEF PutAdv
<1>4. adv'[c].rv = adv[c].rv + 1
  BY <1>2, <1>3
<1>5. adv[c].rv + 1 > adv[c].rv
  BY <1>1
<1> QED
  BY <1>3, <1>4, <1>5 DEF AdvGrows

LEMMA PutRsvGrows ==
  ASSUME rsv \in [Reservations -> Reservation], NEW r \in Reservations,
         NEW o \in Reservation, PutRsv(r, o)
  PROVE  RsvGrows
<1>1. rsv[r].rv \in Nat
  BY DEF Reservation
<1>2. [o EXCEPT !.rv = rsv[r].rv + 1].rv = rsv[r].rv + 1
  BY DEF Reservation
<1>3. CASE o = rsv[r]
  BY <1>3 DEF PutRsv, RsvGrows
<1>4. CASE o # rsv[r]
  <2>1. \A x \in Reservations :
          rsv'[x] = IF x = r THEN [o EXCEPT !.rv = rsv[r].rv + 1] ELSE rsv[x]
    BY <1>4 DEF PutRsv
  <2>2. rsv'[r].rv = rsv[r].rv + 1
    BY <1>2, <2>1
  <2>3. rsv[r].rv + 1 > rsv[r].rv
    BY <1>1
  <2> QED
    BY <2>1, <2>2, <2>3 DEF RsvGrows
<1> QED
  BY <1>3, <1>4

(* Every write of a Reservation goes through PutRsv with a whole object.   *)
LEMMA RsvWrites ==
  ASSUME TypeInv, [Next]_vars
  PROVE  rsv' = rsv \/ \E r \in Reservations, o \in Reservation : PutRsv(r, o)
<1> DEFINE Written == rsv' = rsv \/ \E r \in Reservations, o \in Reservation : PutRsv(r, o)
<1>c. clock \in Nat /\ HttpRequests \subseteq Reservations
  BY BoundsType, SetsAssumption DEF TypeInv, TypeOK
<1>t. /\ wobj \in Reservation
      /\ \A r \in Reservations : rsv[r] \in Reservation /\ rsvCache[r] \in Reservation
      /\ wpc # "idle" => wr \in Reservations
      /\ wpc = "status" => wgoal \in Phases
  BY DEF TypeInv, TypeOK, WorkerInv, Phases
<1>1. ASSUME NEW r \in HttpRequests, HttpStep(r) PROVE Written
  <2>1. CASE HttpCreate(r)
    BY <2>1, <1>c, NewObjectsType DEF HttpCreate, ActiveTargets
  <2>2. CASE HttpAddFinalizer(r)
    BY <2>2, <1>c, <1>t, EditsType DEF HttpAddFinalizer
  <2>3. CASE HttpLock(r)
    BY <2>3 DEF HttpLock
  <2>4. CASE HttpMarkReserved(r)
    BY <2>4, <1>c, <1>t, AsReservedType DEF HttpMarkReserved, HttpWriteStatus
  <2>5. CASE HttpMarkFailed(r)
    BY <2>5, <1>c, <1>t, EditsType DEF HttpMarkFailed, HttpWriteStatus, Phases
  <2> QED
    BY <1>1, <2>1, <2>2, <2>3, <2>4, <2>5 DEF HttpStep
<1>2. ASSUME NEW c \in Clusters,
             \/ \E report \in Reports : PostAdvertisement(c, report)
             \/ ReconcileAdvertisement(c)
             \/ SyncAdvertisement(c)
      PROVE  Written
  BY <1>2 DEF PostAdvertisement, ReconcileAdvertisement, SyncAdvertisement, store
<1>3. ASSUME NEW r \in Reservations,
             \/ StartReconcile(r) \/ SyncReservation(r)
             \/ CreateReservation(r) \/ DeleteReservation(r)
             \/ SignalRequester(r) \/ PostPeeringKubeconfig(r)
      PROVE  Written
  <2>1. CASE StartReconcile(r) \/ SyncReservation(r)
    BY <2>1 DEF StartReconcile, SyncReservation, store
  <2>2. CASE CreateReservation(r)
    BY <2>2, NewObjectsType DEF CreateReservation
  <2>3. CASE DeleteReservation(r)
    BY <2>3, <1>t, EditsType DEF DeleteReservation
  <2>4. CASE SignalRequester(r)
    BY <2>4, <1>t, EditsType DEF SignalRequester
  <2>5. CASE PostPeeringKubeconfig(r)
    BY <2>5, <1>t, EditsType DEF PostPeeringKubeconfig
  <2> QED
    BY <1>3, <2>1, <2>2, <2>3, <2>4, <2>5
<1>4. CASE Reconcile
  <2>1. CASE AddFinalizer
    BY <2>1, <1>t, EditsType DEF AddFinalizer
  <2>2. CASE ReconcileUntargeted
    BY <2>2, <1>t, EditsType DEF ReconcileUntargeted, InPhase, Candidates
  <2>3. CASE WriteStatus
    BY <2>3, <1>c, <1>t, EditsType, AsReservedType DEF WriteStatus
  <2>4. CASE RemoveFinalizer
    BY <2>4, <1>t, EditsType DEF RemoveFinalizer
  <2> QED
    BY <1>4, <2>1, <2>2, <2>3, <2>4
       DEF Reconcile, ReconcileDeleted, RejectInvalid, ReconcileTargeted, ReconcileReserved,
           ReconcileActive, ReconcileTerminal, ReserveInTargetCluster, ReleaseResources, store
<1>5. CASE Tick \/ Crash \/ UNCHANGED vars
  BY <1>5 DEF Tick, Crash, vars, store
<1>6. CASE CallFails
  BY <1>6 DEF CallFails, HttpCallFails, HttpLockAnswerLost, WorkerCallFails, store
<1> QED
  BY <1>1, <1>2, <1>3, <1>4, <1>5, <1>6 DEF Next, CallFails

LEMMA RsvStep == TypeInv /\ [Next]_vars => RsvGrows
  BY RsvWrites, PutRsvGrows DEF RsvGrows, TypeInv, TypeOK

LEMMA AdvStep == TypeInv /\ [Next]_vars => AdvGrows
<1> SUFFICES ASSUME TypeInv, [Next]_vars PROVE AdvGrows
  OBVIOUS
<1>t. /\ adv \in [Clusters -> Advertisement]
      /\ advCache \in [Clusters -> Advertisement]
      /\ wpc # "idle" => wr \in Reservations
      /\ HttpRequests \subseteq Reservations
  BY SetsAssumption DEF TypeInv, TypeOK, WorkerInv
<1>0. CASE UNCHANGED adv
  BY <1>0 DEF AdvGrows
<1>1. ASSUME NEW r \in Reservations, NEW c, Lock(r, c) PROVE AdvGrows
  <2>1. c \in Clusters /\ AddReservation(advCache[c], Requested[r]) \in Advertisement
    BY <1>1, <1>t, LockAndReleaseKeepTheSum, DataAssumption DEF Lock, Fits, Known
  <2> QED
    BY <1>1, <1>t, <2>1, PutAdvGrows DEF Lock
<1>2. ASSUME NEW c \in Clusters, wr \in Reservations, Release(c) PROVE AdvGrows
  <2>1. RemoveReservation(advCache[c], Requested[wr]) \in Advertisement
    BY <1>2, <1>t, LockAndReleaseKeepTheSum, DataAssumption
  <2> QED
    BY <1>2, <1>t, <2>1, PutAdvGrows DEF Release
<1>3. ASSUME NEW r \in HttpRequests, HttpStep(r) PROVE AdvGrows
  <2>1. CASE HttpLock(r)
    BY <1>0, <1>1, <1>t, <2>1 DEF HttpLock
  <2> QED
    BY <1>0, <1>3, <2>1
       DEF HttpStep, HttpCreate, HttpAddFinalizer, HttpMarkReserved, HttpMarkFailed,
           HttpWriteStatus
<1>4. ASSUME NEW c \in Clusters, NEW report \in Reports, PostAdvertisement(c, report)
      PROVE  AdvGrows
  <2>1. CASE adv[c].rv = 0 /\ adv' = [adv EXCEPT ![c] = NewAdvertisement(report)]
    <3>1. NewAdvertisement(report).rv = 1
      BY DEF NewAdvertisement, NoAdvertisement
    <3>2. \A d \in Clusters : adv'[d] = IF d = c THEN NewAdvertisement(report) ELSE adv[d]
      BY <1>t, <2>1
    <3> QED
      BY <2>1, <3>1, <3>2 DEF AdvGrows
  <2>2. CASE PutAdv(c, Merge(advCache[c], report))
    <3>1. Merge(advCache[c], report) \in Advertisement
      BY <1>t, MergeType, DataAssumption
    <3> QED
      BY <1>t, <2>2, <3>1, PutAdvGrows
  <2> QED
    BY <1>4, <2>1, <2>2 DEF PostAdvertisement
<1>5. ASSUME NEW c \in Clusters, ReconcileAdvertisement(c) PROVE AdvGrows
  <2>1. \A fresh \in BOOLEAN : [advCache[c] EXCEPT !.active = fresh] \in Advertisement
    BY <1>t DEF Advertisement
  <2> QED
    BY <1>t, <1>5, <2>1, PutAdvGrows DEF ReconcileAdvertisement
<1>6. ASSUME NEW c \in Clusters, SyncAdvertisement(c) PROVE AdvGrows
  BY <1>0, <1>6 DEF SyncAdvertisement, store
<1>7. ASSUME NEW r \in Reservations,
             \/ StartReconcile(r) \/ SyncReservation(r)
             \/ CreateReservation(r) \/ DeleteReservation(r)
             \/ SignalRequester(r) \/ PostPeeringKubeconfig(r)
      PROVE  AdvGrows
  BY <1>0, <1>7 DEF StartReconcile, SyncReservation, CreateReservation, DeleteReservation,
                    SignalRequester, PostPeeringKubeconfig, UserWrite, store
<1>8. CASE Reconcile
  <2>1. CASE ReserveInTargetCluster
    BY <1>0, <1>1, <1>t, <2>1 DEF ReserveInTargetCluster
  <2>2. CASE ReleaseResources
    BY <1>0, <1>2, <1>t, <2>2 DEF ReleaseResources, Holds, Known
  <2> QED
    BY <1>0, <1>8, <2>1, <2>2
       DEF Reconcile, ReconcileDeleted, AddFinalizer, RejectInvalid, ReconcileTargeted,
           ReconcileUntargeted, ReconcileReserved, ReconcileActive, ReconcileTerminal,
           WriteStatus, RemoveFinalizer, store
<1>9. CASE Tick \/ Crash \/ UNCHANGED vars
  BY <1>0, <1>9 DEF Tick, Crash, vars, store
<1>10. CASE CallFails
  BY <1>0, <1>1, <1>t, <1>10
     DEF CallFails, HttpCallFails, HttpLockAnswerLost, WorkerCallFails, store
<1> QED
  BY <1>3, <1>4, <1>5, <1>6, <1>7, <1>8, <1>9, <1>10 DEF Next, CallFails

(* The cache only ever takes over current objects, and the worker's copy   *)
(* comes from the cache or from its own accepted update.                   *)
LEMMA CacheStep ==
  ASSUME TypeInv, [Next]_vars
  PROVE  /\ \A c \in Clusters : advCache'[c] \in {advCache[c], adv[c]}
         /\ \A r \in Reservations : rsvCache'[r] \in {rsvCache[r], rsv[r]}
         /\ UNCHANGED rsvCache \/ UNCHANGED <<rsv, wobj, wr, wpc>> \/ wpc' = "idle"
<1> DEFINE Cached == /\ \A c \in Clusters : advCache'[c] \in {advCache[c], adv[c]}
                     /\ \A r \in Reservations : rsvCache'[r] \in {rsvCache[r], rsv[r]}
                     /\ UNCHANGED rsvCache \/ UNCHANGED <<rsv, wobj, wr, wpc>> \/ wpc' = "idle"
<1>t. /\ advCache \in [Clusters -> Advertisement] /\ adv \in [Clusters -> Advertisement]
      /\ rsvCache \in [Reservations -> Reservation] /\ rsv \in [Reservations -> Reservation]
  BY DEF TypeInv, TypeOK
<1>1. CASE UNCHANGED cache
  BY <1>1 DEF cache
<1>2. ASSUME NEW c \in Clusters, SyncAdvertisement(c) PROVE Cached
  BY <1>2, <1>t DEF SyncAdvertisement
<1>3. ASSUME NEW r \in Reservations, SyncReservation(r) PROVE Cached
  BY <1>3, <1>t DEF SyncReservation, store, worker
<1>4. CASE Crash
  BY <1>4 DEF Crash, Finish
<1>5. ASSUME NEW r \in HttpRequests, HttpStep(r) PROVE UNCHANGED cache
  BY <1>5 DEF HttpStep, HttpCreate, HttpAddFinalizer, HttpLock, HttpMarkReserved,
              HttpMarkFailed, HttpWriteStatus
<1>6. ASSUME NEW c \in Clusters,
             (\E report \in Reports : PostAdvertisement(c, report)) \/ ReconcileAdvertisement(c)
      PROVE  UNCHANGED cache
  BY <1>6 DEF PostAdvertisement, ReconcileAdvertisement
<1>7. ASSUME NEW r \in Reservations,
             \/ StartReconcile(r)
             \/ CreateReservation(r) \/ DeleteReservation(r)
             \/ SignalRequester(r) \/ PostPeeringKubeconfig(r)
      PROVE  UNCHANGED cache
  BY <1>7 DEF StartReconcile, CreateReservation, DeleteReservation,
              SignalRequester, PostPeeringKubeconfig, UserWrite, cache
<1>8. CASE Reconcile
  BY <1>1, <1>8 DEF Reconcile, ReconcileDeleted, AddFinalizer, RejectInvalid, ReconcileTargeted,
              ReconcileUntargeted, ReconcileReserved, ReconcileActive, ReconcileTerminal,
              ReserveInTargetCluster, ReleaseResources, WriteStatus, RemoveFinalizer
<1>9. CASE Tick \/ UNCHANGED vars
  BY <1>1, <1>9 DEF Tick, vars
<1>10. CASE CallFails
  BY <1>1, <1>10 DEF CallFails, HttpCallFails, HttpLockAnswerLost, WorkerCallFails
<1> QED
  BY <1>1, <1>2, <1>3, <1>4, <1>5, <1>6, <1>7, <1>8, <1>9, <1>10 DEF Next, CallFails

LEMMA WorkerStep ==
  ASSUME TypeInv, [Next]_vars
  PROVE  \/ wpc' = "idle"
         \/ wr' = wr /\ wpc # "idle" /\ wobj' \in {wobj, rsv'[wr]}
         \/ /\ wpc = "idle" /\ wr' \in Reservations /\ UNCHANGED rsv
            /\ wobj' = rsvCache[wr'] /\ wobj'.exists /\ wpc' = "reconcile"
<1>1. CASE UNCHANGED worker
  BY <1>1 DEF worker
<1>2. ASSUME NEW r \in Reservations, StartReconcile(r)
      PROVE  \/ wpc' = "idle"
             \/ /\ wpc = "idle" /\ wr' \in Reservations /\ UNCHANGED rsv
                /\ wobj' = rsvCache[wr'] /\ wobj'.exists /\ wpc' = "reconcile"
  BY <1>2 DEF StartReconcile, store
<1>3. CASE Crash
  BY <1>3 DEF Crash, Finish
<1>4. CASE Reconcile
  BY <1>4 DEF Reconcile, ReconcileDeleted, AddFinalizer, RejectInvalid, ReconcileTargeted,
              ReconcileUntargeted, ReconcileReserved, ReconcileActive, ReconcileTerminal,
              ReserveInTargetCluster, ReleaseResources, AfterRelease, WriteStatus, RemoveFinalizer,
              InPhase, Goto, Requeue, Done, Finish
<1>5. ASSUME NEW r \in HttpRequests, HttpStep(r) PROVE UNCHANGED worker
  BY <1>5 DEF HttpStep, HttpCreate, HttpAddFinalizer, HttpLock, HttpMarkReserved,
              HttpMarkFailed, HttpWriteStatus
<1>6. ASSUME NEW c \in Clusters,
             \/ \E report \in Reports : PostAdvertisement(c, report)
             \/ ReconcileAdvertisement(c) \/ SyncAdvertisement(c)
      PROVE  UNCHANGED worker
  BY <1>6 DEF PostAdvertisement, ReconcileAdvertisement, SyncAdvertisement
<1>7. ASSUME NEW r \in Reservations,
             \/ SyncReservation(r)
             \/ CreateReservation(r) \/ DeleteReservation(r)
             \/ SignalRequester(r) \/ PostPeeringKubeconfig(r)
      PROVE  UNCHANGED worker
  BY <1>7 DEF SyncReservation, CreateReservation, DeleteReservation,
              SignalRequester, PostPeeringKubeconfig, UserWrite
<1>8. CASE Tick \/ UNCHANGED vars
  BY <1>1, <1>8 DEF Tick, vars
<1>9. CASE CallFails
  BY <1>1, <1>9 DEF CallFails, HttpCallFails, HttpLockAnswerLost, WorkerCallFails,
                    Requeue, Finish
<1> QED
  BY <1>1, <1>2, <1>3, <1>4, <1>5, <1>6, <1>7, <1>8, <1>9 DEF Next, CallFails

LEMMA NextVersionInv == TypeInv /\ VersionInv /\ [Next]_vars => VersionInv'
<1> SUFFICES ASSUME TypeInv, VersionInv, [Next]_vars PROVE VersionInv'
  OBVIOUS
<1>t. TypeInv'
  BY NextTypeInv
<1>v. /\ \A c \in Clusters : /\ adv[c].rv \in Nat /\ adv'[c].rv \in Nat
                             /\ advCache[c].rv \in Nat
      /\ \A r \in Reservations : /\ rsv[r].rv \in Nat /\ rsv'[r].rv \in Nat
                                 /\ rsvCache[r].rv \in Nat
      /\ wobj.rv \in Nat
  BY <1>t DEF TypeInv, TypeOK, Advertisement, Reservation
<1>1. \A c \in Clusters : CopyOf(advCache'[c], adv'[c])
  BY <1>v, AdvStep, CacheStep DEF VersionInv, CopyOf, AdvGrows
<1>2. \A r \in Reservations : CopyOf(rsvCache'[r], rsv'[r])
  BY <1>v, RsvStep, CacheStep DEF VersionInv, CopyOf, RsvGrows
<1>3. wpc' # "idle" => CopyOf(wobj', rsv'[wr'])
  <2>1. CASE wr' = wr /\ wpc # "idle" /\ wobj' = wobj
    BY <1>v, <2>1, RsvStep DEF VersionInv, CopyOf, RsvGrows, TypeInv, WorkerInv
  <2>2. CASE wr' = wr /\ wpc # "idle" /\ wobj' = rsv'[wr]
    BY <1>v, <2>2 DEF CopyOf, TypeInv, WorkerInv
  <2>3. CASE wr' \in Reservations /\ UNCHANGED rsv /\ wobj' = rsvCache[wr']
    BY <2>3 DEF VersionInv, CopyOf
  <2> QED
    BY <2>1, <2>2, <2>3, WorkerStep
<1> QED
  BY <1>1, <1>2, <1>3 DEF VersionInv

LEMMA InitVersionInv == Init => VersionInv
<1> SUFFICES ASSUME Init PROVE VersionInv
  OBVIOUS
<1>1. /\ \A c \in Clusters : adv[c].rv \in Nat
      /\ \A r \in Reservations : rsv[r].rv \in Nat
  BY InitTypeInv DEF TypeInv, TypeOK, Advertisement, Reservation
<1>2. advCache = adv /\ rsvCache = rsv /\ wpc = "idle"
  BY DEF Init
<1> QED
  BY <1>1, <1>2 DEF VersionInv, CopyOf

=============================================================================
