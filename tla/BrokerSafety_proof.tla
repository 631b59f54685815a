------------------------- MODULE BrokerSafety_proof -------------------------
(***************************************************************************)
(* The phase of a Reservation tells the truth about its resources: what    *)
(* shows Reserved has been locked and cannot be removed unnoticed, what    *)
(* has been settled or removed has been released.                          *)
(***************************************************************************)
EXTENDS Broker_proof

(* What the phase of an object, or of a copy of it, stands for.  A copy    *)
(* may be outdated: the counts only grow, and a cluster that is known      *)
(* stays known.                                                            *)
Backed(r, o) ==
  /\ o.phase = "Reserved" => locks[r] > 0 /\ Known(o.target)
  /\ o.phase \in {"Active", "Released"} => unlocks[r] > 0

CopiesInv ==
  /\ \A r \in Reservations : Backed(r, rsv[r]) /\ Backed(r, rsvCache[r])
  /\ wpc # "idle" => Backed(wr, wobj)

(* The first version of an object is the one that was created, and only a  *)
(* handler gives an object without a finalizer a phase.                    *)
ObjectInv ==
  \A r \in Reservations :
    /\ rsv[r].rv = 0 => ~ rsv[r].exists /\ ~ rsv[r].finalizer
    /\ rsv[r].rv = 1 => rsv[r].exists /\ ~ rsv[r].finalizer
    /\ r \notin HttpRequests /\ rsv[r].exists /\ ~ rsv[r].finalizer => rsv[r].phase = ""

(* The handlers: the target was known when the Reservation was created,    *)
(* and only one that has locked goes on to write Reserved.                 *)
HttpInv ==
  \A r \in HttpRequests :
    /\ rsv[r].rv > 0 => Known(rsv[r].target)
    /\ http[r] # "ready" => rsv[r].rv > 0
    /\ http[r] = "reserve" => locks[r] > 0

(* The worker: what its goal presupposes.                                  *)
GoalInv ==
  /\ wpc # "idle" => wobj.exists
  /\ wpc \notin {"idle", "reconcile"} => wobj.finalizer
  /\ wpc = "release" =>
       \/ wgoal = "gone"
       \/ wgoal \in {"Active", "Released"} /\ wobj.phase \in {"Reserved", "Active"}
  /\ wpc = "status" =>
       \/ wgoal = "Failed"
       \/ wgoal = "Reserved" /\ locks[wr] > 0 /\ Known(wobj.target)
       \/ wgoal \in {"Active", "Released"} /\ unlocks[wr] > 0
  /\ wpc = "finalizer" => (wobj.phase = "Reserved" => unlocks[wr] > 0)

SafetyInv == CopiesInv /\ ObjectInv /\ HttpInv /\ GoalInv

Base == TypeInv /\ VersionInv /\ SafetyInv

-----------------------------------------------------------------------------
(* What never gets less.                                                   *)
KnownAfter(c) == c \in Clusters /\ advCache'[c].rv > 0

KnownStays(c) == Known(c) => KnownAfter(c)

CountsStay(r) == /\ locks[r] > 0 => locks'[r] > 0
                 /\ unlocks[r] > 0 => unlocks'[r] > 0

LEMMA Knowledge ==
  ASSUME TypeInv, VersionInv, [Next]_vars, NEW c
  PROVE  KnownStays(c)
<1>1. ASSUME Known(c) PROVE KnownAfter(c)
  <2>1. c \in Clusters /\ advCache[c].rv > 0
    BY <1>1 DEF Known
  <2>2. /\ advCache[c].rv \in Nat /\ adv[c].rv \in Nat
        /\ advCache[c].rv <= adv[c].rv
    BY <2>1 DEF TypeInv, TypeOK, Advertisement, VersionInv, CopyOf
  <2>3. advCache'[c] \in {advCache[c], adv[c]}
    BY <2>1, CacheStep
  <2> QED
    BY <2>1, <2>2, <2>3 DEF KnownAfter
<1> QED
  BY <1>1 DEF KnownStays

LEMMA Counts ==
  ASSUME TypeInv, [Next]_vars, NEW r \in Reservations
  PROVE  CountsStay(r)
<1>t. /\ locks \in [Reservations -> Nat] /\ unlocks \in [Reservations -> Nat]
      /\ locks[r] \in Nat /\ unlocks[r] \in Nat
  BY DEF TypeInv, TypeOK
<1>0. CASE UNCHANGED ghosts
  BY <1>0 DEF ghosts, CountsStay
<1>1. ASSUME NEW x, NEW c, Lock(x, c), UNCHANGED unlocks PROVE CountsStay(r)
  <2>1. locks'[r] \in {locks[r], locks[r] + 1}
    BY <1>1, <1>t DEF Lock
  <2> QED
    BY <1>1, <1>t, <2>1 DEF CountsStay
<1>2. ASSUME NEW c, Release(c), UNCHANGED locks PROVE CountsStay(r)
  <2>1. unlocks'[r] \in {unlocks[r], unlocks[r] + 1}
    BY <1>2, <1>t DEF Release
  <2> QED
    BY <1>2, <1>t, <2>1 DEF CountsStay
<1>3. ASSUME NEW x \in HttpRequests, HttpStep(x) PROVE CountsStay(r)
  BY <1>0, <1>1, <1>3
     DEF HttpStep, HttpCreate, HttpAddFinalizer, HttpLock, HttpMarkReserved, HttpMarkFailed,
         HttpWriteStatus, ghosts
<1>4. ASSUME NEW c \in Clusters,
             \/ \E report \in Reports : PostAdvertisement(c, report)
             \/ ReconcileAdvertisement(c) \/ SyncAdvertisement(c)
      PROVE  CountsStay(r)
  BY <1>0, <1>4 DEF PostAdvertisement, ReconcileAdvertisement, SyncAdvertisement
<1>5. ASSUME NEW x \in Reservations,
             \/ StartReconcile(x) \/ SyncReservation(x)
             \/ CreateReservation(x) \/ DeleteReservation(x)
             \/ SignalRequester(x) \/ PostPeeringKubeconfig(x)
      PROVE  CountsStay(r)
  BY <1>0, <1>5 DEF StartReconcile, SyncReservation, CreateReservation, DeleteReservation,
                    SignalRequester, PostPeeringKubeconfig, UserWrite
<1>6. CASE Reconcile
  BY <1>0, <1>1, <1>2, <1>6
     DEF Reconcile, ReconcileDeleted, AddFinalizer, RejectInvalid, ReconcileTargeted,
         ReconcileUntargeted, ReconcileReserved, ReconcileActive, ReconcileTerminal,
         ReserveInTargetCluster, ReleaseResources, WriteStatus, RemoveFinalizer, ghosts
<1>7. CASE Tick \/ Crash \/ UNCHANGED vars
  BY <1>0, <1>7 DEF Tick, Crash, vars
<1>8. CASE CallFails
  BY <1>0, <1>1, <1>8 DEF CallFails, HttpCallFails, HttpLockAnswerLost, WorkerCallFails
<1> QED
  BY <1>3, <1>4, <1>5, <1>6, <1>7, <1>8 DEF Next, CallFails

(* Backed, of the same object after a step.                                *)
BackedAfter(r, o) ==
  /\ o.phase = "Reserved" => locks'[r] > 0 /\ KnownAfter(o.target)
  /\ o.phase \in {"Active", "Released"} => unlocks'[r] > 0

LEMMA BackedStays ==
  ASSUME TypeInv, VersionInv, [Next]_vars, NEW r \in Reservations, NEW o, Backed(r, o)
  PROVE  BackedAfter(r, o)
<1>1. KnownStays(o.target) /\ CountsStay(r)
  BY Knowledge, Counts
<1> QED
  BY <1>1 DEF KnownStays, CountsStay, Backed, BackedAfter

-----------------------------------------------------------------------------
(* Writes of Reservations.                                                 *)

(* What holds of an object that a step may write for r.                    *)
Sound(r, o) ==
  /\ Backed(r, o)
  /\ rsv[r].rv = 0 => o.exists /\ ~ o.finalizer
  /\ r \notin HttpRequests /\ o.exists /\ ~ o.finalizer => o.phase = ""
  /\ rsv[r].finalizer /\ rsv[r].phase = "Reserved" /\ ~ o.finalizer => unlocks[r] > 0
  /\ r \in HttpRequests => Known(o.target)

SoundWrite == UNCHANGED rsv \/ \E r \in Reservations, o \in Reservation :
                                  PutRsv(r, o) /\ Sound(r, o)

LEMMA NewIsSound ==
  ASSUME ObjectInv, NEW r \in Reservations, rsv[r].rv = 0, NEW c \in Clusters \cup {None},
         r \in HttpRequests => Known(c), PutRsv(r, NewReservation(c))
  PROVE  SoundWrite
<1>1. /\ NewReservation(c) \in Reservation
      /\ NewReservation(c).phase = "" /\ NewReservation(c).target = c
      /\ NewReservation(c).exists
      /\ NewReservation(c).finalizer = FALSE /\ NewReservation(c).reservedAt = FALSE
  BY NewObjectsType DEF NewReservation, NoReservation
<1>2. Sound(r, NewReservation(c))
  BY <1>1 DEF Sound, Backed, ObjectInv
<1> QED
  BY <1>1, <1>2 DEF SoundWrite

(* Most writes keep the target and the existence and leave the finalizer.  *)
LEMMA EditIsSound ==
  ASSUME TypeInv, SafetyInv, NEW r \in Reservations, NEW o \in Reservation,
         rsv[r].exists, o.exists, rsv[r].finalizer => o.finalizer,
         o.finalizer \/ r \in HttpRequests \/ (~ rsv[r].finalizer /\ o.phase = rsv[r].phase),
         o.target = rsv[r].target,
         Backed(r, o), PutRsv(r, o)
  PROVE  SoundWrite
<1>1. rsv[r].rv # 0 /\ rsv[r].rv \in Nat
  BY DEF SafetyInv, ObjectInv, TypeInv, TypeOK, Reservation
<1>2. r \in HttpRequests => Known(o.target)
  BY <1>1 DEF SafetyInv, HttpInv
<1>3. Sound(r, o)
  BY <1>1, <1>2 DEF Sound, SafetyInv, ObjectInv
<1> QED
  BY <1>3 DEF SoundWrite

LEMMA CurrentObject ==
  ASSUME VersionInv
  PROVE  /\ \A r \in Reservations : CurrentRsv(r, rsvCache[r]) => rsvCache[r] = rsv[r]
         /\ wpc # "idle" /\ CurrentRsv(wr, wobj) => wobj = rsv[wr]
  BY DEF VersionInv, CopyOf, CurrentRsv

LEMMA FieldsOfEdits ==
  ASSUME NEW o \in Reservation, NEW r \in Reservations
  PROVE  /\ AsReserved(r, o).phase = "Reserved"
         /\ AsReserved(r, o).target = o.target
         /\ AsReserved(r, o).exists = o.exists
         /\ AsReserved(r, o).finalizer = o.finalizer
         /\ \A phase \in Phases :
              /\ [o EXCEPT !.phase = phase].phase = phase
              /\ [o EXCEPT !.phase = phase].target = o.target
              /\ [o EXCEPT !.phase = phase].exists = o.exists
              /\ [o EXCEPT !.phase = phase].finalizer = o.finalizer
  BY DEF AsReserved, Reservation

LEMMA ExistingIsNumbered ==
  ASSUME TypeInv, SafetyInv, NEW r \in Reservations, rsv[r].exists
  PROVE  rsv[r].rv > 0 /\ rsv[r].rv # 0
<1>1. rsv[r].rv \in Nat /\ rsv[r].rv # 0
  BY DEF TypeInv, TypeOK, Reservation, SafetyInv, ObjectInv
<1> QED
  BY <1>1

LEMMA HttpWritesSoundly ==
  ASSUME TypeInv, VersionInv, SafetyInv, NEW r \in HttpRequests, HttpStep(r)
  PROVE  SoundWrite
<1>t. /\ r \in Reservations
      /\ rsv[r] \in Reservation /\ rsvCache[r] \in Reservation
      /\ clock \in Nat
      /\ ObjectInv /\ HttpInv
      /\ Backed(r, rsv[r])
  BY SetsAssumption, BoundsType DEF TypeInv, TypeOK, SafetyInv, CopiesInv
<1>1. CASE HttpCreate(r)
  BY <1>1, <1>t, NewIsSound DEF HttpCreate, ActiveTargets
<1>2. CASE HttpAddFinalizer(r)
  <2>1. CASE rsv[r].rv = 1 /\ PutRsv(r, [rsv[r] EXCEPT !.finalizer = TRUE])
    <3> DEFINE o == [rsv[r] EXCEPT !.finalizer = TRUE]
    <3>1. /\ o \in Reservation
          /\ o.phase = rsv[r].phase /\ o.target = rsv[r].target
          /\ o.exists = rsv[r].exists /\ o.finalizer
      BY <1>t DEF Reservation
    <3>2. rsv[r].exists
      BY <1>t, <2>1 DEF ObjectInv
    <3>3. Backed(r, o)
      BY <1>t, <3>1 DEF Backed
    <3>4. PutRsv(r, o)
      BY <2>1
    <3> HIDE DEF o
    <3> QED
      BY <1>t, <3>1, <3>2, <3>3, <3>4, EditIsSound
  <2> QED
    BY <1>2, <2>1 DEF HttpAddFinalizer, SoundWrite
<1>3. CASE HttpMarkReserved(r)
  <2>1. CASE UNCHANGED rsv
    BY <2>1 DEF SoundWrite
  <2>2. CASE rsvCache[r].exists /\ CurrentRsv(r, rsvCache[r]) /\ PutRsv(r, AsReserved(r, rsvCache[r]))
    <3>1. rsvCache[r] = rsv[r]
      BY <1>t, <2>2, CurrentObject
    <3>2. locks[r] > 0 /\ Known(rsv[r].target)
      BY <1>t, <1>3 DEF HttpInv, HttpMarkReserved, Reservation
    <3>3. rsv[r].exists
      BY <2>2, <3>1
    <3> DEFINE o == AsReserved(r, rsv[r])
    <3>4. o \in Reservation /\ PutRsv(r, o)
      BY <1>t, <2>2, <3>1, AsReservedType
    <3>5. /\ o.phase = "Reserved" /\ o.target = rsv[r].target
          /\ o.exists = rsv[r].exists /\ o.finalizer = rsv[r].finalizer
      BY <1>t, FieldsOfEdits
    <3> HIDE DEF o
    <3>6. Backed(r, o)
      BY <3>2, <3>5 DEF Backed
    <3> QED
      BY <1>t, <3>3, <3>4, <3>5, <3>6, EditIsSound
  <2> QED
    BY <1>3, <2>1, <2>2 DEF HttpMarkReserved, HttpWriteStatus
<1>4. CASE HttpMarkFailed(r)
  <2>1. CASE UNCHANGED rsv
    BY <2>1 DEF SoundWrite
  <2> DEFINE o == [rsv[r] EXCEPT !.phase = "Failed"]
  <2>2. CASE /\ rsvCache[r].exists /\ CurrentRsv(r, rsvCache[r])
             /\ PutRsv(r, [rsvCache[r] EXCEPT !.phase = "Failed"])
    <3>1. rsvCache[r] = rsv[r]
      BY <1>t, <2>2, CurrentObject
    <3>4. /\ o \in Reservation
          /\ o.phase = "Failed" /\ o.target = rsv[r].target
          /\ o.exists = rsv[r].exists /\ o.finalizer = rsv[r].finalizer
      BY <1>t, FieldsOfEdits, EditsType DEF Phases
    <3>5. Backed(r, o)
      BY <3>4 DEF Backed
    <3>6. PutRsv(r, o)
      BY <2>2, <3>1
    <3> HIDE DEF o
    <3> QED
      BY <1>t, <2>2, <3>1, <3>4, <3>5, <3>6, EditIsSound
  <2> QED
    BY <1>4, <2>1, <2>2 DEF HttpMarkFailed, HttpWriteStatus
<1>5. CASE HttpLock(r)
  BY <1>5 DEF HttpLock, SoundWrite
<1> QED
  BY <1>1, <1>2, <1>3, <1>4, <1>5 DEF HttpStep

LEMMA UsersWriteSoundly ==
  ASSUME TypeInv, VersionInv, SafetyInv, NEW r \in Reservations,
         \/ CreateReservation(r) \/ DeleteReservation(r)
         \/ SignalRequester(r) \/ PostPeeringKubeconfig(r)
  PROVE  SoundWrite
<1>t. /\ rsv[r] \in Reservation /\ rsvCache[r] \in Reservation
      /\ ObjectInv /\ HttpInv
      /\ Backed(r, rsv[r])
      /\ rsv[r].exists => rsv[r].rv # 0 /\ rsv[r].rv \in Nat
  BY DEF TypeInv, TypeOK, SafetyInv, CopiesInv, ObjectInv, Reservation
<1> DEFINE Kept(o) == /\ o \in Reservation
                      /\ o.phase = rsv[r].phase /\ o.target = rsv[r].target
                      /\ o.exists = rsv[r].exists /\ o.finalizer = rsv[r].finalizer
<1>1. ASSUME NEW o, Kept(o), PutRsv(r, o), rsv[r].exists
      PROVE  SoundWrite
  <2>1. Backed(r, o)
    BY <1>1, <1>t DEF Backed
  <2> QED
    BY <1>1, <2>1, EditIsSound
<1>2. /\ Kept([rsv[r] EXCEPT !.deleting = TRUE])
      /\ Kept([rsv[r] EXCEPT !.requesterActive = TRUE])
      /\ Kept([rsv[r] EXCEPT !.requesterReleased = TRUE])
      /\ Kept([rsv[r] EXCEPT !.kubeconfig = TRUE])
  BY <1>t DEF Reservation
<1> HIDE DEF Kept
<1>3. CASE CreateReservation(r)
  BY <1>3, <1>t, NewIsSound DEF CreateReservation
<1>4. CASE DeleteReservation(r)
  <2>1. CASE rsv[r].finalizer
    BY <1>1, <1>2, <1>4, <2>1 DEF DeleteReservation
  <2>2. CASE ~ rsv[r].finalizer
    <3> DEFINE o == [rsv[r] EXCEPT !.exists = FALSE]
    <3>1. /\ o \in Reservation /\ PutRsv(r, o)
          /\ o.phase = rsv[r].phase /\ o.target = rsv[r].target
          /\ o.exists = FALSE
      BY <1>t, <1>4, <2>2 DEF DeleteReservation, Reservation
    <3>2. /\ rsv[r].rv # 0
          /\ r \in HttpRequests => Known(rsv[r].target)
      BY <1>t, <1>4, <2>2, ExistingIsNumbered DEF DeleteReservation, HttpInv
    <3> HIDE DEF o
    <3>3. Sound(r, o)
      BY <1>t, <2>2, <3>1, <3>2 DEF Sound, Backed
    <3> QED
      BY <3>1, <3>3 DEF SoundWrite
  <2> QED
    BY <2>1, <2>2
<1>5. CASE SignalRequester(r)
  BY <1>1, <1>2, <1>5 DEF SignalRequester
<1>6. CASE PostPeeringKubeconfig(r)
  <2>1. rsvCache[r] = rsv[r]
    BY <1>6, CurrentObject DEF PostPeeringKubeconfig
  <2> QED
    BY <1>1, <1>2, <1>6, <2>1 DEF PostPeeringKubeconfig
<1> QED
  BY <1>3, <1>4, <1>5, <1>6

LEMMA WorkerWritesSoundly ==
  ASSUME TypeInv, VersionInv, SafetyInv, Reconcile
  PROVE  SoundWrite
<1>w. CASE wpc = "idle"
  BY <1>w DEF Reconcile, ReconcileDeleted, AddFinalizer, RejectInvalid, ReconcileTargeted,
              ReconcileUntargeted, ReconcileReserved, ReconcileActive, ReconcileTerminal,
              ReserveInTargetCluster, ReleaseResources, WriteStatus, RemoveFinalizer, InPhase
<1> SUFFICES ASSUME NEW CONSTANT r \in Reservations, r = wr, wpc # "idle"
             PROVE  SoundWrite
  BY <1>w DEF TypeInv, WorkerInv
<1>t. /\ rsv[r] \in Reservation /\ wobj \in Reservation
      /\ clock \in Nat
      /\ ObjectInv /\ HttpInv /\ GoalInv
      /\ Backed(r, wobj)
      /\ wobj.exists
      /\ CurrentRsv(r, wobj) => wobj = rsv[r]
  BY BoundsType, CurrentObject DEF TypeInv, TypeOK, SafetyInv, CopiesInv, GoalInv
<1>0. CASE UNCHANGED rsv
  BY <1>0 DEF SoundWrite
<1>1. CASE AddFinalizer
  <2> DEFINE o == [wobj EXCEPT !.finalizer = TRUE]
  <2>1. CASE CurrentRsv(r, wobj) /\ PutRsv(r, o)
    <3>1. /\ o \in Reservation
          /\ o.phase = wobj.phase /\ o.target = wobj.target
          /\ o.exists = wobj.exists /\ o.finalizer
      BY <1>t DEF Reservation
    <3> HIDE DEF o
    <3>2. Backed(r, o)
      BY <1>t, <3>1 DEF Backed
    <3> QED
      BY <1>t, <2>1, <3>1, <3>2, EditIsSound
  <2> QED
    BY <1>0, <1>1, <2>1 DEF AddFinalizer
<1>2. CASE ReconcileUntargeted
  <2>1. ASSUME NEW c \in Candidates(r), CurrentRsv(r, wobj),
               PutRsv(r, [wobj EXCEPT !.target = c])
        PROVE  SoundWrite
    <3> DEFINE o == [wobj EXCEPT !.target = c]
    <3>1. c \in Clusters /\ Known(c) /\ o \in Reservation
      BY <1>t, <2>1, EditsType DEF Candidates
    <3>2. /\ o.phase = wobj.phase /\ o.target = c
          /\ o.exists = wobj.exists /\ o.finalizer = wobj.finalizer
      BY <1>t DEF Reservation
    <3>3. wobj.finalizer /\ wobj.phase \in {"", "Pending"}
      BY <1>2 DEF ReconcileUntargeted, InPhase
    <3>4. wobj = rsv[r] /\ rsv[r].rv # 0
      BY <1>t, <2>1 DEF ObjectInv
    <3>5. PutRsv(r, o)
      BY <2>1
    <3> HIDE DEF o
    <3>6. Sound(r, o)
      BY <1>t, <3>1, <3>2, <3>3, <3>4 DEF Sound, Backed
    <3> QED
      BY <3>1, <3>5, <3>6 DEF SoundWrite
  <2> QED
    BY <1>0, <1>2, <2>1 DEF ReconcileUntargeted
<1>3. CASE WriteStatus
  <2>1. CASE wgoal = "Reserved" /\ CurrentRsv(r, wobj) /\ PutRsv(r, AsReserved(r, wobj))
    <3> DEFINE o == AsReserved(r, wobj)
    <3>1. /\ o \in Reservation /\ PutRsv(r, o)
          /\ o.phase = "Reserved" /\ o.target = wobj.target
          /\ o.exists = wobj.exists /\ o.finalizer = wobj.finalizer
      BY <1>t, <2>1, FieldsOfEdits, AsReservedType
    <3>2. wobj.finalizer /\ locks[r] > 0 /\ Known(wobj.target)
      BY <1>t, <1>3, <2>1 DEF GoalInv, WriteStatus
    <3> HIDE DEF o
    <3>3. Backed(r, o)
      BY <3>1, <3>2 DEF Backed
    <3> QED
      BY <1>t, <2>1, <3>1, <3>2, <3>3, EditIsSound
  <2>2. CASE /\ wgoal # "Reserved" /\ CurrentRsv(r, wobj)
             /\ PutRsv(r, [wobj EXCEPT !.phase = wgoal])
    <3> DEFINE o == [wobj EXCEPT !.phase = wgoal]
    <3>1. /\ wobj.finalizer
          /\ wgoal \in {"Failed", "Active", "Released"}
          /\ wgoal # "Failed" => unlocks[r] > 0
      BY <1>t, <1>3, <2>2 DEF GoalInv, WriteStatus
    <3>w. wgoal \in Phases
      BY <3>1 DEF Phases
    <3>2. /\ o \in Reservation /\ PutRsv(r, o)
          /\ o.phase = wgoal /\ o.target = wobj.target
          /\ o.exists = wobj.exists /\ o.finalizer = wobj.finalizer
      BY <1>t, <2>2, <3>w, FieldsOfEdits, EditsType
    <3> HIDE DEF o
    <3>3. Backed(r, o)
      BY <3>1, <3>2 DEF Backed
    <3> QED
      BY <1>t, <2>2, <3>1, <3>2, <3>3, EditIsSound
  <2> QED
    BY <1>0, <1>3, <2>1, <2>2 DEF WriteStatus
<1>4. CASE RemoveFinalizer
  <2> DEFINE o == [wobj EXCEPT !.finalizer = FALSE, !.exists = FALSE]
  <2>1. CASE CurrentRsv(r, wobj) /\ PutRsv(r, o)
    <3>1. /\ o \in Reservation
          /\ o.phase = wobj.phase /\ o.target = wobj.target
          /\ o.exists = FALSE
      BY <1>t DEF Reservation
    <3>2. wobj.phase = "Reserved" => unlocks[r] > 0
      BY <1>t, <1>4 DEF GoalInv, RemoveFinalizer
    <3>3. /\ wobj = rsv[r] /\ rsv[r].rv # 0
          /\ r \in HttpRequests => Known(wobj.target)
      BY <1>t, <2>1, ExistingIsNumbered DEF HttpInv
    <3>4. PutRsv(r, o)
      BY <2>1
    <3> HIDE DEF o
    <3>5. Sound(r, o)
      BY <1>t, <3>1, <3>2, <3>3 DEF Sound, Backed
    <3> QED
      BY <3>1, <3>4, <3>5 DEF SoundWrite
  <2> QED
    BY <1>0, <1>4, <2>1 DEF RemoveFinalizer
<1> QED
  BY <1>0, <1>1, <1>2, <1>3, <1>4
     DEF Reconcile, ReconcileDeleted, RejectInvalid, ReconcileTargeted, ReconcileReserved,
         ReconcileActive, ReconcileTerminal, ReserveInTargetCluster, ReleaseResources, store

LEMMA StepsWriteSoundly ==
  ASSUME TypeInv, VersionInv, SafetyInv, [Next]_vars
  PROVE  SoundWrite
<1>0. CASE UNCHANGED rsv
  BY <1>0 DEF SoundWrite
<1>1. ASSUME NEW c \in Clusters,
             \/ \E report \in Reports : PostAdvertisement(c, report)
             \/ ReconcileAdvertisement(c) \/ SyncAdvertisement(c)
      PROVE  SoundWrite
  BY <1>0, <1>1 DEF PostAdvertisement, ReconcileAdvertisement, SyncAdvertisement, store
<1>2. ASSUME NEW r \in Reservations, StartReconcile(r) \/ SyncReservation(r)
      PROVE  SoundWrite
  BY <1>0, <1>2 DEF StartReconcile, SyncReservation, store
<1>3. CASE Tick \/ Crash \/ UNCHANGED vars
  BY <1>0, <1>3 DEF Tick, Crash, vars, store
<1>4. CASE CallFails
  BY <1>0, <1>4 DEF CallFails, HttpCallFails, HttpLockAnswerLost, WorkerCallFails, store
<1> QED
  BY <1>1, <1>2, <1>3, <1>4, HttpWritesSoundly, UsersWriteSoundly, WorkerWritesSoundly
     DEF Next, CallFails

-----------------------------------------------------------------------------
(* The parts of the invariant, after a step.                               *)

(* An object after a step: as before, or soundly written.                  *)
LEMMA ObjectAfter ==
  ASSUME TypeInv, VersionInv, SafetyInv, [Next]_vars, NEW x \in Reservations
  PROVE  \/ rsv'[x] = rsv[x]
         \/ \E o \in Reservation : /\ Sound(x, o)
                                   /\ rsv'[x] = [o EXCEPT !.rv = rsv[x].rv + 1]
<1>1. CASE UNCHANGED rsv
  BY <1>1
<1>2. ASSUME NEW r \in Reservations, NEW o \in Reservation, PutRsv(r, o), Sound(r, o)
      PROVE  \/ rsv'[x] = rsv[x]
             \/ Sound(x, o) /\ rsv'[x] = [o EXCEPT !.rv = rsv[x].rv + 1]
  BY <1>2 DEF PutRsv, TypeInv, TypeOK
<1> QED
  BY <1>1, <1>2, StepsWriteSoundly DEF SoundWrite

LEMMA Renumbered ==
  ASSUME NEW o \in Reservation, NEW n \in Nat
  PROVE  LET a == [o EXCEPT !.rv = n] IN
         /\ a.rv = n /\ a.exists = o.exists /\ a.finalizer = o.finalizer
         /\ a.phase = o.phase /\ a.target = o.target /\ a.reservedAt = o.reservedAt
  BY DEF Reservation

LEMMA NextObjectInv ==
  ASSUME TypeInv, VersionInv, SafetyInv, [Next]_vars
  PROVE  /\ ObjectInv'
         /\ \A r \in Reservations : BackedAfter(r, rsv'[r])
         /\ \A r \in HttpRequests : rsv'[r].rv > 0 => KnownAfter(rsv'[r].target)
<1> SUFFICES ASSUME NEW CONSTANT r \in Reservations
             PROVE  /\ rsv'[r].rv = 0 => ~ rsv'[r].exists /\ ~ rsv'[r].finalizer
                    /\ rsv'[r].rv = 1 => rsv'[r].exists /\ ~ rsv'[r].finalizer
                    /\ r \notin HttpRequests /\ rsv'[r].exists /\ ~ rsv'[r].finalizer
                         => rsv'[r].phase = ""
                    /\ BackedAfter(r, rsv'[r])
                    /\ r \in HttpRequests /\ rsv'[r].rv > 0 => KnownAfter(rsv'[r].target)
  BY SetsAssumption DEF ObjectInv
<1>2. rsv[r].rv \in Nat /\ rsv[r].rv + 1 \in Nat
  <2>1. rsv[r].rv \in Nat
    BY DEF TypeInv, TypeOK, Reservation
  <2> QED
    BY <2>1
<1>3. CASE rsv'[r] = rsv[r]
  <2>1. BackedAfter(r, rsv[r])
    BY BackedStays DEF SafetyInv, CopiesInv
  <2>2. r \in HttpRequests /\ rsv[r].rv > 0 => KnownAfter(rsv[r].target)
    BY Knowledge DEF SafetyInv, HttpInv, KnownStays
  <2> QED
    BY <1>3, <2>1, <2>2 DEF SafetyInv, ObjectInv
<1>4. ASSUME NEW o \in Reservation, Sound(r, o), rsv'[r] = [o EXCEPT !.rv = rsv[r].rv + 1]
      PROVE  /\ rsv'[r].rv # 0
             /\ rsv'[r].rv = 1 => rsv'[r].exists /\ ~ rsv'[r].finalizer
             /\ r \notin HttpRequests /\ rsv'[r].exists /\ ~ rsv'[r].finalizer
                  => rsv'[r].phase = ""
             /\ BackedAfter(r, rsv'[r])
             /\ r \in HttpRequests => KnownAfter(rsv'[r].target)
  <2>1. /\ rsv'[r].rv = rsv[r].rv + 1
        /\ rsv'[r].exists = o.exists /\ rsv'[r].finalizer = o.finalizer
        /\ rsv'[r].phase = o.phase /\ rsv'[r].target = o.target
        /\ rsv'[r].reservedAt = o.reservedAt
    BY <1>2, <1>4, Renumbered
  <2>2. rsv[r].rv + 1 # 0 /\ (rsv[r].rv + 1 = 1 <=> rsv[r].rv = 0)
    BY <1>2
  <2>3. BackedAfter(r, o)
    BY <1>4, BackedStays DEF Sound
  <2>4. BackedAfter(r, rsv'[r])
    BY <2>1, <2>3 DEF BackedAfter
  <2>5. r \in HttpRequests => KnownAfter(rsv'[r].target)
    BY <1>4, <2>1, Knowledge DEF Sound, KnownStays
  <2> QED
    BY <1>4, <2>1, <2>2, <2>4, <2>5 DEF Sound
<1> QED
  BY <1>3, <1>4, ObjectAfter

(* Copies only come from the cache, the store or an accepted update.       *)
LEMMA NextCopiesInv ==
  ASSUME TypeInv, VersionInv, SafetyInv, [Next]_vars
  PROVE  CopiesInv'
<1>1. \A r \in Reservations : /\ BackedAfter(r, rsv[r]) /\ BackedAfter(r, rsvCache[r])
                              /\ BackedAfter(r, rsv'[r])
  BY BackedStays, NextObjectInv DEF SafetyInv, CopiesInv
<1>2. \A r \in Reservations : BackedAfter(r, rsvCache'[r])
  BY <1>1, CacheStep
<1>3. wpc # "idle" => wr \in Reservations /\ BackedAfter(wr, wobj)
  BY BackedStays DEF SafetyInv, CopiesInv, TypeInv, WorkerInv
<1>4. wpc' # "idle" => BackedAfter(wr', wobj')
  BY <1>1, <1>2, <1>3, WorkerStep
<1> QED
  BY <1>1, <1>2, <1>4 DEF CopiesInv, Backed, BackedAfter, Known, KnownAfter

(* HttpInv of one handler, after a step.                                   *)
HandlerAfter(r) ==
  /\ http'[r] # "ready" => rsv'[r].rv > 0
  /\ http'[r] = "reserve" => locks'[r] > 0

LEMMA NextHttpInv ==
  ASSUME TypeInv, VersionInv, SafetyInv, [Next]_vars
  PROVE  HttpInv'
<1>t. /\ HttpRequests \subseteq Reservations
      /\ http \in [HttpRequests -> {"ready", "finalizer", "lock", "reserve", "fail", "done"}]
      /\ HttpInv
  BY SetsAssumption DEF TypeInv, TypeOK, SafetyInv
<1>1. \A r \in HttpRequests : rsv[r].rv \in Nat /\ rsv'[r].rv \in Nat
  BY <1>t, NextTypeInv DEF TypeInv, TypeOK, Reservation
<1>2. \A r \in HttpRequests : /\ rsv[r].rv > 0 => rsv'[r].rv > 0
                              /\ locks[r] > 0 => locks'[r] > 0
  BY <1>t, <1>1, RsvStep, Counts DEF RsvGrows, CountsStay
<1>h. \A r \in HttpRequests : /\ http[r] # "ready" => rsv'[r].rv > 0
                              /\ http[r] = "reserve" => locks'[r] > 0
  <2> SUFFICES ASSUME NEW r \in HttpRequests
               PROVE  /\ http[r] # "ready" => rsv'[r].rv > 0
                      /\ http[r] = "reserve" => locks'[r] > 0
    OBVIOUS
  <2>1. /\ http[r] # "ready" => rsv[r].rv > 0
        /\ http[r] = "reserve" => locks[r] > 0
    BY <1>t DEF HttpInv
  <2> QED
    BY <1>1, <1>2, <2>1
<1>3. ASSUME NEW r \in HttpRequests, http'[r] = http[r] PROVE HandlerAfter(r)
  BY <1>h, <1>3 DEF HandlerAfter
<1>4. ASSUME NEW r \in HttpRequests, HttpStep(r) PROVE HandlerAfter(r)
  <2>1. CASE HttpCreate(r)
    <3>1. PICK c \in ActiveTargets : PutRsv(r, NewReservation(c))
      BY <2>1 DEF HttpCreate
    <3>2. rsv[r].rv = 0 /\ http'[r] = "finalizer"
      BY <2>1, <1>t DEF HttpCreate
    <3>3. NewReservation(c).exists /\ ~ rsv[r].exists
      BY <1>t, <3>2 DEF NewReservation, NoReservation, SafetyInv, ObjectInv
    <3>4. rsv'[r] # rsv[r]
      <4>1. NewReservation(c) \in Reservation
        BY <3>1, NewObjectsType DEF ActiveTargets
      <4>2. rsv'[r] = [NewReservation(c) EXCEPT !.rv = rsv[r].rv + 1]
        BY <1>t, <3>1, <3>3 DEF PutRsv, TypeInv, TypeOK
      <4>3. rsv'[r].rv = rsv[r].rv + 1
        BY <4>1, <4>2 DEF Reservation
      <4> QED
        BY <3>2, <4>3
    <3> QED
      BY <1>1, <1>t, <3>2, <3>4, RsvStep DEF HandlerAfter, RsvGrows
  <2>2. CASE HttpAddFinalizer(r)
    <3>1. http'[r] = "lock" /\ http[r] # "ready"
      BY <2>2, <1>t DEF HttpAddFinalizer
    <3> QED
      BY <1>h, <3>1 DEF HandlerAfter
  <2>3. CASE HttpLock(r)
    <3>1. http[r] = "lock"
      BY <2>3 DEF HttpLock
    <3>2. rsv'[r].rv > 0
      BY <1>h, <3>1
    <3>3. http'[r] = "reserve" => Lock(r, rsv[r].target)
      BY <1>t, <2>3 DEF HttpLock
    <3>4. Lock(r, rsv[r].target) => locks'[r] > 0
      <4>1. locks \in [Reservations -> Nat] /\ locks[r] \in Nat
        BY <1>t DEF TypeInv, TypeOK
      <4>2. Lock(r, rsv[r].target) => locks'[r] = locks[r] + 1
        BY <1>t, <4>1 DEF Lock
      <4> QED
        BY <4>1, <4>2
    <3> QED
      BY <3>2, <3>3, <3>4 DEF HandlerAfter
  <2>4. CASE HttpMarkReserved(r) \/ HttpMarkFailed(r)
    <3>1. http'[r] = "done" /\ http[r] # "ready"
      BY <1>t, <2>4 DEF HttpMarkReserved, HttpMarkFailed, HttpWriteStatus
    <3> QED
      BY <1>h, <3>1 DEF HandlerAfter
  <2> QED
    BY <1>4, <2>1, <2>2, <2>3, <2>4 DEF HttpStep
<1>5. ASSUME NEW r \in HttpRequests, HttpStep(r), NEW x \in HttpRequests PROVE HandlerAfter(x)
  <2>1. x # r => http'[x] = http[x]
    BY <1>5, <1>t DEF HttpStep, HttpCreate, HttpAddFinalizer, HttpLock, HttpMarkReserved,
                      HttpMarkFailed, HttpWriteStatus
  <2> QED
    BY <1>3, <1>4, <1>5, <2>1
<1> DEFINE Handlers == \A r \in HttpRequests : HandlerAfter(r)
<1>6. ASSUME UNCHANGED http PROVE Handlers
  BY <1>3, <1>6
<1>7. ASSUME Crash PROVE Handlers
  <2>1. \A r \in HttpRequests : http'[r] = http[r] \/ (http'[r] = "done" /\ http[r] # "ready")
    BY <1>7, <1>t DEF Crash
  <2>2. ASSUME NEW r \in HttpRequests, http'[r] = "done", http[r] # "ready" PROVE HandlerAfter(r)
    BY <1>h, <2>2 DEF HandlerAfter
  <2> QED
    BY <1>3, <2>1, <2>2
<1>8. ASSUME NEW c \in Clusters,
             \/ \E report \in Reports : PostAdvertisement(c, report)
             \/ ReconcileAdvertisement(c) \/ SyncAdvertisement(c)
      PROVE  UNCHANGED http
  BY <1>8 DEF PostAdvertisement, ReconcileAdvertisement, SyncAdvertisement
<1>9. ASSUME NEW r \in Reservations,
             \/ StartReconcile(r) \/ SyncReservation(r)
             \/ CreateReservation(r) \/ DeleteReservation(r)
             \/ SignalRequester(r) \/ PostPeeringKubeconfig(r)
      PROVE  UNCHANGED http
  BY <1>9 DEF StartReconcile, SyncReservation, CreateReservation, DeleteReservation,
              SignalRequester, PostPeeringKubeconfig, UserWrite
<1>10. ASSUME Reconcile PROVE Handlers
  BY <1>6, <1>10
     DEF Reconcile, ReconcileDeleted, AddFinalizer, RejectInvalid, ReconcileTargeted,
         ReconcileUntargeted, ReconcileReserved, ReconcileActive, ReconcileTerminal,
         ReserveInTargetCluster, ReleaseResources, WriteStatus, RemoveFinalizer
<1>11. ASSUME Tick \/ UNCHANGED vars PROVE Handlers
  BY <1>6, <1>11 DEF Tick, vars
<1>12. ASSUME CallFails PROVE Handlers
  <2>1. CASE UNCHANGED http
    BY <1>6, <2>1
  <2>2. ASSUME NEW r \in HttpRequests, HttpCallFails(r) \/ HttpLockAnswerLost(r),
               NEW x \in HttpRequests
        PROVE  HandlerAfter(x)
    <3>1. x # r => http'[x] = http[x]
      BY <2>2, <1>t DEF HttpCallFails, HttpLockAnswerLost
    <3>2. http[r] # "ready" /\ http'[r] # "reserve"
      BY <2>2, <1>t DEF HttpCallFails, HttpLockAnswerLost
    <3> QED
      BY <1>3, <1>h, <3>1, <3>2 DEF HandlerAfter
  <2> QED
    BY <1>12, <2>1, <2>2 DEF CallFails, WorkerCallFails
<1>13. Handlers
  BY <1>5, <1>6, <1>7, <1>8, <1>9, <1>10, <1>11, <1>12 DEF Next, CallFails
<1> QED
  BY <1>13, NextObjectInv DEF HandlerAfter, HttpInv, Known, KnownAfter

(* GoalInv after a step.                                                   *)
GoalAfter ==
  /\ wpc' # "idle" => wobj'.exists
  /\ wpc' \notin {"idle", "reconcile"} => wobj'.finalizer
  /\ wpc' = "release" =>
       \/ wgoal' = "gone"
       \/ wgoal' \in {"Active", "Released"} /\ wobj'.phase \in {"Reserved", "Active"}
  /\ wpc' = "status" =>
       \/ wgoal' = "Failed"
       \/ wgoal' = "Reserved" /\ locks'[wr'] > 0 /\ KnownAfter(wobj'.target)
       \/ wgoal' \in {"Active", "Released"} /\ unlocks'[wr'] > 0
  /\ wpc' = "finalizer" => (wobj'.phase = "Reserved" => unlocks'[wr'] > 0)

(* What a write leaves in the store.                                       *)
LEMMA Stored ==
  ASSUME TypeInv, NEW r \in Reservations, NEW o \in Reservation, PutRsv(r, o)
  PROVE  /\ rsv'[r].exists = o.exists /\ rsv'[r].finalizer = o.finalizer
         /\ rsv'[r].phase = o.phase /\ rsv'[r].target = o.target
<1>1. CASE o = rsv[r]
  BY <1>1 DEF PutRsv
<1>2. CASE o # rsv[r]
  <2>1. rsv[r].rv + 1 \in Nat
    <3>1. rsv[r].rv \in Nat
      BY DEF TypeInv, TypeOK, Reservation
    <3> QED
      BY <3>1
  <2>2. rsv'[r] = [o EXCEPT !.rv = rsv[r].rv + 1]
    BY <1>2 DEF PutRsv, TypeInv, TypeOK
  <2> QED
    BY <2>1, <2>2, Renumbered
<1> QED
  BY <1>1, <1>2

(* The worker's own steps, which keep the key it works on.                 *)
LEMMA WorkerGoals ==
  ASSUME TypeInv, VersionInv, SafetyInv, Reconcile, wpc' # "idle"
  PROVE  GoalAfter
<1>i. wpc # "idle"
  BY DEF Reconcile, ReconcileDeleted, AddFinalizer, RejectInvalid, ReconcileTargeted,
         ReconcileUntargeted, ReconcileReserved, ReconcileActive, ReconcileTerminal,
         ReserveInTargetCluster, ReleaseResources, WriteStatus, RemoveFinalizer, InPhase
<1>t. /\ wr \in Reservations /\ wobj \in Reservation /\ wobj.exists
      /\ locks \in [Reservations -> Nat] /\ unlocks \in [Reservations -> Nat]
      /\ locks[wr] \in Nat /\ unlocks[wr] \in Nat
      /\ GoalInv /\ Backed(wr, wobj)
  BY <1>i DEF TypeInv, TypeOK, WorkerInv, SafetyInv, CopiesInv, GoalInv
<1>1. CASE ReconcileDeleted
  BY <1>1, <1>t DEF ReconcileDeleted, Goto, Done, Finish, GoalAfter
<1>2. CASE AddFinalizer
  <2> DEFINE o == [wobj EXCEPT !.finalizer = TRUE]
  <2>1. /\ wpc' = "reconcile"
        /\ PutRsv(wr, o) /\ wobj' = rsv'[wr]
    BY <1>2 DEF AddFinalizer, Requeue, Finish
  <2>2. o \in Reservation /\ o.exists
    BY <1>t DEF Reservation
  <2> HIDE DEF o
  <2>3. wobj'.exists
    BY <1>t, <2>1, <2>2, Stored
  <2> QED
    BY <2>1, <2>3 DEF GoalAfter
<1>3. CASE RejectInvalid
  BY <1>3, <1>t DEF RejectInvalid, InPhase, Goto, GoalAfter
<1>4. CASE ReconcileTargeted
  BY <1>4, <1>t DEF ReconcileTargeted, InPhase, Goto, GoalAfter
<1>5. CASE ReconcileUntargeted
  <2>1. CASE Goto("status", "Failed") /\ UNCHANGED <<rsv, wobj>>
    BY <1>5, <1>t, <2>1 DEF ReconcileUntargeted, InPhase, Goto, GoalAfter
  <2>2. ASSUME NEW c \in Candidates(wr), PutRsv(wr, [wobj EXCEPT !.target = c]),
               wobj' = rsv'[wr], Goto("lock", "Reserved")
        PROVE  GoalAfter
    <3> DEFINE o == [wobj EXCEPT !.target = c]
    <3>1. o \in Reservation /\ PutRsv(wr, o)
      BY <1>t, <2>2, EditsType DEF Candidates
    <3>2. o.exists = wobj.exists /\ o.finalizer = wobj.finalizer /\ wobj.finalizer
      BY <1>t, <1>5 DEF Reservation, ReconcileUntargeted, InPhase
    <3> HIDE DEF o
    <3>3. wobj'.exists /\ wobj'.finalizer
      BY <1>t, <2>2, <3>1, <3>2, Stored
    <3> QED
      BY <2>2, <3>3 DEF Goto, GoalAfter
  <2> QED
    BY <1>5, <2>1, <2>2 DEF ReconcileUntargeted, Requeue, Finish
<1>6. CASE ReconcileReserved
  BY <1>6, <1>t DEF ReconcileReserved, InPhase, Goto, Requeue, Finish, GoalAfter
<1>7. CASE ReconcileActive
  BY <1>7, <1>t DEF ReconcileActive, InPhase, Goto, Requeue, Finish, GoalAfter
<1>8. CASE ReserveInTargetCluster
  <2>1. UNCHANGED <<wr, wobj>> /\ wpc' = "status" /\ wobj.finalizer
    BY <1>8, <1>t DEF ReserveInTargetCluster, Goto, Requeue, Finish, GoalInv
  <2>2. CASE wgoal' = "Failed"
    BY <1>t, <2>1, <2>2 DEF GoalAfter
  <2>3. CASE Lock(wr, wobj.target) /\ wgoal' = "Reserved" /\ UNCHANGED cache
    <3>1. locks'[wr] = locks[wr] + 1
      BY <1>t, <2>3 DEF Lock
    <3>2. locks'[wr] > 0
      BY <1>t, <3>1
    <3>3. KnownAfter(wobj.target)
      BY <2>3 DEF Lock, Fits, Known, KnownAfter, cache
    <3> QED
      BY <1>t, <2>1, <2>3, <3>2, <3>3 DEF GoalAfter
  <2> QED
    BY <1>8, <2>2, <2>3 DEF ReserveInTargetCluster, Goto, Requeue, Finish
<1>9. CASE ReleaseResources
  <2>1. UNCHANGED <<wr, wobj, wgoal>> /\ wobj.finalizer
    BY <1>9, <1>t DEF ReleaseResources, AfterRelease, Goto, Requeue, Finish, GoalInv
  <2>2. wpc' = IF wgoal = "gone" THEN "finalizer" ELSE "status"
    BY <1>9 DEF ReleaseResources, AfterRelease, Goto, Requeue, Finish
  <2>3. \/ wgoal = "gone"
        \/ wgoal \in {"Active", "Released"} /\ wobj.phase \in {"Reserved", "Active"}
    BY <1>9, <1>t DEF ReleaseResources, GoalInv
  <2>4. wobj.phase \in {"Reserved", "Active"} => unlocks'[wr] > 0
    <3>1. CASE ~ Holds(wobj) /\ UNCHANGED unlocks
      BY <1>t, <3>1 DEF Holds, Backed
    <3>2. CASE Release(wobj.target)
      <4>1. unlocks'[wr] = unlocks[wr] + 1
        BY <1>t, <3>2 DEF Release
      <4> QED
        BY <1>t, <4>1
    <3> QED
      BY <1>9, <3>1, <3>2 DEF ReleaseResources, Requeue, Finish
  <2> QED
    BY <1>t, <2>1, <2>2, <2>3, <2>4 DEF GoalAfter
<1>10. CASE ReconcileTerminal \/ WriteStatus \/ RemoveFinalizer
  BY <1>10 DEF ReconcileTerminal, WriteStatus, RemoveFinalizer, Requeue, Done, Finish
<1> QED
  BY <1>1, <1>2, <1>3, <1>4, <1>5, <1>6, <1>7, <1>8, <1>9, <1>10 DEF Reconcile

LEMMA NextGoalInv ==
  ASSUME TypeInv, VersionInv, SafetyInv, [Next]_vars
  PROVE  GoalInv'
<1>1. ASSUME wpc' = "idle" PROVE GoalAfter
  BY <1>1 DEF GoalAfter
<1>2. ASSUME UNCHANGED worker PROVE GoalAfter
  <2>1. CASE wpc = "idle"
    BY <2>1, <1>1, <1>2 DEF worker
  <2>2. CASE wpc # "idle"
    <3>1. CountsStay(wr) /\ KnownStays(wobj.target)
      BY <2>2, Counts, Knowledge DEF TypeInv, WorkerInv
    <3>2. GoalInv /\ wpc' = wpc /\ wr' = wr /\ wobj' = wobj /\ wgoal' = wgoal
      BY <1>2 DEF worker, SafetyInv
    <3> QED
      BY <3>1, <3>2 DEF GoalInv, GoalAfter, CountsStay, KnownStays
  <2> QED
    BY <2>1, <2>2
<1>3. ASSUME NEW r \in Reservations, StartReconcile(r) PROVE GoalAfter
  BY <1>1, <1>3 DEF StartReconcile, GoalAfter
<1>4. ASSUME Reconcile PROVE GoalAfter
  BY <1>1, <1>4, WorkerGoals
<1>5. ASSUME NEW r \in HttpRequests, HttpStep(r) PROVE UNCHANGED worker
  BY <1>5 DEF HttpStep, HttpCreate, HttpAddFinalizer, HttpLock, HttpMarkReserved,
              HttpMarkFailed, HttpWriteStatus
<1>6. ASSUME NEW c \in Clusters,
             \/ \E report \in Reports : PostAdvertisement(c, report)
             \/ ReconcileAdvertisement(c) \/ SyncAdvertisement(c)
      PROVE  UNCHANGED worker
  BY <1>6 DEF PostAdvertisement, ReconcileAdvertisement, SyncAdvertisement
<1>7. ASSUME NEW r \in Reservations,
             \/ SyncReservation(r)
             \/ CreateReservation(r) \/ DeleteReservation(r)
             \/ SignalRequester(r) \/ PostPeeringKubeconfig(r)
      PROVE  UNCHANGED worker
  BY <1>7 DEF SyncReservation, CreateReservation, DeleteReservation,
              SignalRequester, PostPeeringKubeconfig, UserWrite
<1>8. ASSUME Tick \/ Crash \/ UNCHANGED vars PROVE GoalAfter
  BY <1>1, <1>2, <1>8 DEF Tick, Crash, Finish, vars
<1>9. ASSUME CallFails PROVE GoalAfter
  BY <1>1, <1>2, <1>9 DEF CallFails, HttpCallFails, HttpLockAnswerLost, WorkerCallFails,
                          Requeue, Finish
<1>10. GoalAfter
  BY <1>2, <1>3, <1>4, <1>5, <1>6, <1>7, <1>8, <1>9 DEF Next, CallFails
<1> QED
  BY <1>10 DEF GoalAfter, GoalInv, Known, KnownAfter

-----------------------------------------------------------------------------
(* The theorems.                                                           *)

LEMMA InitSafetyInv == Init => SafetyInv
<1> SUFFICES ASSUME Init PROVE SafetyInv
  OBVIOUS
<1>1. \A r \in Reservations : rsv[r] = NoReservation /\ rsvCache[r] = NoReservation
  BY DEF Init
<1>2. /\ NoReservation.rv = 0 /\ ~ NoReservation.exists /\ ~ NoReservation.finalizer
      /\ NoReservation.phase = ""
  BY DEF NoReservation
<1>3. wpc = "idle" /\ \A r \in HttpRequests : r \in Reservations /\ http[r] = "ready"
  BY SetsAssumption DEF Init
<1>4. \A r \in Reservations : /\ rsv[r].rv = 0 /\ ~ rsv[r].exists /\ ~ rsv[r].finalizer
                              /\ rsv[r].phase = "" /\ rsvCache[r].phase = ""
                              /\ ~ (rsv[r].rv > 0) /\ rsv[r].rv # 1
  <2>1. ASSUME NEW r \in Reservations
        PROVE  /\ rsv[r].rv = 0 /\ ~ rsv[r].exists /\ ~ rsv[r].finalizer
               /\ rsv[r].phase = "" /\ rsvCache[r].phase = ""
    <3>1. rsv[r] = NoReservation /\ rsvCache[r] = NoReservation
      BY <1>1
    <3> QED
      BY <1>2, <3>1, Zenon
  <2>2. ASSUME NEW r \in Reservations PROVE ~ (rsv[r].rv > 0) /\ rsv[r].rv # 1
    <3>1. rsv[r].rv = 0
      BY <2>1, Zenon
    <3> QED
      BY <3>1
  <2> QED
    BY <2>1, <2>2
<1>5. CopiesInv
  BY <1>3, <1>4 DEF CopiesInv, Backed
<1>6. ObjectInv
  BY <1>4 DEF ObjectInv
<1>7. HttpInv /\ GoalInv
  BY <1>3, <1>4 DEF HttpInv, GoalInv
<1> QED
  BY <1>5, <1>6, <1>7 DEF SafetyInv

LEMMA NextSafetyInv == TypeInv /\ VersionInv /\ SafetyInv /\ [Next]_vars => SafetyInv'
  BY NextObjectInv, NextCopiesInv, NextHttpInv, NextGoalInv DEF SafetyInv

LEMMA Safety == Spec => []SafetyInv
  BY InitTypeInv, NextTypeInv, InitVersionInv, NextVersionInv, InitSafetyInv, NextSafetyInv,
     PTL DEF Spec

(* A Reservation shows Reserved only after resources were locked for it:   *)
(* by the handler before HttpMarkReserved, or by reserveInTargetCluster.   *)
THEOREM ReservedIsBacked == Spec => []ReservedWasLocked
<1>1. SafetyInv => ReservedWasLocked
  BY DEF SafetyInv, CopiesInv, Backed, ReservedWasLocked
<1> QED
  BY <1>1, Safety, PTL

(* What shows Active or Released has released before, whatever reconciles  *)
(* were begun on outdated copies, conflicted, or died in between.          *)
THEOREM SettledIsReleased == Spec => []SettledWasReleased
<1>1. SafetyInv => SettledWasReleased
  BY DEF SafetyInv, CopiesInv, Backed, SettledWasReleased
<1> QED
  BY <1>1, Safety, PTL

(* The finalizer of a Reserved object is removed only after a release:     *)
(* ReleaseResources was called on the very version that RemoveFinalizer    *)
(* writes, and no other write drops the finalizer.                         *)
THEOREM RemovalReleases == Spec => RemovedWasReleased
<1> DEFINE Unprotected == \E r \in Reservations :
             /\ rsv[r].finalizer
             /\ rsv[r].phase = "Reserved"
             /\ ~ rsv'[r].finalizer
             /\ ~ (unlocks[r] > 0)
<1>1. ASSUME TypeInv, VersionInv, SafetyInv, [Next]_vars PROVE ~ Unprotected
  <2> SUFFICES ASSUME NEW r \in Reservations,
                      rsv[r].finalizer, rsv[r].phase = "Reserved", ~ rsv'[r].finalizer
               PROVE  unlocks[r] > 0
    OBVIOUS
  <2>1. PICK o \in Reservation : Sound(r, o) /\ rsv'[r] = [o EXCEPT !.rv = rsv[r].rv + 1]
    BY <1>1, ObjectAfter
  <2>2. ~ o.finalizer
    BY <2>1 DEF Reservation
  <2> QED
    BY <2>1, <2>2 DEF Sound
<1>2. TypeInv /\ VersionInv /\ SafetyInv /\ [Next]_vars =>
        [\A r \in Reservations :
           /\ rsv[r].finalizer
           /\ rsv[r].phase = "Reserved"
           /\ ~ rsv'[r].finalizer
           => unlocks[r] > 0]_vars
  BY <1>1
<1> QED
  BY <1>2, Safety, InitTypeInv, NextTypeInv, InitVersionInv, NextVersionInv, PTL
     DEF Spec, RemovedWasReleased

-----------------------------------------------------------------------------
(* When nothing goes wrong: no handler races the worker, no broker dies,   *)
(* no reconciliation begins on an outdated copy, and nobody writes a       *)
(* Reservation while the worker is on it.                                  *)
Quiet ==
  /\ ~ ForeignOverlap
  /\ HttpRequests = {}
  /\ MaxStaleStarts = 0
  /\ MaxCrashes = 0
  /\ MaxErrors = 0

Balance(r) == locks[r] - unlocks[r]

Holding(r) == IF rsv[r].exists /\ rsv[r].phase = "Reserved" THEN 1 ELSE 0

(* The worker is about to release, or has: what it works on is deleted,    *)
(* used or expired, or was never Reserved.                                 *)
GivingUp == wpc \in {"release", "finalizer"} \/ (wpc = "status" /\ wgoal # "Reserved")

(* The reservation that the worker is on, between the lock or the release  *)
(* and the write of its phase.                                             *)
Working(r) ==
  /\ wobj = rsv[r]
  /\ wpc \in {"reconcile", "release"} => Balance(r) = Holding(r)
  /\ wpc = "lock" => Balance(r) = 0 /\ Valid(r) /\ rsv[r].phase # "Reserved"
  /\ wpc = "status" => IF wgoal = "Reserved" THEN Balance(r) = 1 /\ Valid(r)
                                             ELSE Balance(r) = 0
  /\ wpc = "finalizer" => Balance(r) = 0
  /\ GivingUp => ~ Standing(r)

QuietInv ==
  /\ wpc = "idle" <=> wr = None
  /\ \A r \in Reservations : rsv[r].phase = "Reserved" => Valid(r)
  /\ \A r \in Reservations : r # wr => Balance(r) = Holding(r)
  /\ wpc # "idle" => Working(wr)

(* Outside the worker nothing changes but the time.                        *)
LEMMA TimeIsQuiet ==
  ASSUME TypeInv, QuietInv, UNCHANGED rsv, UNCHANGED ghosts, UNCHANGED worker,
         clock' \in {clock, clock + 1}
  PROVE  QuietInv'
<1>1. /\ rsv' = rsv /\ locks' = locks /\ unlocks' = unlocks
      /\ wpc' = wpc /\ wr' = wr /\ wobj' = wobj /\ wgoal' = wgoal
  BY DEF ghosts, worker
<1>2. \A r \in Reservations : Balance(r)' = Balance(r) /\ Holding(r)' = Holding(r)
  BY <1>1 DEF Balance, Holding
<1>3. ASSUME NEW r \in Reservations PROVE Standing(r)' => Standing(r)
  <2>1. rsv[r].expiresAt \in Nat /\ clock \in Nat
    BY BoundsType DEF TypeInv, TypeOK, Reservation
  <2>2. Expired(rsv[r]) => Expired(rsv[r])'
    BY <1>1, <2>1 DEF Expired
  <2> QED
    BY <1>1, <2>2 DEF Standing
<1>4. ASSUME NEW CONSTANT r \in Reservations, r = wr, wpc # "idle" PROVE Working(r)'
  <2>1. Working(r)
    BY <1>4 DEF QuietInv
  <2> QED
    BY <1>1, <1>2, <1>3, <2>1 DEF Working, GivingUp
<1> QED
  BY <1>1, <1>2, <1>4 DEF QuietInv, TypeInv, WorkerInv

(* A user, an agent or the API server writes another reservation.          *)
LEMMA WriteIsQuiet ==
  ASSUME TypeInv, QuietInv, UNCHANGED ghosts, UNCHANGED worker, UNCHANGED clock,
         NEW r \in Reservations, r # wr, NEW o \in Reservation, PutRsv(r, o),
         o.phase = "Reserved" => rsv[r].phase = "Reserved",
         o.exists /\ o.phase = "Reserved" <=> rsv[r].exists /\ rsv[r].phase = "Reserved"
  PROVE  QuietInv'
<1>1. /\ locks' = locks /\ unlocks' = unlocks
      /\ wpc' = wpc /\ wr' = wr /\ wobj' = wobj /\ wgoal' = wgoal
  BY DEF ghosts, worker
<1>2. \A x \in Reservations : x # r => rsv'[x] = rsv[x]
  BY DEF PutRsv, TypeInv, TypeOK
<1>3. rsv'[r].phase = o.phase /\ rsv'[r].exists = o.exists
  <2>1. CASE o = rsv[r]
    BY <2>1 DEF PutRsv
  <2>2. CASE o # rsv[r]
    <3>1. rsv'[r] = [o EXCEPT !.rv = rsv[r].rv + 1]
      BY <2>2 DEF PutRsv, TypeInv, TypeOK
    <3> QED
      BY <3>1 DEF Reservation
  <2> QED
    BY <2>1, <2>2
<1>4. \A x \in Reservations : Balance(x)' = Balance(x) /\ Holding(x)' = Holding(x)
  BY <1>1, <1>2, <1>3 DEF Balance, Holding
<1>5. \A x \in Reservations : rsv'[x].phase = "Reserved" => Valid(x)
  BY <1>2, <1>3 DEF QuietInv
<1>6. ASSUME NEW CONSTANT x \in Reservations, x = wr, wpc # "idle" PROVE Working(x)'
  <2>1. Working(x) /\ rsv'[x] = rsv[x]
    BY <1>2, <1>6 DEF QuietInv
  <2>2. Standing(x)' => Standing(x)
    BY <2>1 DEF Standing, Expired
  <2> QED
    BY <1>1, <1>4, <1>6, <2>1, <2>2 DEF Working, GivingUp
<1> QED
  BY <1>1, <1>4, <1>5, <1>6 DEF QuietInv, TypeInv, WorkerInv


LEMMA UsersAreQuiet ==
  ASSUME Quiet, TypeInv, VersionInv, SafetyInv, QuietInv, NEW r \in Reservations,
         CreateReservation(r) \/ DeleteReservation(r) \/ SignalRequester(r)
           \/ PostPeeringKubeconfig(r)
  PROVE  QuietInv'
<1>t. /\ rsv[r] \in Reservation /\ rsvCache[r] \in Reservation
      /\ UNCHANGED ghosts /\ UNCHANGED worker /\ UNCHANGED clock
      /\ CurrentRsv(r, rsvCache[r]) => rsvCache[r] = rsv[r]
      /\ ObjectInv
  BY CurrentObject DEF TypeInv, TypeOK, SafetyInv, CreateReservation, DeleteReservation,
       SignalRequester, PostPeeringKubeconfig, UserWrite
<1>1. ASSUME NEW o \in Reservation, r # wr, PutRsv(r, o),
             o.phase = rsv[r].phase, o.exists = rsv[r].exists
      PROVE  QuietInv'
  BY <1>1, <1>t, WriteIsQuiet
<1>2. CASE CreateReservation(r)
  <2>1. PICK c \in Clusters \cup {None} : PutRsv(r, NewReservation(c))
    BY <1>2 DEF CreateReservation
  <2>2. /\ NewReservation(c) \in Reservation
        /\ NewReservation(c).phase = ""
    BY NewObjectsType DEF NewReservation, NoReservation
  <2>3. ~ rsv[r].exists
    BY <1>2, <1>t DEF CreateReservation, ObjectInv
  <2>4. r # wr
    <3>1. wpc # "idle" => wobj.exists /\ wobj = rsv[wr]
      BY DEF SafetyInv, GoalInv, QuietInv, Working
    <3> QED
      BY <2>3, <3>1, SetsAssumption DEF QuietInv
  <2> HIDE DEF QuietInv
  <2> QED
    BY <1>t, <2>1, <2>2, <2>3, <2>4, WriteIsQuiet
<1>3. CASE DeleteReservation(r)
  <2>1. r # wr /\ rsv[r].exists
    BY <1>3 DEF DeleteReservation, UserWrite, Quiet
  <2>2. CASE PutRsv(r, [rsv[r] EXCEPT !.deleting = TRUE])
    <3> DEFINE o == [rsv[r] EXCEPT !.deleting = TRUE]
    <3>1. o \in Reservation /\ o.phase = rsv[r].phase /\ o.exists = rsv[r].exists
      BY <1>t DEF Reservation
    <3> QED
      BY <1>1, <2>1, <2>2, <3>1
  <2>3. CASE ~ rsv[r].finalizer /\ PutRsv(r, [rsv[r] EXCEPT !.exists = FALSE])
    <3> DEFINE o == [rsv[r] EXCEPT !.exists = FALSE]
    <3>1. o \in Reservation /\ o.phase = rsv[r].phase /\ o.exists = FALSE
      BY <1>t DEF Reservation
    <3>2. rsv[r].phase = ""
      BY <1>t, <2>1, <2>3 DEF ObjectInv, Quiet
    <3>3. PutRsv(r, o)
      BY <2>3
    <3> HIDE DEF o
    <3> QED
      BY <1>t, <2>1, <3>1, <3>2, <3>3, WriteIsQuiet
  <2> QED
    BY <1>3, <2>2, <2>3 DEF DeleteReservation
<1>4. CASE SignalRequester(r)
  <2>1. r # wr
    BY <1>4 DEF SignalRequester, UserWrite, Quiet
  <2>2. ASSUME NEW o \in {[rsv[r] EXCEPT !.requesterActive = TRUE],
                          [rsv[r] EXCEPT !.requesterReleased = TRUE]}
        PROVE  o \in Reservation /\ o.phase = rsv[r].phase /\ o.exists = rsv[r].exists
    BY <1>t DEF Reservation
  <2> QED
    BY <1>1, <1>4, <2>1, <2>2 DEF SignalRequester
<1>5. CASE PostPeeringKubeconfig(r)
  <2> DEFINE o == [rsv[r] EXCEPT !.kubeconfig = TRUE]
  <2>1. r # wr /\ PutRsv(r, o)
    BY <1>5, <1>t DEF PostPeeringKubeconfig, UserWrite, Quiet
  <2>2. o \in Reservation /\ o.phase = rsv[r].phase /\ o.exists = rsv[r].exists
    BY <1>t DEF Reservation
  <2> QED
    BY <1>1, <2>1, <2>2
<1> QED
  BY <1>2, <1>3, <1>4, <1>5

(* The worker begins with what is current.                                 *)
LEMMA StartIsQuiet ==
  ASSUME Quiet, TypeInv, VersionInv, QuietInv, NEW CONSTANT r \in Reservations, StartReconcile(r)
  PROVE  QuietInv'
<1>1. /\ rsv' = rsv /\ locks' = locks /\ unlocks' = unlocks /\ clock' = clock
      /\ wpc = "idle" /\ wr = None
  BY DEF StartReconcile, store, ghosts, QuietInv
<1>2. rsvCache[r] = rsv[r]
  <2>1. staleStarts \in 0 .. MaxStaleStarts /\ MaxStaleStarts = 0
    BY DEF TypeInv, TypeOK, Quiet
  <2>2. ~ (staleStarts < MaxStaleStarts)
    BY <2>1
  <2> QED
    BY <2>2, CurrentObject DEF StartReconcile
<1>3. \A x \in Reservations : /\ Balance(x)' = Balance(x) /\ Holding(x)' = Holding(x)
                              /\ Balance(x) = Holding(x)
  BY <1>1, SetsAssumption DEF Balance, Holding, QuietInv
<1>4. CASE UNCHANGED <<wpc, wr, wobj>>
  BY <1>1, <1>3, <1>4 DEF QuietInv
<1>5. CASE wpc' = "reconcile" /\ wr' = r /\ wobj' = rsvCache[r]
  <2>1. Working(r)'
    BY <1>1, <1>2, <1>3, <1>5 DEF Working, GivingUp
  <2> QED
    BY <1>1, <1>3, <1>5, <2>1, SetsAssumption DEF QuietInv
<1> QED
  BY <1>4, <1>5 DEF StartReconcile


(* What a step of the worker makes of the reservation it is on.            *)
QuietAfter(r) ==
  /\ rsv'[r].phase = "Reserved" => Valid(r)
  /\ \/ wpc' = "idle" /\ wr' = None /\ Balance(r)' = Holding(r)'
     \/ wpc' # "idle" /\ wr' = r /\ Working(r)'

OthersKept(r) ==
  \A x \in Reservations \ {r} :
    rsv'[x] = rsv[x] /\ locks'[x] = locks[x] /\ unlocks'[x] = unlocks[x]

LEMMA QuietAfterSuffices ==
  ASSUME QuietInv, NEW CONSTANT r \in Reservations, r = wr, QuietAfter(r), OthersKept(r)
  PROVE  QuietInv'
<1>1. \A x \in Reservations \ {r} : /\ Balance(x)' = Balance(x) /\ Holding(x)' = Holding(x)
                                    /\ Balance(x) = Holding(x)
                                    /\ rsv'[x] = rsv[x]
  BY DEF OthersKept, Balance, Holding, QuietInv
<1>2. \A x \in Reservations : rsv'[x].phase = "Reserved" => Valid(x)
  BY <1>1 DEF QuietInv, QuietAfter
<1>3. \A x \in Reservations : x # wr' => Balance(x)' = Holding(x)'
  BY <1>1 DEF QuietAfter
<1> QED
  BY <1>2, <1>3, SetsAssumption DEF QuietInv, QuietAfter

(* Where the worker is and what it holds then.                             *)
LEMMA AtWork ==
  ASSUME TypeInv, VersionInv, SafetyInv, QuietInv, NEW r \in Reservations, r = wr, wpc # "idle"
  PROVE  /\ Working(r) /\ wobj = rsv[r] /\ wobj \in Reservation /\ wobj.exists
         /\ CurrentRsv(r, wobj)
         /\ wobj.phase = "Reserved" => Valid(r) /\ Known(wobj.target)
         /\ locks[r] \in Int /\ unlocks[r] \in Int
         /\ locks \in [Reservations -> Nat] /\ unlocks \in [Reservations -> Nat]
<1>1. locks \in [Reservations -> Nat] /\ unlocks \in [Reservations -> Nat]
  BY DEF TypeInv, TypeOK
<1>2. Working(r) /\ wobj = rsv[r]
  BY DEF QuietInv, Working
<1>3. wobj.phase = "Reserved" => Valid(r) /\ Known(wobj.target)
  BY <1>2 DEF QuietInv, SafetyInv, CopiesInv, Backed
<1>4. wobj \in Reservation /\ wobj.exists /\ CurrentRsv(r, wobj)
  BY <1>2 DEF TypeInv, TypeOK, SafetyInv, GoalInv, CurrentRsv
<1>5. locks[r] \in Int /\ unlocks[r] \in Int
  BY <1>1
<1> QED
  BY <1>1, <1>2, <1>3, <1>4, <1>5

(* The switch on the phase, without a write.                               *)
LEMMA SwitchIsQuiet ==
  ASSUME TypeInv, VersionInv, SafetyInv, QuietInv, NEW CONSTANT r \in Reservations, r = wr,
         \/ ReconcileDeleted \/ RejectInvalid \/ ReconcileTargeted
         \/ ReconcileReserved \/ ReconcileActive \/ ReconcileTerminal
  PROVE  QuietInv'
<1>1. /\ rsv' = rsv /\ locks' = locks /\ unlocks' = unlocks /\ clock' = clock
      /\ wpc = "reconcile"
  BY DEF ReconcileDeleted, RejectInvalid, ReconcileTargeted, ReconcileReserved,
         ReconcileActive, ReconcileTerminal, InPhase, store, ghosts
<1>2. /\ Working(r) /\ wobj = rsv[r] /\ wobj.exists
      /\ wobj.phase = "Reserved" => Valid(r)
  BY <1>1, AtWork
<1>3. Balance(r)' = Balance(r) /\ Holding(r)' = Holding(r) /\ Standing(r)' = Standing(r)
  BY <1>1 DEF Balance, Holding, Standing, Expired
<1>4. Balance(r) = Holding(r) /\ (wobj.phase # "Reserved" => Balance(r) = 0 /\ ~ Standing(r))
  BY <1>1, <1>2 DEF Working, Holding, Standing
<1>5. CASE Finish
  BY <1>1, <1>2, <1>3, <1>4, <1>5, QuietAfterSuffices DEF QuietAfter, OthersKept, Finish
<1>6. ASSUME wr' = r, wobj' = wobj,
             \/ wpc' = "release" /\ ~ Standing(r)
             \/ wpc' = "lock" /\ Valid(r) /\ wobj.phase # "Reserved"
             \/ wpc' = "status" /\ wgoal' # "Reserved" /\ wobj.phase # "Reserved"
      PROVE  QuietInv'
  <2>1. Working(r)' /\ wpc' # "idle"
    BY <1>1, <1>2, <1>3, <1>4, <1>6 DEF Working, GivingUp
  <2> QED
    BY <1>1, <1>2, <1>6, <2>1, QuietAfterSuffices DEF QuietAfter, OthersKept
<1>7. CASE ReconcileDeleted
  <2>1. ~ Standing(r)
    BY <1>2, <1>7 DEF ReconcileDeleted, Standing
  <2> QED
    BY <1>5, <1>6, <1>7, <2>1 DEF ReconcileDeleted, Goto, Done
<1>8. CASE RejectInvalid
  BY <1>2, <1>6, <1>8 DEF RejectInvalid, Goto
<1>9. CASE ReconcileTargeted
  BY <1>6, <1>9 DEF ReconcileTargeted, InPhase, Goto
<1>10. CASE ReconcileReserved
  <2>1. wobj.requesterActive \/ Expired(wobj) => ~ Standing(r)
    BY <1>2 DEF Standing
  <2> QED
    BY <1>5, <1>6, <1>10, <2>1 DEF ReconcileReserved, Goto, Requeue
<1>11. CASE ReconcileActive
  <2>1. ~ Standing(r)
    BY <1>2, <1>11 DEF Standing, ReconcileActive, InPhase
  <2> QED
    BY <1>5, <1>6, <1>11, <2>1 DEF ReconcileActive, Goto, Requeue
<1>12. CASE ReconcileTerminal
  BY <1>5, <1>12 DEF ReconcileTerminal, Done
<1> QED
  BY <1>7, <1>8, <1>9, <1>10, <1>11, <1>12

(* Only the object changes: the finalizer, the target, the phase that the  *)
(* worker was going to write, or the removal.                              *)
LEMMA WriteByWorkerIsQuiet ==
  ASSUME TypeInv, VersionInv, SafetyInv, QuietInv, NEW CONSTANT r \in Reservations, r = wr,
         AddFinalizer \/ ReconcileUntargeted \/ WriteStatus \/ RemoveFinalizer
  PROVE  QuietInv'
<1>1. /\ locks' = locks /\ unlocks' = unlocks /\ clock' = clock
      /\ wpc \in {"reconcile", "status", "finalizer"}
  BY DEF AddFinalizer, ReconcileUntargeted, WriteStatus, RemoveFinalizer, InPhase, ghosts
<1>2. /\ Working(r) /\ wobj = rsv[r] /\ wobj \in Reservation /\ wobj.exists
      /\ wobj.phase = "Reserved" => Valid(r)
      /\ CurrentRsv(r, wobj)
  BY <1>1, AtWork
<1>3. Balance(r)' = Balance(r)
  BY <1>1 DEF Balance
<1>4. ASSUME NEW o \in Reservation, PutRsv(r, o)
      PROVE  /\ rsv'[r].exists = o.exists /\ rsv'[r].phase = o.phase
             /\ OthersKept(r)
  <2>1. OthersKept(r)
    BY <1>1, <1>4 DEF OthersKept, PutRsv, TypeInv, TypeOK
  <2> QED
    BY <1>4, <2>1, Stored
<1>5. CASE AddFinalizer
  <2> DEFINE o == [wobj EXCEPT !.finalizer = TRUE]
  <2>1. /\ wpc = "reconcile" /\ wpc' = "reconcile" /\ wr' = r
        /\ PutRsv(r, o) /\ wobj' = rsv'[r]
    BY <1>2, <1>5 DEF AddFinalizer
  <2>2. o \in Reservation /\ o.exists = wobj.exists /\ o.phase = wobj.phase
    BY <1>2 DEF Reservation
  <2> HIDE DEF o
  <2>3. rsv'[r].exists = wobj.exists /\ rsv'[r].phase = wobj.phase /\ OthersKept(r)
    BY <1>4, <2>1, <2>2
  <2>4. Holding(r)' = Holding(r)
    BY <1>2, <2>3 DEF Holding
  <2>5. Working(r)'
    BY <1>2, <1>3, <2>1, <2>4 DEF Working, GivingUp
  <2> QED
    BY <1>2, <2>1, <2>3, <2>5, QuietAfterSuffices DEF QuietAfter
<1>6. CASE ReconcileUntargeted
  <2>1. /\ wpc = "reconcile" /\ wobj.phase \in {"", "Pending"} /\ Valid(r)
    BY <1>6 DEF ReconcileUntargeted, InPhase
  <2>2. Balance(r) = 0
    BY <1>2, <2>1 DEF Working, Holding
  <2>3. CASE Goto("status", "Failed") /\ UNCHANGED <<rsv, wobj>>
    <3>1. /\ wpc' = "status" /\ wgoal' = "Failed" /\ wr' = r
          /\ rsv' = rsv /\ wobj' = wobj
      BY <2>3 DEF Goto
    <3>2. ~ Standing(r)'
      BY <1>2, <2>1, <3>1 DEF Standing
    <3>3. Working(r)'
      BY <1>2, <1>3, <2>2, <3>1, <3>2 DEF Working, GivingUp
    <3> QED
      BY <1>1, <1>2, <2>1, <3>1, <3>3, QuietAfterSuffices DEF QuietAfter, OthersKept
  <2>4. ASSUME NEW c \in Candidates(r), PutRsv(r, [wobj EXCEPT !.target = c]),
               wobj' = rsv'[r], Goto("lock", "Reserved")
        PROVE  QuietInv'
    <3> DEFINE o == [wobj EXCEPT !.target = c]
    <3>1. o \in Reservation
      BY <1>2, EditsType DEF Candidates
    <3>2. o.phase = wobj.phase
      BY <1>2 DEF Reservation
    <3>3. PutRsv(r, o)
      BY <2>4
    <3> HIDE DEF o
    <3>4. rsv'[r].phase = wobj.phase /\ OthersKept(r)
      BY <1>4, <3>1, <3>2, <3>3
    <3>5. wpc' = "lock" /\ wr' = r
      BY <2>4 DEF Goto
    <3>6. rsv'[r].phase # "Reserved"
      BY <2>1, <3>4
    <3>7. Working(r)'
      BY <1>3, <2>1, <2>2, <2>4, <3>5, <3>6 DEF Working, GivingUp
    <3> QED
      BY <3>4, <3>5, <3>6, <3>7, QuietAfterSuffices DEF QuietAfter
  <2> QED
    BY <1>2, <1>6, <2>3, <2>4 DEF ReconcileUntargeted
<1>7. CASE WriteStatus
  <2>1. ASSUME NEW o \in Reservation, PutRsv(r, o), Finish, o.exists,
               IF o.phase = "Reserved" THEN Balance(r) = 1 /\ Valid(r) ELSE Balance(r) = 0
        PROVE  QuietInv'
    <3>1. rsv'[r].exists /\ rsv'[r].phase = o.phase /\ OthersKept(r)
      BY <1>4, <2>1
    <3>2. Balance(r)' = Holding(r)'
      BY <1>3, <2>1, <3>1 DEF Holding
    <3> QED
      BY <2>1, <3>1, <3>2, QuietAfterSuffices DEF QuietAfter, Finish
  <2>2. wpc = "status" /\ Finish
    BY <1>7 DEF WriteStatus, Requeue, Done
  <2>3. CASE wgoal = "Reserved"
    <3>1. PutRsv(r, AsReserved(r, wobj)) /\ Balance(r) = 1 /\ Valid(r)
      BY <1>2, <1>7, <2>2, <2>3 DEF WriteStatus, Working
    <3>2. clock \in Nat
      BY BoundsType DEF TypeInv, TypeOK
    <3>3. /\ AsReserved(r, wobj) \in Reservation
          /\ AsReserved(r, wobj).exists /\ AsReserved(r, wobj).phase = "Reserved"
      BY <1>2, <3>2, AsReservedType, FieldsOfEdits
    <3> QED
      BY <2>1, <2>2, <3>1, <3>3
  <2>4. CASE wgoal # "Reserved"
    <3>1. PutRsv(r, [wobj EXCEPT !.phase = wgoal]) /\ Balance(r) = 0
      BY <1>2, <1>7, <2>2, <2>4 DEF WriteStatus, Working
    <3>2. wgoal \in Phases
      BY <2>2 DEF TypeInv, WorkerInv, Phases
    <3> DEFINE o == [wobj EXCEPT !.phase = wgoal]
    <3>3. o \in Reservation
      BY <1>2, <3>2, EditsType
    <3>4. o.exists /\ o.phase = wgoal
      BY <1>2 DEF Reservation
    <3>5. PutRsv(r, o)
      BY <3>1
    <3> HIDE DEF o
    <3> QED
      BY <2>1, <2>2, <2>4, <3>1, <3>3, <3>4, <3>5
  <2> QED
    BY <2>3, <2>4
<1>8. CASE RemoveFinalizer
  <2> DEFINE o == [wobj EXCEPT !.finalizer = FALSE, !.exists = FALSE]
  <2>1. PutRsv(r, o) /\ Finish /\ Balance(r) = 0
    BY <1>2, <1>8 DEF RemoveFinalizer, Requeue, Done, Working
  <2>2. o \in Reservation /\ o.exists = FALSE /\ o.phase = wobj.phase
    BY <1>2 DEF Reservation
  <2> HIDE DEF o
  <2>3. ~ rsv'[r].exists /\ rsv'[r].phase = wobj.phase /\ OthersKept(r)
    BY <1>4, <2>1, <2>2
  <2>4. Balance(r)' = Holding(r)'
    BY <1>3, <2>1, <2>3 DEF Holding
  <2> QED
    BY <1>2, <2>1, <2>3, <2>4, QuietAfterSuffices DEF QuietAfter, Finish
<1> QED
  BY <1>5, <1>6, <1>7, <1>8


LEMMA LockIsQuiet ==
  ASSUME TypeInv, VersionInv, SafetyInv, QuietInv, NEW CONSTANT r \in Reservations, r = wr,
         ReserveInTargetCluster
  PROVE  QuietInv'
<1>1. /\ rsv' = rsv /\ unlocks' = unlocks /\ clock' = clock /\ wpc = "lock"
  BY DEF ReserveInTargetCluster
<1>2. /\ Working(r) /\ wobj = rsv[r]
      /\ locks[r] \in Int /\ unlocks[r] \in Int /\ locks \in [Reservations -> Nat]
      /\ Balance(r) = 0 /\ Valid(r) /\ rsv[r].phase # "Reserved"
  BY <1>1, AtWork DEF Working
<1>3. Holding(r)' = 0 /\ ~ Standing(r)'
  BY <1>1, <1>2 DEF Holding, Standing
<1>4. CASE Lock(r, wobj.target) /\ Goto("status", "Reserved") /\ UNCHANGED wobj
  <2>1. locks' = [locks EXCEPT ![r] = @ + 1] /\ locks'[r] = locks[r] + 1
    BY <1>2, <1>4 DEF Lock
  <2>2. locks[r] - unlocks[r] = 0
    BY <1>2 DEF Balance
  <2>3. (locks[r] + 1) - unlocks[r] = 1
    BY <1>2, <2>2
  <2>4. Balance(r)' = 1
    BY <1>1, <2>1, <2>3 DEF Balance
  <2>5. OthersKept(r)
    BY <1>1, <1>2, <2>1 DEF OthersKept
  <2>6. wpc' = "status" /\ wgoal' = "Reserved" /\ wr' = r /\ wobj' = wobj
    BY <1>4 DEF Goto
  <2>7. Working(r)'
    BY <1>1, <1>2, <2>4, <2>6 DEF Working, GivingUp
  <2> QED
    BY <1>1, <1>2, <2>5, <2>6, <2>7, QuietAfterSuffices DEF QuietAfter
<1>5. CASE UNCHANGED locks
  <2>1. Balance(r)' = 0 /\ OthersKept(r)
    BY <1>1, <1>2, <1>5 DEF Balance, OthersKept
  <2>2. CASE Goto("status", "Failed") /\ UNCHANGED wobj
    <3>1. wpc' = "status" /\ wgoal' = "Failed" /\ wr' = r /\ wobj' = wobj
      BY <2>2 DEF Goto
    <3>2. Working(r)'
      BY <1>1, <1>2, <1>3, <2>1, <3>1 DEF Working, GivingUp
    <3> QED
      BY <1>1, <1>2, <2>1, <3>1, <3>2, QuietAfterSuffices DEF QuietAfter
  <2>3. CASE Requeue
    BY <1>1, <1>2, <1>3, <2>1, <2>3, QuietAfterSuffices DEF QuietAfter, Requeue, Finish
  <2> QED
    BY <1>4, <1>5, <2>2, <2>3 DEF ReserveInTargetCluster
<1> QED
  BY <1>4, <1>5 DEF ReserveInTargetCluster

(* A copy that is Reserved names a cluster that is known, so it is never   *)
(* skipped.                                                                *)
LEMMA ReleaseIsQuiet ==
  ASSUME TypeInv, VersionInv, SafetyInv, QuietInv, NEW CONSTANT r \in Reservations, r = wr,
         ReleaseResources
  PROVE  QuietInv'
<1>1. /\ rsv' = rsv /\ locks' = locks /\ clock' = clock /\ wpc = "release"
  BY DEF ReleaseResources
<1>2. /\ Working(r) /\ wobj = rsv[r] /\ wobj.exists
      /\ locks[r] \in Int /\ unlocks[r] \in Int /\ unlocks \in [Reservations -> Nat]
      /\ Balance(r) = Holding(r) /\ ~ Standing(r)
      /\ wobj.phase = "Reserved" => Valid(r) /\ Known(wobj.target)
  BY <1>1, AtWork DEF Working, GivingUp
<1>3. Holding(r)' = Holding(r) /\ ~ Standing(r)'
  BY <1>1, <1>2 DEF Holding, Standing, Expired
<1>4. Holds(wobj) <=> Holding(r) = 1
  BY <1>2 DEF Holds, Holding
<1>5. ASSUME AfterRelease, UNCHANGED wobj, Balance(r)' = 0, OthersKept(r)
      PROVE  QuietInv'
  <2>1. wgoal \in {"Active", "Released", "gone"}
    BY <1>1 DEF TypeInv, WorkerInv
  <2>2. /\ wpc' = IF wgoal = "gone" THEN "finalizer" ELSE "status"
        /\ wgoal' = wgoal /\ wr' = r /\ wobj' = wobj
    BY <1>5 DEF AfterRelease, Goto
  <2>3. Working(r)' /\ wpc' # "idle"
    BY <1>1, <1>2, <1>3, <1>5, <2>1, <2>2 DEF Working, GivingUp
  <2> QED
    BY <1>1, <1>2, <1>5, <2>2, <2>3, QuietAfterSuffices DEF QuietAfter
<1>6. CASE ~ Holds(wobj) /\ AfterRelease /\ UNCHANGED <<adv, unlocks, wobj>>
  <2>1. Balance(r)' = 0 /\ OthersKept(r)
    BY <1>1, <1>2, <1>4, <1>6 DEF Balance, Holding, OthersKept
  <2> QED
    BY <1>5, <1>6, <2>1
<1>7. CASE Holds(wobj) /\ Release(wobj.target) /\ AfterRelease /\ UNCHANGED wobj
  <2>1. unlocks' = [unlocks EXCEPT ![r] = @ + 1] /\ unlocks'[r] = unlocks[r] + 1
    BY <1>2, <1>7 DEF Release
  <2>2. locks[r] - unlocks[r] = 1
    BY <1>2, <1>4, <1>7 DEF Balance
  <2>3. locks[r] - (unlocks[r] + 1) = 0
    BY <1>2, <2>2
  <2>4. Balance(r)' = 0
    BY <1>1, <2>1, <2>3 DEF Balance
  <2>5. OthersKept(r)
    BY <1>1, <1>2, <2>1 DEF OthersKept
  <2> QED
    BY <1>5, <1>7, <2>4, <2>5
<1>8. CASE Requeue /\ UNCHANGED <<adv, unlocks>>
  <2>1. Balance(r)' = Holding(r)' /\ OthersKept(r)
    BY <1>1, <1>2, <1>3, <1>8 DEF Balance, OthersKept
  <2> QED
    BY <1>1, <1>2, <1>8, <2>1, QuietAfterSuffices DEF QuietAfter, Requeue, Finish
<1> QED
  BY <1>6, <1>7, <1>8 DEF ReleaseResources

LEMMA NextIsQuiet ==
  ASSUME Quiet, TypeInv, VersionInv, SafetyInv, QuietInv, [Next]_vars
  PROVE  QuietInv'
<1>1. ASSUME NEW c \in Clusters,
             \/ \E report \in Reports : PostAdvertisement(c, report)
             \/ ReconcileAdvertisement(c) \/ SyncAdvertisement(c)
      PROVE  QuietInv'
  <2>1. UNCHANGED rsv /\ UNCHANGED ghosts /\ UNCHANGED worker /\ UNCHANGED clock
    BY <1>1 DEF PostAdvertisement, ReconcileAdvertisement, SyncAdvertisement, store
  <2> QED
    BY <2>1, TimeIsQuiet
<1>2. ASSUME NEW CONSTANT r \in Reservations,
             \/ StartReconcile(r) \/ SyncReservation(r)
             \/ CreateReservation(r) \/ DeleteReservation(r)
             \/ SignalRequester(r) \/ PostPeeringKubeconfig(r)
      PROVE  QuietInv'
  <2>1. CASE SyncReservation(r)
    BY <2>1, TimeIsQuiet DEF SyncReservation, store
  <2> QED
    BY <1>2, <2>1, StartIsQuiet, UsersAreQuiet
<1>3. CASE Reconcile
  <2>1. wpc # "idle"
    BY <1>3 DEF Reconcile, ReconcileDeleted, AddFinalizer, RejectInvalid, ReconcileTargeted,
         ReconcileUntargeted, ReconcileReserved, ReconcileActive, ReconcileTerminal,
         ReserveInTargetCluster, ReleaseResources, WriteStatus, RemoveFinalizer, InPhase
  <2>2. PICK r \in Reservations : r = wr
    BY <2>1 DEF TypeInv, WorkerInv
  <2> QED
    BY <1>3, <2>2, SwitchIsQuiet, WriteByWorkerIsQuiet, LockIsQuiet, ReleaseIsQuiet DEF Reconcile
<1>4. CASE Tick \/ UNCHANGED vars
  <2>1. UNCHANGED rsv /\ UNCHANGED ghosts /\ UNCHANGED worker /\ clock' \in {clock, clock + 1}
    BY <1>4 DEF Tick, store, vars
  <2> QED
    BY <2>1, TimeIsQuiet
<1>5. ~ Crash
  <2>1. crashes \in 0 .. MaxCrashes /\ MaxCrashes = 0
    BY DEF TypeInv, TypeOK, Quiet
  <2> QED
    BY <2>1 DEF Crash
<1>6. ~ CallFails
  <2>1. errors \in 0 .. MaxErrors /\ MaxErrors = 0
    BY DEF TypeInv, TypeOK, Quiet
  <2> QED
    BY <2>1 DEF CallFails, HttpCallFails, HttpLockAnswerLost, WorkerCallFails, ApiError
<1> QED
  BY <1>1, <1>2, <1>3, <1>4, <1>5, <1>6 DEF Next, CallFails, Quiet

LEMMA InitQuietInv == Init => QuietInv
<1> SUFFICES ASSUME Init PROVE QuietInv
  OBVIOUS
<1>1. wpc = "idle" /\ wr = None
  BY DEF Init
<1>2. ASSUME NEW r \in Reservations
      PROVE  rsv[r].phase = "" /\ ~ rsv[r].exists /\ Balance(r) = 0
  <2>1. rsv[r] = NoReservation /\ locks[r] = 0 /\ unlocks[r] = 0
    BY DEF Init
  <2>2. rsv[r].phase = "" /\ ~ rsv[r].exists
    <3>1. NoReservation.phase = "" /\ ~ NoReservation.exists
      BY DEF NoReservation
    <3> QED
      BY <2>1, <3>1, Zenon
  <2>3. Balance(r) = 0
    BY <2>1 DEF Balance
  <2> QED
    BY <2>2, <2>3
<1> QED
  BY <1>1, <1>2 DEF QuietInv, Holding

LEMMA Quietness ==
  ASSUME Quiet
  PROVE  Spec => []QuietInv
<1>1. TypeInv /\ VersionInv /\ SafetyInv /\ QuietInv /\ [Next]_vars => QuietInv'
  BY NextIsQuiet
<1> QED
  BY <1>1, InitTypeInv, NextTypeInv, InitVersionInv, NextVersionInv, InitSafetyInv, NextSafetyInv,
     InitQuietInv, PTL DEF Spec

(* When nothing goes wrong, every reservation that the worker is not on    *)
(* holds its resources once if it is Reserved, and not at all otherwise:   *)
(* each lock is followed by its status update and each release by the      *)
(* change of phase or the removal that it stands for.                      *)
THEOREM QuietIsBalanced ==
  ASSUME Quiet
  PROVE  Spec => []Balanced
<1>1. QuietInv => Balanced
  BY DEF QuietInv, Balanced, Balance, Holding
<1> QED
  BY <1>1, Quietness, PTL
=============================================================================
