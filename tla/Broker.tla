------------------------------- MODULE Broker -------------------------------
(***************************************************************************)
(* The resource broker's reservation core.                                 *)
(*                                                                         *)
(* ClusterAdvertisements and Reservations live in the Kubernetes API       *)
(* server (adv, rsv), which accepts an update only if the object that the  *)
(* caller read is still the current version.  Everything in the broker     *)
(* process reads them through the manager's informer cache (advCache,      *)
(* rsvCache), which trails the API server.  Three kinds of process work on *)
(* them: the HTTP handlers, the single worker of the Reservation           *)
(* controller, and the users, agents and other writers outside.            *)
(*                                                                         *)
(* A handler that gets an object, edits it and updates it in one           *)
(* RetryOnConflict iteration is one step here: it succeeds only if the     *)
(* cached version it read is still current when it writes, so nothing      *)
(* happened to the object in between; in every other interleaving the      *)
(* update is a conflict, which is a disjunct of its own.  An object that   *)
(* is read once and used over several calls (the worker's Reservation) is  *)
(* kept in a variable from the read to its last use.                       *)
(***************************************************************************)
EXTENDS ResourceCalculator, Functions, FiniteSets

CONSTANTS
  Clusters,        \* cluster identities
  Reservations,    \* names of the reservations that may be created
  HttpRequests,    \* the ones POST /api/v1/reservations creates; the others
                   \* are created as objects with kubectl
  None,            \* no target cluster; no reservation in the worker's hands
  RequesterID,     \* [Reservations -> Clusters]
  Requested,       \* [Reservations -> Quantities]
  Duration,        \* [Reservations -> Nat], 0 is a reservation without one
  Registered,      \* clusters whose advertisement exists when the broker starts
  Reports,         \* the availabilities an agent may advertise
  ForeignOverlap,  \* whether users and providers write a Reservation while the
                   \* worker is on it
  MaxTime,         \* bound: the clock stops here
  MaxReports,      \* bound: advertisements posted
  MaxTouches,      \* bound: status updates of advertisements
  MaxUserWrites,   \* bound: deletions, conditions and kubeconfigs written
  MaxStaleStarts,  \* bound: reconciliations begun on an outdated Reservation
  MaxCrashes,      \* bound: broker restarts
  MaxErrors        \* bound: calls to the API server that fail other than by a
                   \* conflict with a write of this model

ASSUME SetsAssumption ==
  /\ HttpRequests \subseteq Reservations
  /\ Registered \subseteq Clusters
  /\ None \notin Clusters
  /\ None \notin Reservations

(* What they ask for is added up.                                          *)
ASSUME FinitenessAssumption == IsFiniteSet(Reservations)

ASSUME DataAssumption ==
  /\ RequesterID \in [Reservations -> Clusters]
  /\ Requested \in [Reservations -> Quantities]
  /\ Duration \in [Reservations -> Nat]
  /\ Reports \subseteq Quantities

ASSUME BoundsAssumption ==
  /\ ForeignOverlap \in BOOLEAN
  /\ MaxTime \in Nat
  /\ MaxReports \in Nat
  /\ MaxTouches \in Nat
  /\ MaxUserWrites \in Nat
  /\ MaxStaleStarts \in Nat
  /\ MaxCrashes \in Nat
  /\ MaxErrors \in Nat

(* PostReservation rejects a request that is not positive before it        *)
(* creates anything, so these are the reservations it can create.          *)
ASSUME HttpRequestsAssumption ==
  \A r \in HttpRequests : \A k \in Kinds : Requested[r][k] > 0

VARIABLES
  adv,          \* the API server's ClusterAdvertisements
  rsv,          \* the API server's Reservations
  advCache,     \* the informer cache of the ClusterAdvertisements
  rsvCache,     \* the informer cache of the Reservations
  queue,        \* keys in the Reservation controller's work queue
  wpc,          \* the worker: the call it is about to make
  wr,           \* the worker: the key it works on
  wobj,         \* the worker: its copy of the Reservation
  wgoal,        \* the worker: the phase it will write, or the removal
  http,         \* PostReservation: the call each handler is about to make
  clock,
  reports, touches, userWrites, staleStarts, crashes, errors  \* counters for the bounds

(* History variables: how often resources were locked and released on      *)
(* behalf of a reservation.  No action reads them.                         *)
VARIABLES locks, unlocks

store  == <<adv, rsv>>
cache  == <<advCache, rsvCache>>
worker == <<wpc, wr, wobj, wgoal>>
counts == <<reports, touches, userWrites, staleStarts, crashes, errors>>
ghosts == <<locks, unlocks>>
vars   == <<store, cache, queue, worker, http, clock, counts, ghosts>>

-----------------------------------------------------------------------------
(* Objects.  rv is the resourceVersion; 0 means never created.             *)

Phases == {"", "Pending", "Reserved", "Active", "Released", "Failed"}

Advertisement ==
  [rv : Nat, available : Quantities, reserved : Quantities,
   hasReserved : BOOLEAN, active : BOOLEAN]

NoAdvertisement ==
  [rv |-> 0, available |-> NoResources, reserved |-> NoResources,
   hasReserved |-> FALSE, active |-> FALSE]

NewAdvertisement(report) == [NoAdvertisement EXCEPT !.rv = 1, !.available = report]

Reservation ==
  [rv : Nat, exists : BOOLEAN, target : Clusters \cup {None}, phase : Phases,
   reservedAt : BOOLEAN, expiresAt : Nat, finalizer : BOOLEAN, deleting : BOOLEAN,
   requesterActive : BOOLEAN, requesterReleased : BOOLEAN, kubeconfig : BOOLEAN]

NoReservation ==
  [rv |-> 0, exists |-> FALSE, target |-> None, phase |-> "",
   reservedAt |-> FALSE, expiresAt |-> 0, finalizer |-> FALSE, deleting |-> FALSE,
   requesterActive |-> FALSE, requesterReleased |-> FALSE, kubeconfig |-> FALSE]

NewReservation(c) == [NoReservation EXCEPT !.exists = TRUE, !.target = c]

(* Every write the API server accepts gives the object a new version.  A   *)
(* Reservation written back unchanged keeps its version (timestamps, which *)
(* have a resolution of a second, are not modelled); an advertisement      *)
(* always carries a new timestamp.                                         *)
PutAdv(c, a) == adv' = [adv EXCEPT ![c] = [a EXCEPT !.rv = adv[c].rv + 1]]
PutRsv(r, o) ==
  IF o = rsv[r] THEN UNCHANGED rsv
                ELSE rsv' = [rsv EXCEPT ![r] = [o EXCEPT !.rv = rsv[r].rv + 1]]

(* A cluster whose advertisement the cache holds.                          *)
Known(c) == c \in Clusters /\ advCache[c].rv > 0

CurrentAdvUnchecked(c) == TRUE   \* mutant: blind writes

(* What resourceVersion checks: the copy that is written back was made     *)
(* from the current version.                                               *)
CurrentAdv(c)    == advCache[c].rv = adv[c].rv
CurrentRsv(r, o) == o.rv = rsv[r].rv

Valid(r) == \A k \in Kinds : Requested[r][k] > 0

Expired(o) == o.expiresAt > 0 /\ clock > o.expiresAt

(* The status fields a successful lock writes.                             *)
AsReserved(r, o) ==
  [o EXCEPT !.phase      = "Reserved",
            !.reservedAt = TRUE,
            !.expiresAt  = IF Duration[r] > 0 THEN clock + Duration[r] ELSE @]

(* A GPU that is asked for too may rule out any of them.                   *)
HasEnoughResources(r, c) == Covers(advCache[c].available, Requested[r])

(* The clusters RankClusters keeps.  Which of them scores best is left     *)
(* open: the policies differ only in the order.                            *)
Candidates(r) ==
  {c \in Clusters : /\ Known(c)
                    /\ c # RequesterID[r]
                    /\ advCache[c].active
                    /\ HasEnoughResources(r, c)}

(* The clusters a request may end up with: one that the client names only  *)
(* has to be active, and a ranked one always is.                           *)
ActiveTargets == {c \in Clusters : Known(c) /\ advCache[c].active}

-----------------------------------------------------------------------------
Init ==
  /\ adv \in {[c \in Clusters |->
                 IF c \in Registered
                 THEN [NewAdvertisement(report[c]) EXCEPT !.active = TRUE]
                 ELSE NoAdvertisement] : report \in [Registered -> Reports]}
  /\ rsv = [r \in Reservations |-> NoReservation]
  /\ advCache = adv
  /\ rsvCache = rsv
  /\ queue = {}
  /\ wpc = "idle"
  /\ wr = None
  /\ wobj = NoReservation
  /\ wgoal = ""
  /\ http = [r \in HttpRequests |-> "ready"]
  /\ clock = 0
  /\ reports = 0 /\ touches = 0 /\ userWrites = 0 /\ staleStarts = 0 /\ crashes = 0 /\ errors = 0
  /\ locks = [r \in Reservations |-> 0]
  /\ unlocks = [r \in Reservations |-> 0]

-----------------------------------------------------------------------------
(* POST /api/v1/reservations, step by step.                                *)

(* A request that no cluster can serve is answered with an error and       *)
(* leaves nothing behind; the others create the Reservation.               *)
HttpCreate(r) ==
  /\ http[r] = "ready"
  /\ rsv[r].rv = 0
  /\ \E c \in ActiveTargets : PutRsv(r, NewReservation(c))
  /\ http' = [http EXCEPT ![r] = "finalizer"]
  /\ UNCHANGED <<adv, cache, queue, worker, clock, counts, ghosts>>

(* The update carries the version Create returned; a conflict is logged,   *)
(* as any other failure is (HttpCallFails), and the handler goes on.       *)
HttpAddFinalizer(r) ==
  /\ http[r] = "finalizer"
  /\ IF rsv[r].rv = 1 THEN PutRsv(r, [rsv[r] EXCEPT !.finalizer = TRUE])
                      ELSE UNCHANGED rsv
  /\ http' = [http EXCEPT ![r] = "lock"]
  /\ UNCHANGED <<adv, cache, queue, worker, clock, counts, ghosts>>

(* One iteration of lock: get the advertisement, check, add, update.       *)
Fits(r, c) == Known(c) /\ CanReserve(advCache[c], Requested[r])

Lock(r, c) ==
  /\ Fits(r, c)
  /\ CurrentAdv(c)
  /\ PutAdv(c, AddReservation(advCache[c], Requested[r]))
  /\ locks' = [locks EXCEPT ![r] = @ + 1]

Lockable(r, c) == Fits(r, c) /\ CurrentAdv(c)

HttpLockErrorIgnored(r) ==   \* mutant: lockErr is only logged
  /\ http[r] = "lock"
  /\ Lock(r, rsv[r].target) \/ (~ Lockable(r, rsv[r].target) /\ UNCHANGED <<adv, locks>>)
  /\ http' = [http EXCEPT ![r] = "reserve"]
  /\ UNCHANGED <<rsv, cache, queue, worker, clock, counts, unlocks>>

(* The handler keeps the target in a local variable; the Reservation's     *)
(* target never changes once it is set.  Too little room and conflicts     *)
(* that outlast the retries are the same error.                            *)
HttpLock(r) ==
  LET c == rsv[r].target IN
  /\ http[r] = "lock"
  /\ \/ Lock(r, c) /\ http' = [http EXCEPT ![r] = "reserve"]
     \/ /\ ~ Lockable(r, c)
        /\ http' = [http EXCEPT ![r] = "fail"]
        /\ UNCHANGED <<adv, locks>>
  /\ UNCHANGED <<rsv, cache, queue, worker, clock, counts, unlocks>>

(* Both status updates re-read the Reservation and overwrite whatever      *)
(* phase it has; a cached copy that is missing or stays outdated ends the  *)
(* attempt, and the error is only logged.                                  *)
HttpWriteStatus(r, o) ==
  /\ \/ rsvCache[r].exists /\ CurrentRsv(r, rsvCache[r]) /\ PutRsv(r, o)
     \/ ~ (rsvCache[r].exists /\ CurrentRsv(r, rsvCache[r])) /\ UNCHANGED rsv
  /\ http' = [http EXCEPT ![r] = "done"]
  /\ UNCHANGED <<adv, cache, queue, worker, clock, counts, ghosts>>

HttpMarkReserved(r) == http[r] = "reserve" /\ HttpWriteStatus(r, AsReserved(r, rsvCache[r]))

HttpMarkFailed(r) ==
  http[r] = "fail" /\ HttpWriteStatus(r, [rsvCache[r] EXCEPT !.phase = "Failed"])

(* A call that fails other than by a conflict with one of the writes here: *)
(* the API server cannot be reached, refuses it, or somebody edited labels *)
(* in between.  Without the finalizer the handler goes on, without the     *)
(* lock it marks the Reservation Failed, and a status it cannot write it   *)
(* leaves.                                                                 *)
ApiError == errors < MaxErrors /\ errors' = errors + 1

HttpCallFails(r) ==
  /\ ApiError
  /\ http[r] \in {"finalizer", "lock", "reserve", "fail"}
  /\ http' = [http EXCEPT ![r] = CASE @ = "finalizer" -> "lock"
                                   [] @ = "lock"      -> "fail"
                                   [] OTHER           -> "done"]
  /\ UNCHANGED <<store, cache, queue, worker, clock,
                 reports, touches, userWrites, staleStarts, crashes, ghosts>>

(* The API server locks, but its answer is lost: an error for the handler. *)
HttpLockAnswerLost(r) ==
  /\ ApiError
  /\ http[r] = "lock"
  /\ Lock(r, rsv[r].target)
  /\ http' = [http EXCEPT ![r] = "fail"]
  /\ UNCHANGED <<rsv, cache, queue, worker, clock,
                 reports, touches, userWrites, staleStarts, crashes, unlocks>>

-----------------------------------------------------------------------------
(* POST /api/v1/advertisements and the other writers of advertisements.    *)

MergeResetsReserved(a, report) ==   \* mutant: the posted spec replaces all of it
  [a EXCEPT !.available = report, !.reserved = NoResources]

MergeForgetsReserved(a, report) ==   \* mutant: Available is taken as reported
  [a EXCEPT !.available = report]

(* What a posted report makes of the existing advertisement: Reserved is   *)
(* the broker's and is taken off what the agent reports as available.      *)
Merge(a, report) ==
  [a EXCEPT !.available = IF a.hasReserved THEN Minus(report, a.reserved) ELSE report]

PostAdvertisement(c, report) ==
  /\ reports < MaxReports
  /\ reports' = reports + 1
  /\ \/ /\ ~ Known(c)
        /\ adv[c].rv = 0
        /\ adv' = [adv EXCEPT ![c] = NewAdvertisement(report)]
     \/ /\ Known(c)
        /\ CurrentAdv(c)
        /\ PutAdv(c, Merge(advCache[c], report))
  /\ UNCHANGED <<rsv, cache, queue, worker, http, clock, touches, userWrites, staleStarts, crashes, errors, ghosts>>

(* The ClusterAdvertisement controller: active unless the timestamp is     *)
(* old; how old it is at any moment is left open.                          *)
ReconcileAdvertisement(c) ==
  /\ touches < MaxTouches
  /\ touches' = touches + 1
  /\ Known(c)
  /\ CurrentAdv(c)
  /\ \E fresh \in BOOLEAN : PutAdv(c, [advCache[c] EXCEPT !.active = fresh])
  /\ UNCHANGED <<rsv, cache, queue, worker, http, clock, reports, userWrites, staleStarts, crashes, errors, ghosts>>

-----------------------------------------------------------------------------
(* The Reservation controller's worker.                                    *)

Finish == /\ wpc' = "idle" /\ wr' = None /\ wobj' = NoReservation /\ wgoal' = ""

RequeueDropped == Finish /\ UNCHANGED queue   \* mutant: neither error nor RequeueAfter

(* An error, a conflict or RequeueAfter puts the key back.                 *)
Requeue == Finish /\ queue' = queue \cup {wr}

Done == Finish /\ UNCHANGED queue

Goto(pc, goal) == wpc' = pc /\ wgoal' = goal /\ UNCHANGED <<wr, queue>>

(* The worker takes a key and gets the object from the cache.              *)
StartReconcile(r) ==
  /\ wpc = "idle"
  /\ r \in queue
  /\ \/ CurrentRsv(r, rsvCache[r]) /\ UNCHANGED staleStarts
     \/ /\ ~ CurrentRsv(r, rsvCache[r])
        /\ staleStarts < MaxStaleStarts
        /\ staleStarts' = staleStarts + 1
  /\ queue' = queue \ {r}
  /\ IF rsvCache[r].exists
     THEN wpc' = "reconcile" /\ wr' = r /\ wobj' = rsvCache[r]
     ELSE UNCHANGED <<wpc, wr, wobj>>
  /\ UNCHANGED <<store, cache, wgoal, http, clock, reports, touches, userWrites, crashes, errors, ghosts>>

ReconcileDeletedReservedOnly ==   \* mutant: a finalizer is only removed after a release
  /\ wpc = "reconcile"
  /\ wobj.deleting
  /\ IF wobj.finalizer /\ wobj.phase = "Reserved"
     THEN Goto("release", "gone") /\ UNCHANGED wobj ELSE Done
  /\ UNCHANGED <<store, cache, http, clock, counts, ghosts>>

ReconcileDeletedUnreleased ==   \* mutant: deletion does not release
  /\ wpc = "reconcile"
  /\ wobj.deleting
  /\ IF wobj.finalizer THEN Goto("finalizer", "gone") /\ UNCHANGED wobj ELSE Done
  /\ UNCHANGED <<store, cache, http, clock, counts, ghosts>>

ReconcileDeleted ==
  /\ wpc = "reconcile"
  /\ wobj.deleting
  /\ IF wobj.finalizer THEN Goto("release", "gone") /\ UNCHANGED wobj ELSE Done
  /\ UNCHANGED <<store, cache, http, clock, counts, ghosts>>

AddFinalizerOnce ==   \* mutant: the finalizer is only added to a new Reservation
  /\ wpc = "reconcile"
  /\ ~ wobj.deleting
  /\ ~ wobj.finalizer
  /\ \/ /\ CurrentRsv(wr, wobj)
        /\ wobj.phase = ""
        /\ PutRsv(wr, [wobj EXCEPT !.finalizer = TRUE])
        /\ wobj' = rsv'[wr]
        /\ UNCHANGED <<wpc, wr, wgoal, queue>>
     \/ ~ (CurrentRsv(wr, wobj) /\ wobj.phase = "") /\ Requeue /\ UNCHANGED rsv
  /\ UNCHANGED <<adv, cache, http, clock, counts, ghosts>>

AddFinalizer ==
  /\ wpc = "reconcile"
  /\ ~ wobj.deleting
  /\ ~ wobj.finalizer
  /\ \/ /\ CurrentRsv(wr, wobj)
        /\ PutRsv(wr, [wobj EXCEPT !.finalizer = TRUE])
        /\ wobj' = rsv'[wr]
        /\ UNCHANGED <<wpc, wr, wgoal, queue>>
     \/ ~ CurrentRsv(wr, wobj) /\ Requeue /\ UNCHANGED rsv
  /\ UNCHANGED <<adv, cache, http, clock, counts, ghosts>>

(* The switch on the phase, for an object that is not being deleted and    *)
(* has its finalizer.                                                      *)
InPhase(phases) ==
  /\ wpc = "reconcile"
  /\ ~ wobj.deleting
  /\ wobj.finalizer
  /\ wobj.phase \in phases

RejectInvalid ==
  /\ InPhase(Phases)
  /\ ~ Valid(wr)
  /\ Goto("status", "Failed")
  /\ UNCHANGED <<store, cache, wobj, http, clock, counts, ghosts>>

ReconcileTargeted ==
  /\ InPhase({"", "Pending"})
  /\ Valid(wr)
  /\ wobj.target # None
  /\ Goto("lock", "Reserved")
  /\ UNCHANGED <<store, cache, wobj, http, clock, counts, ghosts>>

(* The decision engine chooses the target, which is written to the spec.   *)
(* It may find none even if there are candidates: the latency policy fails *)
(* for a requester without a location.                                     *)
ReconcileUntargeted ==
  /\ InPhase({"", "Pending"})
  /\ Valid(wr)
  /\ wobj.target = None
  /\ \/ Goto("status", "Failed") /\ UNCHANGED <<rsv, wobj>>
     \/ \E c \in Candidates(wr) :
          /\ CurrentRsv(wr, wobj)
          /\ PutRsv(wr, [wobj EXCEPT !.target = c])
          /\ wobj' = rsv'[wr]
          /\ Goto("lock", "Reserved")
     \/ ~ CurrentRsv(wr, wobj) /\ Candidates(wr) # {} /\ Requeue /\ UNCHANGED rsv
  /\ UNCHANGED <<adv, cache, http, clock, counts, ghosts>>

ReconcileReservedUnreleased ==   \* mutant: expiry does not release
  /\ InPhase({"Reserved"})
  /\ Valid(wr)
  /\ IF wobj.requesterActive THEN Goto("release", "Active") /\ UNCHANGED wobj
     ELSE IF Expired(wobj)   THEN Goto("status", "Released") /\ UNCHANGED wobj
     ELSE Requeue
  /\ UNCHANGED <<store, cache, http, clock, counts, ghosts>>

ReconcileReservedPhaseKept ==   \* mutant: a release that does not end the phase
  /\ InPhase({"Reserved"})
  /\ Valid(wr)
  /\ IF wobj.requesterActive THEN Goto("release", "Reserved") /\ UNCHANGED wobj
     ELSE IF Expired(wobj)   THEN Goto("release", "Released") /\ UNCHANGED wobj
     ELSE Requeue
  /\ UNCHANGED <<store, cache, http, clock, counts, ghosts>>

ReconcileReserved ==
  /\ InPhase({"Reserved"})
  /\ Valid(wr)
  /\ IF wobj.requesterActive THEN Goto("release", "Active") /\ UNCHANGED wobj
     ELSE IF Expired(wobj)   THEN Goto("release", "Released") /\ UNCHANGED wobj
     ELSE Requeue
  /\ UNCHANGED <<store, cache, http, clock, counts, ghosts>>

ReconcileActive ==
  /\ InPhase({"Active"})
  /\ Valid(wr)
  /\ IF wobj.requesterReleased \/ Expired(wobj)
     THEN Goto("release", "Released") /\ UNCHANGED wobj
     ELSE Requeue
  /\ UNCHANGED <<store, cache, http, clock, counts, ghosts>>

ReconcileTerminal ==
  /\ InPhase({"Failed", "Released"})
  /\ Valid(wr)
  /\ Done
  /\ UNCHANGED <<store, cache, http, clock, counts, ghosts>>

(* reserveInTargetCluster, up to the status update.  The target may be     *)
(* unknown, or too small in the cached version; running out of retries     *)
(* leaves the Reservation to the next reconciliation.                      *)
ReserveInTargetCluster ==
  LET c == wobj.target IN
  /\ wpc = "lock"
  /\ \/ Lock(wr, c) /\ Goto("status", "Reserved") /\ UNCHANGED wobj
     \/ /\ ~ Fits(wr, c)
        /\ Goto("status", "Failed")
        /\ UNCHANGED <<adv, locks, wobj>>
     \/ /\ Fits(wr, c) /\ ~ CurrentAdv(c)
        /\ Requeue
        /\ UNCHANGED <<adv, locks>>
  /\ UNCHANGED <<rsv, cache, http, clock, counts, unlocks>>

AfterReleaseAsPhase == Goto("status", wgoal)   \* mutant: no removal after a release

AfterRelease == Goto(IF wgoal = "gone" THEN "finalizer" ELSE "status", wgoal)

(* The single update of a release, without retries.                        *)
Release(c) ==
  /\ CurrentAdv(c)
  /\ CanRemove(advCache[c])
  /\ PutAdv(c, RemoveReservation(advCache[c], Requested[wr]))
  /\ unlocks' = [unlocks EXCEPT ![wr] = @ + 1]

HoldsInAnyPhase(o) == Known(o.target)   \* mutant: the phase is not looked at

(* Only a copy in phase Reserved releases; an unknown target is skipped.   *)
Holds(o) == o.phase = "Reserved" /\ Known(o.target)

ReleaseResources ==
  LET c == wobj.target IN
  /\ wpc = "release"
  /\ \/ ~ Holds(wobj) /\ AfterRelease /\ UNCHANGED <<adv, unlocks, wobj>>
     \/ Holds(wobj) /\ Release(c) /\ AfterRelease /\ UNCHANGED wobj
     \/ /\ Holds(wobj)
        /\ ~ (CurrentAdv(c) /\ CanRemove(advCache[c]))
        /\ Requeue
        /\ UNCHANGED <<adv, unlocks>>
  /\ UNCHANGED <<rsv, cache, http, clock, counts, locks>>

(* Every path ends in one status update with the version that the worker   *)
(* read (and its own spec updates since).                                  *)
WriteStatus ==
  /\ wpc = "status"
  /\ \/ /\ CurrentRsv(wr, wobj)
        /\ PutRsv(wr, IF wgoal = "Reserved" THEN AsReserved(wr, wobj)
                                            ELSE [wobj EXCEPT !.phase = wgoal])
        /\ IF wgoal \in {"Reserved", "Active"} THEN Requeue ELSE Done
     \/ ~ CurrentRsv(wr, wobj) /\ Requeue /\ UNCHANGED rsv
  /\ UNCHANGED <<adv, cache, http, clock, counts, ghosts>>

(* Without a finalizer an object being deleted disappears.                 *)
RemoveFinalizer ==
  /\ wpc = "finalizer"
  /\ \/ /\ CurrentRsv(wr, wobj)
        /\ PutRsv(wr, [wobj EXCEPT !.finalizer = FALSE, !.exists = FALSE])
        /\ Done
     \/ ~ CurrentRsv(wr, wobj) /\ Requeue /\ UNCHANGED rsv
  /\ UNCHANGED <<adv, cache, http, clock, counts, ghosts>>

(* Any call of the worker may fail: an update of the finalizer or of the   *)
(* target, of the advertisement or of the status.  Reconcile returns the   *)
(* error, and the key is tried again.  (A write that is accepted and whose *)
(* answer is lost shows as a failure of the next call.)                    *)
WorkerCallFails ==
  /\ ApiError
  /\ \/ wpc \in {"lock", "release", "status", "finalizer"}
     \/ /\ wpc = "reconcile"
        /\ ~ wobj.deleting
        /\ \/ ~ wobj.finalizer
           \/ InPhase({"", "Pending"}) /\ Valid(wr) /\ wobj.target = None
  /\ Requeue
  /\ UNCHANGED <<store, cache, http, clock,
                 reports, touches, userWrites, staleStarts, crashes, ghosts>>

Reconcile ==
  \/ ReconcileDeleted \/ AddFinalizer \/ RejectInvalid
  \/ ReconcileTargeted \/ ReconcileUntargeted
  \/ ReconcileReserved \/ ReconcileActive \/ ReconcileTerminal
  \/ ReserveInTargetCluster \/ ReleaseResources \/ WriteStatus \/ RemoveFinalizer

-----------------------------------------------------------------------------
(* Users, agents and the API server.                                       *)

UserWrite(r) ==
  /\ ForeignOverlap \/ wr # r
  /\ userWrites < MaxUserWrites
  /\ userWrites' = userWrites + 1
  /\ UNCHANGED <<adv, cache, queue, worker, http, clock,
                 reports, touches, staleStarts, crashes, errors, ghosts>>

(* kubectl apply of a Reservation.                                         *)
CreateReservation(r) ==
  /\ r \notin HttpRequests
  /\ rsv[r].rv = 0
  /\ \E c \in Clusters \cup {None} : PutRsv(r, NewReservation(c))
  /\ UNCHANGED <<adv, cache, queue, worker, http, clock, counts, ghosts>>

(* kubectl delete: a finalizer keeps the object until it is removed.       *)
DeleteReservation(r) ==
  /\ UserWrite(r)
  /\ rsv[r].exists
  /\ ~ rsv[r].deleting
  /\ PutRsv(r, IF rsv[r].finalizer THEN [rsv[r] EXCEPT !.deleting = TRUE]
                                   ELSE [rsv[r] EXCEPT !.exists = FALSE])

(* The requester reports through the status conditions, each once.         *)
SignalRequester(r) ==
  /\ UserWrite(r)
  /\ rsv[r].exists
  /\ \/ /\ rsv[r].phase = "Reserved"
        /\ ~ rsv[r].requesterActive
        /\ PutRsv(r, [rsv[r] EXCEPT !.requesterActive = TRUE])
     \/ /\ rsv[r].phase = "Active"
        /\ ~ rsv[r].requesterReleased
        /\ PutRsv(r, [rsv[r] EXCEPT !.requesterReleased = TRUE])

(* The provider of a reservation that has been Reserved uploads the        *)
(* peering kubeconfig, once; a conflict is an error answer.                *)
PostPeeringKubeconfig(r) ==
  /\ UserWrite(r)
  /\ rsvCache[r].exists
  /\ rsvCache[r].reservedAt
  /\ ~ rsvCache[r].kubeconfig
  /\ CurrentRsv(r, rsvCache[r])
  /\ PutRsv(r, [rsvCache[r] EXCEPT !.kubeconfig = TRUE])

Tick == clock < MaxTime /\ clock' = clock + 1
        /\ UNCHANGED <<store, cache, queue, worker, http, counts, ghosts>>

SyncAdvertisement(c) ==
  /\ advCache[c] # adv[c]
  /\ advCache' = [advCache EXCEPT ![c] = adv[c]]
  /\ UNCHANGED <<store, rsvCache, queue, worker, http, clock, counts, ghosts>>

(* A watch event on a Reservation also queues its key.                     *)
SyncReservation(r) ==
  /\ rsvCache[r] # rsv[r]
  /\ rsvCache' = [rsvCache EXCEPT ![r] = rsv[r]]
  /\ queue' = queue \cup {r}
  /\ UNCHANGED <<store, advCache, worker, http, clock, counts, ghosts>>

(* The broker process dies between any two calls; the new one lists every  *)
(* object and queues every Reservation.                                    *)
Crash ==
  /\ crashes < MaxCrashes
  /\ crashes' = crashes + 1
  /\ advCache' = adv
  /\ rsvCache' = rsv
  /\ queue' = {r \in Reservations : rsv[r].exists}
  /\ Finish
  /\ http' = [r \in HttpRequests |-> IF http[r] = "ready" THEN "ready" ELSE "done"]
  /\ UNCHANGED <<store, clock, reports, touches, userWrites, staleStarts, errors, ghosts>>

HttpStep(r) ==
  \/ HttpCreate(r) \/ HttpAddFinalizer(r) \/ HttpLock(r)
  \/ HttpMarkReserved(r) \/ HttpMarkFailed(r)

Next ==
  \/ \E r \in HttpRequests : HttpStep(r) \/ HttpCallFails(r) \/ HttpLockAnswerLost(r)
  \/ \E c \in Clusters : \/ \E report \in Reports : PostAdvertisement(c, report)
                         \/ ReconcileAdvertisement(c)
                         \/ SyncAdvertisement(c)
  \/ \E r \in Reservations : \/ StartReconcile(r) \/ SyncReservation(r)
                             \/ CreateReservation(r) \/ DeleteReservation(r)
                             \/ SignalRequester(r) \/ PostPeeringKubeconfig(r)
  \/ Reconcile \/ WorkerCallFails
  \/ Tick
  \/ Crash

Spec == Init /\ [][Next]_vars

(* The worker and the handlers keep running, the work queue starves no key *)
(* and the watch delivers; nothing obliges users or agents to act.         *)
Fairness ==
  /\ WF_vars(Reconcile)
  /\ \A r \in Reservations : SF_vars(StartReconcile(r)) /\ WF_vars(SyncReservation(r))
  /\ \A c \in Clusters : WF_vars(SyncAdvertisement(c))
  /\ \A r \in HttpRequests : WF_vars(HttpStep(r))

FairSpec == Spec /\ Fairness

-----------------------------------------------------------------------------
(* Properties.                                                             *)

TypeOK ==
  /\ adv \in [Clusters -> Advertisement]
  /\ rsv \in [Reservations -> Reservation]
  /\ advCache \in [Clusters -> Advertisement]
  /\ rsvCache \in [Reservations -> Reservation]
  /\ queue \subseteq Reservations
  /\ wpc \in {"idle", "reconcile", "lock", "release", "status", "finalizer"}
  /\ wr \in Reservations \cup {None}
  /\ wobj \in Reservation
  /\ wgoal \in {"", "Reserved", "Active", "Released", "Failed", "gone"}
  /\ http \in [HttpRequests -> {"ready", "finalizer", "lock", "reserve", "fail", "done"}]
  /\ clock \in 0 .. MaxTime
  /\ reports \in 0 .. MaxReports
  /\ touches \in 0 .. MaxTouches
  /\ userWrites \in 0 .. MaxUserWrites
  /\ staleStarts \in 0 .. MaxStaleStarts
  /\ crashes \in 0 .. MaxCrashes
  /\ errors \in 0 .. MaxErrors
  /\ locks \in [Reservations -> Nat]
  /\ unlocks \in [Reservations -> Nat]

(* The advertisements implement the abstract ledger: every accepted write  *)
(* is one atomic entry, made against the current Reserved and Available,   *)
(* whatever stale copy of the advertisement its author started from.       *)
Ledger == INSTANCE ResourceLedger
            WITH Amounts  <- {Requested[r] : r \in Reservations},
                 reported <- [c \in Clusters |-> Plus(adv[c].available, adv[c].reserved)],
                 held     <- [c \in Clusters |-> adv[c].reserved]

ImplementsLedger == Ledger!LedgerSpec

(* No write to an advertisement loses another's: Reserved is exactly what  *)
(* all locks and releases so far add up to, across the handlers, the       *)
(* worker, retries, restarts and republished advertisements.               *)
LedgerIdentity ==
  \A c \in Clusters : \A k \in Kinds :
    adv[c].reserved[k] =
      SumFunction([r \in {x \in Reservations : rsv[x].target = c} |->
                     (locks[r] - unlocks[r]) * Requested[r][k]])

(* "Reserved" is a promise to the requester: no Reservation shows it       *)
(* unless resources have been locked for it.                               *)
ReservedWasLocked ==
  \A r \in Reservations : rsv[r].phase = "Reserved" => locks[r] > 0

(* Active and Released reservations have given their lock back.            *)
SettledWasReleased ==
  \A r \in Reservations : rsv[r].phase \in {"Active", "Released"} => unlocks[r] > 0

(* A Reserved reservation loses its finalizer, and with it disappears,     *)
(* only after a release was made for it, whatever copy the worker had.     *)
(* One that a failed update of the handler left without a finalizer is not *)
(* protected by this until the worker adds it (ReservedGetsFinalizer).     *)
RemovedWasReleased ==
  [][\A r \in Reservations :
       /\ rsv[r].finalizer
       /\ rsv[r].phase = "Reserved"
       /\ ~ rsv'[r].finalizer
       => unlocks[r] > 0]_vars

(* A lock or a release is repeated only for a reason.  The handler locks   *)
(* beside the worker, and its late status update may have a reservation    *)
(* that was settled released again: one for each.  Beyond that every       *)
(* repetition is paid for by an interruption between the update of the     *)
(* advertisement and the one of the Reservation: a write by somebody else, *)
(* an outdated copy, a crash or a failed call.  The requeues and retries   *)
(* of the code repeat nothing by themselves.                               *)
Interruptions == userWrites + staleStarts + crashes + errors

RepeatsAreAccountedFor ==
  \A r \in Reservations :
    LET allowed == 1 + Interruptions + (IF r \in HttpRequests THEN 1 ELSE 0)
    IN locks[r] <= allowed /\ unlocks[r] <= allowed

(* Exactly the reservations that are Reserved hold resources, once each,   *)
(* whenever the worker is not on them.                                     *)
Balanced ==
  \A r \in Reservations :
    wr # r => locks[r] - unlocks[r] =
                IF rsv[r].exists /\ rsv[r].phase = "Reserved" THEN 1 ELSE 0

-----------------------------------------------------------------------------
(* What the documentation says and some behaviours break.                  *)

(* resource-broker/README.md: subsequent decisions see the reduced         *)
(* availability, preventing double-booking.  As long as its agent reports  *)
(* the same, the reservations standing in a cluster never ask for more     *)
(* than that; one that is expired, activated or being deleted no longer    *)
(* stands, since its resources may already have been released.             *)
Standing(r) ==
  /\ rsv[r].exists /\ ~ rsv[r].deleting
  /\ rsv[r].phase = "Reserved" /\ ~ rsv[r].requesterActive /\ ~ Expired(rsv[r])

NoDoubleBooking ==
  \A c \in Clusters : \A k \in Kinds :
    SumFunction([r \in {x \in Reservations : Standing(x) /\ rsv[x].target = c}
                   |-> Requested[r][k]])
      <= adv[c].available[k] + adv[c].reserved[k]

(* reservation_controller.go: Failed and Released are terminal states.     *)
TerminalStates ==
  [][\A r \in Reservations : rsv[r].phase \in {"Failed", "Released"}
                                => rsv'[r].phase = rsv[r].phase]_vars

(* reservation_controller.go: resources are released before deletion.      *)
DeletedHoldsNothing ==
  \A r \in Reservations : rsv[r].rv > 0 /\ ~ rsv[r].exists => locks[r] = unlocks[r]

-----------------------------------------------------------------------------
(* Liveness, under FairSpec.                                               *)

Overdue(r) ==
  rsv[r].exists /\ rsv[r].phase \in {"Reserved", "Active"} /\ Expired(rsv[r])

(* A deletion request is eventually carried out.                           *)
DeletionCompletes ==
  \A r \in Reservations : rsv[r].deleting /\ rsv[r].exists ~> ~ rsv[r].exists

(* An expired reservation does not stay Reserved or Active beyond its      *)
(* deadline (which a late status update of the handler may renew).         *)
ExpiryIsHonoured ==
  \A r \in Reservations : []<> ~ Overdue(r)

(* A Reserved reservation that lost its finalizer to an error of the       *)
(* handler gets it from the worker, unless it is deleted before.           *)
ReservedGetsFinalizer ==
  \A r \in Reservations :
    rsv[r].exists /\ rsv[r].phase = "Reserved" ~> rsv[r].finalizer \/ ~ rsv[r].exists

(* Every reservation gets an answer.                                       *)
RequestsAreAnswered ==
  \A r \in Reservations : rsv[r].exists ~> rsv[r].phase # "" \/ ~ rsv[r].exists
=============================================================================
