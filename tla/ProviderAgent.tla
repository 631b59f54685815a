----------------------------- MODULE ProviderAgent -----------------------------
(***************************************************************************)
(* The agent of a provider cluster, with the broker it talks to.           *)
(*                                                                         *)
(* Three processes run in the agent: the Advertisement controller, which   *)
(* measures the cluster and posts a report, taking the reservations that   *)
(* the broker lists in its answer; the poller, which fetches the same list *)
(* more often; and the ProviderInstruction controller, which uploads a     *)
(* kubeconfig for each reservation and marks its instruction enforced.     *)
(* Instructions live in the provider's API server (instr) and are read     *)
(* through the informer cache (icache), by the controller and by the       *)
(* measurement alike.                                                      *)
(*                                                                         *)
(* The broker is reduced to what the agent sees of it: the reservations    *)
(* and the cluster's advertisement.  A lock, a release and the status of a *)
(* reservation are updates of their own here as in module Broker, and only *)
(* what that module shows is assumed of them: no reservation is Reserved   *)
(* without a lock, but a lock or a release may be repeated or left out.    *)
(* A list may be old when the agent acts on it, a request or its answer    *)
(* may be lost, and a report of which the client has given up may still be *)
(* processed later.                                                        *)
(***************************************************************************)
EXTENDS CollectorMetrics

CONSTANTS
  Reservations,
  Own,             \* those whose target is this cluster
  Requested,       \* [Reservations -> Quantities]
  Durations,       \* what requesters ask for; 0 is a reservation without one
  None,            \* no reservation in the worker's hands; no report
  PeeringFile,     \* whether the kubeconfig to upload exists as a file
  MaxTime,         \* bound: the clock stops here
  MaxBooked,       \* bound: of what locks less releases add up to, or releases less locks
  MaxChanges,      \* bound: changes of nodes and pods
  MaxFaults        \* bound: restarts of the agent, late status updates of the
                   \* broker and late reports, together

ASSUME ReservationsAssumption ==
  /\ IsFiniteSet(Reservations)   \* what they hold is added up
  /\ Own \subseteq Reservations
  /\ Requested \in [Reservations -> [Kinds -> Nat]]
  /\ Durations \subseteq Nat
  /\ None \notin Reservations

ASSUME AgentBoundsAssumption ==
  /\ PeeringFile \in BOOLEAN
  /\ MaxTime \in Nat
  /\ MaxBooked \in Nat
  /\ MaxChanges \in Nat
  /\ MaxFaults \in Nat

VARIABLES
  rsv,        \* the broker's Reservations
  adv,        \* the broker's ClusterAdvertisement of this cluster
  late,       \* a report that the broker will process after its client gave up
  instr,      \* the API server's ProviderInstructions
  icache,     \* the informer cache of the ProviderInstructions
  ready,      \* the nodes that are ready
  scheduled,  \* the pods that are Running or Pending
  apc,        \* the Advertisement controller: the call it is about to make
  report,     \* the Advertisement controller: what it measured
  answers,    \* what the publisher and the poller have received in lists and
              \* not yet processed
  queue,      \* keys in the ProviderInstruction controller's work queue
  ppc,        \* the ProviderInstruction worker: the call it is about to make
  pr,         \* the worker: the key it works on
  pobj,       \* the worker: its copy of the ProviderInstruction
  clock,
  changes, faults   \* counters for the bounds

brokerVars  == <<rsv, adv, late>>
clusterVars == <<ready, scheduled>>
publisher   == <<apc, report>>
worker      == <<ppc, pr, pobj>>
counts      == <<changes, faults>>
vars == <<brokerVars, instr, icache, clusterVars, publisher, answers, queue,
          worker, clock, counts>>

-----------------------------------------------------------------------------
(* Objects.                                                                *)

Instruction == [rv : Nat, exists : BOOLEAN, enforced : BOOLEAN, expiresAt : Nat]

NoInstruction == [rv |-> 0, exists |-> FALSE, enforced |-> FALSE, expiresAt |-> 0]

(* An object written back unchanged keeps its version.                     *)
PutInstr(r, o) ==
  IF o = instr[r] THEN UNCHANGED instr
                  ELSE instr' = [instr EXCEPT ![r] = [o EXCEPT !.rv = instr[r].rv + 1]]

HasExpired(o) == o.expiresAt > 0 /\ o.expiresAt < clock

CountedForever ==   \* mutant: an expired instruction counts until it is gone
  {r \in Reservations : icache[r].exists}

(* The instructions that the collector counts.                             *)
Counted == {r \in Reservations : icache[r].exists /\ icache[r].enforced /\ ~ HasExpired(icache[r])}

(* What the collector measures at this moment.                             *)
Measure ==
  [allocatable |-> AllocatableTotal(ready),
   allocated   |-> CalculateAllocatedResources(scheduled),
   available   |-> CollectClusterResources(ready, scheduled, Counted, Requested)]

OfLockedKinds(q) == [k \in Kinds |-> q[k]]

NoAdvertisement ==
  [available |-> NoResources, reserved |-> NoResources, hasReserved |-> FALSE,
   allocatable |-> NoResources, allocated |-> NoResources]

(* PostAdvertisement: Reserved is the broker's and is taken off what the   *)
(* report offers.                                                          *)
Merged(x) ==
  [adv EXCEPT !.available   = Minus(OfLockedKinds(x.available), adv.reserved),
              !.allocatable = OfLockedKinds(x.allocatable),
              !.allocated   = OfLockedKinds(x.allocated)]

(* The reservations that the broker lists for this cluster.                *)
GetInstructions ==
  {[reservation |-> r, expiresAt |-> rsv[r].expiresAt] :
     r \in {x \in Own : rsv[x].phase = "Reserved"}}

(* PostAdvertisement lists the same ones in its answer.                    *)
Piggybacked == GetInstructions

-----------------------------------------------------------------------------
(* The broker may hold reservations on other clusters when the agent       *)
(* starts; what becomes of them makes no difference.                       *)
Init ==
  /\ rsv = [r \in Reservations |->
              [phase |-> IF r \in Own THEN "" ELSE "Reserved", expiresAt |-> 0,
               locked |-> FALSE, kubeconfig |-> FALSE]]
  /\ ready = NodeNames
  /\ scheduled = PodNames
  /\ instr = [r \in Reservations |-> NoInstruction]
  /\ icache = instr
  /\ adv = [NoAdvertisement EXCEPT
              !.available   = OfLockedKinds(CollectClusterResources(ready, scheduled, {}, Requested)),
              !.allocatable = OfLockedKinds(AllocatableTotal(ready)),
              !.allocated   = OfLockedKinds(CalculateAllocatedResources(scheduled))]
  /\ late = None
  /\ apc = "idle"
  /\ report = None
  /\ answers = {}
  /\ queue = {}
  /\ ppc = "idle"
  /\ pr = None
  /\ pobj = NoInstruction
  /\ clock = 0
  /\ changes = 0 /\ faults = 0

-----------------------------------------------------------------------------
(* The broker.                                                             *)

Fault == faults < MaxFaults /\ faults' = faults + 1

Deadline(d) == IF d > 0 THEN clock + d ELSE 0

(* Of two deadlines the first is not the later one; 0 stands for none.     *)
NoLater(e, d) == IF d = 0 THEN e = 0 ELSE e \in 1 .. d

(* The handler and the worker lock at any time, and possibly both.         *)
BrokerLock(r) ==
  /\ CanReserve(adv, Requested[r])
  /\ \A k \in Kinds : adv.reserved[k] + Requested[r][k] <= MaxBooked
  /\ adv' = AddReservation(adv, Requested[r])
  /\ rsv' = [rsv EXCEPT ![r].locked = TRUE]
  /\ UNCHANGED <<late, instr, icache, clusterVars, publisher, answers, queue,
                 worker, clock, counts>>

BrokerReserve(r) ==
  /\ rsv[r].phase = ""
  /\ rsv[r].locked
  /\ \E d \in Durations :
       /\ Deadline(d) < MaxTime
       /\ rsv' = [rsv EXCEPT ![r].phase = "Reserved", ![r].expiresAt = Deadline(d)]
  /\ UNCHANGED <<adv, late, instr, icache, clusterVars, publisher, answers, queue,
                 worker, clock, counts>>

(* The handler's status update comes after the controller's: it sets a     *)
(* later expiry, also of a reservation that has ended.                     *)
BrokerRenew(r) ==
  /\ Fault
  /\ rsv[r].phase \in {"Reserved", "Ended"}
  /\ \E d \in Durations :
       /\ Deadline(d) < MaxTime
       /\ NoLater(rsv[r].expiresAt, Deadline(d))
       /\ rsv' = [rsv EXCEPT ![r].phase = "Reserved", ![r].expiresAt = Deadline(d)]
  /\ UNCHANGED <<adv, late, instr, icache, clusterVars, publisher, answers, queue,
                 worker, clock, changes>>

(* A release: before the reservation ends, of an outdated copy after it,   *)
(* repeated after a conflict, or never.                                    *)
BrokerRelease(r) ==
  /\ rsv[r].phase # ""
  /\ CanRemove(adv)
  /\ \A k \in Kinds : adv.reserved[k] - Requested[r][k] >= -MaxBooked
  /\ adv' = RemoveReservation(adv, Requested[r])
  /\ UNCHANGED <<rsv, late, instr, icache, clusterVars, publisher, answers, queue,
                 worker, clock, counts>>

(* Activation, failure, expiry or deletion: the object stays or goes.      *)
BrokerEnd(r) ==
  /\ rsv[r].phase \in {"Reserved", "Ended"}
  /\ \E phase \in {"Ended", "Gone"} : rsv' = [rsv EXCEPT ![r].phase = phase]
  /\ UNCHANGED <<adv, late, instr, icache, clusterVars, publisher, answers, queue,
                 worker, clock, counts>>

BrokerExpire(r) == rsv[r].phase = "Reserved" /\ HasExpired(rsv[r]) /\ BrokerEnd(r)

(* A report is processed of which the client knows nothing any more.       *)
LateReport ==
  /\ late # None
  /\ adv' = Merged(late)
  /\ late' = None
  /\ UNCHANGED <<rsv, instr, icache, clusterVars, publisher, answers, queue,
                 worker, clock, counts>>

-----------------------------------------------------------------------------
(* The Advertisement controller.  Its own object and status only say what  *)
(* it did; a cycle that ends in an error before the report is posted       *)
(* leaves nothing behind.                                                  *)

Collect ==
  /\ apc = "idle"
  /\ report' = Measure
  /\ apc' = "publish"
  /\ UNCHANGED <<brokerVars, instr, icache, clusterVars, answers, queue,
                 worker, clock, counts>>

(* The last of the retries fails, and the report may be under way still.   *)
GiveUpPublishing ==
  /\ apc' = "idle"
  /\ report' = None
  /\ \/ Fault /\ late' = report
     \/ UNCHANGED <<late, faults>>
  /\ UNCHANGED <<adv, answers>>

(* The report reaches the broker.  An answer that is lost makes the client *)
(* repeat it; one that cannot be decoded counts as published, too.         *)
Attempt ==
  /\ adv' = Merged(report)
  /\ \/ /\ answers' \in {answers, answers \cup Piggybacked}
        /\ apc' = "idle"
        /\ report' = None
     \/ UNCHANGED <<apc, report, answers>>
  /\ UNCHANGED <<late, faults>>

PublishAdvertisement ==
  /\ apc = "publish"
  /\ Attempt \/ GiveUpPublishing
  /\ UNCHANGED <<rsv, instr, icache, clusterVars, queue, worker, clock, changes>>

-----------------------------------------------------------------------------
(* The poller fetches without retries; a fetch that fails adds nothing.    *)
FetchInstructions ==
  /\ answers' = answers \cup GetInstructions
  /\ UNCHANGED <<brokerVars, instr, icache, clusterVars, publisher, queue,
                 worker, clock, counts>>

ExpiryDropped(x) == 0   \* mutant: the instruction is created without the expiry

ExpiryOf(x) == x.expiresAt

ProcessAgain(x) ==   \* mutant: an instruction that exists is written again
  LET r == x.reservation IN
  /\ x \in answers
  /\ answers' = answers \ {x}
  /\ PutInstr(r, [instr[r] EXCEPT !.exists = TRUE, !.enforced = FALSE, !.expiresAt = ExpiryOf(x)])
  /\ UNCHANGED <<brokerVars, icache, clusterVars, publisher, queue,
                 worker, clock, counts>>

(* One entry of a list: an instruction that the cache has is left alone,   *)
(* and the API server refuses a second of the same name.                   *)
ProcessInstruction(x) ==
  LET r == x.reservation IN
  /\ x \in answers
  /\ answers' = answers \ {x}
  /\ IF icache[r].exists \/ instr[r].exists
     THEN UNCHANGED instr
     ELSE PutInstr(r, [instr[r] EXCEPT !.exists = TRUE, !.enforced = FALSE,
                                       !.expiresAt = ExpiryOf(x)])
  /\ UNCHANGED <<brokerVars, icache, clusterVars, publisher, queue,
                 worker, clock, counts>>

(* The rest of a list does not depend on what becomes of an entry.         *)
ProcessProviderInstructions == \E x \in answers : ProcessInstruction(x)

-----------------------------------------------------------------------------
(* The ProviderInstruction controller.                                     *)

Finish == ppc' = "idle" /\ pr' = None /\ pobj' = NoInstruction

Done == Finish /\ UNCHANGED queue

RequeueForgotten == Done   \* mutant: nobody takes the key up again

RequeueCleared == Finish /\ queue' = queue \cup {pr'}   \* mutant: swapped order

(* An error and RequeueAfter, be it a delay or the time until the expiry,  *)
(* put the key back: it is taken up again at some later time.              *)
Requeue == Finish /\ queue' = queue \cup {pr}

StartReconcileOnce(r) ==   \* mutant: an enforced instruction is not looked at again
  LET o == icache[r] IN
  /\ ppc = "idle"
  /\ r \in queue
  /\ queue' = queue \ {r}
  /\ IF ~ o.exists \/ (o.enforced /\ ~ HasExpired(o))
     THEN UNCHANGED worker
     ELSE ppc' = (IF HasExpired(o) THEN "expire" ELSE "upload") /\ pr' = r /\ pobj' = o
  /\ UNCHANGED <<brokerVars, instr, icache, clusterVars, publisher, answers, clock, counts>>

(* Get, and the three ways to go on: expired, enforced already, or to be   *)
(* enforced.                                                               *)
StartReconcile(r) ==
  LET o == icache[r] IN
  /\ ppc = "idle"
  /\ r \in queue
  /\ \/ ~ o.exists /\ queue' = queue \ {r} /\ UNCHANGED worker
     \/ o.exists /\ ~ HasExpired(o) /\ o.enforced /\ UNCHANGED <<queue, worker>>
     \/ /\ o.exists
        /\ HasExpired(o) \/ ~ o.enforced
        /\ queue' = queue \ {r}
        /\ ppc' = IF HasExpired(o) THEN "expire" ELSE "upload"
        /\ pr' = r
        /\ pobj' = o
  /\ UNCHANGED <<brokerVars, instr, icache, clusterVars, publisher, answers, clock, counts>>

UploadErrorIgnored ==   \* mutant: an upload that fails is only logged
  /\ ppc = "upload"
  /\ ppc' = "enforce"
  /\ rsv' \in {rsv, [rsv EXCEPT ![pr].kubeconfig = rsv[pr].phase # "Gone"]}
  /\ UNCHANGED <<pr, pobj, adv, late, instr, icache, clusterVars, publisher,
                 answers, queue, clock, counts>>

(* The broker accepts a kubeconfig in any phase.                           *)
Uploaded == rsv[pr].phase # "Gone" /\ rsv' = [rsv EXCEPT ![pr].kubeconfig = TRUE]

(* The kubeconfig is generated unless the file exists, and uploaded.       *)
(* Whatever fails, also the last of the retries after an attempt whose     *)
(* answer was lost, is tried again after a delay.                          *)
UploadPeeringKubeconfig ==
  /\ ppc = "upload"
  /\ \/ /\ Uploaded
        /\ \/ ppc' = "enforce" /\ UNCHANGED <<pr, pobj, queue>>
           \/ Requeue
     \/ /\ ~ PeeringFile \/ rsv[pr].phase = "Gone"
        /\ UNCHANGED rsv
        /\ Requeue
  /\ UNCHANGED <<adv, late, instr, icache, clusterVars, publisher, answers,
                 clock, counts>>

(* The status update carries the version of the first Get.                 *)
MarkEnforced ==
  /\ ppc = "enforce"
  /\ \/ /\ pobj.rv = instr[pr].rv
        /\ PutInstr(pr, [pobj EXCEPT !.enforced = TRUE])
        /\ Requeue
     \/ /\ pobj.rv # instr[pr].rv
        /\ Requeue
        /\ UNCHANGED instr
  /\ UNCHANGED <<brokerVars, icache, clusterVars, publisher, answers, clock, counts>>

MarkExpired ==
  /\ ppc = "expire"
  /\ \/ /\ pobj.rv = instr[pr].rv
        /\ PutInstr(pr, [pobj EXCEPT !.enforced = FALSE])
        /\ Done
     \/ /\ pobj.rv # instr[pr].rv
        /\ Requeue
        /\ UNCHANGED instr
  /\ UNCHANGED <<brokerVars, icache, clusterVars, publisher, answers, clock, counts>>

Reconcile == UploadPeeringKubeconfig \/ MarkEnforced \/ MarkExpired

-----------------------------------------------------------------------------
(* The provider's cluster, its users, time and restarts.                   *)

SyncInstruction(r) ==
  /\ icache[r] # instr[r]
  /\ icache' = [icache EXCEPT ![r] = instr[r]]
  /\ queue' = queue \cup {r}
  /\ UNCHANGED <<brokerVars, instr, clusterVars, publisher, answers,
                 worker, clock, counts>>

(* A node fails or recovers, a pod comes or goes.                          *)
ClusterChanges ==
  /\ changes < MaxChanges
  /\ changes' = changes + 1
  /\ \/ /\ \E n \in NodeNames : ready' = IF n \in ready THEN ready \ {n} ELSE ready \cup {n}
        /\ UNCHANGED scheduled
     \/ /\ \E p \in PodNames :
             scheduled' = IF p \in scheduled THEN scheduled \ {p} ELSE scheduled \cup {p}
        /\ UNCHANGED ready
  /\ UNCHANGED <<brokerVars, instr, icache, publisher, answers, queue, worker,
                 clock, faults>>

Tick == clock < MaxTime /\ clock' = clock + 1
        /\ UNCHANGED <<brokerVars, instr, icache, clusterVars, publisher, answers, queue,
                       worker, counts>>

(* The agent dies between any two calls; the new one lists its objects.    *)
Crash ==
  /\ Fault
  /\ icache' = instr
  /\ queue' = {r \in Reservations : instr[r].exists}
  /\ answers' = {}
  /\ apc' = "idle"
  /\ report' = None
  /\ Finish
  /\ UNCHANGED <<brokerVars, instr, clusterVars, clock, changes>>

Next ==
  \/ \E r \in Own : \/ BrokerLock(r) \/ BrokerReserve(r) \/ BrokerRenew(r)
                    \/ BrokerRelease(r) \/ BrokerEnd(r)
  \/ \E r \in Reservations : StartReconcile(r) \/ SyncInstruction(r)
  \/ LateReport
  \/ Collect \/ PublishAdvertisement
  \/ FetchInstructions
  \/ ProcessProviderInstructions
  \/ Reconcile
  \/ ClusterChanges
  \/ Tick
  \/ Crash

Spec == Init /\ [][Next]_vars

(* The poller, the controllers and the watch keep running, the work queue  *)
(* starves no key, the network does not fail for ever, and the broker ends *)
(* what has expired (ExpiryIsHonoured of module Broker).  Nothing else has *)
(* to happen; the broker need not lock, and need not release.              *)
PublishSucceeds == PublishAdvertisement /\ adv' = Merged(report) /\ apc' = "idle"
UploadSucceeds  == UploadPeeringKubeconfig /\ ppc' = "enforce"

Fairness ==
  /\ WF_vars(Collect) /\ SF_vars(PublishSucceeds)
  /\ WF_vars(FetchInstructions) /\ WF_vars(ProcessProviderInstructions)
  /\ SF_vars(UploadSucceeds) /\ WF_vars(Reconcile)
  /\ \A r \in Own :
       /\ SF_vars(StartReconcile(r))
       /\ WF_vars(SyncInstruction(r))
       /\ WF_vars(BrokerExpire(r))
  /\ WF_vars(LateReport)
  /\ WF_vars(Tick)

FairSpec == Spec /\ Fairness

-----------------------------------------------------------------------------
(* Properties.                                                             *)

BrokerReservation ==
  [phase : {"", "Reserved", "Ended", "Gone"}, expiresAt : 0 .. MaxTime,
   locked : BOOLEAN, kubeconfig : BOOLEAN]

Listing == [reservation : Reservations, expiresAt : 0 .. MaxTime]

TypeOK ==
  /\ rsv \in [Reservations -> BrokerReservation]
  /\ instr \in [Reservations -> Instruction]
  /\ icache \in [Reservations -> Instruction]
  /\ ready \subseteq NodeNames
  /\ scheduled \subseteq PodNames
  /\ apc \in {"idle", "publish"}
  /\ answers \subseteq Listing
  /\ queue \subseteq Reservations
  /\ ppc \in {"idle", "upload", "enforce", "expire"}
  /\ pr \in Reservations \cup {None}
  /\ pobj \in Instruction
  /\ clock \in 0 .. MaxTime
  /\ changes \in 0 .. MaxChanges
  /\ faults \in 0 .. MaxFaults

(* "Enforced" tells the provider that the requester can be served: the     *)
(* kubeconfig has reached the broker, whatever answers were lost, restarts *)
(* happened and versions went stale between the upload and the status.     *)
EnforcedWasDelivered == \A r \in Reservations : instr[r].enforced => rsv[r].kubeconfig

(* The provider sets nothing aside for a reservation of another cluster,   *)
(* and nothing beyond the deadline that the broker has given: only for a   *)
(* reservation without one does it hold for ever, and the two lists,       *)
(* outdated or not, and late renewals can only make its own deadline the   *)
(* earlier one.  (The broker may end the reservation before its deadline,  *)
(* by activation or deletion, of which the provider is not told.)          *)
HoldEndsByDeadline ==
  \A r \in Reservations :
    instr[r].exists => /\ r \in Own
                       /\ rsv[r].phase # ""
                       /\ NoLater(instr[r].expiresAt, rsv[r].expiresAt)

(* The pods at any one moment of their lives, with what is set aside for   *)
(* reservations and what the agent offers to others, fit on the ready      *)
(* nodes, or the agent offers nothing.  (Of pods without restartable init  *)
(* containers, see PodContribution.)                                       *)
Moments(pod) == {0} \cup DOMAIN pod.init

Usage(pod, m, k) ==
  pod.overhead[k] + IF m = 0 THEN SumFunction([i \in DOMAIN pod.containers |-> pod.containers[i][k]])
                             ELSE pod.init[m][k]

OfferFits ==
  \A moment \in [scheduled -> UNION {Moments(Pods[p]) : p \in scheduled}] :
    (\A p \in scheduled : moment[p] \in Moments(Pods[p])) =>
      \A k \in AllKinds :
        LET offer == Measure.available[k]
            held  == IF k = Gpu THEN 0 ELSE SumFunction([r \in Counted |-> Requested[r][k]])
            used  == SumFunction([p \in scheduled |-> Usage(Pods[p], moment[p], k)])
            room  == SumFunction([n \in ready |-> Allocatable[n][k]])
        IN  offer > 0 => offer + held + used <= room

(* The provider does not go back on a hold before its deadline: only the   *)
(* expiry of an instruction ends its enforcement.                          *)
HeldUntilExpiry ==
  [][\A r \in Reservations :
       instr[r].enforced /\ ~ instr'[r].enforced => HasExpired(instr[r])]_vars

(* Every reservation the broker grants on this cluster either stops being  *)
(* Reserved or gets its kubeconfig, through whichever list arrives.        *)
ReservationIsServed ==
  \A r \in Own : rsv[r].phase = "Reserved" ~> rsv[r].kubeconfig \/ rsv[r].phase # "Reserved"

(* An enforced instruction that has expired is eventually given up, even   *)
(* if it expired while the kubeconfig was being uploaded.                  *)
ExpiredIsGivenUp ==
  \A r \in Reservations :
    instr[r].enforced /\ HasExpired(instr[r]) ~> ~ instr[r].enforced

(* If every reservation is granted with a duration and the broker has, in  *)
(* the end, released what it locked, no more and no less, then it ends up  *)
(* knowing the whole capacity of the cluster again: no late report, no     *)
(* hold of the agent and no lost answer takes part of it away.  (That the  *)
(* broker does release as much as it locked is not to be relied on: see    *)
(* DeletedHoldsNothing and NoDoubleBooking of module Broker.)              *)
CapacityReturns ==
  /\ [](\A r \in Own : rsv[r].phase # "" => rsv[r].expiresAt > 0)
  /\ <>[](adv.reserved = NoResources)
  => <>[](adv.available =
            OfLockedKinds(CollectClusterResources(ready, scheduled, {}, Requested)))

-----------------------------------------------------------------------------
(* What the documentation says and some behaviours break.                  *)

(* resource-broker/internal/resource/availability.go: Available =          *)
(* Allocatable - Allocated - Reserved.  Reservations made at the broker    *)
(* keep this up; a report must, too.                                       *)
AvailableFormula ==
  adv.available = Minus(Minus(adv.allocatable, adv.allocated), adv.reserved)
=============================================================================
