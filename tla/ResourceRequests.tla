--------------------------- MODULE ResourceRequests ---------------------------
(***************************************************************************)
(* A user's ResourceRequest, the agent that handles it and the broker.     *)
(*                                                                         *)
(* The controller asks the broker for the best provider, reserves there,   *)
(* creates a ReservationInstruction and writes its status.  When the       *)
(* re-evaluation interval has passed it asks again, reporting the latency  *)
(* to its present provider; if another one is better it deletes the        *)
(* instruction and starts over.  It never releases the old reservation.    *)
(*                                                                         *)
(* The controller has one worker, reads through the informer cache and     *)
(* writes to the API server, which checks versions.  The network loses     *)
(* requests and answers.                                                   *)
(***************************************************************************)
EXTENDS Evaluation

CONSTANTS
  Policies,         \* that the requester may have
  MaxAttempts,      \* maxRetries + 1
  MaxReservations,  \* bound: the broker grants no more than these
  MaxFaults,        \* bound: lost answers and calls, outdated reads and
                    \* restarts, together
  MaxChanges        \* bound: providers that come and go, bonds that get old,
                    \* deletions and reservations that end, together

ASSUME RequestsAssumption ==
  /\ Policies \subseteq {"latency", ""}
  /\ MaxAttempts \in Nat \ {0}
  /\ MaxReservations \in Nat /\ MaxFaults \in Nat /\ MaxChanges \in Nat

VARIABLES
  rsv,        \* the broker's Reservations, by the order of their names
  req,        \* the API server's ResourceRequest
  qcache,     \* the informer cache of it
  recent,     \* the versions of it whose status was written within the
              \* re-evaluation interval
  queued,     \* its key is in the work queue
  wpc, w,     \* the worker: the call it is about to make, what it knows
  instr,      \* the API server's ReservationInstructions: "", "live", "deleting"
              \* while the finalizer waits for the teardown, or "ended"
  faults, changes, switches   \* counters for the bounds

request == <<req, qcache, recent, queued>>
worker  == <<wpc, w>>
vars == <<broker, rsv, request, worker, instr, faults, changes, switches>>

Ids == 1 .. MaxReservations

RequestStatus ==
  [phase : {"", "Pending", "Reserved", "Failed"}, target : Providers \cup {None},
   reservation : Ids \cup {0}]

Status(phase, target, id) == [phase |-> phase, target |-> target, reservation |-> id]

Granted == {i \in Ids : rsv[i].phase # ""}

(* target and id are those of the present reservation during a             *)
(* re-evaluation, and those of the new one otherwise; better is named in   *)
(* the message of a switch.                                                *)
Idle == [target |-> None, id |-> 0, attempt |-> 0, goal |-> "", again |-> FALSE,
         better |-> None]

Init ==
  /\ EvaluationInit(Policies)
  /\ rsv = [i \in Ids |-> [phase |-> "", target |-> None]]
  /\ req = [rv |-> 1, exists |-> TRUE, status |-> Status("", None, 0)]
  /\ qcache = req
  /\ recent = {}
  /\ queued = TRUE
  /\ wpc = "idle" /\ w = Idle
  /\ instr = [i \in Ids |-> ""]
  /\ faults = 0 /\ changes = 0 /\ switches = 0

Fault  == faults < MaxFaults /\ faults' = faults + 1
Change == changes < MaxChanges /\ changes' = changes + 1

-----------------------------------------------------------------------------
(* The controller.                                                         *)

Return == wpc' = "idle" /\ w' = Idle

(* An error and RequeueAfter put the key back.                             *)
Requeue == Return /\ queued' = TRUE

Write(phase, target, id) ==
  wpc' = "status" /\ w' = [Idle EXCEPT !.goal = phase, !.target = target, !.id = id]

DueAlways(o) == TRUE   \* mutant: the interval is not waited for

Due(o) == o.rv \notin recent

HandledWhenPending(phase) ==   \* mutant: Pending is left to the one who wrote it
  phase \in {"Pending", "Failed"}

Handled(phase) == phase = "Failed"

(* Get, which may miss what the controller has written itself.             *)
StartRequest ==
  LET o == qcache IN
  /\ wpc = "idle"
  /\ queued
  /\ queued' = FALSE
  /\ IF o = req THEN UNCHANGED faults ELSE Fault
  /\ IF ~ o.exists \/ Handled(o.status.phase)
     THEN UNCHANGED worker
     ELSE IF o.status.phase = ""
     THEN wpc' = "pending" /\ w' = [Idle EXCEPT !.goal = "Pending"]
     ELSE IF o.status.phase = "Pending"
     THEN wpc' = "evaluate" /\ w' = Idle
     ELSE /\ Due(o)
          /\ wpc' = "evaluate"
          /\ w' = [Idle EXCEPT !.target = o.status.target, !.id = o.status.reservation,
                               !.again = TRUE]
  /\ UNCHANGED <<broker, rsv, req, qcache, recent, instr, changes, switches>>

(* Retries read the cache, so they help only when it catches up; the last  *)
(* conflict, and a request that has been deleted, are errors.              *)
UpdateStatus ==
  /\ wpc \in {"pending", "status"}
  /\ \/ /\ qcache.exists /\ req.exists /\ qcache.rv = req.rv
        /\ req' = [req EXCEPT !.rv = req.rv + 1, !.status = Status(w.goal, w.target, w.id)]
        /\ recent' = recent \cup {req.rv + 1}
        /\ IF wpc = "pending" THEN wpc' = "evaluate" /\ w' = Idle ELSE Return
        /\ UNCHANGED <<queued, faults>>
     \/ /\ ~ req.exists \/ qcache.rv # req.rv
        /\ IF req.exists THEN Fault ELSE UNCHANGED faults
        /\ Requeue
        /\ UNCHANGED <<req, recent>>
  /\ UNCHANGED <<broker, rsv, qcache, instr, changes, switches>>

(* What the gateway of the peering shows, if it can be read.               *)
ScrapeGatewayLatency(c) == {None} \cup IF c = None THEN {} ELSE Latency[c]

(* A re-evaluation that fails, or that finds nothing better, waits for the *)
(* next; a first one that fails is the end of the request.                 *)
Conclude(best) ==
  IF w.again
  THEN IF best \in {None, w.target}
       THEN Requeue /\ UNCHANGED switches
       ELSE /\ wpc' = "switch" /\ w' = [w EXCEPT !.better = best]
            /\ switches' = switches + 1
            /\ UNCHANGED queued
  ELSE /\ UNCHANGED <<queued, switches>>
       /\ IF best = None THEN Write("Failed", None, 0)
          ELSE wpc' = "post" /\ w' = [Idle EXCEPT !.target = best, !.attempt = 1]

(* When the answer is lost the handler runs again, until the transport     *)
(* gives up.                                                               *)
Evaluated ==
  \E measured \in ScrapeGatewayLatency(w.target), best \in Providers \cup {None},
     answered \in BOOLEAN :
    /\ PostEvaluation(w.target, measured, best)
    /\ IF answered THEN Conclude(best) /\ UNCHANGED faults
       ELSE /\ Conclude(None) \/ UNCHANGED <<worker, queued, switches>>
            /\ Fault

EvaluateProviders ==
  /\ wpc = "evaluate"
  /\ Evaluated \/ (Conclude(None) /\ UNCHANGED <<broker, faults>>)
  /\ UNCHANGED <<rsv, req, qcache, recent, instr, changes>>

InstructionKept ==   \* mutant: the switch leaves the instruction
  /\ wpc = "switch"
  /\ Write("Pending", None, 0)
  /\ UNCHANGED <<broker, rsv, request, instr, faults, changes, switches>>

(* An instruction that is deleted goes at once if it has no finalizer yet, *)
(* and otherwise stays until it is torn down.                              *)
Delete(i) ==
  instr' \in {[instr EXCEPT ![i] = s] : s \in {"deleting", "ended"}}

(* A switch deletes the instruction, never the reservation, and does not   *)
(* wait for the teardown; an error is only logged.                         *)
DeleteOldInstruction ==
  /\ wpc = "switch"
  /\ \/ /\ instr[w.id] = "live"
        /\ Delete(w.id)
        /\ UNCHANGED faults
     \/ /\ instr[w.id] # "live"
        /\ UNCHANGED <<instr, faults>>
     \/ Fault /\ UNCHANGED instr
  /\ Write("Pending", None, 0)
  /\ UNCHANGED <<broker, rsv, request, changes, switches>>

RetryOnceMore ==   \* mutant: one attempt too many
  IF w.attempt <= MaxAttempts
  THEN w' = [w EXCEPT !.attempt = w.attempt + 1] /\ UNCHANGED wpc
  ELSE Write("Failed", w.target, 0)

(* The next attempt, or the end of a POST without an answer.               *)
RetryOrGiveUp ==
  IF w.attempt < MaxAttempts
  THEN w' = [w EXCEPT !.attempt = w.attempt + 1] /\ UNCHANGED wpc
  ELSE Write("Failed", w.target, 0)

(* PostReservation at the broker for an attempt that reaches it.           *)
Reserve(i) ==
  /\ i = Cardinality(Granted) + 1
  /\ Lock(w.target)
  /\ rsv' = [rsv EXCEPT ![i] = [phase |-> "Reserved", target |-> w.target]]

AnsweredTwice(i) ==   \* mutant: an answer is taken for a failure that may be retried
  UNCHANGED faults /\ RetryOrGiveUp

Answered(i) ==
  wpc' = "instruct" /\ w' = [w EXCEPT !.id = i, !.attempt = 0] /\ UNCHANGED faults

(* An attempt does not arrive, or is refused, or reserves; then the answer *)
(* arrives or is lost.                                                     *)
RequestReservation ==
  /\ wpc = "post"
  /\ \/ RetryOrGiveUp /\ UNCHANGED <<broker, rsv, faults>>
     \/ Write("Failed", w.target, 0) /\ UNCHANGED <<broker, rsv, faults>>
     \/ \E i \in Ids : Reserve(i) /\ (Answered(i) \/ (Fault /\ RetryOrGiveUp))
  /\ UNCHANGED <<request, instr, changes, switches>>

InstructionForgotten ==   \* mutant: the status is written without an instruction
  /\ wpc = "instruct"
  /\ Write("Reserved", w.target, w.id)
  /\ UNCHANGED <<broker, rsv, request, instr, faults, changes, switches>>

(* The name is new, so the instruction is.                                 *)
CreateReservationInstruction ==
  /\ wpc = "instruct"
  /\ \/ /\ instr' = [instr EXCEPT ![w.id] = "live"]
        /\ Write("Reserved", w.target, w.id)
        /\ UNCHANGED faults
     \/ Fault /\ Write("Failed", w.target, w.id) /\ UNCHANGED instr
  /\ UNCHANGED <<broker, rsv, request, changes, switches>>

Reconcile ==
  \/ EvaluateProviders \/ UpdateStatus \/ DeleteOldInstruction
  \/ RequestReservation \/ CreateReservationInstruction

-----------------------------------------------------------------------------
(* The broker, the user, the watch, time and restarts.                     *)

BrokerEnds(i) ==
  /\ Change
  /\ rsv[i].phase = "Reserved"
  /\ rsv' = [rsv EXCEPT ![i].phase = "Ended"]
  /\ Unlock(rsv[i].target)
  /\ UNCHANGED <<request, worker, instr, faults, switches>>

ProviderChanges(c) ==
  /\ Change
  /\ ChangeActive(c) \/ Lock(c) \/ AgeBond(c)
  /\ UNCHANGED <<rsv, request, worker, instr, faults, switches>>

CreateNetworkBond(b) ==
  /\ CreateBond(b)
  /\ UNCHANGED <<rsv, request, worker, instr, faults, changes, switches>>

LoseNetworkBond(b) ==
  /\ Fault
  /\ LoseBond(b)
  /\ UNCHANGED <<rsv, request, worker, instr, changes, switches>>

UserDeletesRequest ==
  /\ Change
  /\ req.exists
  /\ req' = [req EXCEPT !.rv = req.rv + 1, !.exists = FALSE]
  /\ UNCHANGED <<broker, rsv, qcache, recent, queued, worker, instr, faults, switches>>

(* It expires, or the user deletes it.                                     *)
InstructionEnds(i) ==
  /\ Change
  /\ instr[i] = "live"
  /\ Delete(i)
  /\ UNCHANGED <<broker, rsv, request, worker, faults, switches>>

(* The other controller has torn the peering down, at whatever time.       *)
TeardownEnds(i) ==
  /\ instr[i] = "deleting"
  /\ instr' = [instr EXCEPT ![i] = "ended"]
  /\ UNCHANGED <<broker, rsv, request, worker, faults, changes, switches>>

SyncRequest ==
  /\ qcache # req
  /\ qcache' = req
  /\ queued' = TRUE
  /\ recent' = recent \cap {req.rv}
  /\ UNCHANGED <<broker, rsv, req, worker, instr, faults, changes, switches>>

IntervalPasses ==
  /\ \E n \in recent : recent' = {m \in recent : m > n}
  /\ UNCHANGED <<broker, rsv, req, qcache, queued, worker, instr, faults, changes, switches>>

(* The agent dies between any two calls; the new one lists its objects.    *)
Crash ==
  /\ Fault
  /\ qcache' = req
  /\ queued' = req.exists
  /\ recent' = recent \cap {req.rv}
  /\ Return
  /\ UNCHANGED <<broker, rsv, req, instr, changes, switches>>

Next ==
  \/ StartRequest \/ Reconcile
  \/ SyncRequest \/ IntervalPasses \/ Crash
  \/ \E i \in Ids : BrokerEnds(i) \/ InstructionEnds(i) \/ TeardownEnds(i)
  \/ \E c \in Providers : ProviderChanges(c)
  \/ \E b \in creating : CreateNetworkBond(b) \/ LoseNetworkBond(b)
  \/ UserDeletesRequest

Spec == Init /\ [][Next]_vars

(* The worker and the watch keep running; nothing else has to happen.      *)
Fairness == WF_vars(StartRequest) /\ WF_vars(Reconcile) /\ WF_vars(SyncRequest)

FairSpec == Spec /\ Fairness

-----------------------------------------------------------------------------
(* Properties.                                                             *)

TypeOK ==
  /\ policy \in Policies
  /\ active \subseteq Providers
  /\ available \in [Providers -> Nat]
  /\ bonds \in [Providers -> Bond]
  /\ creating \subseteq [cluster : Providers, latency : Nat]
  /\ rsv \in [Ids -> [phase : {"", "Reserved", "Ended"}, target : Providers \cup {None}]]
  /\ req \in [rv : Nat, exists : BOOLEAN, status : RequestStatus]
  /\ qcache \in [rv : Nat, exists : BOOLEAN, status : RequestStatus]
  /\ recent \subseteq Nat /\ queued \in BOOLEAN
  /\ wpc \in {"idle", "pending", "evaluate", "switch", "post", "instruct", "status"}
  /\ w \in [target : Providers \cup {None}, id : Ids \cup {0}, attempt : 0 .. MaxAttempts,
            goal : {"", "Pending", "Reserved", "Failed"}, again : BOOLEAN,
            better : Providers \cup {None}]
  /\ instr \in [Ids -> {"", "live", "deleting", "ended"}]
  /\ faults \in 0 .. MaxFaults /\ changes \in 0 .. MaxChanges /\ switches \in Nat

(* A user who reads Reserved finds that the broker granted the reservation *)
(* on the cluster shown, and that its instruction was there for the other  *)
(* controller, whatever answers were lost and however old the copies were. *)
ReservedIsBacked ==
  req.exists /\ req.status.phase = "Reserved" =>
    /\ req.status.reservation \in Granted
    /\ rsv[req.status.reservation].target = req.status.target
    /\ instr[req.status.reservation] # ""

(* A request costs one reservation.  Every further one at the broker is    *)
(* paid for by a switch, a lost answer, an outdated read or a restart.     *)
GrantsAreAccountedFor == Cardinality(Granted) <= 1 + switches + faults

(* Of the instructions that a request has had, at most one has not been    *)
(* told to end: a switch deletes the old one before the new one comes.     *)
(* (It does not wait for the teardown, so that the old peering may stand   *)
(* beside the new one for as long as liqoctl fails.)                       *)
OneInstruction == Cardinality({i \in Ids : instr[i] = "live"}) <= 1 + faults

(* A provider is put behind the others, as one of known latency, only      *)
(* after this requester had a reservation on it: an actual latency, were   *)
(* it but the estimate that a failed measurement leaves, is never taken    *)
(* over from another cluster of the region.                                *)
ActualMeansConnected ==
  \A c \in Providers : bonds[c].actual > 0 => \E i \in Granted : rsv[i].target = c

(* Under the latency policy a request leaves a provider that is still      *)
(* eligible only for one without an actual latency, or for one whose       *)
(* actual latency is no higher than its own, as it was before this         *)
(* evaluation or as it was just reported.  (Measurements change, so it may *)
(* well come back later.)                                                  *)
SwitchIsAnImprovement ==
  [][wpc = "evaluate" /\ wpc' = "switch" /\ policy = "latency" /\ w.target \in Candidates
     => LET new == bonds'[w'.better].actual IN
        new = 0 \/ new <= bonds[w.target].actual \/ new <= bonds'[w.target].actual]_vars

(* Reserved is not taken back before the interval has passed, so that one  *)
(* switch cannot follow at once on another.  Two outdated reads break      *)
(* this, one alone does not.                                               *)
NoEarlySwitch ==
  [][req.status.phase = "Reserved" /\ req'.status.phase = "Pending" 
       => req.rv \notin recent \/ faults > 1]_vars

(* Every request is decided, unless the user takes it back.                *)
RequestIsDecided ==
  req.exists /\ req.status.phase \in {"", "Pending"} ~>
    ~ req.exists \/ req.status.phase \in {"Reserved", "Failed"}
=============================================================================
