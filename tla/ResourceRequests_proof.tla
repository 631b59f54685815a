------------------------- MODULE ResourceRequests_proof ------------------------
(***************************************************************************)
(* What the status of a ResourceRequest promises for every set of          *)
(* providers, every ranking and every number of lost answers, outdated     *)
(* reads, restarts, switches and reservations.  How the broker ranks makes *)
(* no difference, so nothing is assumed of it.                             *)
(***************************************************************************)
EXTENDS ResourceRequests, FiniteSetTheorems, TLAPS

-----------------------------------------------------------------------------
(* The inductive invariant.                                                *)

Reservation == [phase : {"", "Reserved", "Ended"}, target : Providers \cup {None}]

Request == [rv : Nat, exists : BOOLEAN, status : RequestStatus]

WorkerRecord ==
  [target : Providers \cup {None}, id : Ids \cup {0}, attempt : Nat,
   goal : {"", "Pending", "Reserved", "Failed"}, again : BOOLEAN,
   better : Providers \cup {None}]

AgentTypes ==
  /\ rsv \in [Ids -> Reservation]
  /\ req \in Request /\ qcache \in Request
  /\ w \in WorkerRecord
  /\ instr \in [Ids -> {"", "live", "deleting", "ended"}]

(* The broker's reservations f have the reservation i, on cluster c.       *)
GrantedOn(f, i, c) == i \in Ids /\ f[i].phase # "" /\ f[i].target = c

(* What the worker knows when it creates an instruction, and what it is    *)
(* going to write into the status.                                         *)
WorkerInv ==
  /\ wpc = "instruct" => GrantedOn(rsv, w.id, w.target)
  /\ wpc = "pending" => w.goal = "Pending"
  /\ wpc = "status" /\ w.goal = "Reserved" =>
       GrantedOn(rsv, w.id, w.target) /\ instr[w.id] # ""

StatusInv ==
  req.status.phase = "Reserved" =>
    /\ GrantedOn(rsv, req.status.reservation, req.status.target)
    /\ instr[req.status.reservation] # ""

(* Reservations are granted in the order of their names, so that the next  *)
(* one overwrites none.                                                    *)
GrantedInOrder == \E n \in 0 .. MaxReservations : Granted = 1 .. n

RequestInv == AgentTypes /\ WorkerInv /\ StatusInv /\ GrantedInOrder

(* Reservations and instructions may end; they are not forgotten and never *)
(* move to another cluster.                                                *)
Kept ==
  \A i \in Ids :
    /\ rsv[i].phase # "" => rsv'[i].phase # "" /\ rsv'[i].target = rsv[i].target
    /\ instr[i] # "" => instr'[i] # ""

LEMMA InitRequestInv == Init => RequestInv
<1> SUFFICES ASSUME Init PROVE RequestInv
  OBVIOUS
<1>1. AgentTypes
  BY RequestsAssumption DEF Init, AgentTypes, Reservation, Request, RequestStatus, Status, Idle,
     WorkerRecord
<1>2. WorkerInv /\ StatusInv
  BY DEF Init, Status, WorkerInv, StatusInv
<1>3. GrantedInOrder
  <2>1. Granted = {}
    BY DEF Init, Granted
  <2>2. MaxReservations \in Nat
    BY RequestsAssumption
  <2>3. 0 \in 0 .. MaxReservations
    BY <2>2
  <2>4. 1 .. 0 = {}
    OBVIOUS
  <2> QED
    BY <2>1, <2>3, <2>4 DEF GrantedInOrder
<1> QED
  BY <1>1, <1>2, <1>3 DEF RequestInv

LEMMA GrantedStays ==
  ASSUME Kept, NEW i, NEW c
  PROVE  /\ GrantedOn(rsv, i, c) => GrantedOn(rsv', i, c)
         /\ GrantedOn(rsv, i, c) /\ instr[i] # "" => instr'[i] # ""
  BY DEF Kept, GrantedOn

LEMMA UnchangedKept ==
  ASSUME UNCHANGED rsv, UNCHANGED instr
  PROVE  Kept
  BY DEF Kept

(* What every step has to show.                                            *)
StepOK ==
  /\ AgentTypes' /\ Kept
  /\ UNCHANGED rsv \/ GrantedInOrder'
  /\ \/ UNCHANGED worker
     \/ wpc' \in {"idle", "evaluate", "switch", "post"}
     \/ wpc' = "pending" /\ w'.goal = "Pending"
     \/ wpc' = "instruct" /\ GrantedOn(rsv', w'.id, w'.target)
     \/ wpc' = "status" /\ w'.goal # "Reserved"
     \/ wpc' = "status" /\ GrantedOn(rsv', w'.id, w'.target) /\ instr'[w'.id] # ""
  /\ \/ req'.status = req.status
     \/ req'.status.phase # "Reserved"
     \/ /\ GrantedOn(rsv', req'.status.reservation, req'.status.target)
        /\ instr'[req'.status.reservation] # ""

LEMMA StepOKSuffices ==
  ASSUME RequestInv, StepOK
  PROVE  RequestInv'
<1>1. Kept
  BY DEF StepOK
<1>2. WorkerInv'
  <2>1. CASE UNCHANGED worker
    <3>1. UNCHANGED wpc /\ UNCHANGED w
      BY <2>1 DEF worker
    <3> QED
      BY <1>1, <3>1, GrantedStays DEF RequestInv, WorkerInv
  <2>2. CASE ~ UNCHANGED worker
    BY <2>2 DEF StepOK, WorkerInv
  <2> QED
    BY <2>1, <2>2
<1>3. StatusInv'
  <2>1. CASE req'.status = req.status
    BY <1>1, <2>1, GrantedStays DEF RequestInv, StatusInv
  <2>2. CASE req'.status # req.status
    BY <2>2 DEF StepOK, StatusInv
  <2> QED
    BY <2>1, <2>2
<1>4. GrantedInOrder'
  BY DEF RequestInv, StepOK, GrantedInOrder, Granted
<1> QED
  BY <1>2, <1>3, <1>4 DEF RequestInv, StepOK

-----------------------------------------------------------------------------
(* The steps.                                                              *)

LEMMA WorkerRecords ==
  /\ Idle \in WorkerRecord
  /\ \A goal \in {"Pending", "Reserved", "Failed"} :
       \A target \in Providers \cup {None} : \A id \in Ids \cup {0} :
         Write(goal, target, id) =>
           /\ wpc' = "status" /\ w' \in WorkerRecord
           /\ w'.goal = goal /\ w'.target = target /\ w'.id = id
<1>1. Idle \in WorkerRecord
  BY DEF Idle, WorkerRecord
<1>2. ASSUME NEW goal \in {"Pending", "Reserved", "Failed"},
             NEW target \in Providers \cup {None}, NEW id \in Ids \cup {0},
             Write(goal, target, id)
      PROVE  /\ wpc' = "status" /\ w' \in WorkerRecord
             /\ w'.goal = goal /\ w'.target = target /\ w'.id = id
  BY <1>2 DEF Write, Idle, WorkerRecord
<1> QED
  BY <1>1, <1>2

LEMMA StartRequestStep ==
  ASSUME RequestInv, StartRequest
  PROVE  StepOK
<1>1. /\ UNCHANGED rsv /\ UNCHANGED req /\ UNCHANGED qcache /\ UNCHANGED instr
  BY DEF StartRequest
<1>2. w' \in WorkerRecord
  <2>1. /\ qcache.status.target \in Providers \cup {None}
        /\ qcache.status.reservation \in Ids \cup {0}
    BY DEF RequestInv, AgentTypes, Request, RequestStatus
  <2>2. /\ [Idle EXCEPT !.goal = "Pending"] \in WorkerRecord /\ Idle \in WorkerRecord
        /\ [Idle EXCEPT !.target = qcache.status.target, !.id = qcache.status.reservation,
                        !.again = TRUE] \in WorkerRecord
    BY <2>1 DEF Idle, WorkerRecord
  <2>3. w \in WorkerRecord
    BY DEF RequestInv, AgentTypes
  <2> QED
    BY <2>2, <2>3 DEF StartRequest, worker
<1>3. \/ UNCHANGED worker
      \/ wpc' = "evaluate"
      \/ wpc' = "pending" /\ w'.goal = "Pending"
  <2>1. [Idle EXCEPT !.goal = "Pending"].goal = "Pending"
    BY DEF Idle
  <2> QED
    BY <2>1 DEF StartRequest
<1>4. AgentTypes'
  BY <1>1, <1>2 DEF RequestInv, AgentTypes
<1> QED
  BY <1>1, <1>3, <1>4, UnchangedKept DEF StepOK

(* The status gets what the worker set out to write.                       *)
LEMMA UpdateStatusStep ==
  ASSUME RequestInv, UpdateStatus
  PROVE  StepOK
<1>1. /\ UNCHANGED rsv /\ UNCHANGED qcache /\ UNCHANGED instr
      /\ wpc \in {"pending", "status"}
      /\ wpc' \in {"idle", "evaluate"} /\ w' = Idle
  BY DEF UpdateStatus, Return, Requeue
<1>2. ASSUME req' = [req EXCEPT !.rv = req.rv + 1, !.status = Status(w.goal, w.target, w.id)]
      PROVE  StepOK
  <2>1. /\ w.goal \in {"", "Pending", "Reserved", "Failed"}
        /\ w.target \in Providers \cup {None} /\ w.id \in Ids \cup {0}
    BY DEF RequestInv, AgentTypes, WorkerRecord
  <2>2. Status(w.goal, w.target, w.id) \in RequestStatus
    BY <2>1 DEF Status, RequestStatus
  <2>3. req.rv \in Nat
    BY DEF RequestInv, AgentTypes, Request
  <2>4a. req.rv + 1 \in Nat
    BY <2>3
  <2>4. req' \in Request /\ req'.status = Status(w.goal, w.target, w.id)
    BY <1>2, <2>2, <2>4a DEF RequestInv, AgentTypes, Request
  <2>5. /\ req'.status.phase = w.goal /\ req'.status.target = w.target
        /\ req'.status.reservation = w.id
    BY <2>4 DEF Status
  <2>6. \/ w.goal # "Reserved"
        \/ GrantedOn(rsv, w.id, w.target) /\ instr[w.id] # ""
    BY <1>1 DEF RequestInv, WorkerInv
  <2>7. AgentTypes'
    BY <1>1, <2>4, WorkerRecords DEF RequestInv, AgentTypes
  <2> QED
    BY <1>1, <2>5, <2>6, <2>7, UnchangedKept DEF StepOK
<1>3. ASSUME UNCHANGED req
      PROVE  StepOK
  <2>1. AgentTypes'
    BY <1>1, <1>3, WorkerRecords DEF RequestInv, AgentTypes
  <2> QED
    BY <1>1, <1>3, <2>1, UnchangedKept DEF StepOK
<1> QED
  BY <1>2, <1>3 DEF UpdateStatus

LEMMA ConcludeRecords ==
  ASSUME RequestInv, NEW best \in Providers \cup {None}, Conclude(best)
  PROVE  /\ w' \in WorkerRecord
         /\ wpc' \in {"idle", "switch", "post"} \/ (wpc' = "status" /\ w'.goal # "Reserved")
<1>1. /\ w \in WorkerRecord /\ Idle \in WorkerRecord
      /\ None \in Providers \cup {None} /\ 0 \in Ids \cup {0}
  BY WorkerRecords DEF RequestInv, AgentTypes
<1>2. [w EXCEPT !.better = best] \in WorkerRecord
  BY <1>1 DEF WorkerRecord
<1>3. [Idle EXCEPT !.target = best, !.attempt = 1] \in WorkerRecord
  BY DEF Idle, WorkerRecord
<1>4. \/ wpc' = "idle" /\ w' = Idle
      \/ wpc' = "switch" /\ w' = [w EXCEPT !.better = best]
      \/ Write("Failed", None, 0)
      \/ wpc' = "post" /\ w' = [Idle EXCEPT !.target = best, !.attempt = 1]
  BY DEF Conclude, Requeue, Return
<1>5. ASSUME Write("Failed", None, 0)
      PROVE  wpc' = "status" /\ w' \in WorkerRecord /\ w'.goal # "Reserved"
  BY <1>1, <1>5, WorkerRecords
<1> QED
  BY <1>1, <1>2, <1>3, <1>4, <1>5

(* Whatever the broker answers, nothing is promised yet.                   *)
LEMMA EvaluateProvidersStep ==
  ASSUME RequestInv, EvaluateProviders
  PROVE  StepOK
<1>1. /\ UNCHANGED rsv /\ UNCHANGED req /\ UNCHANGED qcache /\ UNCHANGED instr
  BY DEF EvaluateProviders
<1>2. \/ UNCHANGED worker
      \/ \E best \in Providers \cup {None} : Conclude(best)
  <2>1. None \in Providers \cup {None}
    OBVIOUS
  <2>2. CASE Evaluated
    BY <2>1, <2>2 DEF Evaluated
  <2>3. CASE Conclude(None)
    BY <2>1, <2>3
  <2> QED
    BY <2>2, <2>3 DEF EvaluateProviders
<1>3. /\ w' \in WorkerRecord
      /\ \/ UNCHANGED worker
         \/ wpc' \in {"idle", "switch", "post"}
         \/ wpc' = "status" /\ w'.goal # "Reserved"
  <2>1. CASE UNCHANGED worker
    BY <2>1 DEF worker, RequestInv, AgentTypes
  <2>2. CASE \E best \in Providers \cup {None} : Conclude(best)
    BY <2>2, ConcludeRecords
  <2> QED
    BY <1>2, <2>1, <2>2
<1>4. AgentTypes'
  BY <1>1, <1>3 DEF RequestInv, AgentTypes
<1> QED
  BY <1>1, <1>3, <1>4, UnchangedKept DEF StepOK

(* The instruction of a switch ends; it is not forgotten.                  *)
LEMMA DeleteOldInstructionStep ==
  ASSUME RequestInv, DeleteOldInstruction
  PROVE  StepOK
<1>1. /\ UNCHANGED rsv /\ UNCHANGED req /\ UNCHANGED qcache
      /\ Write("Pending", None, 0)
  BY DEF DeleteOldInstruction, request
<1>2. instr \in [Ids -> {"", "live", "deleting", "ended"}]
  BY DEF RequestInv, AgentTypes
<1>3. /\ instr' \in [Ids -> {"", "live", "deleting", "ended"}]
      /\ \A i \in Ids : instr[i] # "" => instr'[i] # ""
  BY <1>2 DEF DeleteOldInstruction, Delete
<1>4. Kept
  BY <1>1, <1>3 DEF Kept
<1>5. wpc' = "status" /\ w' \in WorkerRecord /\ w'.goal = "Pending"
  BY <1>1, WorkerRecords
<1>6. AgentTypes'
  BY <1>1, <1>3, <1>5 DEF RequestInv, AgentTypes
<1> QED
  BY <1>1, <1>4, <1>5, <1>6 DEF StepOK

LEMMA RetryOrGiveUpRecords ==
  ASSUME RequestInv, wpc = "post", RetryOrGiveUp
  PROVE  /\ w' \in WorkerRecord
         /\ wpc' = "post" \/ (wpc' = "status" /\ w'.goal # "Reserved")
<1>1. w \in WorkerRecord
  BY DEF RequestInv, AgentTypes
<1>2. w.attempt \in Nat /\ w.target \in Providers \cup {None}
  BY <1>1 DEF WorkerRecord
<1>3. w.attempt + 1 \in Nat
  BY <1>2
<1>4. [w EXCEPT !.attempt = w.attempt + 1] \in WorkerRecord
  BY <1>1, <1>3 DEF WorkerRecord
<1>5. ASSUME Write("Failed", w.target, 0)
      PROVE  wpc' = "status" /\ w' \in WorkerRecord /\ w'.goal # "Reserved"
  BY <1>2, <1>5, WorkerRecords
<1> QED
  BY <1>4, <1>5 DEF RetryOrGiveUp

(* A new reservation takes a name that no other had.                       *)
LEMMA ReserveGrants ==
  ASSUME RequestInv, NEW i \in Ids, Reserve(i)
  PROVE  /\ rsv' \in [Ids -> Reservation] /\ GrantedInOrder'
         /\ GrantedOn(rsv', i, w.target)
         /\ Granted' = Granted \cup {i} /\ i \notin Granted
         /\ \A j \in Ids : rsv[j].phase # "" =>
              rsv'[j].phase # "" /\ rsv'[j].target = rsv[j].target
<1>1. PICK n \in 0 .. MaxReservations : Granted = 1 .. n
  BY DEF RequestInv, GrantedInOrder
<1>2. n \in Nat
  BY <1>1
<1>3. Cardinality(1 .. n) = n
  BY <1>2, FS_Interval
<1>4. i = n + 1
  BY <1>1, <1>3 DEF Reserve
<1>5. i \notin Granted
  BY <1>1, <1>2, <1>4
<1>6. rsv[i].phase = ""
  BY <1>5 DEF Granted
<1>7. [phase |-> "Reserved", target |-> w.target] \in Reservation
  BY DEF RequestInv, AgentTypes, WorkerRecord, Reservation
<1>8. rsv \in [Ids -> Reservation]
  BY DEF RequestInv, AgentTypes
<1>9. /\ rsv' \in [Ids -> Reservation]
      /\ rsv'[i].phase = "Reserved" /\ rsv'[i].target = w.target
      /\ \A j \in Ids : j # i => rsv'[j] = rsv[j]
  BY <1>7, <1>8 DEF Reserve
<1>10. Granted' = Granted \cup {i}
  BY <1>9 DEF Granted
<1>11. 1 .. (n + 1) = (1 .. n) \cup {n + 1}
  BY <1>2
<1>12. n + 1 \in 0 .. MaxReservations
  <2>1. MaxReservations \in Nat
    BY RequestsAssumption
  <2>2. n + 1 \in 1 .. MaxReservations
    BY <1>4 DEF Ids
  <2> QED
    BY <1>2, <2>1, <2>2
<1>13. GrantedInOrder'
  BY <1>1, <1>4, <1>10, <1>11, <1>12 DEF GrantedInOrder
<1> QED
  BY <1>5, <1>6, <1>9, <1>10, <1>13 DEF GrantedOn

(* A reservation that was granted is remembered only if its answer came.   *)
LEMMA RequestReservationStep ==
  ASSUME RequestInv, RequestReservation
  PROVE  StepOK
<1>1. /\ UNCHANGED req /\ UNCHANGED qcache /\ UNCHANGED instr
      /\ wpc = "post"
  BY DEF RequestReservation, request
<1>2. ASSUME RetryOrGiveUp, UNCHANGED rsv
      PROVE  StepOK
  <2>1. AgentTypes'
    BY <1>1, <1>2, RetryOrGiveUpRecords DEF RequestInv, AgentTypes
  <2> QED
    BY <1>1, <1>2, <2>1, RetryOrGiveUpRecords, UnchangedKept DEF StepOK
<1>3. ASSUME Write("Failed", w.target, 0), UNCHANGED rsv
      PROVE  StepOK
  <2>1. w.target \in Providers \cup {None}
    BY DEF RequestInv, AgentTypes, WorkerRecord
  <2>2. wpc' = "status" /\ w' \in WorkerRecord /\ w'.goal = "Failed"
    BY <1>3, <2>1, WorkerRecords
  <2>3. AgentTypes'
    BY <1>1, <1>3, <2>2 DEF RequestInv, AgentTypes
  <2> QED
    BY <1>1, <1>3, <2>2, <2>3, UnchangedKept DEF StepOK
<1>4. ASSUME NEW i \in Ids, Reserve(i), Answered(i) \/ RetryOrGiveUp
      PROVE  StepOK
  <2>1. /\ rsv' \in [Ids -> Reservation] /\ GrantedInOrder'
        /\ GrantedOn(rsv', i, w.target)
        /\ Kept
    BY <1>1, <1>4, ReserveGrants DEF Kept
  <2>2. ASSUME Answered(i)
        PROVE  StepOK
    <3>1. w \in WorkerRecord
      BY DEF RequestInv, AgentTypes
    <3>2. wpc' = "instruct" /\ w' = [w EXCEPT !.id = i, !.attempt = 0]
      BY <2>2 DEF Answered
    <3>3. w' \in WorkerRecord /\ w'.id = i /\ w'.target = w.target
      BY <3>1, <3>2 DEF WorkerRecord
    <3>4. AgentTypes'
      BY <1>1, <2>1, <3>3 DEF RequestInv, AgentTypes
    <3> QED
      BY <1>1, <2>1, <3>2, <3>3, <3>4 DEF StepOK
  <2>3. ASSUME RetryOrGiveUp
        PROVE  StepOK
    <3>1. AgentTypes'
      BY <1>1, <2>1, <2>3, RetryOrGiveUpRecords DEF RequestInv, AgentTypes
    <3> QED
      BY <1>1, <2>1, <2>3, <3>1, RetryOrGiveUpRecords DEF StepOK
  <2> QED
    BY <1>4, <2>2, <2>3
<1> QED
  BY <1>2, <1>3, <1>4 DEF RequestReservation

(* The instruction is there before the status is written.                  *)
LEMMA CreateReservationInstructionStep ==
  ASSUME RequestInv, CreateReservationInstruction
  PROVE  StepOK
<1>1. /\ UNCHANGED rsv /\ UNCHANGED req /\ UNCHANGED qcache
      /\ GrantedOn(rsv, w.id, w.target)
  BY DEF CreateReservationInstruction, request, RequestInv, WorkerInv
<1>2. /\ w.target \in Providers \cup {None} /\ w.id \in Ids
      /\ w.id \in Ids \cup {0}
  BY <1>1 DEF RequestInv, AgentTypes, WorkerRecord, GrantedOn
<1>3. instr \in [Ids -> {"", "live", "deleting", "ended"}]
  BY DEF RequestInv, AgentTypes
<1>4. GrantedOn(rsv', w.id, w.target)
  BY <1>1 DEF GrantedOn
<1>5. ASSUME instr' = [instr EXCEPT ![w.id] = "live"], Write("Reserved", w.target, w.id)
      PROVE  StepOK
  <2>1. /\ instr' \in [Ids -> {"", "live", "deleting", "ended"}]
        /\ instr'[w.id] # ""
        /\ \A j \in Ids : instr[j] # "" => instr'[j] # ""
    BY <1>2, <1>3, <1>5
  <2>2. /\ wpc' = "status" /\ w' \in WorkerRecord
        /\ w'.target = w.target /\ w'.id = w.id
    BY <1>2, <1>5, WorkerRecords
  <2>3. AgentTypes' /\ Kept
    BY <1>1, <2>1, <2>2 DEF RequestInv, AgentTypes, Kept
  <2> QED
    BY <1>1, <1>4, <2>1, <2>2, <2>3 DEF StepOK
<1>6. ASSUME Write("Failed", w.target, w.id), UNCHANGED instr
      PROVE  StepOK
  <2>1. wpc' = "status" /\ w' \in WorkerRecord /\ w'.goal = "Failed"
    BY <1>2, <1>6, WorkerRecords
  <2>2. AgentTypes'
    BY <1>1, <1>6, <2>1 DEF RequestInv, AgentTypes
  <2> QED
    BY <1>1, <1>6, <2>1, <2>2, UnchangedKept DEF StepOK
<1> QED
  BY <1>5, <1>6 DEF CreateReservationInstruction

(* The broker ends a reservation; it stays known.                          *)
LEMMA BrokerEndsStep ==
  ASSUME RequestInv, NEW i \in Ids, BrokerEnds(i)
  PROVE  StepOK
<1>1. /\ UNCHANGED req /\ UNCHANGED qcache /\ UNCHANGED worker /\ UNCHANGED instr
      /\ UNCHANGED w
      /\ rsv[i].phase = "Reserved"
      /\ rsv' = [rsv EXCEPT ![i].phase = "Ended"]
  BY DEF BrokerEnds, request, worker
<1>2. rsv \in [Ids -> Reservation]
  BY DEF RequestInv, AgentTypes
<1>3. rsv' \in [Ids -> Reservation]
  BY <1>1, <1>2 DEF Reservation
<1>4. /\ rsv'[i].phase = "Ended" /\ rsv'[i].target = rsv[i].target
      /\ \A j \in Ids : j # i => rsv'[j] = rsv[j]
  BY <1>1, <1>2 DEF Reservation
<1>5. Kept
  BY <1>1, <1>4 DEF Kept
<1>6. Granted' = Granted
  BY <1>1, <1>4 DEF Granted
<1>7. GrantedInOrder'
  BY <1>6 DEF RequestInv, GrantedInOrder
<1>8. AgentTypes'
  BY <1>1, <1>3 DEF RequestInv, AgentTypes
<1> QED
  BY <1>1, <1>5, <1>7, <1>8 DEF StepOK

LEMMA InstructionEndsStep ==
  ASSUME RequestInv, NEW i \in Ids, InstructionEnds(i) \/ TeardownEnds(i)
  PROVE  StepOK
<1>1. /\ UNCHANGED rsv /\ UNCHANGED req /\ UNCHANGED qcache /\ UNCHANGED worker
      /\ UNCHANGED w
      /\ \E s \in {"deleting", "ended"} : instr' = [instr EXCEPT ![i] = s]
  BY DEF InstructionEnds, TeardownEnds, Delete, request, worker
<1>2. instr \in [Ids -> {"", "live", "deleting", "ended"}]
  BY DEF RequestInv, AgentTypes
<1>3. /\ instr' \in [Ids -> {"", "live", "deleting", "ended"}]
      /\ \A j \in Ids : instr[j] # "" => instr'[j] # ""
  BY <1>1, <1>2
<1>4. AgentTypes' /\ Kept
  BY <1>1, <1>3 DEF RequestInv, AgentTypes, Kept
<1> QED
  BY <1>1, <1>4 DEF StepOK

LEMMA UserDeletesRequestStep ==
  ASSUME RequestInv, UserDeletesRequest
  PROVE  StepOK
<1>1. /\ UNCHANGED rsv /\ UNCHANGED qcache /\ UNCHANGED worker /\ UNCHANGED instr
      /\ UNCHANGED w
      /\ req' = [req EXCEPT !.rv = req.rv + 1, !.exists = FALSE]
  BY DEF UserDeletesRequest, worker
<1>2. req \in Request
  BY DEF RequestInv, AgentTypes
<1>3. req.rv \in Nat
  BY <1>2 DEF Request
<1>4. req.rv + 1 \in Nat
  BY <1>3
<1>5. req' \in Request /\ req'.status = req.status
  BY <1>1, <1>2, <1>4 DEF Request
<1>6. AgentTypes'
  BY <1>1, <1>5 DEF RequestInv, AgentTypes
<1> QED
  BY <1>1, <1>5, <1>6, UnchangedKept DEF StepOK

LEMMA SyncRequestStep ==
  ASSUME RequestInv, SyncRequest
  PROVE  StepOK
<1>1. /\ UNCHANGED rsv /\ UNCHANGED req /\ UNCHANGED worker /\ UNCHANGED instr
      /\ UNCHANGED w /\ qcache' = req
  BY DEF SyncRequest, worker
<1>2. AgentTypes'
  BY <1>1 DEF RequestInv, AgentTypes
<1> QED
  BY <1>1, <1>2, UnchangedKept DEF StepOK

(* A restart forgets the worker, and with it what it has not written.      *)
LEMMA CrashStep ==
  ASSUME RequestInv, Crash
  PROVE  StepOK
<1>1. /\ UNCHANGED rsv /\ UNCHANGED req /\ UNCHANGED instr
      /\ qcache' = req /\ wpc' = "idle" /\ w' = Idle
  BY DEF Crash, Return
<1>2. AgentTypes'
  BY <1>1, WorkerRecords DEF RequestInv, AgentTypes
<1> QED
  BY <1>1, <1>2, UnchangedKept DEF StepOK

(* Time, the providers and the bonds are no part of the invariant.         *)
LEMMA ElsewhereStep ==
  ASSUME RequestInv, UNCHANGED rsv, UNCHANGED req, UNCHANGED qcache, UNCHANGED worker,
         UNCHANGED instr
  PROVE  StepOK
<1>1. UNCHANGED w
  BY DEF worker
<1>2. AgentTypes'
  BY <1>1 DEF RequestInv, AgentTypes
<1> QED
  BY <1>2, UnchangedKept DEF StepOK

-----------------------------------------------------------------------------
(* The theorem.                                                            *)

LEMMA NextStepOK ==
  ASSUME RequestInv, [Next]_vars
  PROVE  StepOK
<1>1. CASE StartRequest
  BY <1>1, StartRequestStep
<1>2. CASE Reconcile
  BY <1>2, EvaluateProvidersStep, UpdateStatusStep, DeleteOldInstructionStep,
     RequestReservationStep, CreateReservationInstructionStep DEF Reconcile
<1>3. CASE SyncRequest
  BY <1>3, SyncRequestStep
<1>4. CASE IntervalPasses
  BY <1>4, ElsewhereStep DEF IntervalPasses
<1>5. CASE Crash
  BY <1>5, CrashStep
<1>6. ASSUME NEW i \in Ids, BrokerEnds(i) \/ InstructionEnds(i) \/ TeardownEnds(i)
      PROVE  StepOK
  BY <1>6, BrokerEndsStep, InstructionEndsStep
<1>7. ASSUME NEW c \in Providers, ProviderChanges(c)
      PROVE  StepOK
  <2>1. /\ UNCHANGED rsv /\ UNCHANGED req /\ UNCHANGED qcache /\ UNCHANGED worker
        /\ UNCHANGED instr
    BY <1>7 DEF ProviderChanges, request
  <2> QED
    BY <2>1, ElsewhereStep
<1>8. ASSUME NEW b \in creating, CreateNetworkBond(b) \/ LoseNetworkBond(b)
      PROVE  StepOK
  <2>1. /\ UNCHANGED rsv /\ UNCHANGED req /\ UNCHANGED qcache /\ UNCHANGED worker
        /\ UNCHANGED instr
    BY <1>8 DEF CreateNetworkBond, LoseNetworkBond, request
  <2> QED
    BY <2>1, ElsewhereStep
<1>9. CASE UserDeletesRequest
  BY <1>9, UserDeletesRequestStep
<1>10. CASE UNCHANGED vars
  BY <1>10, ElsewhereStep DEF vars, request
<1> QED
  BY <1>1, <1>2, <1>3, <1>4, <1>5, <1>6, <1>7, <1>8, <1>9, <1>10 DEF Next

(* A user who reads Reserved finds the reservation granted on the cluster  *)
(* shown and its instruction created: UpdateStatus writes what             *)
(* RequestReservation and CreateReservationInstruction have done, and no   *)
(* lost answer, old copy or restart comes between.                         *)
THEOREM StatusIsBacked == Spec => []ReservedIsBacked
<1>1. Init => RequestInv
  BY InitRequestInv
<1>2. RequestInv /\ [Next]_vars => RequestInv'
  BY NextStepOK, StepOKSuffices
<1>3. RequestInv => ReservedIsBacked
  BY DEF RequestInv, StatusInv, ReservedIsBacked, GrantedOn, Granted
<1> QED
  BY <1>1, <1>2, <1>3, PTL DEF Spec
=============================================================================
