-------------------------- MODULE ProviderAgent_proof --------------------------
(***************************************************************************)
(* What holds of the provider's agent for every set of reservations and    *)
(* durations, every cluster, and every number of lost answers, restarts,   *)
(* late reports and changes.                                               *)
(***************************************************************************)
EXTENDS ProviderAgent, SumTheorems

-----------------------------------------------------------------------------
(* The inductive invariant.                                                *)

(* An object o read at some time: the API server has this version or a     *)
(* later one, n.                                                           *)
OlderCopy(o, n) == o.rv <= n.rv /\ (o.rv = n.rv => o = n)

(* Every entry of a list, however old, is of a reservation of this cluster *)
(* that the broker made and has only prolonged since.                      *)
ListedByBroker ==
  \A x \in answers :
    /\ x.reservation \in Own
    /\ rsv[x.reservation].phase # ""
    /\ NoLater(x.expiresAt, rsv[x.reservation].expiresAt)

(* What the worker knows at each call.                                     *)
WorkerInv ==
  ppc # "idle" =>
    /\ pr \in Reservations
    /\ pobj.exists /\ OlderCopy(pobj, instr[pr])
    /\ ppc = "enforce" => rsv[pr].kubeconfig
    /\ ppc = "expire" => HasExpired(pobj)

AgentInv ==
  /\ TypeOK
  /\ ListedByBroker
  /\ HoldEndsByDeadline
  /\ \A r \in Reservations : instr[r].enforced => instr[r].exists /\ rsv[r].kubeconfig
  /\ \A r \in Reservations : OlderCopy(icache[r], instr[r])
  /\ WorkerInv

LEMMA NoInstructionType ==
  /\ NoInstruction \in Instruction
  /\ NoInstruction.exists = FALSE /\ NoInstruction.enforced = FALSE /\ NoInstruction.rv = 0
  BY DEF NoInstruction, Instruction

LEMMA BoundsType ==
  \A n \in {MaxTime, MaxChanges, MaxFaults} :
    0 \in 0 .. n /\ \A m \in 0 .. n : m < n => m + 1 \in 0 .. n
  BY AgentBoundsAssumption

LEMMA InitAgentInv == Init => AgentInv
<1> SUFFICES ASSUME Init PROVE AgentInv
  OBVIOUS
<1>1. /\ \A r \in Reservations : instr[r] = NoInstruction /\ icache[r] = NoInstruction
      /\ answers = {} /\ ppc = "idle"
  BY DEF Init
<1>2. rsv \in [Reservations -> BrokerReservation]
  <2>1. \A phase \in {"", "Reserved"} :
          [phase |-> phase, expiresAt |-> 0, locked |-> FALSE, kubeconfig |-> FALSE]
             \in BrokerReservation
    BY BoundsType DEF BrokerReservation
  <2> QED
    BY <2>1 DEF Init
<1>3. TypeOK
  BY <1>2, NoInstructionType, BoundsType DEF Init, TypeOK
<1>4. HoldEndsByDeadline
  BY <1>1, NoInstructionType DEF HoldEndsByDeadline
<1>5. \A r \in Reservations : ~ instr[r].enforced
  BY <1>1, NoInstructionType, Zenon
<1>6. \A r \in Reservations : OlderCopy(icache[r], instr[r])
  BY <1>1, NoInstructionType DEF OlderCopy
<1> QED
  BY <1>1, <1>3, <1>4, <1>5, <1>6 DEF AgentInv, ListedByBroker, WorkerInv

-----------------------------------------------------------------------------
(* What a step does.                                                       *)

(* The broker keeps a kubeconfig and never makes a deadline earlier.       *)
BrokerKeeps ==
  \A r \in Reservations :
    /\ rsv[r].kubeconfig => rsv'[r].kubeconfig
    /\ rsv[r].phase # "" => rsv'[r].phase # "" /\ NoLater(rsv[r].expiresAt, rsv'[r].expiresAt)

(* An instruction that changes is a new version; it is enforced after its  *)
(* kubeconfig was uploaded, has a deadline that the broker gave, and stops *)
(* being enforced when it has expired.                                     *)
Changes(r) ==
  \/ instr'[r] = instr[r]
  \/ /\ instr'[r].rv = instr[r].rv + 1
     /\ instr'[r].enforced => instr'[r].exists /\ rsv'[r].kubeconfig
     /\ instr'[r].exists =>
          /\ r \in Own
          /\ rsv'[r].phase # ""
          /\ NoLater(instr'[r].expiresAt, rsv'[r].expiresAt)
     /\ instr[r].enforced /\ ~ instr'[r].enforced => HasExpired(instr[r])

StepOK ==
  /\ TypeOK' /\ BrokerKeeps /\ WorkerInv'
  /\ \A r \in Reservations : Changes(r) /\ icache'[r] \in {icache[r], instr'[r]}
  /\ \A x \in answers' :
       \/ x \in answers
       \/ /\ x.reservation \in Own
          /\ rsv'[x.reservation].phase # ""
          /\ NoLater(x.expiresAt, rsv'[x.reservation].expiresAt)

LEMMA DeadlinesAreNumbers ==
  /\ \A f \in [Reservations -> BrokerReservation] : \A r \in Reservations : f[r].expiresAt \in Nat
  /\ \A f \in [Reservations -> Instruction] : \A r \in Reservations : f[r].expiresAt \in Nat
  /\ \A x \in Listing : x.expiresAt \in Nat
<1>1. 0 .. MaxTime \subseteq Nat
  BY AgentBoundsAssumption
<1>2. \A b \in BrokerReservation : b.expiresAt \in 0 .. MaxTime
  BY DEF BrokerReservation
<1>3. \A o \in Instruction : o.expiresAt \in Nat
  BY DEF Instruction
<1>4. \A x \in Listing : x.expiresAt \in 0 .. MaxTime
  BY DEF Listing
<1> QED
  BY <1>1, <1>2, <1>3, <1>4

LEMMA NoLaterIsReflexive == \A a \in Nat : NoLater(a, a)
  BY DEF NoLater

LEMMA NoLaterChains ==
  ASSUME NEW a \in Nat, NEW b \in Nat, NEW c \in Nat, NoLater(a, b), NoLater(b, c)
  PROVE  NoLater(a, c)
  BY DEF NoLater

LEMMA OlderCopyStays ==
  ASSUME NEW o \in Instruction, NEW n \in Instruction, NEW m \in Instruction,
         OlderCopy(o, n), m = n \/ m.rv = n.rv + 1
  PROVE  OlderCopy(o, m)
<1>1. o.rv \in Nat /\ n.rv \in Nat /\ m.rv \in Nat
  BY DEF Instruction
<1>2. CASE m = n
  BY <1>2
<1>3. CASE m.rv = n.rv + 1
  <2>1. o.rv <= m.rv /\ o.rv # m.rv
    BY <1>1, <1>3 DEF OlderCopy
  <2> QED
    BY <2>1 DEF OlderCopy
<1> QED
  BY <1>2, <1>3

LEMMA StepOKSuffices ==
  ASSUME AgentInv, StepOK
  PROVE  AgentInv'
<1>1. TypeOK /\ TypeOK' /\ BrokerKeeps
  BY DEF AgentInv, StepOK
<1>2. ListedByBroker'
  <2> SUFFICES ASSUME NEW x \in answers'
               PROVE  /\ x.reservation \in Own
                      /\ rsv'[x.reservation].phase # ""
                      /\ NoLater(x.expiresAt, rsv'[x.reservation].expiresAt)
    BY DEF ListedByBroker
  <2>1. CASE x \in answers
    <3>1. /\ x.reservation \in Own /\ x.reservation \in Reservations
          /\ rsv[x.reservation].phase # ""
          /\ NoLater(x.expiresAt, rsv[x.reservation].expiresAt)
      BY <2>1, ReservationsAssumption DEF AgentInv, ListedByBroker
    <3>2. /\ rsv'[x.reservation].phase # ""
          /\ NoLater(rsv[x.reservation].expiresAt, rsv'[x.reservation].expiresAt)
      BY <1>1, <3>1 DEF BrokerKeeps
    <3>3. x.expiresAt \in Nat /\ rsv[x.reservation].expiresAt \in Nat /\ rsv'[x.reservation].expiresAt \in Nat
      BY <1>1, <2>1, <3>1, DeadlinesAreNumbers DEF TypeOK
    <3>4. NoLater(x.expiresAt, rsv'[x.reservation].expiresAt)
      BY <3>1, <3>2, <3>3, NoLaterChains
    <3> QED
      BY <3>1, <3>2, <3>4
  <2>2. CASE x \notin answers
    BY <2>2 DEF StepOK
  <2> QED
    BY <2>1, <2>2
<1>3. HoldEndsByDeadline'
  <2> SUFFICES ASSUME NEW r \in Reservations, instr'[r].exists
               PROVE  /\ r \in Own
                      /\ rsv'[r].phase # ""
                      /\ NoLater(instr'[r].expiresAt, rsv'[r].expiresAt)
    BY DEF HoldEndsByDeadline
  <2>1. CASE instr'[r] = instr[r]
    <3>1. /\ r \in Own /\ rsv[r].phase # ""
          /\ NoLater(instr'[r].expiresAt, rsv[r].expiresAt)
      BY <2>1 DEF AgentInv, HoldEndsByDeadline
    <3>2. rsv'[r].phase # "" /\ NoLater(rsv[r].expiresAt, rsv'[r].expiresAt)
      BY <1>1, <3>1 DEF BrokerKeeps
    <3>3. instr'[r].expiresAt \in Nat /\ rsv[r].expiresAt \in Nat /\ rsv'[r].expiresAt \in Nat
      BY <1>1, DeadlinesAreNumbers DEF TypeOK
    <3>4. NoLater(instr'[r].expiresAt, rsv'[r].expiresAt)
      BY <3>1, <3>2, <3>3, NoLaterChains
    <3> QED
      BY <3>1, <3>2, <3>4
  <2>2. CASE instr'[r] # instr[r]
    BY <2>2 DEF StepOK, Changes
  <2> QED
    BY <2>1, <2>2
<1>4. \A r \in Reservations : instr'[r].enforced => instr'[r].exists /\ rsv'[r].kubeconfig
  BY DEF AgentInv, StepOK, Changes, BrokerKeeps
<1>5. \A r \in Reservations : OlderCopy(icache'[r], instr'[r])
  <2> TAKE r \in Reservations
  <2>1. /\ icache[r] \in Instruction /\ instr[r] \in Instruction /\ instr'[r] \in Instruction
        /\ OlderCopy(icache[r], instr[r])
        /\ instr'[r] = instr[r] \/ instr'[r].rv = instr[r].rv + 1
    BY <1>1 DEF TypeOK, AgentInv, StepOK, Changes
  <2>2. OlderCopy(icache[r], instr'[r])
    BY <2>1, OlderCopyStays
  <2>3. OlderCopy(instr'[r], instr'[r])
    BY <2>1 DEF OlderCopy, Instruction
  <2> QED
    BY <2>2, <2>3 DEF StepOK
<1> QED
  BY <1>1, <1>2, <1>3, <1>4, <1>5 DEF AgentInv, StepOK

-----------------------------------------------------------------------------
(* The steps.                                                              *)

LEMMA SameBroker ==
  ASSUME TypeOK, UNCHANGED rsv
  PROVE  BrokerKeeps
<1>1. \A r \in Reservations : NoLater(rsv[r].expiresAt, rsv[r].expiresAt)
  BY DeadlinesAreNumbers, NoLaterIsReflexive DEF TypeOK
<1> QED
  BY <1>1 DEF BrokerKeeps

LEMMA SameInstructions ==
  ASSUME UNCHANGED instr
  PROVE  \A r \in Reservations : Changes(r)
  BY DEF Changes

(* A call of the worker that ends leaves nothing to be known, and one that *)
(* is going on stays what it was.                                          *)
LEMMA WorkerStays ==
  ASSUME AgentInv, TypeOK', BrokerKeeps, \A r \in Reservations : Changes(r),
         clock' \in {clock, clock + 1}, ppc' = "idle" \/ UNCHANGED worker
  PROVE  WorkerInv'
<1> SUFFICES ASSUME ppc # "idle", UNCHANGED worker
             PROVE  WorkerInv'
  BY DEF WorkerInv, worker
<1>1. /\ pr \in Reservations /\ pobj.exists /\ OlderCopy(pobj, instr[pr])
      /\ ppc = "enforce" => rsv[pr].kubeconfig
      /\ ppc = "expire" => HasExpired(pobj)
  BY DEF AgentInv, WorkerInv
<1>2. UNCHANGED <<ppc, pr, pobj>>
  BY DEF worker
<1>3. OlderCopy(pobj, instr'[pr])
  <2>1. /\ pobj \in Instruction /\ instr[pr] \in Instruction /\ instr'[pr] \in Instruction
        /\ instr'[pr] = instr[pr] \/ instr'[pr].rv = instr[pr].rv + 1
    BY <1>1 DEF AgentInv, TypeOK, Changes
  <2> QED
    BY <1>1, <2>1, OlderCopyStays
<1>4. ppc = "enforce" => rsv'[pr].kubeconfig
  BY <1>1 DEF BrokerKeeps
<1>5. ppc = "expire" => pobj.expiresAt > 0 /\ pobj.expiresAt < clock'
  <2>1. pobj.expiresAt \in Nat /\ clock \in Int
    BY AgentBoundsAssumption DEF AgentInv, TypeOK, Instruction
  <2> QED
    BY <1>1, <2>1 DEF HasExpired
<1>6. ppc = "expire" => HasExpired(pobj)'
  BY <1>2, <1>5 DEF HasExpired
<1>7. /\ pr' \in Reservations /\ pobj'.exists /\ OlderCopy(pobj', instr'[pr'])
      /\ ppc' = "enforce" => rsv'[pr'].kubeconfig
      /\ ppc' = "expire" => HasExpired(pobj)'
  BY <1>1, <1>2, <1>3, <1>4, <1>6
<1> QED
  BY <1>7 DEF WorkerInv

(* Steps that change no instruction and leave the worker alone.            *)
LEMMA QuietStep ==
  ASSUME AgentInv, TypeOK', BrokerKeeps, UNCHANGED instr,
         \A r \in Reservations : icache'[r] \in {icache[r], instr'[r]},
         clock' \in {clock, clock + 1}, ppc' = "idle" \/ UNCHANGED worker,
         \A x \in answers' :
           \/ x \in answers
           \/ /\ x.reservation \in Own
              /\ rsv'[x.reservation].phase # ""
              /\ NoLater(x.expiresAt, rsv'[x.reservation].expiresAt)
  PROVE  StepOK
<1>1. \A r \in Reservations : Changes(r)
  BY SameInstructions
<1>2. WorkerInv'
  BY <1>1, WorkerStays
<1> QED
  BY <1>1, <1>2 DEF StepOK

(* The steps that change one reservation.                                  *)
LEMMA ReservationWritten ==
  ASSUME AgentInv, NEW r \in Own, BrokerLock(r) \/ BrokerReserve(r) \/ BrokerRenew(r) \/ BrokerEnd(r)
  PROVE  \E b \in BrokerReservation :
           /\ rsv' = [rsv EXCEPT ![r] = b]
           /\ b.kubeconfig = rsv[r].kubeconfig
           /\ rsv[r].phase # "" => b.phase # "" /\ NoLater(rsv[r].expiresAt, b.expiresAt)
<1>0. /\ rsv \in [Reservations -> BrokerReservation] /\ rsv[r] \in BrokerReservation
      /\ rsv[r].expiresAt \in Nat
      /\ NoLater(rsv[r].expiresAt, rsv[r].expiresAt)
  BY ReservationsAssumption, DeadlinesAreNumbers, NoLaterIsReflexive DEF AgentInv, TypeOK
<1>d. \A d \in Durations : Deadline(d) < MaxTime => Deadline(d) \in 0 .. MaxTime
  <2> TAKE d \in Durations
  <2>1. clock \in Nat /\ d \in Nat
    BY AgentBoundsAssumption, ReservationsAssumption DEF AgentInv, TypeOK
  <2> QED
    BY <2>1, AgentBoundsAssumption DEF Deadline
<1>1. CASE BrokerLock(r)
  <2> DEFINE b == [rsv[r] EXCEPT !.locked = TRUE]
  <2>1. /\ b \in BrokerReservation /\ b.kubeconfig = rsv[r].kubeconfig
        /\ b.phase = rsv[r].phase /\ b.expiresAt = rsv[r].expiresAt
        /\ rsv' = [rsv EXCEPT ![r] = b]
    BY <1>0, <1>1 DEF BrokerLock, BrokerReservation
  <2> HIDE DEF b
  <2> QED
    BY <1>0, <2>1
<1>2. CASE BrokerReserve(r) \/ BrokerRenew(r)
  <2>1. PICK d \in Durations :
          /\ Deadline(d) < MaxTime
          /\ rsv' = [rsv EXCEPT ![r].phase = "Reserved", ![r].expiresAt = Deadline(d)]
          /\ rsv[r].phase # "" => NoLater(rsv[r].expiresAt, Deadline(d))
    BY <1>2 DEF BrokerReserve, BrokerRenew
  <2>2. Deadline(d) \in 0 .. MaxTime
    BY <1>d, <2>1
  <2> DEFINE b == [rsv[r] EXCEPT !.phase = "Reserved", !.expiresAt = Deadline(d)]
  <2>3. /\ b \in BrokerReservation /\ b.kubeconfig = rsv[r].kubeconfig
        /\ b.phase = "Reserved" /\ b.expiresAt = Deadline(d)
        /\ rsv' = [rsv EXCEPT ![r] = b]
    BY <1>0, <2>1, <2>2 DEF BrokerReservation
  <2> HIDE DEF b
  <2> QED
    BY <2>1, <2>3
<1>3. CASE BrokerEnd(r)
  <2>1. PICK phase \in {"Ended", "Gone"} : rsv' = [rsv EXCEPT ![r].phase = phase]
    BY <1>3 DEF BrokerEnd
  <2> DEFINE b == [rsv[r] EXCEPT !.phase = phase]
  <2>2. /\ b \in BrokerReservation /\ b.kubeconfig = rsv[r].kubeconfig
        /\ b.phase # "" /\ b.expiresAt = rsv[r].expiresAt
        /\ rsv' = [rsv EXCEPT ![r] = b]
    BY <1>0, <2>1 DEF BrokerReservation
  <2> HIDE DEF b
  <2> QED
    BY <1>0, <2>2
<1> QED
  BY <1>1, <1>2, <1>3

LEMMA BrokerStep ==
  ASSUME AgentInv, NEW r \in Own,
         \/ BrokerLock(r) \/ BrokerReserve(r) \/ BrokerRenew(r)
         \/ BrokerRelease(r) \/ BrokerEnd(r)
  PROVE  StepOK
<1>1. /\ UNCHANGED <<instr, icache, clusterVars, publisher, answers, queue, worker, clock, changes>>
      /\ r \in Reservations
  BY ReservationsAssumption
     DEF BrokerLock, BrokerReserve, BrokerRenew, BrokerRelease, BrokerEnd, counts
<1>2. rsv' \in [Reservations -> BrokerReservation] /\ BrokerKeeps
  <2>1. CASE BrokerRelease(r)
    <3>1. UNCHANGED rsv
      BY <2>1 DEF BrokerRelease
    <3> QED
      BY <3>1, SameBroker DEF AgentInv, TypeOK
  <2>2. CASE ~ BrokerRelease(r)
    <3>1. PICK b \in BrokerReservation :
            /\ rsv' = [rsv EXCEPT ![r] = b]
            /\ b.kubeconfig = rsv[r].kubeconfig
            /\ rsv[r].phase # "" => b.phase # "" /\ NoLater(rsv[r].expiresAt, b.expiresAt)
      BY <2>2, ReservationWritten
    <3>2. /\ rsv' \in [Reservations -> BrokerReservation] /\ rsv'[r] = b
          /\ \A q \in Reservations \ {r} : rsv'[q] = rsv[q]
      BY <1>1, <3>1 DEF AgentInv, TypeOK
    <3>3. \A q \in Reservations : NoLater(rsv[q].expiresAt, rsv[q].expiresAt)
      BY DeadlinesAreNumbers, NoLaterIsReflexive DEF AgentInv, TypeOK
    <3> QED
      BY <3>1, <3>2, <3>3 DEF BrokerKeeps
  <2> QED
    BY <2>1, <2>2
<1>3. faults' \in 0 .. MaxFaults
  BY BoundsType
     DEF AgentInv, TypeOK, BrokerLock, BrokerReserve, BrokerRenew, BrokerRelease, BrokerEnd,
         Fault, counts
<1>4. TypeOK'
  BY <1>1, <1>2, <1>3 DEF AgentInv, TypeOK, clusterVars, publisher, worker
<1>5. /\ \A q \in Reservations : icache'[q] \in {icache[q], instr'[q]}
      /\ \A x \in answers' : x \in answers
      /\ clock' \in {clock, clock + 1}
      /\ UNCHANGED instr /\ UNCHANGED worker
  BY <1>1
<1> QED
  BY <1>2, <1>4, <1>5, QuietStep

(* An entry of a list the broker sends now.                                *)
LEMMA Listed ==
  ASSUME AgentInv, UNCHANGED rsv, NEW x \in GetInstructions
  PROVE  /\ x \in Listing /\ x.reservation \in Own
         /\ rsv'[x.reservation].phase # ""
         /\ NoLater(x.expiresAt, rsv'[x.reservation].expiresAt)
<1>1. PICK r \in Own : /\ rsv[r].phase = "Reserved"
                       /\ x = [reservation |-> r, expiresAt |-> rsv[r].expiresAt]
  BY DEF GetInstructions
<1>2. /\ r \in Reservations
      /\ rsv[r].expiresAt \in 0 .. MaxTime /\ rsv[r].expiresAt \in Nat
  BY ReservationsAssumption, DeadlinesAreNumbers DEF AgentInv, TypeOK, BrokerReservation
<1>3. x \in Listing /\ x.reservation = r /\ x.expiresAt = rsv[r].expiresAt
  BY <1>1, <1>2 DEF Listing
<1>4. NoLater(rsv[r].expiresAt, rsv[r].expiresAt)
  BY <1>2, NoLaterIsReflexive
<1> QED
  BY <1>1, <1>3, <1>4

(* What the publisher and the poller do, and the cluster and time.         *)
LEMMA ReportingStep ==
  ASSUME AgentInv,
         \/ Collect \/ PublishAdvertisement \/ LateReport \/ FetchInstructions
         \/ ClusterChanges \/ Tick
  PROVE  StepOK
<1>1. /\ UNCHANGED rsv /\ UNCHANGED instr /\ UNCHANGED icache /\ UNCHANGED worker
      /\ UNCHANGED queue
  BY DEF Collect, PublishAdvertisement, LateReport, FetchInstructions, ClusterChanges, Tick,
         brokerVars
<1>2. answers' \subseteq answers \cup GetInstructions
  BY DEF Collect, PublishAdvertisement, Attempt, GiveUpPublishing, Piggybacked, LateReport,
         FetchInstructions, ClusterChanges, Tick
<1>3. BrokerKeeps
  BY <1>1, SameBroker DEF AgentInv
<1>4. clock' \in {clock, clock + 1} /\ clock' \in 0 .. MaxTime
  BY BoundsType DEF AgentInv, TypeOK, Collect, PublishAdvertisement, LateReport,
     FetchInstructions, ClusterChanges, Tick
<1>5. changes' \in 0 .. MaxChanges
  BY BoundsType DEF AgentInv, TypeOK, Collect, PublishAdvertisement, LateReport,
     FetchInstructions, ClusterChanges, Tick, counts
<1>6. faults' \in 0 .. MaxFaults
  BY BoundsType DEF AgentInv, TypeOK, Collect, PublishAdvertisement, Attempt, GiveUpPublishing,
     Fault, LateReport, FetchInstructions, ClusterChanges, Tick, counts
<1>7. ready' \subseteq NodeNames /\ scheduled' \subseteq PodNames
  <2>1. CASE ClusterChanges
    BY <2>1 DEF ClusterChanges, AgentInv, TypeOK
  <2>2. CASE UNCHANGED clusterVars
    BY <2>2 DEF clusterVars, AgentInv, TypeOK
  <2> QED
    BY <2>1, <2>2 DEF Collect, PublishAdvertisement, LateReport, FetchInstructions, Tick
<1>8. apc' \in {"idle", "publish"}
  BY DEF AgentInv, TypeOK, Collect, PublishAdvertisement, Attempt, GiveUpPublishing, LateReport,
         FetchInstructions, ClusterChanges, Tick, publisher
<1>9. answers' \subseteq Listing
  BY <1>1, <1>2, Listed DEF AgentInv, TypeOK
<1>10. TypeOK'
  BY <1>1, <1>4, <1>5, <1>6, <1>7, <1>8, <1>9 DEF AgentInv, TypeOK, worker
<1>11. \A x \in answers' :
         \/ x \in answers
         \/ /\ x.reservation \in Own
            /\ rsv'[x.reservation].phase # ""
            /\ NoLater(x.expiresAt, rsv'[x.reservation].expiresAt)
  BY <1>1, <1>2, Listed
<1>12. \A q \in Reservations : icache'[q] \in {icache[q], instr'[q]}
  BY <1>1
<1> QED
  BY <1>1, <1>3, <1>4, <1>10, <1>11, <1>12, QuietStep

LEMMA WatchStep ==
  ASSUME AgentInv, NEW r \in Reservations, SyncInstruction(r)
  PROVE  StepOK
<1>1. /\ UNCHANGED rsv /\ UNCHANGED instr /\ UNCHANGED worker /\ UNCHANGED clock
      /\ UNCHANGED answers
      /\ icache' = [icache EXCEPT ![r] = instr[r]] /\ queue' = queue \cup {r}
  BY DEF SyncInstruction, brokerVars
<1>2. BrokerKeeps
  BY <1>1, SameBroker DEF AgentInv
<1>3. TypeOK'
  BY <1>1 DEF AgentInv, TypeOK, worker, SyncInstruction, clusterVars, publisher, counts
<1>4. \A q \in Reservations : icache'[q] \in {icache[q], instr'[q]}
  BY <1>1 DEF AgentInv, TypeOK
<1>5. /\ clock' \in {clock, clock + 1}
      /\ \A x \in answers' : x \in answers
  BY <1>1
<1> QED
  BY <1>1, <1>2, <1>3, <1>4, <1>5, QuietStep

LEMMA CrashStep ==
  ASSUME AgentInv, Crash
  PROVE  StepOK
<1>1. /\ UNCHANGED rsv /\ UNCHANGED instr /\ UNCHANGED clock
      /\ icache' = instr /\ ppc' = "idle" /\ answers' = {}
      /\ queue' \subseteq Reservations /\ apc' = "idle"
  BY DEF Crash, brokerVars, Finish
<1>2. BrokerKeeps
  BY <1>1, SameBroker DEF AgentInv
<1>3. faults' \in 0 .. MaxFaults
  BY BoundsType DEF AgentInv, TypeOK, Crash, Fault
<1>4. TypeOK'
  BY <1>1, <1>3, NoInstructionType DEF AgentInv, TypeOK, Crash, Finish, clusterVars
<1>5. \A q \in Reservations : icache'[q] \in {icache[q], instr'[q]}
  BY <1>1
<1>6. /\ clock' \in {clock, clock + 1}
      /\ \A x \in answers' : x \in answers
  BY <1>1
<1> QED
  BY <1>1, <1>2, <1>4, <1>5, <1>6, QuietStep

LEMMA StutterStep ==
  ASSUME AgentInv, UNCHANGED vars
  PROVE  StepOK
<1>1. /\ UNCHANGED rsv /\ UNCHANGED instr /\ UNCHANGED icache /\ UNCHANGED clock
      /\ UNCHANGED worker /\ UNCHANGED answers
  BY DEF vars, brokerVars
<1>2. BrokerKeeps
  BY <1>1, SameBroker DEF AgentInv
<1>3. TypeOK'
  BY DEF AgentInv, TypeOK, vars, brokerVars, clusterVars, publisher, worker, counts
<1>4. /\ \A q \in Reservations : icache'[q] \in {icache[q], instr'[q]}
      /\ clock' \in {clock, clock + 1}
      /\ \A x \in answers' : x \in answers
  BY <1>1
<1> QED
  BY <1>1, <1>2, <1>3, <1>4, QuietStep

LEMMA StartReconcileStep ==
  ASSUME AgentInv, NEW r \in Reservations, StartReconcile(r)
  PROVE  StepOK
<1> DEFINE o == icache[r]
<1>1. /\ UNCHANGED rsv /\ UNCHANGED instr /\ UNCHANGED icache /\ UNCHANGED clock
      /\ UNCHANGED answers /\ UNCHANGED apc /\ UNCHANGED clusterVars /\ UNCHANGED counts
      /\ queue' \subseteq queue
  BY DEF StartReconcile, brokerVars, publisher
<1>2. BrokerKeeps
  BY <1>1, SameBroker DEF AgentInv
<1>3. /\ \A q \in Reservations : icache'[q] \in {icache[q], instr'[q]}
      /\ clock' \in {clock, clock + 1}
      /\ \A x \in answers' : x \in answers
  BY <1>1
<1>4. ASSUME UNCHANGED worker
      PROVE  StepOK
  <2>1. TypeOK'
    BY <1>1, <1>4 DEF AgentInv, TypeOK, worker, clusterVars, counts
  <2> QED
    BY <1>1, <1>2, <1>3, <1>4, <2>1, QuietStep
<1>5. ASSUME o.exists, pr' = r, pobj' = o,
             ppc' = IF HasExpired(o) THEN "expire" ELSE "upload"
      PROVE  StepOK
  <2>1. o \in Instruction /\ OlderCopy(o, instr[r])
    BY DEF AgentInv, TypeOK
  <2> HIDE DEF o
  <2>2. TypeOK'
    BY <1>1, <1>5, <2>1 DEF AgentInv, TypeOK, clusterVars, counts
  <2>3. ppc' = "expire" => HasExpired(pobj)'
    BY <1>1, <1>5 DEF HasExpired
  <2>4. WorkerInv'
    BY <1>1, <1>5, <2>1, <2>3 DEF WorkerInv
  <2>5. \A q \in Reservations : Changes(q)
    BY <1>1, SameInstructions
  <2> QED
    BY <1>2, <1>3, <2>2, <2>4, <2>5 DEF StepOK
<1> QED
  BY <1>4, <1>5 DEF StartReconcile

LEMMA CallReturns ==
  ASSUME TypeOK, pr \in Reservations, Done \/ Requeue
  PROVE  /\ ppc' = "idle" /\ queue' \subseteq Reservations
         /\ pr' \in Reservations \cup {None} /\ pobj' \in Instruction
  BY NoInstructionType DEF Done, Requeue, Finish, TypeOK

(* The broker has the kubeconfig before the worker goes on to say so.      *)
LEMMA UploadStep ==
  ASSUME AgentInv, UploadPeeringKubeconfig
  PROVE  StepOK
<1>1. /\ UNCHANGED instr /\ UNCHANGED icache /\ UNCHANGED clock
      /\ UNCHANGED answers /\ UNCHANGED apc /\ UNCHANGED clusterVars /\ UNCHANGED counts
      /\ ppc = "upload"
  BY DEF UploadPeeringKubeconfig, publisher
<1>2. pr \in Reservations /\ rsv[pr] \in BrokerReservation
  BY <1>1 DEF AgentInv, WorkerInv, TypeOK
<1>3. /\ rsv' \in [Reservations -> BrokerReservation] /\ BrokerKeeps
      /\ Uploaded => rsv'[pr].kubeconfig
  <2>1. ASSUME Uploaded
        PROVE  /\ rsv' \in [Reservations -> BrokerReservation] /\ BrokerKeeps
               /\ rsv'[pr].kubeconfig
    <3> DEFINE b == [rsv[pr] EXCEPT !.kubeconfig = TRUE]
    <3>1. /\ b \in BrokerReservation /\ b.kubeconfig = TRUE
          /\ b.phase = rsv[pr].phase /\ b.expiresAt = rsv[pr].expiresAt
      BY <1>2 DEF BrokerReservation
    <3>2. rsv' = [rsv EXCEPT ![pr] = b]
      BY <2>1, <1>2 DEF Uploaded, AgentInv, TypeOK
    <3> HIDE DEF b
    <3>3. /\ rsv' \in [Reservations -> BrokerReservation] /\ rsv'[pr] = b
          /\ \A q \in Reservations \ {pr} : rsv'[q] = rsv[q]
      BY <1>2, <3>1, <3>2 DEF AgentInv, TypeOK
    <3>4. \A q \in Reservations : NoLater(rsv[q].expiresAt, rsv[q].expiresAt)
      BY DeadlinesAreNumbers, NoLaterIsReflexive DEF AgentInv, TypeOK
    <3>5. BrokerKeeps
      BY <3>1, <3>3, <3>4, Zenon DEF BrokerKeeps
    <3> QED
      BY <3>1, <3>3, <3>5
  <2>2. ASSUME UNCHANGED rsv
        PROVE  rsv' \in [Reservations -> BrokerReservation] /\ BrokerKeeps
    BY <2>2, SameBroker DEF AgentInv, TypeOK
  <2> QED
    BY <2>1, <2>2 DEF UploadPeeringKubeconfig
<1>4. /\ \A q \in Reservations : icache'[q] \in {icache[q], instr'[q]}
      /\ clock' \in {clock, clock + 1}
      /\ \A x \in answers' : x \in answers
  BY <1>1
<1>5. ASSUME Requeue
      PROVE  StepOK
  <2>1. /\ ppc' = "idle" /\ queue' \subseteq Reservations
        /\ pr' \in Reservations \cup {None} /\ pobj' \in Instruction
    BY <1>2, <1>5, CallReturns DEF AgentInv
  <2>2. TypeOK'
    BY <1>1, <1>3, <2>1 DEF AgentInv, TypeOK, clusterVars, counts
  <2> QED
    BY <1>1, <1>3, <1>4, <2>1, <2>2, QuietStep
<1>6. ASSUME Uploaded, ppc' = "enforce", UNCHANGED <<pr, pobj, queue>>
      PROVE  StepOK
  <2>1. TypeOK'
    BY <1>1, <1>3, <1>6 DEF AgentInv, TypeOK, clusterVars, counts
  <2>2. pobj.exists /\ OlderCopy(pobj, instr[pr])
    BY <1>1 DEF AgentInv, WorkerInv
  <2>3. WorkerInv'
    BY <1>1, <1>2, <1>3, <1>6, <2>2 DEF WorkerInv
  <2>4. \A q \in Reservations : Changes(q)
    BY <1>1, SameInstructions
  <2> QED
    BY <1>3, <1>4, <2>1, <2>3, <2>4 DEF StepOK
<1> QED
  BY <1>5, <1>6 DEF UploadPeeringKubeconfig

(* What is written to an instruction.                                      *)
LEMMA PutInstrFacts ==
  ASSUME instr \in [Reservations -> Instruction],
         NEW r \in Reservations, NEW o \in Instruction, PutInstr(r, o)
  PROVE  /\ instr' \in [Reservations -> Instruction]
         /\ \A q \in Reservations \ {r} : instr'[q] = instr[q]
         /\ \/ instr'[r] = instr[r]
            \/ /\ instr'[r].rv = instr[r].rv + 1
               /\ instr'[r].exists = o.exists /\ instr'[r].enforced = o.enforced
               /\ instr'[r].expiresAt = o.expiresAt
<1>1. CASE UNCHANGED instr
  BY <1>1
<1>2. CASE instr' = [instr EXCEPT ![r] = [o EXCEPT !.rv = instr[r].rv + 1]]
  <2> DEFINE n == [o EXCEPT !.rv = instr[r].rv + 1]
  <2>1. instr[r].rv + 1 \in Nat
    BY DEF Instruction
  <2>2. /\ n \in Instruction /\ n.rv = instr[r].rv + 1
        /\ n.exists = o.exists /\ n.enforced = o.enforced /\ n.expiresAt = o.expiresAt
    BY <2>1 DEF Instruction
  <2>3. instr' = [instr EXCEPT ![r] = n]
    BY <1>2
  <2> HIDE DEF n
  <2>4. /\ instr' \in [Reservations -> Instruction] /\ instr'[r] = n
        /\ \A q \in Reservations \ {r} : instr'[q] = instr[q]
    BY <2>2, <2>3
  <2> QED
    BY <2>2, <2>4
<1> QED
  BY <1>1, <1>2 DEF PutInstr

(* A status update is accepted for the version that was read: the expiry   *)
(* and the reservation are those of the copy.                              *)
LEMMA MarkEnforcedStep ==
  ASSUME AgentInv, MarkEnforced
  PROVE  StepOK
<1> DEFINE o == [pobj EXCEPT !.enforced = TRUE]
<1>1. /\ UNCHANGED rsv /\ UNCHANGED icache /\ UNCHANGED clock
      /\ UNCHANGED answers /\ UNCHANGED apc /\ UNCHANGED clusterVars /\ UNCHANGED counts
      /\ ppc = "enforce"
      /\ Done \/ Requeue
  BY DEF MarkEnforced, brokerVars, publisher
<1>2. /\ pr \in Reservations /\ pobj \in Instruction /\ instr[pr] \in Instruction
      /\ pobj.exists /\ OlderCopy(pobj, instr[pr])
      /\ rsv[pr].kubeconfig
  BY <1>1 DEF AgentInv, WorkerInv, TypeOK
<1>3. instr' \in [Reservations -> Instruction] /\ \A q \in Reservations : Changes(q)
  <2>1. ASSUME pobj.rv = instr[pr].rv, PutInstr(pr, o)
        PROVE  instr' \in [Reservations -> Instruction] /\ \A q \in Reservations : Changes(q)
    <3>1. pobj = instr[pr]
      BY <1>2, <2>1 DEF OlderCopy
    <3>2. /\ o \in Instruction /\ o.enforced = TRUE
          /\ o.exists = pobj.exists /\ o.expiresAt = pobj.expiresAt
      BY <1>2 DEF Instruction
    <3> HIDE DEF o
    <3>3. /\ pr \in Own /\ rsv'[pr].phase # ""
          /\ NoLater(instr[pr].expiresAt, rsv'[pr].expiresAt)
      BY <1>1, <1>2, <3>1 DEF AgentInv, HoldEndsByDeadline
    <3>4. /\ instr' \in [Reservations -> Instruction]
          /\ \A q \in Reservations \ {pr} : instr'[q] = instr[q]
          /\ \/ instr'[pr] = instr[pr]
             \/ /\ instr'[pr].rv = instr[pr].rv + 1
                /\ instr'[pr].exists = o.exists /\ instr'[pr].enforced = o.enforced
                /\ instr'[pr].expiresAt = o.expiresAt
      BY <1>2, <2>1, <3>2, PutInstrFacts DEF AgentInv, TypeOK
    <3>5. Changes(pr)
      <4>1. /\ instr'[pr] # instr[pr] => instr'[pr].exists /\ rsv'[pr].kubeconfig
            /\ instr'[pr] # instr[pr] => instr'[pr].enforced
        BY <1>1, <1>2, <3>2, <3>4
      <4> QED
        BY <3>1, <3>2, <3>3, <3>4, <4>1, Zenon DEF Changes
    <3> QED
      BY <3>4, <3>5 DEF Changes
  <2>2. ASSUME UNCHANGED instr
        PROVE  instr' \in [Reservations -> Instruction] /\ \A q \in Reservations : Changes(q)
    BY <2>2, SameInstructions DEF AgentInv, TypeOK
  <2> QED
    BY <2>1, <2>2 DEF MarkEnforced
<1>4. /\ ppc' = "idle" /\ queue' \subseteq Reservations
      /\ pr' \in Reservations \cup {None} /\ pobj' \in Instruction
  BY <1>1, <1>2, CallReturns DEF AgentInv
<1>5. TypeOK'
  BY <1>1, <1>3, <1>4 DEF AgentInv, TypeOK, clusterVars, counts
<1>6. BrokerKeeps
  BY <1>1, SameBroker DEF AgentInv
<1>7. /\ \A q \in Reservations : icache'[q] \in {icache[q], instr'[q]}
      /\ \A x \in answers' : x \in answers
  BY <1>1
<1>8. WorkerInv'
  BY <1>4 DEF WorkerInv
<1> QED
  BY <1>3, <1>5, <1>6, <1>7, <1>8 DEF StepOK

LEMMA MarkExpiredStep ==
  ASSUME AgentInv, MarkExpired
  PROVE  StepOK
<1> DEFINE o == [pobj EXCEPT !.enforced = FALSE]
<1>1. /\ UNCHANGED rsv /\ UNCHANGED icache /\ UNCHANGED clock
      /\ UNCHANGED answers /\ UNCHANGED apc /\ UNCHANGED clusterVars /\ UNCHANGED counts
      /\ ppc = "expire"
      /\ Done \/ Requeue
  BY DEF MarkExpired, brokerVars, publisher
<1>2. /\ pr \in Reservations /\ pobj \in Instruction /\ instr[pr] \in Instruction
      /\ pobj.exists /\ OlderCopy(pobj, instr[pr])
      /\ HasExpired(pobj)
  BY <1>1 DEF AgentInv, WorkerInv, TypeOK
<1>3. instr' \in [Reservations -> Instruction] /\ \A q \in Reservations : Changes(q)
  <2>1. ASSUME pobj.rv = instr[pr].rv, PutInstr(pr, o)
        PROVE  instr' \in [Reservations -> Instruction] /\ \A q \in Reservations : Changes(q)
    <3>1. pobj = instr[pr]
      BY <1>2, <2>1 DEF OlderCopy
    <3>2. /\ o \in Instruction /\ o.enforced = FALSE
          /\ o.exists = pobj.exists /\ o.expiresAt = pobj.expiresAt
      BY <1>2 DEF Instruction
    <3> HIDE DEF o
    <3>3. /\ pr \in Own /\ rsv'[pr].phase # ""
          /\ NoLater(instr[pr].expiresAt, rsv'[pr].expiresAt)
      BY <1>1, <1>2, <3>1 DEF AgentInv, HoldEndsByDeadline
    <3>4. /\ instr' \in [Reservations -> Instruction]
          /\ \A q \in Reservations \ {pr} : instr'[q] = instr[q]
          /\ \/ instr'[pr] = instr[pr]
             \/ /\ instr'[pr].rv = instr[pr].rv + 1
                /\ instr'[pr].exists = o.exists /\ instr'[pr].enforced = o.enforced
                /\ instr'[pr].expiresAt = o.expiresAt
      BY <1>2, <2>1, <3>2, PutInstrFacts DEF AgentInv, TypeOK
    <3>5. Changes(pr)
      <4>1. HasExpired(instr[pr])
        BY <1>2, <3>1
      <4>2. instr'[pr] # instr[pr] => ~ instr'[pr].enforced
        BY <3>2, <3>4
      <4> QED
        BY <3>1, <3>2, <3>3, <3>4, <4>1, <4>2, Zenon DEF Changes
    <3> QED
      BY <3>4, <3>5 DEF Changes
  <2>2. ASSUME UNCHANGED instr
        PROVE  instr' \in [Reservations -> Instruction] /\ \A q \in Reservations : Changes(q)
    BY <2>2, SameInstructions DEF AgentInv, TypeOK
  <2> QED
    BY <2>1, <2>2 DEF MarkExpired
<1>4. /\ ppc' = "idle" /\ queue' \subseteq Reservations
      /\ pr' \in Reservations \cup {None} /\ pobj' \in Instruction
  BY <1>1, <1>2, CallReturns DEF AgentInv
<1>5. TypeOK'
  BY <1>1, <1>3, <1>4 DEF AgentInv, TypeOK, clusterVars, counts
<1>6. BrokerKeeps
  BY <1>1, SameBroker DEF AgentInv
<1>7. /\ \A q \in Reservations : icache'[q] \in {icache[q], instr'[q]}
      /\ \A x \in answers' : x \in answers
  BY <1>1
<1>8. WorkerInv'
  BY <1>4 DEF WorkerInv
<1> QED
  BY <1>3, <1>5, <1>6, <1>7, <1>8 DEF StepOK

(* An instruction is created with the deadline of a list of the broker.    *)
LEMMA ProcessStep ==
  ASSUME AgentInv, ProcessProviderInstructions
  PROVE  StepOK
<1>1. PICK x \in answers : ProcessInstruction(x)
  BY DEF ProcessProviderInstructions
<1> DEFINE r == x.reservation
           o == [instr[r] EXCEPT !.exists = TRUE, !.enforced = FALSE, !.expiresAt = ExpiryOf(x)]
<1>2. /\ UNCHANGED rsv /\ UNCHANGED icache /\ UNCHANGED clock /\ UNCHANGED worker
      /\ UNCHANGED queue /\ UNCHANGED apc /\ UNCHANGED clusterVars /\ UNCHANGED counts
      /\ answers' \subseteq answers
  BY <1>1 DEF ProcessInstruction, brokerVars, publisher
<1>3. /\ r \in Own /\ r \in Reservations /\ rsv[r].phase # ""
      /\ NoLater(x.expiresAt, rsv[r].expiresAt) /\ x.expiresAt \in Nat
  <2>1. /\ r \in Own /\ r \in Reservations /\ rsv[r].phase # ""
        /\ NoLater(x.expiresAt, rsv[r].expiresAt)
    BY ReservationsAssumption DEF AgentInv, ListedByBroker
  <2>2. x \in Listing
    BY DEF AgentInv, TypeOK
  <2>3. x.expiresAt \in 0 .. MaxTime
    BY <2>2 DEF Listing
  <2>4. x.expiresAt \in Nat
    BY <2>3, AgentBoundsAssumption
  <2> QED
    BY <2>1, <2>4
<1>4. instr' \in [Reservations -> Instruction] /\ \A q \in Reservations : Changes(q)
  <2>1. ASSUME ~ instr[r].exists, PutInstr(r, o)
        PROVE  instr' \in [Reservations -> Instruction] /\ \A q \in Reservations : Changes(q)
    <3>1. instr[r] \in Instruction
      BY <1>3 DEF AgentInv, TypeOK
    <3>2. /\ o \in Instruction /\ o.exists = TRUE /\ o.enforced = FALSE
          /\ o.expiresAt = x.expiresAt
      BY <1>3, <3>1 DEF Instruction, ExpiryOf
    <3>3. ~ instr[r].enforced
      BY <1>3, <2>1 DEF AgentInv
    <3> HIDE DEF o, r
    <3>4. /\ instr' \in [Reservations -> Instruction]
          /\ \A q \in Reservations \ {r} : instr'[q] = instr[q]
          /\ \/ instr'[r] = instr[r]
             \/ /\ instr'[r].rv = instr[r].rv + 1
                /\ instr'[r].exists = o.exists /\ instr'[r].enforced = o.enforced
                /\ instr'[r].expiresAt = o.expiresAt
      BY <1>3, <2>1, <3>2, PutInstrFacts DEF AgentInv, TypeOK
    <3>5. Changes(r)
      <4>1. rsv'[r] = rsv[r] /\ (instr'[r] # instr[r] => ~ instr'[r].enforced)
        BY <1>2, <3>2, <3>4
      <4> QED
        BY <1>3, <3>2, <3>3, <3>4, <4>1, Zenon DEF Changes
    <3> QED
      BY <3>4, <3>5 DEF Changes
  <2>2. ASSUME UNCHANGED instr
        PROVE  instr' \in [Reservations -> Instruction] /\ \A q \in Reservations : Changes(q)
    BY <2>2, SameInstructions DEF AgentInv, TypeOK
  <2> QED
    BY <1>1, <2>1, <2>2 DEF ProcessInstruction
<1>5. TypeOK'
  BY <1>2, <1>4 DEF AgentInv, TypeOK, worker, clusterVars, counts
<1>6. BrokerKeeps
  BY <1>2, SameBroker DEF AgentInv
<1>7. /\ \A q \in Reservations : icache'[q] \in {icache[q], instr'[q]}
      /\ \A y \in answers' : y \in answers
      /\ clock' \in {clock, clock + 1}
  BY <1>2
<1>8. WorkerInv'
  BY <1>2, <1>4, <1>5, <1>6, <1>7, WorkerStays
<1> QED
  BY <1>4, <1>5, <1>6, <1>7, <1>8 DEF StepOK

LEMMA NextStep ==
  ASSUME AgentInv, [Next]_vars
  PROVE  StepOK
<1>1. ASSUME NEW r \in Own,
             \/ BrokerLock(r) \/ BrokerReserve(r) \/ BrokerRenew(r)
             \/ BrokerRelease(r) \/ BrokerEnd(r)
      PROVE  StepOK
  BY <1>1, BrokerStep
<1>2. ASSUME NEW r \in Reservations, StartReconcile(r) \/ SyncInstruction(r)
      PROVE  StepOK
  BY <1>2, StartReconcileStep, WatchStep
<1>3. CASE LateReport \/ Collect \/ PublishAdvertisement \/ FetchInstructions
           \/ ClusterChanges \/ Tick
  BY <1>3, ReportingStep
<1>4. CASE ProcessProviderInstructions
  BY <1>4, ProcessStep
<1>5. CASE Reconcile
  BY <1>5, UploadStep, MarkEnforcedStep, MarkExpiredStep DEF Reconcile
<1>6. CASE Crash
  BY <1>6, CrashStep
<1>7. CASE UNCHANGED vars
  BY <1>7, StutterStep
<1> QED
  BY <1>1, <1>2, <1>3, <1>4, <1>5, <1>6, <1>7 DEF Next

-----------------------------------------------------------------------------
(* The theorems.                                                           *)

LEMMA AgentInvariant == Spec => []AgentInv
<1>1. AgentInv /\ [Next]_vars => AgentInv'
  BY NextStep, StepOKSuffices
<1> QED
  BY <1>1, InitAgentInv, PTL DEF Spec

(* Every variable that says what the agent and the broker know of          *)
(* reservations keeps its type.                                            *)
THEOREM TypeCorrect == Spec => []TypeOK
<1>1. AgentInv => TypeOK
  BY DEF AgentInv
<1> QED
  BY <1>1, AgentInvariant, PTL

(* An instruction is marked enforced only after the broker has the         *)
(* kubeconfig of its reservation.                                          *)
THEOREM EnforcedAfterDelivery == Spec => []EnforcedWasDelivered
<1>1. AgentInv => EnforcedWasDelivered
  BY DEF AgentInv, EnforcedWasDelivered
<1> QED
  BY <1>1, AgentInvariant, PTL

(* The provider holds resources only for reservations of its own, and none *)
(* past the deadline that the broker has for it.                           *)
THEOREM HoldsAreBounded == Spec => []HoldEndsByDeadline
<1>1. AgentInv => HoldEndsByDeadline
  BY DEF AgentInv
<1> QED
  BY <1>1, AgentInvariant, PTL

(* Nothing but its expiry ends the enforcement of an instruction.          *)
THEOREM HoldsLast == Spec => HeldUntilExpiry
<1>1. AgentInv /\ [Next]_vars =>
        [\A r \in Reservations :
           instr[r].enforced /\ ~ instr'[r].enforced => HasExpired(instr[r])]_vars
  BY NextStep DEF StepOK, Changes
<1> QED
  BY <1>1, AgentInvariant, PTL DEF Spec, HeldUntilExpiry


-----------------------------------------------------------------------------
(* What the measurement offers.                                            *)

(* The maximum of an integer and finitely many others bounds them all.     *)
LEMMA MaxBounds ==
  ASSUME NEW g, NEW S, IsFiniteSet(S), \A i \in S : g[i] \in Int, NEW a \in Int
  PROVE  /\ Max({a} \cup {g[i] : i \in S}) \in Int
         /\ Max({a} \cup {g[i] : i \in S}) >= a
         /\ \A j \in S : Max({a} \cup {g[i] : i \in S}) >= g[j]
<1> DEFINE T == {a} \cup {g[i] : i \in S}
<1>1. \E m \in T : \A y \in T : m >= y
  BY LargestExists
<1>2. T \subseteq Int /\ a \in T /\ \A i \in S : g[i] \in T
  OBVIOUS
<1> HIDE DEF T
<1>3. Max(T) \in T /\ \A y \in T : Max(T) >= y
  BY <1>1 DEF Max
<1>4. Max(T) \in Int /\ Max(T) >= a /\ \A i \in S : Max(T) >= g[i]
  BY <1>2, <1>3
<1> QED
  BY <1>4 DEF T

LEMMA MinOfTwo == \A a, b \in Int : Min({a, b}) \in Int /\ Min({a, b}) <= b
<1> SUFFICES ASSUME NEW a \in Int, NEW b \in Int
             PROVE  Min({a, b}) \in Int /\ Min({a, b}) <= b
  OBVIOUS
<1>1. \E m \in {a, b} : \A y \in {a, b} : m =< y
  <2>1. CASE a <= b
    BY <2>1
  <2>2. CASE ~ (a <= b)
    BY <2>2
  <2> QED
    BY <2>1, <2>2
<1>2. Min({a, b}) \in {a, b} /\ \A y \in {a, b} : Min({a, b}) =< y
  BY <1>1 DEF Min
<1> QED
  BY <1>2

(* Whatever the operator chose to share, it is of what is left: a part of  *)
(* a non-negative amount is no larger than the amount.                     *)
LEMMA ShareIsOfWhatIsLeft ==
  ASSUME NEW k \in AllKinds, NEW left \in Nat
  PROVE  Share(k, left) \in Int /\ Share(k, left) <= left
<1>1. PercentageShare(left) \in Int /\ PercentageShare(left) <= left
  <2>1. \A p \in 0 .. 99 : (left * p) \div 100 \in Int /\ (left * p) \div 100 <= left
    OBVIOUS
  <2> QED
    BY <2>1 DEF PercentageShare
<1>2. FixedShare(k, left) \in Int /\ FixedShare(k, left) <= left
  <2>1. SharingFixed[k] \in Int \cup {Unset, Unparsable}
    BY CollectorAssumption
  <2>2. SharingFixed[k] \in Int =>
          Min({SharingFixed[k], left}) \in Int /\ Min({SharingFixed[k], left}) <= left
    BY MinOfTwo
  <2> QED
    BY <2>1, <2>2 DEF FixedShare
<1> QED
  BY <1>1, <1>2, CollectorAssumption DEF Share


LEMMA ContainersAreFinite ==
  ASSUME NEW q \in Seq([AllKinds -> Nat]), NEW k \in AllKinds
  PROVE  /\ IsFiniteSet(DOMAIN q)
         /\ \A i \in DOMAIN q : q[i] \in [AllKinds -> Nat] /\ q[i][k] \in Int
<1>1. DOMAIN q = 1 .. Len(q) /\ Len(q) \in Nat
  OBVIOUS
<1>2. IsFiniteSet(1 .. Len(q))
  BY <1>1, FS_Interval
<1>3. \A i \in DOMAIN q : q[i] \in [AllKinds -> Nat]
  OBVIOUS
<1>4. \A f \in [AllKinds -> Nat] : f[k] \in Int
  OBVIOUS
<1> QED
  BY <1>1, <1>2, <1>3, <1>4

(* A pod is counted with at least what it uses at any moment: the sum of   *)
(* its containers and each of its init containers are below the maximum.   *)
LEMMA CountedPodCoversUsage ==
  ASSUME NEW p \in PodNames, NEW m \in Moments(Pods[p]), NEW k \in AllKinds
  PROVE  /\ Usage(Pods[p], m, k) \in Int /\ Contribution[p][k] \in Int
         /\ Usage(Pods[p], m, k) <= Contribution[p][k]
<1> DEFINE pod == Pods[p]
           f == [i \in DOMAIN pod.containers |-> pod.containers[i][k]]
           g == [i \in DOMAIN pod.init |-> pod.init[i][k]]
           base == SumFunction(f)
           most == Max({base} \cup {pod.init[i][k] : i \in DOMAIN pod.init})
<1>1. /\ pod.containers \in Seq([AllKinds -> Nat])
      /\ pod.init \in Seq([AllKinds -> Nat])
      /\ pod.overhead[k] \in Int
  BY PodsAssumption
<1>2. /\ IsFiniteSet(DOMAIN pod.containers) /\ IsFiniteSet(DOMAIN pod.init)
      /\ \A i \in DOMAIN pod.containers : pod.containers[i][k] \in Int
      /\ \A i \in DOMAIN pod.init : pod.init[i][k] \in Int
  BY <1>1, ContainersAreFinite
<1>3. base \in Int
  <2>1. SumFunctionOnSet(f, DOMAIN pod.containers) \in Int
    <3>1. \A i \in DOMAIN pod.containers : f[i] \in Int
      BY <1>2
    <3> HIDE DEF f
    <3> QED
      BY <1>2, <3>1, SumIsInt
  <2>2. DOMAIN f = DOMAIN pod.containers
    OBVIOUS
  <2> HIDE DEF f
  <2> QED
    BY <2>1, <2>2, SumOfFunction
<1>4. /\ most \in Int /\ most >= base
      /\ \A i \in DOMAIN pod.init : most >= pod.init[i][k]
  <2>1. \A i \in DOMAIN pod.init : g[i] \in Int /\ g[i] = pod.init[i][k]
    BY <1>2
  <2>2. {g[i] : i \in DOMAIN pod.init} = {pod.init[i][k] : i \in DOMAIN pod.init}
    OBVIOUS
  <2> HIDE DEF g, base
  <2>3. /\ Max({base} \cup {g[i] : i \in DOMAIN pod.init}) \in Int
        /\ Max({base} \cup {g[i] : i \in DOMAIN pod.init}) >= base
        /\ \A j \in DOMAIN pod.init : Max({base} \cup {g[i] : i \in DOMAIN pod.init}) >= g[j]
    BY <1>2, <1>3, <2>1, MaxBounds
  <2> QED
    BY <2>1, <2>2, <2>3
<1>5. Contribution[p][k] = most + pod.overhead[k]
  BY DEF Contribution, PodContribution
<1>6. m = 0 \/ m \in DOMAIN pod.init
  BY DEF Moments
<1>7. CASE m = 0
  <2>1. Usage(Pods[p], m, k) = pod.overhead[k] + base
    BY <1>7 DEF Usage
  <2> HIDE DEF base, most, pod
  <2> QED
    BY <1>1, <1>3, <1>4, <1>5, <2>1
<1>8. CASE m # 0
  <2>1. /\ Usage(Pods[p], m, k) = pod.overhead[k] + pod.init[m][k]
        /\ m \in DOMAIN pod.init
    BY <1>6, <1>8 DEF Usage
  <2> HIDE DEF base, most, pod
  <2> QED
    BY <1>1, <1>2, <1>4, <1>5, <2>1
<1> QED
  BY <1>7, <1>8

(* The sum of what the pods use is at most what is counted for them.       *)
LEMMA AllocatedCoversUsage ==
  ASSUME scheduled \subseteq PodNames, NEW k \in AllKinds, NEW moment,
         \A p \in scheduled : moment[p] \in Moments(Pods[p])
  PROVE  /\ SumFunction([p \in scheduled |-> Usage(Pods[p], moment[p], k)]) \in Int
         /\ CalculateAllocatedResources(scheduled)[k] \in Int
         /\ SumFunction([p \in scheduled |-> Usage(Pods[p], moment[p], k)])
              <= CalculateAllocatedResources(scheduled)[k]
<1> DEFINE u == [p \in scheduled |-> Usage(Pods[p], moment[p], k)]
           c == [p \in scheduled |-> Contribution[p][k]]
<1>1. IsFiniteSet(scheduled)
  BY PodsAssumption, FS_Subset
<1>2. \A p \in scheduled : u[p] \in Int /\ c[p] \in Int /\ u[p] <= c[p]
  BY CountedPodCoversUsage
<1>3. DOMAIN u = scheduled /\ DOMAIN c = scheduled
  OBVIOUS
<1>4. CalculateAllocatedResources(scheduled)[k] = SumFunction(c)
  BY DEF CalculateAllocatedResources
<1> HIDE DEF u, c
<1>5. SumFunction(u) = SumFunctionOnSet(u, scheduled) /\ SumFunction(c) = SumFunctionOnSet(c, scheduled)
  BY <1>3, SumOfFunction
<1>6. /\ SumFunctionOnSet(u, scheduled) \in Int /\ SumFunctionOnSet(c, scheduled) \in Int
      /\ SumFunctionOnSet(u, scheduled) <= SumFunctionOnSet(c, scheduled)
  BY <1>1, <1>2, SumIsInt, SumIsMonotonic
<1>7. /\ SumFunction(u) \in Int /\ SumFunction(c) \in Int
      /\ SumFunction(u) <= SumFunction(c)
  BY <1>5, <1>6
<1> QED
  BY <1>4, <1>7 DEF u


LEMMA RoomAndHoldsAreIntegers ==
  ASSUME TypeOK, NEW k \in AllKinds
  PROVE  /\ AllocatableTotal(ready)[k] \in Int
         /\ CalculateReservedResources(Counted, Requested)[k] \in Int
<1>1. AllocatableTotal(ready)[k] \in Int
  <2> DEFINE f == [n \in ready |-> Allocatable[n][k]]
  <2>1. ready \subseteq NodeNames /\ IsFiniteSet(ready)
    BY CollectorAssumption, FS_Subset DEF TypeOK
  <2>2. DOMAIN f = ready /\ \A n \in ready : f[n] \in Int
    BY <2>1, CollectorAssumption
  <2>3. AllocatableTotal(ready)[k] = SumFunction(f)
    BY DEF AllocatableTotal
  <2> HIDE DEF f
  <2> QED
    BY <2>1, <2>2, <2>3, SumIsInt, SumOfFunction
<1>2. CASE k = Gpu
  BY <1>1, <1>2 DEF CalculateReservedResources
<1>3. CASE k # Gpu
  <2> DEFINE f == [r \in Counted |-> Requested[r][k]]
  <2>1. Counted \subseteq Reservations /\ IsFiniteSet(Counted)
    BY ReservationsAssumption, FS_Subset DEF Counted
  <2>2. DOMAIN f = Counted /\ \A r \in Counted : f[r] \in Int
    BY <1>3, <2>1, ReservationsAssumption DEF AllKinds
  <2>3. CalculateReservedResources(Counted, Requested)[k] = SumFunction(f)
    BY <1>3 DEF CalculateReservedResources
  <2> HIDE DEF f
  <2> QED
    BY <1>1, <2>1, <2>2, <2>3, SumIsInt, SumOfFunction
<1> QED
  BY <1>2, <1>3

LEMMA MeasuredOfferFits == TypeOK => OfferFits
<1> SUFFICES ASSUME TypeOK,
                    NEW moment \in [scheduled -> UNION {Moments(Pods[p]) : p \in scheduled}],
                    \A p \in scheduled : moment[p] \in Moments(Pods[p]),
                    NEW k \in AllKinds
             PROVE  LET offer == Measure.available[k]
                        held  == IF k = Gpu THEN 0 ELSE SumFunction([r \in Counted |-> Requested[r][k]])
                        used  == SumFunction([p \in scheduled |-> Usage(Pods[p], moment[p], k)])
                        room  == SumFunction([n \in ready |-> Allocatable[n][k]])
                    IN  offer > 0 => offer + held + used <= room
  BY Zenon DEF OfferFits
<1> DEFINE held == IF k = Gpu THEN 0 ELSE SumFunction([r \in Counted |-> Requested[r][k]])
           used == SumFunction([p \in scheduled |-> Usage(Pods[p], moment[p], k)])
           room == SumFunction([n \in ready |-> Allocatable[n][k]])
           alloc == CalculateAllocatedResources(scheduled)[k]
           left == ClampToZero(room - alloc - held)
<1>1. /\ AllocatableTotal(ready)[k] = room
      /\ CalculateReservedResources(Counted, Requested)[k] = held
  BY DEF AllocatableTotal, CalculateReservedResources
<1>2. Measure.available[k] = Share(k, left)
  BY <1>1 DEF Measure, CollectClusterResources
<1>3. used \in Int /\ alloc \in Int /\ used <= alloc
  <2>1. scheduled \subseteq PodNames
    BY DEF TypeOK
  <2> QED
    BY <2>1, AllocatedCoversUsage
<1>4. room \in Int /\ held \in Int
  BY <1>1, RoomAndHoldsAreIntegers
<1> HIDE DEF held, used, room, alloc
<1>5. left \in Nat /\ (left > 0 => left = room - alloc - held)
  BY <1>3, <1>4 DEF ClampToZero
<1> HIDE DEF left
<1>6. Share(k, left) \in Int /\ Share(k, left) <= left
  BY <1>5, ShareIsOfWhatIsLeft
<1>7. Measure.available[k] > 0 => Measure.available[k] + held + used <= room
  BY <1>2, <1>3, <1>4, <1>5, <1>6
<1> QED
  BY <1>7 DEF held, used, room

(* Whatever the agent offers at any time is free on the nodes that are     *)
(* ready, beside what the instructions hold and what the pods use at any   *)
(* moment of their lives, whichever share the operator chose.              *)
THEOREM OffersFit == Spec => []OfferFits
  BY TypeCorrect, MeasuredOfferFits, PTL
=============================================================================
