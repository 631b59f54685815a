------------------------ MODULE RequestGuarantees_proof ------------------------
(***************************************************************************)
(* What a ResourceRequest costs, and what it may do, for every set of      *)
(* providers and every number of faults: the reservations and instructions *)
(* it leaves behind, the latencies it measures, when it switches.          *)
(***************************************************************************)
EXTENDS ResourceRequests_proof

-----------------------------------------------------------------------------
(* The broker's bonds.                                                     *)

BrokerTypes ==
  /\ active \subseteq Providers
  /\ available \in [Providers -> Nat]
  /\ bonds \in [Providers -> Bond]
  /\ creating \subseteq [cluster : Providers, latency : Nat]

Connected(c) == \E i \in Granted : rsv[i].target = c

(* Only located clusters have bonds, and only under the latency policy.    *)
BondInv ==
  /\ \A c \in Providers : /\ bonds[c].actual > 0 => bonds[c].exists /\ Connected(c)
                          /\ bonds[c].exists => ByLatency(c)
  /\ \A b \in creating : ByLatency(b.cluster)

(* A report changes one bond that exists, and leaves its estimate.         *)
LEMMA ReportedBonds ==
  ASSUME bonds \in [Providers -> Bond], NEW current \in Providers \cup {None},
         NEW measured \in ScrapeGatewayLatency(current)
  PROVE  /\ Reported(current, measured) \in [Providers -> Bond]
         /\ \A c \in Providers :
              /\ Reported(current, measured)[c].exists = bonds[c].exists
              /\ Reported(current, measured)[c].actual > 0 =>
                   \/ bonds[c].actual > 0
                   \/ bonds[c].exists /\ c = current
<1>1. CASE current = None \/ ~ bonds[current].exists
  BY <1>1 DEF Reported
<1>2. ASSUME current # None, bonds[current].exists
      PROVE  /\ Reported(current, measured) \in [Providers -> Bond]
             /\ \A c \in Providers :
                  /\ Reported(current, measured)[c].exists = bonds[c].exists
                  /\ Reported(current, measured)[c].actual > 0 =>
                       \/ bonds[c].actual > 0
                       \/ bonds[c].exists /\ c = current
  <2> DEFINE latency == IF measured # None THEN measured
                        ELSE IF bonds[current].actual = 0 THEN bonds[current].estimated
                             ELSE bonds[current].actual
             bond == [bonds[current] EXCEPT !.stamp = "new", !.actual = latency]
  <2>1. current \in Providers /\ bonds[current] \in Bond
    BY <1>2
  <2>2. measured \in Nat \cup {None}
    BY <1>2, <2>1, EvaluationAssumption DEF ScrapeGatewayLatency
  <2>3. latency \in Nat
    BY <2>1, <2>2 DEF Bond
  <2>4. Reported(current, measured) = [bonds EXCEPT ![current] = bond]
    BY <1>2, <2>1 DEF Reported, Bond
  <2> HIDE DEF latency
  <2>5. bond \in Bond /\ bond.exists = bonds[current].exists
    BY <2>1, <2>3 DEF Bond
  <2> HIDE DEF bond
  <2> QED
    BY <1>2, <2>1, <2>4, <2>5
<1> QED
  BY <1>1, <1>2

(* What a ranking by latency may take for the score of a cluster.          *)
LEMMA LatencyScores ==
  ASSUME NEW view \in [Providers -> Bond], NEW c \in Providers, ByLatency(c),
         NEW s \in Scores(c, view)
  PROVE  s.score \in Nat
<1>1. s \in CalculateScoreLatency(c, view)
  BY DEF Scores
<1>2. Estimate[c] \in Nat /\ view[c] \in Bond
  BY EvaluationAssumption
<1>3. \A l \in Guess(c, view) \cup {Estimate[c]} : l \in Nat
  <2>1. \A l \in RegionMatch(c, view) : l \in Nat
    BY DEF RegionMatch, Bond
  <2>2. \A l \in Elsewhere[c] : l \in Nat
    <3>1. Elsewhere[c] \in SUBSET (Nat \ {0})
      BY EvaluationAssumption
    <3> QED
      BY <3>1
  <2>3. \A l \in Guess(c, view) : l \in Elsewhere[c] \cup RegionMatch(c, view) \cup {Estimate[c]}
    BY DEF Guess
  <2> QED
    BY <1>2, <2>1, <2>2, <2>3
<1>4. \/ \E l \in Guess(c, view) \cup {Estimate[c]} : s = [score |-> l, isActual |-> FALSE]
      \/ s = [score |-> view[c].actual, isActual |-> TRUE]
      \/ s = [score |-> view[c].estimated, isActual |-> FALSE]
  BY <1>1 DEF CalculateScoreLatency
<1>5. view[c].actual \in Nat /\ view[c].estimated \in Nat
  BY <1>2 DEF Bond
<1> QED
  BY <1>2, <1>3, <1>4, <1>5

LEMMA PostEvaluationBonds ==
  ASSUME BrokerTypes, BondInv, NEW current \in Providers \cup {None},
         current # None => Connected(current),
         NEW measured \in ScrapeGatewayLatency(current), NEW best,
         PostEvaluation(current, measured, best),
         UNCHANGED rsv
  PROVE  BrokerTypes' /\ BondInv'
<1>0. PICK reported \in {Reported(current, measured), bonds} :
        \E view \in {reported, bonds} : RankClusters(reported, view, best)
  BY DEF PostEvaluation
<1>0a. PICK view \in {reported, bonds} : RankClusters(reported, view, best)
  BY <1>0
<1>1. /\ reported \in [Providers -> Bond]
      /\ \A c \in Providers :
           /\ reported[c].exists = bonds[c].exists
           /\ reported[c].actual > 0 => bonds[c].exists /\ Connected(c)
  <2>1. bonds \in [Providers -> Bond]
    BY DEF BrokerTypes
  <2> QED
    <3>1. /\ reported \in [Providers -> Bond]
          /\ \A c \in Providers :
               /\ reported[c].exists = bonds[c].exists
               /\ reported[c].actual > 0 =>
                    \/ bonds[c].actual > 0
                    \/ bonds[c].exists /\ c = current
      BY <1>0, <2>1, ReportedBonds
    <3>2. ASSUME NEW c \in Providers, reported[c].actual > 0
          PROVE  bonds[c].exists /\ Connected(c)
      <4>1. CASE bonds[c].actual > 0
        BY <4>1 DEF BondInv
      <4>2. CASE bonds[c].exists /\ c = current
        <5>1. c # None
          BY EvaluationAssumption
        <5> QED
          BY <4>2, <5>1
      <4> QED
        BY <3>1, <3>2, <4>1, <4>2
    <3> QED
      BY <3>1, <3>2
<1>2. view \in [Providers -> Bond]
  BY <1>0a, <1>1 DEF BrokerTypes
<1>3. PICK scored \in [Candidates -> UNION {Scores(c, view) : c \in Candidates}] :
        /\ \A c \in Candidates : scored[c] \in Scores(c, view)
        /\ bonds' = [c \in Providers |-> Reset(c, view, reported)]
        /\ creating' = creating \cup Created(scored, view)
        /\ UNCHANGED <<policy, active, available>>
  BY <1>0a DEF RankClusters
<1>4. Candidates \subseteq Providers
  BY DEF Candidates, BrokerTypes
<1>5. \A b \in Created(scored, view) :
        b \in [cluster : Providers, latency : Nat] /\ ByLatency(b.cluster)
  <2>1. ASSUME NEW c \in DOMAIN scored, ByLatency(c)
        PROVE  c \in Providers /\ scored[c].score \in Nat
    BY <1>2, <1>3, <1>4, <2>1, LatencyScores
  <2> QED
    BY <2>1 DEF Created
<1>6. ASSUME NEW c \in Providers
      PROVE  /\ bonds'[c] \in Bond
             /\ bonds'[c].exists = reported[c].exists
             /\ bonds'[c].actual > 0 => reported[c].actual > 0
  <2>1. bonds'[c] \in {reported[c], [reported[c] EXCEPT !.actual = 0,
                                      !.estimated = Estimate[c], !.stamp = "new"]}
    BY <1>3 DEF Reset
  <2>2. reported[c] \in Bond /\ Estimate[c] \in Nat
    BY <1>1, EvaluationAssumption
  <2> DEFINE fresh == [reported[c] EXCEPT !.actual = 0, !.estimated = Estimate[c],
                                          !.stamp = "new"]
  <2>3. fresh \in Bond
    BY <2>2 DEF Bond
  <2>4. fresh.exists = reported[c].exists /\ fresh.actual = 0
    BY <2>2 DEF Bond
  <2> HIDE DEF fresh
  <2>5. CASE bonds'[c] = reported[c]
    BY <2>2, <2>5
  <2>6. CASE bonds'[c] = fresh
    BY <2>3, <2>4, <2>6
  <2> QED
    BY <2>1, <2>5, <2>6 DEF fresh
<1>7. BrokerTypes'
  BY <1>3, <1>5, <1>6 DEF BrokerTypes
<1>8. BondInv'
  BY <1>1, <1>3, <1>5, <1>6 DEF BondInv, Connected, Granted, ByLatency
<1> QED
  BY <1>7, <1>8

(* A reservation that was granted stays so, and with it what it measured.  *)
LEMMA ConnectedStays ==
  ASSUME Kept, NEW c, Connected(c)
  PROVE  Connected(c)'
  BY DEF Kept, Connected, Granted

LEMMA BondsStay ==
  ASSUME BrokerTypes, BondInv, Kept, UNCHANGED <<policy, bonds, creating>>
  PROVE  BondInv'
<1>1. UNCHANGED policy /\ UNCHANGED bonds /\ UNCHANGED creating
  OBVIOUS
<1> QED
  BY <1>1, ConnectedStays DEF BondInv, ByLatency

LEMMA CreateBondBonds ==
  ASSUME BrokerTypes, BondInv, Kept, NEW b \in creating, CreateBond(b)
  PROVE  BrokerTypes' /\ BondInv'
<1> DEFINE bond == [NoBond EXCEPT !.exists = TRUE, !.estimated = b.latency]
<1>1. /\ UNCHANGED policy /\ UNCHANGED active /\ UNCHANGED available
      /\ creating' = creating \ {b}
      /\ bonds' = bonds \/ bonds' = [bonds EXCEPT ![b.cluster] = bond]
  BY DEF CreateBond
<1>2. b.cluster \in Providers /\ b.latency \in Nat /\ bonds \in [Providers -> Bond]
  BY DEF BrokerTypes
<1>3. NoBond \in Bond /\ NoBond.actual = 0
  BY DEF NoBond, Bond
<1>4. bond \in Bond /\ bond.exists = TRUE /\ bond.actual = 0
  BY <1>2, <1>3 DEF Bond
<1> HIDE DEF bond
<1>5. BrokerTypes'
  BY <1>1, <1>2, <1>4 DEF BrokerTypes
<1>6. ASSUME NEW c \in Providers
      PROVE  /\ bonds'[c].actual > 0 => bonds[c].actual > 0
             /\ bonds'[c].exists => bonds[c].exists \/ c = b.cluster
             /\ bonds[c].exists => bonds'[c].exists
  BY <1>1, <1>2, <1>4
<1>7. BondInv'
  BY <1>1, <1>6, ConnectedStays DEF BondInv, ByLatency
<1> QED
  BY <1>5, <1>7

LEMMA AgeBondBonds ==
  ASSUME BrokerTypes, BondInv, Kept, NEW c \in Providers, AgeBond(c)
  PROVE  BrokerTypes' /\ BondInv'
<1> DEFINE bond == [bonds[c] EXCEPT !.stamp = "old"]
<1>1. /\ UNCHANGED policy /\ UNCHANGED active /\ UNCHANGED available /\ UNCHANGED creating
      /\ bonds' = [bonds EXCEPT ![c] = bond]
  BY DEF AgeBond
<1>2. bonds \in [Providers -> Bond] /\ bonds[c] \in Bond
  BY DEF BrokerTypes
<1>3. bond \in Bond /\ bond.exists = bonds[c].exists /\ bond.actual = bonds[c].actual
  BY <1>2 DEF Bond
<1> HIDE DEF bond
<1>4. BrokerTypes'
  BY <1>1, <1>2, <1>3 DEF BrokerTypes
<1>5. ASSUME NEW d \in Providers
      PROVE  bonds'[d].actual = bonds[d].actual /\ bonds'[d].exists = bonds[d].exists
  BY <1>1, <1>2, <1>3
<1>6. BondInv'
  BY <1>1, <1>5, ConnectedStays DEF BondInv, ByLatency
<1> QED
  BY <1>4, <1>6

(* What is left of a provider is never negative: a lock wants one unit of  *)
(* at least one.                                                           *)
LEMMA AvailableStays ==
  ASSUME BrokerTypes, BondInv, Kept, NEW c, Lock(c) \/ Unlock(c)
  PROVE  BrokerTypes' /\ BondInv'
<1>1. UNCHANGED active /\ UNCHANGED <<policy, bonds, creating>>
  BY DEF Lock, Unlock
<1>2. available' \in [Providers -> Nat]
  <2>1. available \in [Providers -> Nat]
    BY DEF BrokerTypes
  <2>2. CASE Lock(c)
    <3>1. available' = [available EXCEPT ![c] = available[c] - 1] /\ available[c] >= 1
          /\ c \in Providers
      BY <2>1, <2>2 DEF Lock, HasEnoughResources, BrokerTypes
    <3>2. available[c] - 1 \in Nat
      BY <2>1, <3>1
    <3> QED
      BY <2>1, <3>1, <3>2
  <2>3. CASE Unlock(c)
    <3>1. available' = [available EXCEPT ![c] = available[c] + 1]
      BY <2>3 DEF Unlock
    <3>2. CASE c \in Providers
      <4>1. available[c] + 1 \in Nat
        BY <2>1, <3>2
      <4> QED
        BY <2>1, <3>1, <4>1
    <3>3. CASE c \notin Providers
      BY <2>1, <3>1, <3>3
    <3> QED
      BY <3>2, <3>3
  <2> QED
    BY <2>2, <2>3
<1>3. BrokerTypes'
  BY <1>1, <1>2 DEF BrokerTypes
<1> QED
  BY <1>1, <1>3, BondsStay

LEMMA LoseBondBonds ==
  ASSUME BrokerTypes, BondInv, Kept, NEW b \in creating, LoseBond(b)
  PROVE  BrokerTypes' /\ BondInv'
<1>1. /\ UNCHANGED policy /\ UNCHANGED active /\ UNCHANGED available /\ UNCHANGED bonds
      /\ creating' \subseteq creating
  BY DEF LoseBond
<1>2. BrokerTypes'
  BY <1>1 DEF BrokerTypes
<1>3. BondInv'
  BY <1>1, ConnectedStays DEF BondInv, ByLatency
<1> QED
  BY <1>2, <1>3

LEMMA ChangeActiveBonds ==
  ASSUME BrokerTypes, BondInv, Kept, NEW c \in Providers, ChangeActive(c)
  PROVE  BrokerTypes' /\ BondInv'
<1>1. /\ UNCHANGED <<policy, bonds, creating>> /\ UNCHANGED available
      /\ active' \subseteq active \cup {c}
  BY DEF ChangeActive
<1>2. BrokerTypes'
  BY <1>1 DEF BrokerTypes
<1> QED
  BY <1>1, <1>2, BondsStay

-----------------------------------------------------------------------------
(* What each step of the controller does, field by field.                  *)

(* The worker's next call, and what it will know.                          *)
Call(pc, target, id, attempt, goal, again) ==
  /\ wpc' = pc
  /\ w'.target = target /\ w'.id = id /\ w'.attempt = attempt
  /\ w'.goal = goal /\ w'.again = again

Rests == Call("idle", None, 0, 0, "", FALSE)

Writes(goal, target, id) == Call("status", target, id, 0, goal, FALSE)

LEMMA IdleRests ==
  /\ Return => Rests
  /\ \A goal, target, id : Write(goal, target, id) => Writes(goal, target, id)
<1>1. ASSUME Return
      PROVE  Rests
  <2>1. wpc' = "idle" /\ w' = Idle
    BY <1>1 DEF Return
  <2>2. Call("idle", None, 0, 0, "", FALSE)
    BY <2>1 DEF Call, Idle
  <2> QED
    BY <2>2 DEF Rests
<1>2. ASSUME NEW goal, NEW target, NEW id, Write(goal, target, id)
      PROVE  Writes(goal, target, id)
  BY <1>2 DEF Idle, Write, Writes, Call
<1> QED
  BY <1>1, <1>2

LEMMA StartRequestEffect ==
  ASSUME RequestInv, StartRequest
  PROVE  /\ wpc = "idle"
         /\ (qcache = req /\ UNCHANGED faults) \/ Fault
         /\ \/ UNCHANGED wpc /\ UNCHANGED w
            \/ /\ qcache.exists
               /\ \/ /\ qcache.status.phase = ""
                     /\ Call("pending", None, 0, 0, "Pending", FALSE)
                  \/ /\ qcache.status.phase = "Pending"
                     /\ Call("evaluate", None, 0, 0, "", FALSE)
                  \/ /\ qcache.status.phase = "Reserved" /\ qcache.rv \notin recent
                     /\ Call("evaluate", qcache.status.target, qcache.status.reservation, 0,
                             "", TRUE)
<1>1. qcache.status.phase \in {"", "Pending", "Reserved", "Failed"}
  BY DEF RequestInv, AgentTypes, Request, RequestStatus
<1>2. \/ UNCHANGED worker
      \/ /\ qcache.exists /\ qcache.status.phase = ""
         /\ wpc' = "pending" /\ w' = [Idle EXCEPT !.goal = "Pending"]
      \/ /\ qcache.exists /\ qcache.status.phase = "Pending"
         /\ wpc' = "evaluate" /\ w' = Idle
      \/ /\ qcache.exists /\ qcache.status.phase = "Reserved" /\ Due(qcache)
         /\ wpc' = "evaluate"
         /\ w' = [Idle EXCEPT !.target = qcache.status.target,
                              !.id = qcache.status.reservation, !.again = TRUE]
  BY <1>1 DEF StartRequest, Handled
<1>3. wpc = "idle" /\ ((qcache = req /\ UNCHANGED faults) \/ Fault)
  BY DEF StartRequest
<1>4. CASE UNCHANGED worker
  BY <1>3, <1>4 DEF worker
<1>5. CASE /\ qcache.exists /\ qcache.status.phase = ""
           /\ wpc' = "pending" /\ w' = [Idle EXCEPT !.goal = "Pending"]
  BY <1>3, <1>5 DEF Idle, Call
<1>6. CASE /\ qcache.exists /\ qcache.status.phase = "Pending"
           /\ wpc' = "evaluate" /\ w' = Idle
  BY <1>3, <1>6 DEF Idle, Call
<1>7. CASE /\ qcache.exists /\ qcache.status.phase = "Reserved" /\ Due(qcache)
           /\ wpc' = "evaluate"
           /\ w' = [Idle EXCEPT !.target = qcache.status.target,
                                !.id = qcache.status.reservation, !.again = TRUE]
  BY <1>3, <1>7 DEF Idle, Call, Due
<1> QED
  BY <1>2, <1>4, <1>5, <1>6, <1>7

LEMMA UpdateStatusEffect ==
  ASSUME RequestInv, UpdateStatus
  PROVE  /\ UNCHANGED qcache /\ UNCHANGED instr /\ UNCHANGED rsv /\ UNCHANGED switches
         /\ \/ /\ req.exists /\ qcache.rv = req.rv
               /\ req'.rv = req.rv + 1 /\ req'.exists = req.exists
               /\ req'.status.phase = w.goal /\ req'.status.reservation = w.id
               /\ recent' = recent \cup {req.rv + 1}
               /\ UNCHANGED faults /\ UNCHANGED queued
               /\ \/ wpc = "pending" /\ Call("evaluate", None, 0, 0, "", FALSE)
                  \/ wpc = "status" /\ Rests
            \/ /\ (~ req.exists /\ UNCHANGED faults) \/ Fault
               /\ UNCHANGED req /\ UNCHANGED recent /\ queued' = TRUE
               /\ Rests
<1>1. UNCHANGED qcache /\ UNCHANGED instr /\ UNCHANGED rsv /\ UNCHANGED switches
      /\ wpc \in {"pending", "status"}
  BY DEF UpdateStatus
<1>2. ASSUME /\ qcache.exists /\ req.exists /\ qcache.rv = req.rv
             /\ req' = [req EXCEPT !.rv = req.rv + 1, !.status = Status(w.goal, w.target, w.id)]
             /\ recent' = recent \cup {req.rv + 1}
             /\ IF wpc = "pending" THEN wpc' = "evaluate" /\ w' = Idle ELSE Return
             /\ UNCHANGED <<queued, faults>>
      PROVE  /\ req'.rv = req.rv + 1 /\ req'.exists = req.exists
             /\ req'.status.phase = w.goal /\ req'.status.reservation = w.id
             /\ UNCHANGED faults /\ UNCHANGED queued
             /\ \/ wpc = "pending" /\ Call("evaluate", None, 0, 0, "", FALSE)
                \/ wpc = "status" /\ Rests
  <2>1. req \in Request
    BY DEF RequestInv, AgentTypes
  <2>2. /\ req'.rv = req.rv + 1 /\ req'.exists = req.exists
        /\ req'.status = Status(w.goal, w.target, w.id)
    BY <1>2, <2>1 DEF Request
  <2>3. req'.status.phase = w.goal /\ req'.status.reservation = w.id
    BY <2>2 DEF Status
  <2>4. \/ wpc = "pending" /\ Call("evaluate", None, 0, 0, "", FALSE)
        \/ wpc = "status" /\ Rests
    <3>1. CASE wpc = "pending"
      <4>1. wpc' = "evaluate" /\ w' = Idle
        BY <1>2, <3>1
      <4>2. Call("evaluate", None, 0, 0, "", FALSE)
        BY <4>1 DEF Call, Idle
      <4> QED
        BY <3>1, <4>2
    <3>2. CASE wpc = "status"
      BY <1>2, <3>2, IdleRests
    <3> QED
      BY <1>1, <3>1, <3>2
  <2> QED
    BY <1>2, <2>2, <2>3, <2>4
<1>3. \/ /\ qcache.exists /\ req.exists /\ qcache.rv = req.rv
         /\ req' = [req EXCEPT !.rv = req.rv + 1, !.status = Status(w.goal, w.target, w.id)]
         /\ recent' = recent \cup {req.rv + 1}
         /\ IF wpc = "pending" THEN wpc' = "evaluate" /\ w' = Idle ELSE Return
         /\ UNCHANGED <<queued, faults>>
      \/ /\ (~ req.exists /\ UNCHANGED faults) \/ Fault
         /\ Requeue
         /\ UNCHANGED req /\ UNCHANGED recent
  BY DEF UpdateStatus
<1> QED
  BY <1>1, <1>2, <1>3, IdleRests DEF Requeue

LEMMA ConcludeEffect ==
  ASSUME RequestInv, NEW best \in Providers \cup {None}, Conclude(best)
  PROVE  \/ /\ w.again = TRUE /\ Rests
            /\ UNCHANGED switches /\ queued' = TRUE
         \/ /\ w.again = TRUE /\ best \notin {None, w.target} /\ w'.better = best
            /\ Call("switch", w.target, w.id, w.attempt, w.goal, TRUE)
            /\ switches' = switches + 1 /\ UNCHANGED queued
         \/ /\ w.again = FALSE
            /\ Writes("Failed", None, 0) \/ Call("post", best, 0, 1, "", FALSE)
            /\ UNCHANGED switches /\ UNCHANGED queued
<1>1. w \in WorkerRecord /\ w.again \in BOOLEAN
  BY DEF RequestInv, AgentTypes, WorkerRecord
<1>2. CASE w.again = TRUE
  <2>1. CASE best \in {None, w.target}
    BY <1>2, <2>1, IdleRests DEF Conclude, Requeue
  <2>2. CASE best \notin {None, w.target}
    <3>1. /\ wpc' = "switch" /\ w' = [w EXCEPT !.better = best]
          /\ switches' = switches + 1 /\ UNCHANGED queued
      BY <1>2, <2>2 DEF Conclude
    <3>2. /\ w'.target = w.target /\ w'.id = w.id /\ w'.attempt = w.attempt
          /\ w'.goal = w.goal /\ w'.better = best
      BY <1>1, <3>1 DEF WorkerRecord
    <3>3. w'.again = w.again
      BY <1>1, <3>1 DEF WorkerRecord
    <3> QED
      BY <1>2, <2>2, <3>1, <3>2, <3>3 DEF Call
  <2> QED
    BY <2>1, <2>2
<1>3. CASE w.again = FALSE
  <2>1. UNCHANGED switches /\ UNCHANGED queued
    BY <1>3 DEF Conclude
  <2>2. CASE best = None
    BY <1>3, <2>1, <2>2, IdleRests DEF Conclude
  <2>3. CASE best # None
    <3>1. wpc' = "post" /\ w' = [Idle EXCEPT !.target = best, !.attempt = 1]
      BY <1>3, <2>3 DEF Conclude
    <3> QED
      BY <1>3, <2>1, <3>1 DEF Idle, Call
  <2> QED
    BY <2>2, <2>3
<1> QED
  BY <1>1, <1>2, <1>3

Concluded ==
  \/ w.again = TRUE /\ Rests /\ UNCHANGED switches
  \/ /\ w.again = TRUE /\ Call("switch", w.target, w.id, w.attempt, w.goal, TRUE)
     /\ switches' = switches + 1
  \/ /\ w.again = FALSE /\ UNCHANGED switches
     /\ \/ Writes("Failed", None, 0)
        \/ \E best : Call("post", best, 0, 1, "", FALSE)

LEMMA EvaluateProvidersEffect ==
  ASSUME RequestInv, EvaluateProviders
  PROVE  /\ wpc = "evaluate"
         /\ UNCHANGED faults \/ Fault
         /\ UNCHANGED <<wpc, w, switches>> \/ Concluded
         /\ UNCHANGED queued \/ queued' = TRUE
<1>1. wpc = "evaluate"
  BY DEF EvaluateProviders
<1>2. UNCHANGED faults \/ Fault
  BY DEF EvaluateProviders, Evaluated
<1>3. \/ \E best \in Providers \cup {None} : Conclude(best)
      \/ UNCHANGED worker /\ UNCHANGED queued /\ UNCHANGED switches
  <2>1. CASE Evaluated
    BY <2>1 DEF Evaluated
  <2>2. CASE Conclude(None)
    BY <2>2
  <2> QED
    BY <2>1, <2>2 DEF EvaluateProviders
<1>4. ASSUME NEW best \in Providers \cup {None}, Conclude(best)
      PROVE  Concluded /\ (UNCHANGED queued \/ queued' = TRUE)
  BY <1>4, ConcludeEffect DEF Concluded
<1>5. ASSUME UNCHANGED worker, UNCHANGED queued, UNCHANGED switches
      PROVE  UNCHANGED <<wpc, w, switches>> /\ UNCHANGED queued
  BY <1>5 DEF worker
<1> QED
  BY <1>1, <1>2, <1>3, <1>4, <1>5

Retried ==
  \/ /\ w.attempt < MaxAttempts
     /\ Call("post", w.target, w.id, w.attempt + 1, w.goal, w.again)
  \/ Writes("Failed", w.target, 0)

LEMMA RequestReservationEffect ==
  ASSUME RequestInv, RequestReservation
  PROVE  /\ wpc = "post"
         /\ \/ Retried /\ UNCHANGED rsv /\ UNCHANGED broker /\ UNCHANGED faults
            \/ \E i \in Ids :
                 /\ Granted' = Granted \cup {i} /\ i \notin Granted
                 /\ Reserve(i)
                 /\ \/ Call("instruct", w.target, i, 0, w.goal, w.again) /\ UNCHANGED faults
                    \/ Fault /\ Retried
<1>1. wpc = "post" /\ w \in WorkerRecord
  BY DEF RequestReservation, RequestInv, AgentTypes
<1>2. ASSUME RetryOrGiveUp
      PROVE  Retried
  <2>1. CASE w.attempt < MaxAttempts
    <3>1. wpc' = "post" /\ w' = [w EXCEPT !.attempt = w.attempt + 1]
      BY <1>1, <1>2, <2>1 DEF RetryOrGiveUp
    <3>2. /\ w'.target = w.target /\ w'.id = w.id /\ w'.goal = w.goal
          /\ w'.attempt = w.attempt + 1
      BY <1>1, <3>1 DEF WorkerRecord
    <3>3. w'.again = w.again
      BY <1>1, <3>1 DEF WorkerRecord
    <3> QED
      BY <2>1, <3>1, <3>2, <3>3 DEF Retried, Call
  <2>2. CASE ~ (w.attempt < MaxAttempts)
    BY <1>2, <2>2, IdleRests DEF RetryOrGiveUp, Retried
  <2> QED
    BY <2>1, <2>2
<1>3. CASE \/ RetryOrGiveUp /\ UNCHANGED <<broker, rsv, faults>>
           \/ Write("Failed", w.target, 0) /\ UNCHANGED <<broker, rsv, faults>>
  BY <1>1, <1>2, <1>3, IdleRests DEF Retried
<1>4. ASSUME NEW i \in Ids, Reserve(i), Answered(i) \/ (Fault /\ RetryOrGiveUp)
      PROVE  /\ Granted' = Granted \cup {i} /\ i \notin Granted
             /\ \/ Call("instruct", w.target, i, 0, w.goal, w.again) /\ UNCHANGED faults
                \/ Fault /\ Retried
  <2>1. Granted' = Granted \cup {i} /\ i \notin Granted
    BY <1>4, ReserveGrants
  <2>2. ASSUME Answered(i)
        PROVE  Call("instruct", w.target, i, 0, w.goal, w.again) /\ UNCHANGED faults
    <3>1. wpc' = "instruct" /\ w' = [w EXCEPT !.id = i, !.attempt = 0] /\ UNCHANGED faults
      BY <2>2 DEF Answered
    <3>2. w'.target = w.target /\ w'.id = i /\ w'.goal = w.goal /\ w'.attempt = 0
      BY <1>1, <3>1 DEF WorkerRecord
    <3>3. w'.again = w.again
      BY <1>1, <3>1 DEF WorkerRecord
    <3> QED
      BY <3>1, <3>2, <3>3 DEF Call
  <2> QED
    BY <1>2, <1>4, <2>1, <2>2
<1> QED
  BY <1>1, <1>3, <1>4 DEF RequestReservation

LEMMA OtherEffects ==
  ASSUME RequestInv
  PROVE  /\ DeleteOldInstruction =>
              /\ wpc = "switch" /\ Writes("Pending", None, 0)
              /\ \/ /\ \/ Delete(w.id)
                       \/ instr[w.id] # "live" /\ UNCHANGED instr
                    /\ UNCHANGED faults
                 \/ Fault /\ UNCHANGED instr
         /\ CreateReservationInstruction =>
              /\ wpc = "instruct" /\ w.id \in Ids
              /\ \/ /\ instr' = [instr EXCEPT ![w.id] = "live"]
                    /\ Writes("Reserved", w.target, w.id) /\ UNCHANGED faults
                 \/ Fault /\ Writes("Failed", w.target, w.id) /\ UNCHANGED instr
         /\ Crash => Rests /\ Fault
<1>1. DeleteOldInstruction =>
        /\ wpc = "switch" /\ Writes("Pending", None, 0)
        /\ \/ /\ \/ Delete(w.id)
                 \/ instr[w.id] # "live" /\ UNCHANGED instr
              /\ UNCHANGED faults
           \/ Fault /\ UNCHANGED instr
  BY IdleRests DEF DeleteOldInstruction
<1>2. CreateReservationInstruction =>
        /\ wpc = "instruct" /\ w.id \in Ids
        /\ \/ /\ instr' = [instr EXCEPT ![w.id] = "live"]
              /\ Writes("Reserved", w.target, w.id) /\ UNCHANGED faults
           \/ Fault /\ Writes("Failed", w.target, w.id) /\ UNCHANGED instr
  BY IdleRests DEF CreateReservationInstruction, RequestInv, WorkerInv, GrantedOn
<1>3. Crash => Rests /\ Fault
  BY IdleRests DEF Crash
<1> QED
  BY <1>1, <1>2, <1>3

-----------------------------------------------------------------------------
(* Types.                                                                  *)

Calls == {"idle", "pending", "evaluate", "switch", "post", "instruct", "status"}

RestTypes ==
  /\ policy \in Policies
  /\ recent \subseteq Nat /\ queued \in BOOLEAN
  /\ wpc \in Calls
  /\ w.attempt \in 0 .. MaxAttempts
  /\ faults \in 0 .. MaxFaults /\ changes \in 0 .. MaxChanges /\ switches \in Nat

LEMMA TypesMakeTypeOK == AgentTypes /\ BrokerTypes /\ RestTypes => TypeOK
<1> SUFFICES ASSUME AgentTypes, BrokerTypes, RestTypes
             PROVE  TypeOK
  OBVIOUS
<1>1. w \in [target : Providers \cup {None}, id : Ids \cup {0}, attempt : 0 .. MaxAttempts,
             goal : {"", "Pending", "Reserved", "Failed"}, again : BOOLEAN,
             better : Providers \cup {None}]
  BY DEF AgentTypes, RestTypes, WorkerRecord
<1> QED
  BY <1>1 DEF AgentTypes, BrokerTypes, RestTypes, TypeOK, Reservation, Request, Calls

LEMMA CountersStep ==
  ASSUME RestTypes, UNCHANGED faults \/ Fault, UNCHANGED changes \/ Change,
         UNCHANGED switches \/ switches' = switches + 1
  PROVE  faults' \in 0 .. MaxFaults /\ changes' \in 0 .. MaxChanges /\ switches' \in Nat
<1>1. MaxFaults \in Nat /\ MaxChanges \in Nat
  BY RequestsAssumption
<1>2. faults \in 0 .. MaxFaults /\ changes \in 0 .. MaxChanges /\ switches \in Nat
  BY DEF RestTypes
<1>3. faults' \in 0 .. MaxFaults
  BY <1>1, <1>2 DEF Fault
<1>4. changes' \in 0 .. MaxChanges
  BY <1>1, <1>2 DEF Change
<1>5. switches' \in Nat
  BY <1>2
<1> QED
  BY <1>3, <1>4, <1>5

LEMMA AttemptsStep ==
  ASSUME RestTypes
  PROVE  /\ 0 \in 0 .. MaxAttempts /\ 1 \in 0 .. MaxAttempts
         /\ w.attempt < MaxAttempts => w.attempt + 1 \in 0 .. MaxAttempts
<1>1. MaxAttempts \in Nat \ {0}
  BY RequestsAssumption
<1>2. w.attempt \in 0 .. MaxAttempts
  BY DEF RestTypes
<1> QED
  BY <1>1, <1>2

(* The controller.                                                         *)
StepTypes ==
  /\ UNCHANGED faults \/ Fault
  /\ UNCHANGED switches \/ switches' = switches + 1
  /\ wpc' \in Calls /\ w'.attempt \in 0 .. MaxAttempts

LEMMA ReconcileTypes ==
  ASSUME RequestInv, RestTypes, StartRequest \/ Reconcile \/ Crash
  PROVE  RestTypes'
<1>1. UNCHANGED policy
  <2>1. CASE StartRequest \/ UpdateStatus \/ DeleteOldInstruction \/ Crash
             \/ CreateReservationInstruction
    BY <2>1 DEF StartRequest, UpdateStatus, DeleteOldInstruction, Crash, broker,
       CreateReservationInstruction
  <2>2. CASE EvaluateProviders
    BY <2>2 DEF EvaluateProviders, Evaluated, PostEvaluation, RankClusters, broker
  <2>3. CASE RequestReservation
    BY <2>3 DEF RequestReservation, Reserve, Lock, broker
  <2> QED
    BY <2>1, <2>2, <2>3 DEF Reconcile
<1>2. StepTypes
  <2>1. ASSUME StartRequest
        PROVE  StepTypes
    <3>1. UNCHANGED switches
      BY <2>1 DEF StartRequest
    <3> QED
      BY <2>1, <3>1, StartRequestEffect, AttemptsStep DEF StepTypes, Call, Calls, RestTypes
  <2>2. ASSUME UpdateStatus
        PROVE  StepTypes
    BY <2>2, UpdateStatusEffect, AttemptsStep DEF StepTypes, Rests, Call, Calls
  <2>3. ASSUME DeleteOldInstruction \/ CreateReservationInstruction \/ Crash
        PROVE  StepTypes
    <3>1. UNCHANGED switches
      BY <2>3 DEF DeleteOldInstruction, CreateReservationInstruction, Crash
    <3> QED
      BY <2>3, <3>1, OtherEffects, AttemptsStep DEF StepTypes, Writes, Rests, Call, Calls
  <2>4. ASSUME EvaluateProviders
        PROVE  StepTypes
    BY <2>4, EvaluateProvidersEffect, AttemptsStep
       DEF StepTypes, Concluded, Writes, Rests, Call, Calls, RestTypes
  <2>5. ASSUME RequestReservation
        PROVE  StepTypes
    <3>1. UNCHANGED switches
      BY <2>5 DEF RequestReservation
    <3> QED
      BY <2>5, <3>1, RequestReservationEffect, AttemptsStep DEF StepTypes, Retried, Writes, Call, Calls
  <2> QED
    BY <2>1, <2>2, <2>3, <2>4, <2>5 DEF Reconcile
<1>3. UNCHANGED changes
  BY DEF StartRequest, Reconcile, Crash, UpdateStatus, DeleteOldInstruction,
     CreateReservationInstruction, EvaluateProviders, RequestReservation
<1>4. queued' \in BOOLEAN
  <2>1. queued \in BOOLEAN /\ req.exists \in BOOLEAN
    BY DEF RestTypes, RequestInv, AgentTypes, Request
  <2>2. UNCHANGED queued \/ queued' = TRUE \/ queued' = FALSE \/ queued' = req.exists
    BY UpdateStatusEffect, EvaluateProvidersEffect
       DEF StartRequest, Reconcile, Crash, DeleteOldInstruction,
           CreateReservationInstruction, RequestReservation, request
  <2> QED
    BY <2>1, <2>2
<1>5. recent' \subseteq Nat
  <2>1. recent \subseteq Nat /\ req.rv \in Nat
    BY DEF RestTypes, RequestInv, AgentTypes, Request
  <2>2. req.rv + 1 \in Nat
    BY <2>1
  <2>3. \/ recent' = recent \/ recent' = recent \cup {req.rv + 1}
        \/ recent' = recent \cap {req.rv}
    BY DEF StartRequest, Reconcile, Crash, UpdateStatus, DeleteOldInstruction,
       CreateReservationInstruction, EvaluateProviders, RequestReservation, request
  <2> QED
    BY <2>1, <2>2, <2>3
<1> QED
  BY <1>1, <1>2, <1>3, <1>4, <1>5, CountersStep DEF StepTypes, RestTypes

(* Everyone else leaves the controller and its worker alone.               *)
LEMMA OutsideTypes ==
  ASSUME RequestInv, RestTypes,
         \/ SyncRequest \/ IntervalPasses \/ UserDeletesRequest
         \/ \E i \in Ids : BrokerEnds(i) \/ InstructionEnds(i) \/ TeardownEnds(i)
         \/ \E c \in Providers : ProviderChanges(c)
         \/ \E b \in creating : CreateNetworkBond(b) \/ LoseNetworkBond(b)
         \/ UNCHANGED vars
  PROVE  RestTypes' /\ UNCHANGED wpc /\ UNCHANGED w
<1>1. UNCHANGED wpc /\ UNCHANGED w /\ UNCHANGED policy /\ UNCHANGED switches
  BY DEF SyncRequest, IntervalPasses, UserDeletesRequest, BrokerEnds, InstructionEnds, TeardownEnds,
     ProviderChanges, CreateNetworkBond, LoseNetworkBond, ChangeActive, Lock, Unlock, AgeBond,
     CreateBond, LoseBond, vars, broker, worker
<1>2. UNCHANGED faults \/ Fault
  BY DEF SyncRequest, IntervalPasses, UserDeletesRequest, BrokerEnds, InstructionEnds, TeardownEnds,
     ProviderChanges, CreateNetworkBond, LoseNetworkBond, vars
<1>3. UNCHANGED changes \/ Change
  BY DEF SyncRequest, IntervalPasses, UserDeletesRequest, BrokerEnds, InstructionEnds, TeardownEnds,
     ProviderChanges, CreateNetworkBond, LoseNetworkBond, vars
<1>4. UNCHANGED queued \/ queued' = TRUE
  BY DEF SyncRequest, IntervalPasses, UserDeletesRequest, BrokerEnds, InstructionEnds, TeardownEnds,
     ProviderChanges, CreateNetworkBond, LoseNetworkBond, vars, request
<1>5. recent' \subseteq recent
  BY DEF SyncRequest, IntervalPasses, UserDeletesRequest, BrokerEnds, InstructionEnds, TeardownEnds,
     ProviderChanges, CreateNetworkBond, LoseNetworkBond, vars, request
<1>6. /\ faults' \in 0 .. MaxFaults /\ changes' \in 0 .. MaxChanges /\ switches' \in Nat
  BY <1>1, <1>2, <1>3, CountersStep
<1>7. queued' \in BOOLEAN
  BY <1>4 DEF RestTypes
<1> QED
  BY <1>1, <1>5, <1>6, <1>7 DEF RestTypes

(* Who is measured is connected: the worker re-evaluates for the target of *)
(* a status that was Reserved, however old its copy is.                    *)
TargetInv ==
  /\ \A c \in Providers \cup {None} :
       /\ qcache.status.phase = "Reserved" /\ qcache.status.target = c => Connected(c)
       /\ wpc = "evaluate" /\ w.again = TRUE /\ w.target = c => Connected(c)
  /\ wpc = "evaluate" /\ w.again = FALSE => w.target = None

LEMMA NextTarget ==
  ASSUME RequestInv, RestTypes, TargetInv, Kept, [Next]_vars
  PROVE  TargetInv'
<1>1. qcache' = qcache \/ qcache' = req
  BY DEF Next, StartRequest, Reconcile, Crash, UpdateStatus, DeleteOldInstruction,
     CreateReservationInstruction, EvaluateProviders, RequestReservation, SyncRequest,
     IntervalPasses, UserDeletesRequest, BrokerEnds, InstructionEnds, TeardownEnds, ProviderChanges,
     CreateNetworkBond, LoseNetworkBond, vars, request
<1>2. \/ UNCHANGED wpc /\ UNCHANGED w
      \/ wpc' # "evaluate"
      \/ wpc' = "evaluate" /\ w'.target = None /\ w'.again = FALSE
      \/ /\ wpc' = "evaluate" /\ w'.target = qcache.status.target /\ w'.again = TRUE
         /\ qcache.status.phase = "Reserved"
  <2>1. CASE StartRequest
    BY <2>1, StartRequestEffect DEF Call
  <2>2. CASE UpdateStatus
    BY <2>2, UpdateStatusEffect DEF Rests, Call
  <2>3. CASE EvaluateProviders
    BY <2>3, EvaluateProvidersEffect DEF Concluded, Writes, Rests, Call
  <2>4. CASE RequestReservation
    BY <2>4, RequestReservationEffect DEF Retried, Writes, Call
  <2>5. CASE DeleteOldInstruction \/ CreateReservationInstruction \/ Crash
    BY <2>5, OtherEffects DEF Writes, Rests, Call
  <2>6. CASE ~ (StartRequest \/ Reconcile \/ Crash)
    BY <2>6, OutsideTypes DEF Next
  <2> QED
    BY <2>1, <2>2, <2>3, <2>4, <2>5, <2>6 DEF Reconcile
<1>3. ASSUME NEW c \in Providers \cup {None}
      PROVE  /\ qcache'.status.phase = "Reserved" /\ qcache'.status.target = c => Connected(c)'
             /\ wpc' = "evaluate" /\ w'.again = TRUE /\ w'.target = c => Connected(c)'
  <2>1. req.status.phase = "Reserved" /\ req.status.target = c => Connected(c)
    BY DEF RequestInv, StatusInv, GrantedOn, Connected, Granted
  <2>2. Connected(c) => Connected(c)'
    BY ConnectedStays
  <2> QED
    BY <1>1, <1>2, <2>1, <2>2 DEF TargetInv
<1>4. wpc' = "evaluate" /\ w'.again = FALSE => w'.target = None
  BY <1>2 DEF TargetInv
<1> QED
  BY <1>3, <1>4 DEF TargetInv

LEMMA NextBonds ==
  ASSUME RequestInv, BrokerTypes, BondInv, TargetInv, Kept, [Next]_vars
  PROVE  BrokerTypes' /\ BondInv'
<1>1. ASSUME UNCHANGED broker
      PROVE  BrokerTypes' /\ BondInv'
  BY <1>1, BondsStay DEF broker, BrokerTypes
<1>2. CASE EvaluateProviders
  <2>1. CASE UNCHANGED broker
    BY <1>1, <2>1
  <2>2. CASE Evaluated
    <3>1. UNCHANGED rsv /\ wpc = "evaluate"
      BY <1>2 DEF EvaluateProviders
    <3>2. w.target \in Providers \cup {None} /\ w.again \in BOOLEAN
      BY DEF RequestInv, AgentTypes, WorkerRecord
    <3>3. w.target # None => Connected(w.target)
      BY <3>1, <3>2 DEF TargetInv
    <3>4. PICK measured \in ScrapeGatewayLatency(w.target), best \in Providers \cup {None} :
            PostEvaluation(w.target, measured, best)
      BY <2>2 DEF Evaluated
    <3> QED
      BY <3>1, <3>2, <3>3, <3>4, PostEvaluationBonds
  <2> QED
    BY <1>2, <2>1, <2>2 DEF EvaluateProviders
<1>3. CASE RequestReservation
  BY <1>1, <1>3, RequestReservationEffect, AvailableStays DEF Reserve
<1>4. ASSUME NEW i \in Ids, BrokerEnds(i) \/ InstructionEnds(i) \/ TeardownEnds(i)
      PROVE  BrokerTypes' /\ BondInv'
  BY <1>1, <1>4, AvailableStays DEF BrokerEnds, InstructionEnds, TeardownEnds
<1>5. ASSUME NEW c \in Providers, ProviderChanges(c)
      PROVE  BrokerTypes' /\ BondInv'
  BY <1>5, AvailableStays, AgeBondBonds, ChangeActiveBonds DEF ProviderChanges
<1>6. ASSUME NEW b \in creating, CreateNetworkBond(b) \/ LoseNetworkBond(b)
      PROVE  BrokerTypes' /\ BondInv'
  BY <1>6, CreateBondBonds, LoseBondBonds DEF CreateNetworkBond, LoseNetworkBond
<1>7. CASE \/ StartRequest \/ UpdateStatus \/ DeleteOldInstruction
           \/ CreateReservationInstruction \/ SyncRequest \/ IntervalPasses \/ Crash
           \/ UserDeletesRequest \/ UNCHANGED vars
  <2>1. UNCHANGED broker
    BY <1>7 DEF StartRequest, UpdateStatus, DeleteOldInstruction, CreateReservationInstruction,
       SyncRequest, IntervalPasses, Crash, UserDeletesRequest, vars
  <2> QED
    BY <1>1, <2>1
<1> QED
  BY <1>2, <1>3, <1>4, <1>5, <1>6, <1>7 DEF Next, Reconcile

TypeInv == RequestInv /\ BrokerTypes /\ RestTypes /\ BondInv /\ TargetInv

LEMMA InitTypeInv == Init => TypeInv
<1> SUFFICES ASSUME Init PROVE TypeInv
  OBVIOUS
<1>1. RequestInv
  BY InitRequestInv
<1>2. BrokerTypes
  <2>1. NoBond \in Bond
    BY DEF NoBond, Bond
  <2>2. Allocatable \in [Providers -> Nat]
    BY EvaluationAssumption
  <2> QED
    BY <2>1, <2>2 DEF Init, EvaluationInit, BrokerTypes
<1>3. RestTypes
  <2>1. /\ MaxAttempts \in Nat /\ MaxFaults \in Nat /\ MaxChanges \in Nat
    BY RequestsAssumption
  <2>2. w.attempt = 0
    BY DEF Init, Idle
  <2>3. 0 \in 0 .. MaxAttempts /\ 0 \in 0 .. MaxFaults /\ 0 \in 0 .. MaxChanges
    BY <2>1
  <2> QED
    BY <2>2, <2>3 DEF Init, EvaluationInit, RestTypes, Calls
<1>4. BondInv
  <2>1. \A c \in Providers : bonds[c] = NoBond
    BY DEF Init, EvaluationInit
  <2>2. NoBond.actual = 0 /\ NoBond.exists = FALSE /\ creating = {}
    BY DEF Init, EvaluationInit, NoBond
  <2> QED
    BY <2>1, <2>2 DEF BondInv
<1>5. TargetInv
  BY DEF Init, Status, TargetInv
<1> QED
  BY <1>1, <1>2, <1>3, <1>4, <1>5 DEF TypeInv

LEMMA NextTypeInv ==
  ASSUME TypeInv, [Next]_vars
  PROVE  TypeInv' /\ Kept
<1>1. RequestInv' /\ Kept
  BY NextStepOK, StepOKSuffices DEF TypeInv, StepOK
<1>2. RestTypes'
  <2>1. CASE StartRequest \/ Reconcile \/ Crash
    BY <2>1, ReconcileTypes DEF TypeInv
  <2>2. CASE ~ (StartRequest \/ Reconcile \/ Crash)
    BY <2>2, OutsideTypes DEF TypeInv, Next
  <2> QED
    BY <2>1, <2>2
<1>3. TargetInv' /\ BrokerTypes' /\ BondInv'
  BY <1>1, NextTarget, NextBonds DEF TypeInv
<1> QED
  BY <1>1, <1>2, <1>3 DEF TypeInv

(* The objects of the agent and of the broker keep their types: the scores *)
(* that become latencies of a bond are numbers, no provider is promised    *)
(* below zero, and no request is posted more often than MaxAttempts.       *)
THEOREM RequestTypes == Spec => []TypeOK
<1>1. TypeInv => TypeOK
  BY TypesMakeTypeOK DEF TypeInv, RequestInv
<1> QED
  BY <1>1, InitTypeInv, NextTypeInv, PTL DEF Spec

(* PostEvaluation stores an actual latency only for a provider that this   *)
(* requester holds or held a reservation on, whatever copies are outdated: *)
(* one that was never tried keeps its place before those that were, even   *)
(* if another cluster of its region is known.                              *)
THEOREM MeasuredWasReserved == Spec => []ActualMeansConnected
<1>1. TypeInv => ActualMeansConnected
  BY DEF TypeInv, BondInv, Connected, ActualMeansConnected
<1> QED
  BY <1>1, InitTypeInv, NextTypeInv, PTL DEF Spec

-----------------------------------------------------------------------------
(* What everyone else does.                                                *)

Outside ==
  \/ SyncRequest \/ IntervalPasses \/ UserDeletesRequest
  \/ \E i \in Ids : BrokerEnds(i) \/ InstructionEnds(i) \/ TeardownEnds(i)
  \/ \E c \in Providers : ProviderChanges(c)
  \/ \E b \in creating : CreateNetworkBond(b) \/ LoseNetworkBond(b)
  \/ UNCHANGED vars

LEMMA NextIsOneOf ==
  ASSUME [Next]_vars
  PROVE  StartRequest \/ Reconcile \/ Crash \/ Outside
  BY DEF Next, Outside

LEMMA OutsideEffect ==
  ASSUME RequestInv, RestTypes, Outside
  PROVE  /\ UNCHANGED wpc /\ UNCHANGED w /\ UNCHANGED switches
         /\ UNCHANGED faults \/ Fault
         /\ \/ UNCHANGED req
            \/ /\ req'.exists = FALSE /\ req'.rv = req.rv + 1 /\ req'.status = req.status
               /\ UNCHANGED qcache
         /\ qcache' \in {qcache, req} /\ recent' \subseteq recent
         /\ \A i \in Ids : instr'[i] \in {instr[i], "deleting", "ended"}
         /\ Granted' = Granted
<1>1. UNCHANGED wpc /\ UNCHANGED w
  BY OutsideTypes DEF Outside
<1>2. UNCHANGED switches
  BY DEF Outside, SyncRequest, IntervalPasses, UserDeletesRequest, BrokerEnds, InstructionEnds, TeardownEnds,
     ProviderChanges, CreateNetworkBond, LoseNetworkBond, vars
<1>3. UNCHANGED faults \/ Fault
  BY DEF Outside, SyncRequest, IntervalPasses, UserDeletesRequest, BrokerEnds, InstructionEnds, TeardownEnds,
     ProviderChanges, CreateNetworkBond, LoseNetworkBond, vars
<1>4. \/ UNCHANGED req
      \/ /\ req'.exists = FALSE /\ req'.rv = req.rv + 1 /\ req'.status = req.status
         /\ UNCHANGED qcache
  <2>1. CASE UserDeletesRequest
    <3>1. req' = [req EXCEPT !.rv = req.rv + 1, !.exists = FALSE] /\ req \in Request
      BY <2>1 DEF UserDeletesRequest, RequestInv, AgentTypes
    <3>2. req'.exists = FALSE /\ req'.rv = req.rv + 1 /\ req'.status = req.status
      BY <3>1 DEF Request
    <3> QED
      BY <2>1, <3>2 DEF UserDeletesRequest
  <2>2. CASE ~ UserDeletesRequest
    BY <2>2 DEF Outside, SyncRequest, IntervalPasses, BrokerEnds, InstructionEnds, TeardownEnds,
       ProviderChanges, CreateNetworkBond, LoseNetworkBond, vars, request
  <2> QED
    BY <2>1, <2>2
<1>5. qcache' \in {qcache, req} /\ recent' \subseteq recent
  BY DEF Outside, SyncRequest, IntervalPasses, UserDeletesRequest, BrokerEnds, InstructionEnds, TeardownEnds,
     ProviderChanges, CreateNetworkBond, LoseNetworkBond, vars, request
<1>6. \A i \in Ids : instr'[i] \in {instr[i], "deleting", "ended"}
  <2>1. instr \in [Ids -> {"", "live", "deleting", "ended"}]
    BY DEF RequestInv, AgentTypes
  <2>2. instr' = instr \/ \E i \in Ids : Delete(i) \/ instr' = [instr EXCEPT ![i] = "ended"]
    BY DEF Outside, SyncRequest, IntervalPasses, UserDeletesRequest, BrokerEnds,
       InstructionEnds, TeardownEnds, ProviderChanges, CreateNetworkBond, LoseNetworkBond, vars
  <2> QED
    BY <2>1, <2>2 DEF Delete
<1>7. Granted' = Granted
  <2>1. ASSUME NEW i \in Ids, BrokerEnds(i)
        PROVE  Granted' = Granted
    <3>1. /\ rsv[i].phase = "Reserved" /\ rsv' = [rsv EXCEPT ![i].phase = "Ended"]
          /\ rsv \in [Ids -> Reservation]
      BY <2>1 DEF BrokerEnds, RequestInv, AgentTypes
    <3>2. /\ rsv'[i].phase = "Ended"
          /\ \A j \in Ids : j # i => rsv'[j] = rsv[j]
      BY <3>1 DEF Reservation
    <3> QED
      BY <3>1, <3>2 DEF Granted
  <2>2. CASE ~ \E i \in Ids : BrokerEnds(i)
    BY <2>2 DEF Outside, UserDeletesRequest, SyncRequest, IntervalPasses,
       InstructionEnds, TeardownEnds, ProviderChanges, CreateNetworkBond, LoseNetworkBond, vars, Granted
  <2> QED
    BY <2>1, <2>2
<1> QED
  BY <1>1, <1>2, <1>3, <1>4, <1>5, <1>6, <1>7

-----------------------------------------------------------------------------
(* What a request costs.                                                   *)

Undecided == req.exists /\ req.status.phase \in {"", "Pending"}

(* A further reservation may be granted without another fault or switch.   *)
MayGrant ==
  \/ wpc \in {"pending", "switch", "post"}
  \/ wpc = "evaluate" /\ w.again = FALSE
  \/ wpc = "status" /\ w.goal \in {"", "Pending"}
  \/ wpc \in {"idle", "evaluate"} /\ Undecided

GrantsInv == Cardinality(Granted) + (IF MayGrant THEN 1 ELSE 0) <= 1 + switches + faults

LEMMA IdsFinite ==
  ASSUME NEW S \in SUBSET Ids
  PROVE  IsFiniteSet(S) /\ Cardinality(S) \in Nat
<1>1. MaxReservations \in Nat
  BY RequestsAssumption
<1>2. IsFiniteSet(Ids)
  BY <1>1, FS_Interval DEF Ids
<1> QED
  BY <1>2, FS_Subset, FS_CardinalityType

(* Whoever may grant has been paid for.                                    *)
Paid == faults' = faults + 1 \/ switches' = switches + 1

GrantsStep ==
  /\ UNCHANGED faults \/ Fault
  /\ UNCHANGED switches \/ switches' = switches + 1
  /\ \/ Granted' = Granted /\ (MayGrant' => MayGrant \/ Paid)
     \/ \E i \in Ids : /\ Granted' = Granted \cup {i} /\ MayGrant
                       /\ ~ MayGrant' \/ Paid

LEMMA GrantsStepSuffices ==
  ASSUME RestTypes, GrantsInv, GrantsStep
  PROVE  GrantsInv'
<1>1. faults \in Nat /\ switches \in Nat
  BY DEF RestTypes
<1>2. /\ faults' = faults \/ faults' = faults + 1
      /\ switches' = switches \/ switches' = switches + 1
  BY DEF GrantsStep, Fault
<1>3. Granted \subseteq Ids
  BY DEF Granted
<1>4. Cardinality(Granted) \in Nat /\ IsFiniteSet(Granted)
  BY <1>3, IdsFinite
<1>5. CASE Granted' = Granted /\ (MayGrant' => MayGrant \/ Paid)
  BY <1>1, <1>2, <1>4, <1>5 DEF GrantsInv, Paid
<1>6. ASSUME NEW i \in Ids, Granted' = Granted \cup {i}, MayGrant, ~ MayGrant' \/ Paid
      PROVE  GrantsInv'
  <2>1. Cardinality(Granted') \in Nat /\ Cardinality(Granted') <= Cardinality(Granted) + 1
    BY <1>4, <1>6, FS_AddElement
  <2>2. Cardinality(Granted) + 1 <= 1 + switches + faults
    BY <1>6 DEF GrantsInv
  <2> QED
    BY <1>1, <1>2, <1>4, <1>6, <2>1, <2>2 DEF GrantsInv, Paid
<1> QED
  BY <1>5, <1>6 DEF GrantsStep

LEMMA NextGrants ==
  ASSUME RequestInv, RestTypes, [Next]_vars
  PROVE  GrantsStep
<1>1. CASE StartRequest
  <2>1. Granted' = Granted /\ UNCHANGED req /\ UNCHANGED switches
    BY <1>1 DEF StartRequest, Granted
  <2>2. (MayGrant' => MayGrant \/ Paid) /\ (UNCHANGED faults \/ Fault)
    BY <1>1, <2>1, StartRequestEffect DEF MayGrant, Undecided, Paid, Fault, Call
  <2> QED
    BY <2>1, <2>2 DEF GrantsStep
<1>2. CASE UpdateStatus
  <2>1. Granted' = Granted
    BY <1>2, UpdateStatusEffect DEF Granted
  <2>2. w.goal \in {"", "Pending", "Reserved", "Failed"}
    BY DEF RequestInv, AgentTypes, WorkerRecord
  <2>3. /\ MayGrant' => MayGrant \/ Paid
        /\ UNCHANGED faults \/ Fault
        /\ UNCHANGED switches
    BY <1>2, <2>2, UpdateStatusEffect DEF MayGrant, Undecided, Paid, Fault, Rests, Call
  <2> QED
    BY <2>1, <2>3 DEF GrantsStep
<1>3. CASE DeleteOldInstruction \/ CreateReservationInstruction \/ Crash
  <2>1. Granted' = Granted /\ UNCHANGED req /\ UNCHANGED switches
    BY <1>3 DEF DeleteOldInstruction, CreateReservationInstruction, Crash, request, Granted
  <2>2. (MayGrant' => MayGrant \/ Paid) /\ (UNCHANGED faults \/ Fault)
    BY <1>3, <2>1, OtherEffects DEF MayGrant, Undecided, Paid, Fault, Writes, Rests, Call
  <2> QED
    BY <2>1, <2>2 DEF GrantsStep
<1>4. CASE EvaluateProviders
  <2>1. Granted' = Granted /\ UNCHANGED req
    BY <1>4 DEF EvaluateProviders, Granted
  <2>2. /\ MayGrant' => MayGrant \/ Paid
        /\ UNCHANGED faults \/ Fault
        /\ UNCHANGED switches \/ switches' = switches + 1
    BY <1>4, <2>1, EvaluateProvidersEffect
       DEF MayGrant, Undecided, Paid, Concluded, Writes, Rests, Call
  <2> QED
    BY <2>1, <2>2 DEF GrantsStep
<1>5. CASE RequestReservation
  <2>1. UNCHANGED switches /\ MayGrant
    BY <1>5 DEF RequestReservation, MayGrant
  <2>2. CASE UNCHANGED rsv /\ UNCHANGED faults
    BY <2>1, <2>2 DEF GrantsStep, Granted
  <2>3. ASSUME NEW i \in Ids, Granted' = Granted \cup {i},
               \/ Call("instruct", w.target, i, 0, w.goal, w.again) /\ UNCHANGED faults
               \/ Fault /\ Retried
        PROVE  GrantsStep
    BY <2>1, <2>3 DEF GrantsStep, Call, MayGrant, Paid, Fault
  <2> QED
    BY <1>5, <2>2, <2>3, RequestReservationEffect
<1>6. CASE Outside
  <2>1. MayGrant' => MayGrant
    BY <1>6, OutsideEffect DEF MayGrant, Undecided
  <2> QED
    BY <1>6, <2>1, OutsideEffect DEF GrantsStep
<1> QED
  BY <1>1, <1>2, <1>3, <1>4, <1>5, <1>6, NextIsOneOf DEF Reconcile

Live == {i \in Ids : instr[i] = "live"}

(* The one instruction that may be live without a fault: the one that the  *)
(* status names or is about to name.                                       *)
Covers(x) ==
  \/ x = 0
  \/ wpc = "idle" /\ req.exists = FALSE
  \/ /\ req.status.phase = "Reserved" /\ x = req.status.reservation
     /\ \/ wpc = "idle"
        \/ wpc = "evaluate" /\ w.again = TRUE /\ w.id = x
        \/ wpc = "switch" /\ w.id = x
  \/ wpc = "status" /\ w.goal = "Reserved" /\ w.id = x

InstructionsInv ==
  \E x \in Ids \cup {0} : Covers(x) /\ Cardinality(Live \ {x}) <= faults

InstructionsStep ==
  \/ /\ UNCHANGED faults /\ Live' \subseteq Live
     /\ \A x \in Ids \cup {0} : Covers(x) => Covers(x)'
  \/ Fault /\ Live' \subseteq Live
  \/ /\ UNCHANGED faults /\ Live' \subseteq Live \ {w.id}
     /\ \A x \in Ids \cup {0} : Covers(x) => x \in {0, w.id}
  \/ /\ UNCHANGED faults /\ Live' \subseteq Live \cup {w.id} /\ w.id \in Ids
     /\ \A x \in Ids \cup {0} : Covers(x) => x = 0
     /\ \A x \in Ids \cup {0} : x = w.id => Covers(x)'

LEMMA LiveCounts ==
  ASSUME NEW S \in SUBSET Ids, NEW T \in SUBSET S
  PROVE  /\ Cardinality(S) \in Nat /\ Cardinality(T) \in Nat
         /\ Cardinality(T) <= Cardinality(S)
         /\ \A x : Cardinality(S) <= Cardinality(S \ {x}) + 1
         /\ S \ {0} = S
<1>1. IsFiniteSet(S) /\ Cardinality(S) \in Nat /\ Cardinality(T) \in Nat
  BY IdsFinite
<1>2. Cardinality(T) <= Cardinality(S)
  BY <1>1, FS_Subset
<1>3. ASSUME NEW x
      PROVE  Cardinality(S) <= Cardinality(S \ {x}) + 1
  <2>1. IsFiniteSet(S \ {x}) /\ Cardinality(S \ {x}) \in Nat
    BY IdsFinite
  <2>2. CASE x \in S
    <3>1. Cardinality(S \ {x}) = Cardinality(S) - 1
      BY <1>1, <2>2, FS_RemoveElement
    <3> QED
      BY <1>1, <2>1, <3>1
  <2>3. CASE x \notin S
    <3>1. S \ {x} = S
      BY <2>3
    <3>2. Cardinality(S \ {x}) = Cardinality(S)
      BY <3>1
    <3> QED
      BY <1>1, <3>2
  <2> QED
    BY <2>2, <2>3
<1>4. S \ {0} = S
  <2>1. 0 \notin Ids
    <3>1. MaxReservations \in Nat
      BY RequestsAssumption
    <3> QED
      BY <3>1 DEF Ids
  <2> QED
    BY <2>1
<1> QED
  BY <1>1, <1>2, <1>3, <1>4

LEMMA InstructionsStepSuffices ==
  ASSUME RestTypes, InstructionsInv, InstructionsStep
  PROVE  InstructionsInv'
<1>1. faults \in Nat /\ Live \in SUBSET Ids /\ Live' \in SUBSET Ids
  BY DEF RestTypes, Live
<1>2. PICK x \in Ids \cup {0} : Covers(x) /\ Cardinality(Live \ {x}) <= faults
  BY DEF InstructionsInv
<1>3. 0 \in Ids \cup {0} /\ Covers(0)' /\ Live' \ {0} = Live'
  BY <1>1, LiveCounts DEF Covers
<1>4. ASSUME UNCHANGED faults, Live' \subseteq Live, Covers(x)'
      PROVE  InstructionsInv'
  <2>1. Live \ {x} \in SUBSET Ids /\ Live' \ {x} \in SUBSET (Live \ {x})
    BY <1>1, <1>4
  <2>2. /\ Cardinality(Live' \ {x}) <= Cardinality(Live \ {x})
        /\ Cardinality(Live' \ {x}) \in Nat /\ Cardinality(Live \ {x}) \in Nat
    BY <2>1, LiveCounts
  <2>3. Cardinality(Live' \ {x}) <= faults'
    BY <1>1, <1>2, <1>4, <2>2
  <2> QED
    BY <1>4, <2>3 DEF InstructionsInv
<1>5. ASSUME Fault, Live' \subseteq Live
      PROVE  InstructionsInv'
  <2>1. /\ Cardinality(Live') <= Cardinality(Live)
        /\ Cardinality(Live) <= Cardinality(Live \ {x}) + 1
        /\ Cardinality(Live') \in Nat /\ Cardinality(Live) \in Nat
    BY <1>1, <1>5, LiveCounts
  <2>2. Cardinality(Live \ {x}) \in Nat
    BY <1>1, IdsFinite
  <2>3. faults' = faults + 1
    BY <1>5 DEF Fault
  <2>4. Cardinality(Live') <= faults'
    BY <1>1, <1>2, <2>1, <2>2, <2>3
  <2> QED
    BY <1>3, <2>4 DEF InstructionsInv
<1>6. ASSUME UNCHANGED faults, Live' \subseteq Live \ {x}
      PROVE  InstructionsInv'
  <2>1. Live \ {x} \in SUBSET Ids /\ Live' \in SUBSET (Live \ {x})
    BY <1>1, <1>6
  <2>2. /\ Cardinality(Live') <= Cardinality(Live \ {x})
        /\ Cardinality(Live') \in Nat /\ Cardinality(Live \ {x}) \in Nat
    BY <2>1, LiveCounts
  <2>3. Cardinality(Live') <= faults'
    BY <1>1, <1>2, <1>6, <2>2
  <2> QED
    BY <1>3, <2>3 DEF InstructionsInv
<1>7. CASE /\ UNCHANGED faults /\ Live' \subseteq Live \ {w.id}
           /\ x \in {0, w.id}
  <2>1. Live \ {0} = Live
    BY <1>1, LiveCounts
  <2>2. Live' \subseteq Live \ {x}
    BY <1>7, <2>1
  <2> QED
    BY <1>6, <1>7, <2>2
<1>8. ASSUME UNCHANGED faults, Live' \subseteq Live \cup {w.id}, w.id \in Ids, x = 0,
             \A y \in Ids \cup {0} : y = w.id => Covers(y)'
      PROVE  InstructionsInv'
  <2>1. Live \ {0} = Live
    BY <1>1, LiveCounts
  <2>2. PICK y \in Ids : y = w.id
    BY <1>8
  <2>3. Live' \ {y} \in SUBSET Live
    BY <1>8, <2>2
  <2>4. /\ Cardinality(Live' \ {y}) <= Cardinality(Live)
        /\ Cardinality(Live' \ {y}) \in Nat /\ Cardinality(Live) \in Nat
    BY <1>1, <2>3, LiveCounts
  <2>5. Cardinality(Live' \ {y}) <= faults'
    BY <1>1, <1>2, <1>8, <2>1, <2>4
  <2>6. Covers(y)'
    BY <1>8, <2>2
  <2> QED
    BY <2>5, <2>6 DEF InstructionsInv
<1> QED
  BY <1>2, <1>4, <1>5, <1>7, <1>8 DEF InstructionsStep

LEMMA NextInstructions ==
  ASSUME RequestInv, RestTypes, [Next]_vars
  PROVE  InstructionsStep
<1>0. instr \in [Ids -> {"", "live", "deleting", "ended"}] /\ req.exists \in BOOLEAN
  BY DEF RequestInv, AgentTypes, Request
<1>1. CASE StartRequest
  <2>1. Live' = Live /\ UNCHANGED req
    BY <1>1 DEF StartRequest, Live
  <2>2. ASSUME UNCHANGED faults, ~ Fault, NEW x \in Ids \cup {0}, Covers(x)
        PROVE  Covers(x)'
    <3>1. qcache = req
      BY <1>1, <2>2, StartRequestEffect
    <3> QED
      BY <1>1, <2>1, <2>2, <3>1, StartRequestEffect DEF Covers, Call
  <2> QED
    BY <1>1, <2>1, <2>2, StartRequestEffect DEF InstructionsStep
<1>2. CASE UpdateStatus
  <2>1. Live' = Live /\ wpc \in {"pending", "status"}
    BY <1>2, UpdateStatusEffect DEF Live, UpdateStatus
  <2>2. ASSUME ~ Fault, NEW x \in Ids \cup {0}, Covers(x)
        PROVE  Covers(x)' /\ UNCHANGED faults
    <3>1. CASE /\ req'.status.phase = w.goal /\ req'.status.reservation = w.id
               /\ UNCHANGED faults
               /\ wpc = "pending" \/ (wpc = "status" /\ Rests)
      BY <2>2, <3>1 DEF Covers, Rests, Call
    <3>2. CASE req.exists = FALSE /\ UNCHANGED faults /\ UNCHANGED req /\ Rests
      BY <2>2, <3>2 DEF Covers, Rests, Call
    <3> QED
      BY <1>0, <1>2, <2>2, <3>1, <3>2, UpdateStatusEffect
  <2>3. UNCHANGED faults \/ Fault
    BY <1>2, UpdateStatusEffect
  <2> QED
    BY <2>1, <2>2, <2>3 DEF InstructionsStep
<1>3. CASE EvaluateProviders
  <2>1. Live' = Live /\ UNCHANGED req
    BY <1>3 DEF EvaluateProviders, Live
  <2>2. ASSUME NEW x \in Ids \cup {0}, Covers(x)
        PROVE  Covers(x)'
    BY <1>3, <2>1, <2>2, EvaluateProvidersEffect DEF Covers, Concluded, Writes, Rests, Call
  <2> QED
    BY <1>3, <2>1, <2>2, EvaluateProvidersEffect DEF InstructionsStep
<1>4. CASE RequestReservation
  <2>1. Live' = Live /\ wpc = "post"
    BY <1>4 DEF RequestReservation, Live
  <2>2. UNCHANGED faults \/ Fault
    BY <1>4, RequestReservationEffect
  <2>3. ASSUME NEW x \in Ids \cup {0}, Covers(x)
        PROVE  Covers(x)'
    BY <2>1, <2>3 DEF Covers
  <2> QED
    BY <2>1, <2>2, <2>3 DEF InstructionsStep
<1>5. CASE DeleteOldInstruction
  <2>1. wpc = "switch"
    BY <1>5, OtherEffects
  <2>2. CASE Fault /\ UNCHANGED instr
    BY <2>2 DEF InstructionsStep, Live
  <2>3. CASE /\ Delete(w.id) \/ (instr[w.id] # "live" /\ UNCHANGED instr)
             /\ UNCHANGED faults
    <3>1. Live' \subseteq Live \ {w.id}
      BY <1>0, <2>3 DEF Live, Delete
    <3>2. \A x \in Ids \cup {0} : Covers(x) => x \in {0, w.id}
      BY <2>1 DEF Covers
    <3> QED
      BY <2>3, <3>1, <3>2 DEF InstructionsStep
  <2> QED
    BY <1>5, <2>2, <2>3, OtherEffects
<1>6. CASE CreateReservationInstruction
  <2>1. wpc = "instruct" /\ w.id \in Ids
    BY <1>6, OtherEffects
  <2>2. CASE Fault /\ UNCHANGED instr
    BY <2>2 DEF InstructionsStep, Live
  <2>3. CASE /\ instr' = [instr EXCEPT ![w.id] = "live"]
             /\ Writes("Reserved", w.target, w.id) /\ UNCHANGED faults
    <3>1. Live' \subseteq Live \cup {w.id}
      BY <1>0, <2>3 DEF Live
    <3>2. \A x \in Ids \cup {0} : Covers(x) => x = 0
      BY <2>1 DEF Covers
    <3>3. \A x \in Ids \cup {0} : x = w.id => Covers(x)'
      BY <2>3 DEF Covers, Writes, Call
    <3> QED
      BY <2>1, <2>3, <3>1, <3>2, <3>3 DEF InstructionsStep
  <2> QED
    BY <1>6, <2>2, <2>3, OtherEffects
<1>7. CASE Crash
  <2>1. Live' = Live
    BY <1>7 DEF Crash, Live
  <2> QED
    BY <1>7, <2>1, OtherEffects DEF InstructionsStep
<1>8. CASE Outside
  <2>1. Live' \subseteq Live
    BY <1>8, OutsideEffect DEF Live
  <2>2. ASSUME NEW x \in Ids \cup {0}, Covers(x)
        PROVE  Covers(x)'
    BY <1>8, <2>2, OutsideEffect DEF Covers
  <2> QED
    BY <1>8, <2>1, <2>2, OutsideEffect DEF InstructionsStep
<1> QED
  BY <1>1, <1>2, <1>3, <1>4, <1>5, <1>6, <1>7, <1>8, NextIsOneOf DEF Reconcile

LEMMA InitCosts == Init => GrantsInv /\ InstructionsInv
<1> SUFFICES ASSUME Init PROVE GrantsInv /\ InstructionsInv
  OBVIOUS
<1>1. Granted = {} /\ Live \ {0} = {} /\ faults = 0 /\ switches = 0
  BY DEF Init, Granted, Live
<1>2. Cardinality({}) = 0
  BY FS_EmptySet
<1>3. GrantsInv
  BY <1>1, <1>2 DEF GrantsInv
<1>4. 0 \in Ids \cup {0} /\ Covers(0) /\ Cardinality(Live \ {0}) <= faults
  BY <1>1, <1>2 DEF Covers
<1> QED
  BY <1>3, <1>4 DEF InstructionsInv

LEMMA NextCosts ==
  ASSUME TypeInv, GrantsInv, InstructionsInv, [Next]_vars
  PROVE  TypeInv' /\ GrantsInv' /\ InstructionsInv'
  BY NextTypeInv, NextGrants, GrantsStepSuffices, NextInstructions, InstructionsStepSuffices
     DEF TypeInv

(* The broker grants a request one reservation, and one more for each      *)
(* switch and for each lost answer, outdated read or restart: nothing else *)
(* that PostReservation leaves behind is forgotten by the controller.      *)
THEOREM GrantsArePaidFor == Spec => []GrantsAreAccountedFor
<1>1. TypeInv /\ GrantsInv => GrantsAreAccountedFor
  <2> SUFFICES ASSUME TypeInv, GrantsInv PROVE GrantsAreAccountedFor
    OBVIOUS
  <2>0. Granted \in SUBSET Ids
    BY DEF Granted
  <2>1. faults \in Nat /\ switches \in Nat
    BY DEF TypeInv, RestTypes
  <2>2. Cardinality(Granted) \in Nat
    BY <2>0, IdsFinite
  <2> QED
    BY <2>1, <2>2 DEF GrantsInv, GrantsAreAccountedFor
<1> QED
  BY <1>1, InitTypeInv, InitCosts, NextCosts, PTL DEF Spec

(* A switch deletes the old instruction before the new one is created, so  *)
(* that without a fault a request never has two that were not told to end: *)
(* whichever is live is the one that its status names or is about to name. *)
(* (The teardown of the old one is the other controller's, and later.)     *)
THEOREM OneInstructionAtATime == Spec => []OneInstruction
<1>1. TypeInv /\ InstructionsInv => OneInstruction
  <2> SUFFICES ASSUME TypeInv, InstructionsInv PROVE OneInstruction
    OBVIOUS
  <2>1. Live \in SUBSET Ids /\ faults \in Nat
    BY DEF TypeInv, RestTypes, Live
  <2>2. PICK x \in Ids \cup {0} : Cardinality(Live \ {x}) <= faults
    BY DEF InstructionsInv
  <2>3. /\ Cardinality(Live) <= Cardinality(Live \ {x}) + 1
        /\ Cardinality(Live) \in Nat
    BY <2>1, LiveCounts
  <2>4. Cardinality(Live \ {x}) \in Nat
    BY <2>1, IdsFinite
  <2>5. Cardinality(Live) <= 1 + faults
    BY <2>1, <2>2, <2>3, <2>4
  <2> QED
    BY <2>5 DEF OneInstruction, Live
<1> QED
  BY <1>1, InitTypeInv, InitCosts, NextCosts, PTL DEF Spec

-----------------------------------------------------------------------------
(* When a request may switch.                                              *)

Decided == req.exists = TRUE /\ req.status.phase = "Reserved"

(* On its way to a reservation, or away from one.                          *)
Reserving ==
  \/ wpc = "evaluate" /\ w.again = FALSE
  \/ wpc \in {"post", "instruct"}
  \/ wpc = "status" /\ w.goal = "Reserved"

Switching ==
  \/ wpc = "evaluate" /\ w.again = TRUE
  \/ wpc = "switch"
  \/ wpc = "status" /\ w.goal = "Pending"

(* The cached copy is an earlier version, and no earlier than the last     *)
(* status written: whoever wrote that had the version before it.           *)
CopyInv ==
  /\ qcache.rv <= req.rv
  /\ qcache.rv = req.rv => qcache = req
  /\ req.status.phase = "" => qcache.status.phase = ""
  /\ req.status.phase = "Reserved" => qcache.status.phase # ""

(* To reserve for a request that is Reserved takes an outdated read, and   *)
(* so does a cached Reserved that is not the present one; to switch before *)
(* the interval has passed takes both.                                     *)
HistoryInv ==
  /\ wpc \notin {"idle", "pending"} => req.status.phase # ""
  /\ wpc = "pending" => req.status.phase # "Reserved"
  /\ wpc = "status" => w.goal # ""
  /\ Decided /\ qcache.status.phase = "Reserved" /\ qcache # req => faults >= 1
  /\ Decided /\ Reserving => faults >= 1
  /\ Decided /\ Switching => req.rv \notin recent \/ faults >= 2

SwitchInv == CopyInv /\ HistoryInv

LEMMA FaultsGrow ==
  ASSUME RestTypes, UNCHANGED faults \/ Fault
  PROVE  /\ faults \in Nat /\ faults' \in Nat
         /\ faults >= 1 => faults' >= 1
         /\ faults >= 2 => faults' >= 2
<1>1. faults \in Nat
  BY DEF RestTypes
<1>2. faults' = faults \/ faults' = faults + 1
  BY DEF Fault
<1> QED
  BY <1>1, <1>2

LEMMA StartRequestHistory ==
  ASSUME RequestInv, RestTypes, SwitchInv, StartRequest
  PROVE  SwitchInv'
<1>1. UNCHANGED req /\ UNCHANGED qcache /\ UNCHANGED recent
  BY DEF StartRequest
<1>2. CopyInv'
  BY <1>1 DEF SwitchInv, CopyInv
<1>3. (qcache = req /\ UNCHANGED faults) \/ faults' = faults + 1
  BY StartRequestEffect DEF Fault
<1>4. /\ faults \in Nat /\ faults' \in Nat
      /\ faults >= 1 => faults' >= 1
      /\ faults >= 2 => faults' >= 2
  BY <1>3, FaultsGrow, StartRequestEffect
<1>5. CASE UNCHANGED wpc /\ UNCHANGED w
  BY <1>1, <1>2, <1>4, <1>5 DEF SwitchInv, HistoryInv, Decided, Reserving, Switching
<1>6. CASE qcache.status.phase = "" /\ Call("pending", None, 0, 0, "Pending", FALSE)
  BY <1>1, <1>2, <1>4, <1>6
     DEF SwitchInv, HistoryInv, CopyInv, Decided, Reserving, Switching, Call
<1>7. CASE qcache.status.phase = "Pending" /\ Call("evaluate", None, 0, 0, "", FALSE)
  <2>1. req.status.phase # ""
    BY <1>7 DEF SwitchInv, CopyInv
  <2>2. Decided => qcache # req
    BY <1>7 DEF Decided
  <2>3. Decided => faults' >= 1
    <3>1. Decided => faults' = faults + 1
      BY <1>3, <2>2
    <3> QED
      BY <1>4, <3>1
  <2> QED
    BY <1>1, <1>2, <1>4, <1>7, <2>1, <2>3
       DEF SwitchInv, HistoryInv, Decided, Reserving, Switching, Call
<1>8. CASE /\ qcache.status.phase = "Reserved" /\ qcache.rv \notin recent
           /\ Call("evaluate", qcache.status.target, qcache.status.reservation, 0, "", TRUE)
  <2>1. req.status.phase # ""
    BY <1>8 DEF SwitchInv, CopyInv
  <2>2. CASE qcache = req
    BY <1>1, <1>2, <1>4, <1>8, <2>1, <2>2
       DEF SwitchInv, HistoryInv, Decided, Reserving, Switching, Call
  <2>3. CASE qcache # req
    <3>1. Decided => faults >= 1
      BY <1>8, <2>3 DEF SwitchInv, HistoryInv
    <3>2. Decided => faults' >= 1 /\ faults' >= 2
      BY <1>3, <1>4, <2>3, <3>1
    <3> QED
      BY <1>1, <1>2, <1>8, <2>1, <3>2
         DEF SwitchInv, HistoryInv, Decided, Reserving, Switching, Call
  <2> QED
    BY <2>2, <2>3
<1> QED
  BY <1>5, <1>6, <1>7, <1>8, StartRequestEffect

LEMMA UpdateStatusHistory ==
  ASSUME RequestInv, RestTypes, SwitchInv, UpdateStatus
  PROVE  SwitchInv'
<1>1. UNCHANGED qcache
  BY UpdateStatusEffect
<1>2. /\ req.rv \in Nat /\ qcache.rv \in Nat
      /\ req.exists \in BOOLEAN
  BY DEF RequestInv, AgentTypes, Request
<1>3. wpc = "pending" => w.goal = "Pending"
  BY DEF RequestInv, WorkerInv
<1>4. CASE /\ req.exists /\ qcache.rv = req.rv
           /\ req'.rv = req.rv + 1 /\ req'.status.phase = w.goal
           /\ UNCHANGED faults
           /\ \/ wpc = "pending" /\ Call("evaluate", None, 0, 0, "", FALSE)
              \/ wpc = "status" /\ Rests
  <2>1. qcache = req
    BY <1>4 DEF SwitchInv, CopyInv
  <2>2. qcache'.rv <= req'.rv /\ qcache'.rv # req'.rv
    <3>1. qcache'.rv = req.rv /\ req'.rv = req.rv + 1
      BY <1>1, <1>4
    <3> QED
      BY <1>2, <3>1
  <2>3. w.goal # ""
    BY <1>3, <1>4 DEF SwitchInv, HistoryInv
  <2>4. w.goal = "Reserved" => wpc = "status" /\ req.status.phase # ""
    BY <1>3, <1>4 DEF SwitchInv, HistoryInv
  <2>5. CopyInv'
    BY <1>1, <1>4, <2>1, <2>2, <2>3, <2>4 DEF CopyInv
  <2>6. Decided' /\ qcache'.status.phase = "Reserved" => faults' >= 1
    <3>1. w.goal = "Reserved" /\ req.status.phase = "Reserved" => Decided /\ Reserving
      BY <1>2, <1>4, <2>4 DEF Decided, Reserving
    <3> QED
      BY <1>1, <1>4, <2>1, <3>1 DEF SwitchInv, HistoryInv, Decided
  <2>7. HistoryInv'
    <3>1. CASE wpc = "pending" /\ Call("evaluate", None, 0, 0, "", FALSE)
      BY <1>3, <1>4, <2>6, <3>1 DEF HistoryInv, Decided, Reserving, Switching, Call
    <3>2. CASE wpc = "status" /\ Rests
      BY <1>4, <2>6, <3>2 DEF HistoryInv, Decided, Reserving, Switching, Rests, Call
    <3> QED
      BY <1>4, <3>1, <3>2
  <2> QED
    BY <2>5, <2>7 DEF SwitchInv
<1>5. CASE UNCHANGED req /\ UNCHANGED recent /\ Rests /\ (UNCHANGED faults \/ Fault)
  <2>2. faults >= 1 => faults' >= 1
    BY <1>5, FaultsGrow
  <2> QED
    BY <1>1, <1>5, <2>2
       DEF SwitchInv, CopyInv, HistoryInv, Decided, Reserving, Switching, Rests, Call
<1> QED
  BY <1>4, <1>5, UpdateStatusEffect

(* Steps between the read and the last write.                              *)
LEMMA MiddleHistory ==
  ASSUME RestTypes, SwitchInv,
         UNCHANGED req, UNCHANGED qcache, UNCHANGED recent, UNCHANGED faults \/ Fault,
         wpc' = "pending" => wpc = "pending",
         wpc' \notin {"idle", "pending"} => wpc \notin {"idle", "pending"},
         wpc' = "status" => w'.goal # "" \/ (wpc = "status" /\ w'.goal = w.goal),
         Reserving' => Reserving, Switching' => Switching
  PROVE  SwitchInv'
<1>1. /\ faults >= 1 => faults' >= 1
      /\ faults >= 2 => faults' >= 2
  BY FaultsGrow
<1>2. CopyInv'
  BY DEF SwitchInv, CopyInv
<1>3. HistoryInv'
  BY <1>1 DEF SwitchInv, HistoryInv, Decided
<1> QED
  BY <1>2, <1>3 DEF SwitchInv

LEMMA NextHistory ==
  ASSUME RequestInv, RestTypes, SwitchInv, [Next]_vars
  PROVE  SwitchInv'
<1>1. CASE StartRequest
  BY <1>1, StartRequestHistory
<1>2. CASE UpdateStatus
  BY <1>2, UpdateStatusHistory
<1>3. CASE EvaluateProviders
  <2>1. UNCHANGED req /\ UNCHANGED qcache /\ UNCHANGED recent
    BY <1>3 DEF EvaluateProviders
  <2>2. CASE UNCHANGED <<wpc, w, switches>>
    <3>1. UNCHANGED wpc /\ UNCHANGED w
      BY <2>2
    <3> QED
      BY <1>3, <2>1, <3>1, EvaluateProvidersEffect, MiddleHistory DEF Reserving, Switching
  <2>3. CASE Concluded
    <3>1. /\ wpc = "evaluate" /\ wpc' # "pending" /\ (wpc' = "status" => w'.goal # "")
          /\ Reserving' => Reserving
          /\ Switching' => Switching
      BY <1>3, <2>3, EvaluateProvidersEffect
         DEF Concluded, Reserving, Switching, Writes, Rests, Call
    <3>2. UNCHANGED faults \/ Fault
      BY <1>3, EvaluateProvidersEffect
    <3> QED
      BY <2>1, <3>1, <3>2, MiddleHistory
  <2> QED
    BY <1>3, <2>2, <2>3, EvaluateProvidersEffect
<1>4. CASE RequestReservation
  <2>1. UNCHANGED req /\ UNCHANGED qcache /\ UNCHANGED recent
    BY <1>4 DEF RequestReservation, request
  <2>2. /\ wpc = "post" /\ wpc' # "pending" /\ (wpc' = "status" => w'.goal # "")
        /\ UNCHANGED faults \/ Fault
        /\ Reserving' => Reserving
        /\ Switching' => Switching
    BY <1>4, RequestReservationEffect DEF Retried, Reserving, Switching, Writes, Call
  <2> QED
    BY <2>1, <2>2, MiddleHistory
<1>5. CASE DeleteOldInstruction \/ CreateReservationInstruction
  <2>1. UNCHANGED req /\ UNCHANGED qcache /\ UNCHANGED recent
    BY <1>5 DEF DeleteOldInstruction, CreateReservationInstruction, request
  <2>2. /\ wpc \in {"switch", "instruct"} /\ wpc' = "status" /\ w'.goal # ""
        /\ UNCHANGED faults \/ Fault
        /\ Reserving' => Reserving
        /\ Switching' => Switching
    BY <1>5, OtherEffects DEF Reserving, Switching, Writes, Call
  <2> QED
    BY <2>1, <2>2, MiddleHistory
<1>6. CASE Crash
  <2>1. UNCHANGED req /\ qcache' = req /\ recent' \subseteq recent /\ wpc' = "idle"
    BY <1>6, OtherEffects DEF Crash, Rests, Call
  <2>2. req.rv \in Nat
    BY DEF RequestInv, AgentTypes, Request
  <2>3. qcache'.rv <= req'.rv
    BY <2>1, <2>2
  <2> QED
    BY <2>1, <2>3 DEF SwitchInv, CopyInv, HistoryInv, Reserving, Switching
<1>7. CASE Outside
  <2>1. UNCHANGED wpc /\ UNCHANGED w /\ recent' \subseteq recent /\ qcache' \in {qcache, req}
    BY <1>7, OutsideEffect
  <2>2. /\ faults >= 1 => faults' >= 1
        /\ faults >= 2 => faults' >= 2
    BY <1>7, OutsideEffect, FaultsGrow
  <2>3. req.rv \in Nat /\ qcache.rv \in Nat
    BY DEF RequestInv, AgentTypes, Request
  <2>4. CASE UNCHANGED req
    <3>1. CopyInv'
      <4>1. CASE qcache' = qcache
        BY <2>4, <4>1 DEF SwitchInv, CopyInv
      <4>2. CASE qcache' = req
        <5>1. qcache'.rv <= req'.rv
          BY <2>3, <2>4, <4>2
        <5> QED
          BY <2>4, <4>2, <5>1 DEF CopyInv
      <4> QED
        BY <2>1, <4>1, <4>2
    <3>2. HistoryInv'
      BY <2>1, <2>2, <2>4 DEF SwitchInv, HistoryInv, Decided, Reserving, Switching
    <3> QED
      BY <3>1, <3>2 DEF SwitchInv
  <2>5. CASE /\ req'.exists = FALSE /\ req'.rv = req.rv + 1 /\ req'.status = req.status
             /\ UNCHANGED qcache
    <3>1. qcache'.rv <= req'.rv /\ qcache'.rv # req'.rv
      <4>1. qcache'.rv = qcache.rv /\ req'.rv = req.rv + 1 /\ qcache.rv <= req.rv
        BY <2>5 DEF SwitchInv, CopyInv
      <4> QED
        BY <2>3, <4>1
    <3>2. CopyInv'
      BY <2>5, <3>1 DEF SwitchInv, CopyInv
    <3>3. HistoryInv'
      BY <2>1, <2>5 DEF SwitchInv, HistoryInv, Decided
    <3> QED
      BY <3>2, <3>3 DEF SwitchInv
  <2> QED
    BY <1>7, <2>4, <2>5, OutsideEffect
<1> QED
  BY <1>1, <1>2, <1>3, <1>4, <1>5, <1>6, <1>7, NextIsOneOf DEF Reconcile

LEMMA InitHistory == Init => SwitchInv
<1> SUFFICES ASSUME Init PROVE SwitchInv
  OBVIOUS
<1>1. qcache = req /\ req.rv = 1 /\ req.status.phase = "" /\ wpc = "idle"
  BY DEF Init, Status
<1>2. qcache.rv <= req.rv
  <2>1. qcache.rv = 1 /\ req.rv = 1
    BY <1>1
  <2> QED
    BY <2>1
<1> QED
  BY <1>1, <1>2 DEF SwitchInv, CopyInv, HistoryInv, Decided, Reserving, Switching

LEMMA EarlySwitchNeedsTwo ==
  ASSUME RequestInv, RestTypes, SwitchInv, [Next]_vars,
         req.status.phase = "Reserved", req'.status.phase = "Pending"
  PROVE  req.rv \notin recent \/ faults > 1
<1>1. req' # req
  OBVIOUS
<1>2. UpdateStatus
  <2>1. ~ Outside
    BY OutsideEffect
  <2>2. CASE StartRequest \/ Crash
    BY <1>1, <2>2 DEF StartRequest, Crash
  <2>3. CASE Reconcile /\ ~ UpdateStatus
    BY <1>1, <2>3 DEF Reconcile, EvaluateProviders, DeleteOldInstruction, RequestReservation,
       CreateReservationInstruction, request
  <2> QED
    BY <2>1, <2>2, <2>3, NextIsOneOf
<1>3. req.exists \in BOOLEAN
  BY DEF RequestInv, AgentTypes, Request
<1>3a. faults \in Nat
  BY DEF RestTypes
<1>4. req.exists /\ w.goal = "Pending" /\ wpc \in {"pending", "status"}
  BY <1>1, <1>2, UpdateStatusEffect
<1>5. wpc = "status"
  BY <1>4 DEF SwitchInv, HistoryInv
<1>6. Decided /\ Switching
  BY <1>3, <1>4, <1>5 DEF Decided, Switching
<1>7. req.rv \notin recent \/ faults >= 2
  BY <1>6 DEF SwitchInv, HistoryInv
<1> QED
  BY <1>3a, <1>7

(* UpdateStatus takes Reserved back only after the re-evaluation interval, *)
(* unless the controller has read two copies that were outdated: one alone *)
(* never makes a switch follow at once on another.                         *)
THEOREM SwitchesWait == Spec => NoEarlySwitch
<1>1. Init => TypeInv /\ SwitchInv
  BY InitTypeInv, InitHistory
<1>2. TypeInv /\ SwitchInv /\ [Next]_vars => TypeInv' /\ SwitchInv'
  BY NextTypeInv, NextHistory DEF TypeInv
<1>3. TypeInv /\ SwitchInv /\ [Next]_vars
        => [req.status.phase = "Reserved" /\ req'.status.phase = "Pending" 
              => req.rv \notin recent \/ faults > 1]_vars
  BY EarlySwitchNeedsTwo DEF TypeInv
<1> QED
  BY <1>1, <1>2, <1>3, PTL DEF Spec, NoEarlySwitch

(* The worker leaves its provider for the best of an evaluation that was   *)
(* answered.                                                               *)
LEMMA SwitchFollowsRanking ==
  ASSUME TypeInv, EvaluateProviders, wpc' = "switch"
  PROVE  \E measured \in ScrapeGatewayLatency(w.target), best \in Providers \cup {None} :
           /\ PostEvaluation(w.target, measured, best)
           /\ best \notin {None, w.target} /\ w'.better = best
<1>1. wpc = "evaluate" /\ RequestInv
  BY DEF EvaluateProviders, TypeInv
<1>2. ASSUME NEW best \in Providers \cup {None}, Conclude(best)
      PROVE  best \notin {None, w.target} /\ w'.better = best
  BY <1>1, <1>2, ConcludeEffect DEF Rests, Writes, Call
<1>3. ~ Conclude(None)
  BY <1>2
<1>4. ~ UNCHANGED worker
  BY <1>1 DEF worker
<1>5. Evaluated
  BY <1>3 DEF EvaluateProviders
<1>6. PICK measured \in ScrapeGatewayLatency(w.target), best \in Providers \cup {None} :
        /\ PostEvaluation(w.target, measured, best)
        /\ Conclude(best)
  BY <1>3, <1>4, <1>5 DEF Evaluated
<1> QED
  BY <1>2, <1>6

(* Of two clusters with actual latencies the nearer comes first, and one   *)
(* without comes before both.                                              *)
LEMMA RankedByLatency ==
  ASSUME BrokerTypes, policy = "latency",
         NEW reported \in [Providers -> Bond], NEW view \in [Providers -> Bond],
         \A c \in Providers : view[c].actual > 0 => ByLatency(c) /\ view[c].exists,
         NEW scored, DOMAIN scored = Candidates,
         \A c \in Candidates : scored[c] \in Scores(c, view),
         NEW old \in Candidates, NEW new \in Best(scored), new # None,
         view[new] = reported[new],
         Reset(new, view, reported).actual > 0
  PROVE  /\ Reset(old, view, reported) = reported[old]
         /\ Reset(new, view, reported).actual <= view[old].actual
<1>1. Candidates \subseteq Providers
  BY DEF Candidates, BrokerTypes
<1>2. new \in RankLatency(scored) /\ new \in Candidates
  BY DEF Best, RankLatency, First
<1>3. ASSUME NEW c \in Candidates
      PROVE  /\ view[c] \in Bond
             /\ view[c].actual \in Nat
             /\ view[c].exists \in BOOLEAN
  BY <1>1, <1>3 DEF Bond
<1>4. ASSUME NEW c \in Candidates, scored[c].isActual
      PROVE  /\ ByLatency(c) /\ view[c].exists /\ view[c].stamp # "old"
             /\ scored[c].score = view[c].actual
  <2>1. scored[c] \in Scores(c, view)
    OBVIOUS
  <2>2. ByLatency(c)
    BY <1>4, <2>1 DEF Scores
  <2>3. scored[c] \in CalculateScoreLatency(c, view)
    BY <2>1, <2>2 DEF Scores
  <2> QED
    BY <1>3, <1>4, <2>2, <2>3 DEF CalculateScoreLatency
<1>5. view[new].actual > 0 /\ view[new].stamp # "old"
      /\ Reset(new, view, reported) = view[new]
      /\ ByLatency(new) /\ view[new].exists
  <2>1. CASE /\ ByLatency(new) /\ view[new].exists /\ view[new].stamp = "old"
    <3>1. Reset(new, view, reported)
            = [view[new] EXCEPT !.actual = 0, !.estimated = Estimate[new], !.stamp = "new"]
      BY <1>2, <2>1 DEF Reset
    <3>2. Reset(new, view, reported).actual = 0
      BY <1>2, <1>3, <3>1 DEF Bond
    <3> QED
      BY <3>2
  <2>2. CASE ~ (ByLatency(new) /\ view[new].exists /\ view[new].stamp = "old")
    <3>1. Reset(new, view, reported) = view[new]
      BY <2>2 DEF Reset
    <3>2. view[new].actual > 0 /\ new \in Providers
      BY <1>1, <1>2, <3>1
    <3> QED
      BY <2>2, <3>1, <3>2
  <2> QED
    BY <2>1, <2>2
<1>6. scored[new].isActual = TRUE
  <2>1. scored[new] \in CalculateScoreLatency(new, view)
    BY <1>2, <1>5 DEF Scores
  <2>2. scored[new] = [score |-> view[new].actual, isActual |-> TRUE]
    BY <1>5, <2>1 DEF CalculateScoreLatency
  <2> QED
    BY <2>2
<1>7. {c \in DOMAIN scored : ~ scored[c].isActual} = {}
  BY <1>2, <1>6 DEF RankLatency, First
<1>8. scored[old].isActual /\ Thousandths(new, scored[new]) <= Thousandths(old, scored[old])
  BY <1>2, <1>7 DEF RankLatency, First
<1>9. /\ scored[old].score = view[old].actual
      /\ ByLatency(old) /\ view[old].stamp # "old"
      /\ scored[new].score = view[new].actual
  BY <1>2, <1>4, <1>6, <1>8
<1>10. 1000 * view[new].actual <= 1000 * view[old].actual
  BY <1>5, <1>8, <1>9 DEF Thousandths
<1>11. view[new].actual <= view[old].actual
  <2>1. view[new].actual \in Nat /\ view[old].actual \in Nat
    BY <1>2, <1>3
  <2> QED
    BY <1>10, <2>1
<1>12. Reset(old, view, reported) = reported[old]
  BY <1>9 DEF Reset
<1> QED
  BY <1>5, <1>11, <1>12

LEMMA NearerIsBetter ==
  ASSUME TypeInv, [Next]_vars, wpc = "evaluate", wpc' = "switch",
         policy = "latency", w.target \in Candidates
  PROVE  \/ bonds'[w'.better].actual = 0
         \/ bonds'[w'.better].actual <= bonds[w.target].actual
         \/ bonds'[w'.better].actual <= bonds'[w.target].actual
<1>1. EvaluateProviders
  <2>1. ~ (StartRequest \/ UpdateStatus \/ Crash)
    BY DEF StartRequest, UpdateStatus, Crash, Return
  <2>2. ~ (RequestReservation \/ DeleteOldInstruction \/ CreateReservationInstruction)
    BY DEF RequestReservation, DeleteOldInstruction, CreateReservationInstruction
  <2>3. ~ Outside
    BY OutsideEffect DEF TypeInv
  <2> QED
    BY <2>1, <2>2, <2>3, NextIsOneOf DEF Reconcile, TypeInv
<1>2. PICK measured \in ScrapeGatewayLatency(w.target), best \in Providers \cup {None} :
        /\ PostEvaluation(w.target, measured, best)
        /\ best \notin {None, w.target} /\ w'.better = best
  BY <1>1, SwitchFollowsRanking
<1>3. BrokerTypes /\ BondInv
  BY DEF TypeInv
<1>4. w.target \in Providers
  BY <1>3 DEF Candidates, BrokerTypes
<1>5. best \in Providers
  BY <1>2
<1>6. PICK reported \in {Reported(w.target, measured), bonds} :
        \E view \in {reported, bonds} : RankClusters(reported, view, best)
  BY <1>2 DEF PostEvaluation
<1>6a. PICK view \in {reported, bonds} : RankClusters(reported, view, best)
  BY <1>6
<1>7. /\ reported \in [Providers -> Bond]
      /\ \A c \in Providers : reported[c].actual > 0 => ByLatency(c) /\ reported[c].exists
  <2>1. bonds \in [Providers -> Bond]
    BY <1>3 DEF BrokerTypes
  <2>2. CASE reported = Reported(w.target, measured)
    BY <1>3, <1>4, <2>1, <2>2, ReportedBonds DEF BondInv
  <2>3. CASE reported = bonds
    BY <1>3, <2>1, <2>3 DEF BondInv
  <2> QED
    BY <1>6, <2>2, <2>3
<1>8. /\ view \in [Providers -> Bond]
      /\ \A c \in Providers : view[c].actual > 0 => ByLatency(c) /\ view[c].exists
  BY <1>3, <1>6a, <1>7 DEF BrokerTypes, BondInv
(* The report is about the target, so that of the other all agree.         *)
<1>9. view[best] = reported[best]
  <2>1. reported[best] = bonds[best]
    BY <1>2, <1>3, <1>5, <1>6 DEF Reported, BrokerTypes
  <2> QED
    BY <1>6a, <2>1
<1>10. PICK scored \in [Candidates -> UNION {Scores(c, view) : c \in Candidates}] :
        /\ \A c \in Candidates : scored[c] \in Scores(c, view)
        /\ best \in Best(scored)
        /\ bonds' = [c \in Providers |-> Reset(c, view, reported)]
  BY <1>6a DEF RankClusters
<1>11. /\ bonds'[best] = Reset(best, view, reported)
       /\ bonds'[w.target] = Reset(w.target, view, reported)
  BY <1>4, <1>5, <1>10
<1>12. bonds'[best].actual \in Nat
  <2>1. BrokerTypes'
    BY NextTypeInv DEF TypeInv
  <2>2. bonds'[best] \in Bond
    BY <1>5, <2>1 DEF BrokerTypes
  <2> QED
    BY <2>2 DEF Bond
<1>13. CASE bonds'[best].actual = 0
  BY <1>2, <1>13
<1>14. ASSUME bonds'[best].actual > 0
       PROVE  \/ bonds'[best].actual <= bonds[w.target].actual
              \/ bonds'[best].actual <= bonds'[w.target].actual
  <2>1. DOMAIN scored = Candidates
    BY <1>10
  <2>2. Reset(best, view, reported).actual > 0
    BY <1>11, <1>14
  <2>3. /\ Reset(w.target, view, reported) = reported[w.target]
        /\ Reset(best, view, reported).actual <= view[w.target].actual
    BY <1>2, <1>3, <1>7, <1>8, <1>9, <1>10, <2>1, <2>2, RankedByLatency
  <2>4. CASE view = bonds
    BY <1>11, <2>3, <2>4
  <2>5. CASE view = reported
    BY <1>11, <2>3, <2>5
  <2> QED
    BY <1>6a, <2>4, <2>5
<1> QED
  BY <1>2, <1>12, <1>13, <1>14

(* EvaluateProviders under the latency policy leaves a provider that is    *)
(* still a candidate only for one without an actual latency, or with one   *)
(* no higher than the provider's own, before or after the report: whatever *)
(* is measured each time, whatever the estimates and the regions are, and  *)
(* whether or not the broker's handler sees the report it has just stored. *)
THEOREM SwitchesImprove == Spec => SwitchIsAnImprovement
<1>1. TypeInv /\ [Next]_vars
        => [wpc = "evaluate" /\ wpc' = "switch" /\ policy = "latency" /\ w.target \in Candidates
            => LET new == bonds'[w'.better].actual IN
               new = 0 \/ new <= bonds[w.target].actual \/ new <= bonds'[w.target].actual]_vars
  BY NearerIsBetter
<1> QED
  BY <1>1, InitTypeInv, NextTypeInv, PTL DEF Spec, SwitchIsAnImprovement
=============================================================================
