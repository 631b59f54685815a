------------------------------- MODULE Evaluation ------------------------------
(***************************************************************************)
(* How the broker ranks the providers for one requester.                   *)
(*                                                                         *)
(* Under the standard policy a provider with more room, cheaper energy and *)
(* renewable energy is better.  Under the latency policy the broker keeps  *)
(* a NetworkBond per pair of clusters: an estimate until the requester,    *)
(* once peered, reports what it has measured, or that it could measure     *)
(* nothing, which makes the estimate the actual latency.  A provider       *)
(* without an actual latency is put before all that have one.  An actual   *)
(* latency that is older than thirty days is forgotten.                    *)
(*                                                                         *)
(* The requester uses the first of the ranked clusters only, so a ranking  *)
(* is the set of clusters that can come first; equal scores come in any    *)
(* order.  Scores are in thousandths, latencies in milliseconds.  What is  *)
(* requested is one unit of a resource.                                    *)
(***************************************************************************)
EXTENDS Integers, FiniteSets

CONSTANTS
  Providers,     \* the clusters other than the requester
  None,          \* no cluster, no region, no measurement
  Latency,       \* what the requester may measure at one time or another once
                 \* it is peered
  Elsewhere,     \* the actual latencies that bonds of other requesters may
                 \* show for the same pair of regions
  Estimate,      \* estimatedRTTms of the two locations
  Region,        \* of a provider, None if it is unknown
  Located,       \* the providers whose advertisement has a location, as the
                 \* requester's has
  Allocatable,   \* what a provider can offer altogether
  EnergyCost,    \* in thousandths
  Renewable      \* the providers with renewable energy

ASSUME EvaluationAssumption ==
  /\ None \notin Providers
  /\ Latency \in [Providers -> SUBSET Nat] /\ Estimate \in [Providers -> Nat \ {0}]
  /\ Elsewhere \in [Providers -> SUBSET (Nat \ {0})]
  /\ DOMAIN Region = Providers
  /\ Located \subseteq Providers /\ Renewable \subseteq Providers
  /\ Allocatable \in [Providers -> Nat \ {0}] /\ EnergyCost \in [Providers -> Nat]

VARIABLES
  policy,      \* of the requester's advertisement
  active,      \* the providers whose advertisement is active
  available,   \* what each has left
  bonds,       \* the NetworkBonds of the requester
  creating     \* the NetworkBonds that a goroutine is about to create

broker == <<policy, active, available, bonds, creating>>

(* stamp is "" until the first report, then "new" or, after thirty days,   *)
(* "old".                                                                  *)
Bond ==
  [exists : BOOLEAN, estimated : Nat, actual : Nat, stamp : {"", "new", "old"}]

NoBond == [exists |-> FALSE, estimated |-> 0, actual |-> 0, stamp |-> ""]

EvaluationInit(policies) ==
  /\ policy \in policies
  /\ active = Providers
  /\ available = Allocatable
  /\ bonds = [c \in Providers |-> NoBond]
  /\ creating = {}

-----------------------------------------------------------------------------
(* Scores.                                                                 *)

HasEnoughResources(c) == available[c] >= 1

Candidates == {c \in active : HasEnoughResources(c)}

CalculateScore(c) ==
  (700 * (available[c] - 1)) \div Allocatable[c]
    + (200 * (1000 - EnergyCost[c])) \div 1000
    + (IF c \in Renewable THEN 100 ELSE 0)

(* What the requester's own bonds show for the pair of regions.            *)
RegionMatch(c, view) ==
  {view[d].actual : d \in {d \in Providers :
     Region[c] # None /\ Region[d] = Region[c] /\ view[d].actual > 0}}

(* The first of all bonds between the two regions decides, in whatever     *)
(* order they are listed, and the distance if there is none.               *)
Guess(c, view) ==
  Elsewhere[c] \cup IF RegionMatch(c, view) = {} THEN {Estimate[c]} ELSE RegionMatch(c, view)

CalculateScoreLatency(c, view) ==
  IF ~ view[c].exists
  THEN {[score |-> l, isActual |-> FALSE] : l \in Guess(c, view)}
  ELSE IF view[c].stamp = "old" THEN {[score |-> Estimate[c], isActual |-> FALSE]}
  ELSE IF view[c].actual > 0 THEN {[score |-> view[c].actual, isActual |-> TRUE]}
  ELSE {[score |-> view[c].estimated, isActual |-> FALSE]}

ByLatency(c) == policy = "latency" /\ c \in Located

(* Under the latency policy a cluster without a location has its standard  *)
(* score among the latencies.                                              *)
Scores(c, view) ==
  IF ByLatency(c) THEN CalculateScoreLatency(c, view)
                  ELSE {[score |-> CalculateScore(c), isActual |-> FALSE]}

Thousandths(c, s) == IF ByLatency(c) THEN 1000 * s.score ELSE s.score

First(S, scored) ==
  {c \in S : \A d \in S : Thousandths(c, scored[c]) <= Thousandths(d, scored[d])}

Last(S, scored) ==
  {c \in S : \A d \in S : Thousandths(c, scored[c]) >= Thousandths(d, scored[d])}

RankStandard(scored) == Last(DOMAIN scored, scored)

FarthestFirst(scored) ==   \* mutant: descending, as for the standard policy
  LET never == {c \in DOMAIN scored : ~ scored[c].isActual} IN
  Last(IF never = {} THEN DOMAIN scored ELSE never, scored)

(* Ascending, and then the first that was not measured before all others.  *)
RankLatency(scored) ==
  LET never == {c \in DOMAIN scored : ~ scored[c].isActual} IN
  First(IF never = {} THEN DOMAIN scored ELSE never, scored)

Best(scored) ==
  IF scored = <<>> THEN {None}
  ELSE IF policy = "latency" THEN RankLatency(scored) ELSE RankStandard(scored)

-----------------------------------------------------------------------------
(* PostEvaluation.  view is what the cached client returns of the bonds    *)
(* while they are ranked.                                                  *)

(* The requester reports the latency to its present provider; if it could  *)
(* not measure, the estimate is taken for it.                              *)
Reported(current, measured) ==
  IF current = None \/ ~ bonds[current].exists THEN bonds
  ELSE [bonds EXCEPT ![current].stamp = "new",
                     ![current].actual = IF measured # None THEN measured
                                         ELSE IF @ = 0 THEN bonds[current].estimated ELSE @]

(* A latency that is too old goes; the update is a conflict if the cached  *)
(* bond is not the newest.                                                 *)
Reset(c, view, reported) ==
  IF c \in Candidates /\ ByLatency(c) /\ view[c].exists /\ view[c].stamp = "old"
       /\ view[c] = reported[c]
  THEN [reported[c] EXCEPT !.actual = 0, !.estimated = Estimate[c], !.stamp = "new"]
  ELSE reported[c]

(* Goroutines to create the bonds that the view does not have.             *)
Created(scored, view) ==
  {[cluster |-> c, latency |-> scored[c].score] :
     c \in {c \in DOMAIN scored : ByLatency(c) /\ ~ view[c].exists}}

RankClusters(reported, view, best) ==
  \E scored \in {s \in [Candidates -> UNION {Scores(c, view) : c \in Candidates}] :
                   \A c \in Candidates : s[c] \in Scores(c, view)} :
    /\ best \in Best(scored)
    /\ bonds' = [c \in Providers |-> Reset(c, view, reported)]
    /\ creating' = creating \cup Created(scored, view)
    /\ UNCHANGED <<policy, active, available>>

(* The update of the bond may fail, which is only logged, and the cache    *)
(* that is read next need not have it yet.                                 *)
PostEvaluation(current, measured, best) ==
  \E reported \in {Reported(current, measured), bonds} :
    \E view \in {reported, bonds} : RankClusters(reported, view, best)

GuessAsMeasured(b) ==   \* mutant: a latency of the region is stored as measured
  /\ b \in creating
  /\ creating' = creating \ {b}
  /\ bonds' = [bonds EXCEPT ![b.cluster] = [NoBond EXCEPT !.exists = TRUE, !.actual = b.latency]]
  /\ UNCHANGED <<policy, active, available>>

(* The goroutine's Create; AlreadyExists is ignored.                       *)
CreateBond(b) ==
  /\ b \in creating
  /\ creating' = creating \ {b}
  /\ bonds' = IF bonds[b.cluster].exists THEN bonds
              ELSE [bonds EXCEPT ![b.cluster] =
                      [NoBond EXCEPT !.exists = TRUE, !.estimated = b.latency]]
  /\ UNCHANGED <<policy, active, available>>

(* The Create fails, or the broker dies before it.                         *)
LoseBond(b) ==
  /\ b \in creating
  /\ creating' = creating \ {b}
  /\ UNCHANGED <<policy, active, available, bonds>>

(* Thirty days without a report.                                           *)
AgeBond(c) ==
  /\ bonds[c].stamp = "new"
  /\ bonds' = [bonds EXCEPT ![c].stamp = "old"]
  /\ UNCHANGED <<policy, active, available, creating>>

(* PostReservation with a target, when it succeeds.                        *)
Lock(c) ==
  /\ c \in active /\ HasEnoughResources(c)
  /\ available' = [available EXCEPT ![c] = @ - 1]
  /\ UNCHANGED <<policy, active, bonds, creating>>

Unlock(c) ==
  /\ available' = [available EXCEPT ![c] = @ + 1]
  /\ UNCHANGED <<policy, active, bonds, creating>>

(* A provider stops or starts to publish its advertisement.                *)
ChangeActive(c) ==
  /\ active' = IF c \in active THEN active \ {c} ELSE active \cup {c}
  /\ UNCHANGED <<policy, available, bonds, creating>>
=============================================================================
