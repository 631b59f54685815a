--------------------------- MODULE CollectorMetrics ---------------------------
(***************************************************************************)
(* What an agent reports of its cluster (internal/metrics): what the ready *)
(* nodes can hold, less what the pods ask for, less what the provider      *)
(* instructions have set aside, cut down to what the operator shares.      *)
(*                                                                         *)
(* Quantities are integers: thousandths of a CPU, bytes, GPUs.  A kind     *)
(* that an object does not mention is zero, also for GPUs, where the code  *)
(* keeps a nil.                                                            *)
(***************************************************************************)
EXTENDS ResourceCalculator, Sequences, Functions, FiniteSetsExt

CONSTANTS
  Gpu,                \* a kind of resource that is measured but not reserved
  NodeNames, Allocatable,   \* [NodeNames -> quantities of all kinds]
  PodNames, Pods,           \* [PodNames -> the requests of a pod]
  Sharing,            \* "all", "percentage" or "fixed"
  SharingPercentage,
  SharingFixed,       \* [AllKinds -> Int or one of the two below]
  Unset, Unparsable   \* an option left empty; one that is no quantity

AllKinds == Kinds \cup {Gpu}

ASSUME CollectorAssumption ==
  /\ Gpu \notin Kinds
  /\ IsFiniteSet(NodeNames)   \* quantities are added up
  /\ Allocatable \in [NodeNames -> [AllKinds -> Nat]]
  /\ Sharing \in {"all", "percentage", "fixed"}
  /\ SharingPercentage \in Int
  /\ \A k \in AllKinds : SharingFixed[k] \in Int \cup {Unset, Unparsable}

(* A pod has sequences of the requests of its containers and of its init   *)
(* containers, and an overhead.                                            *)
ASSUME PodsAssumption ==
  /\ IsFiniteSet(PodNames)
  /\ \A p \in PodNames :
       /\ Pods[p].containers \in Seq([AllKinds -> Nat])
       /\ Pods[p].init \in Seq([AllKinds -> Nat])
       /\ Pods[p].overhead \in [AllKinds -> Nat]

-----------------------------------------------------------------------------
(* Only nodes whose Ready condition is true count.                         *)
AllocatableTotal(ready) ==
  [k \in AllKinds |-> SumFunction([n \in ready |-> Allocatable[n][k]])]

ContributionWithoutInit(pod) ==   \* mutant: init containers are forgotten
  [k \in AllKinds |->
     SumFunction([i \in DOMAIN pod.containers |-> pod.containers[i][k]]) + pod.overhead[k]]

(* Containers run together, init containers one after the other before.    *)
(* (Restartable init containers, which go on running beside the others,    *)
(* are not modelled; the code takes them for ordinary ones and counts them *)
(* short.)                                                                 *)
PodContribution(pod) ==
  [k \in AllKinds |->
     Max({SumFunction([i \in DOMAIN pod.containers |-> pod.containers[i][k]])}
           \cup {pod.init[i][k] : i \in DOMAIN pod.init})
       + pod.overhead[k]]

Contribution == [p \in PodNames |-> PodContribution(Pods[p])]

(* Pods that are Running or Pending, on whatever node.                     *)
CalculateAllocatedResources(scheduled) ==
  [k \in AllKinds |-> SumFunction([p \in scheduled |-> Contribution[p][k]])]

(* The instructions that are enforced and not past their expiry.  No GPU   *)
(* is ever reserved.                                                       *)
CalculateReservedResources(enforced, requested) ==
  [k \in AllKinds |->
     IF k = Gpu THEN 0 ELSE SumFunction([r \in enforced |-> requested[r][k]])]

ClampToZero(left) == IF left < 0 THEN 0 ELSE left

(* A fixed amount never exceeds what is left; without one nothing is       *)
(* shared, and one that does not parse leaves everything shared.           *)
FixedShare(k, left) ==
  IF SharingFixed[k] = Unset THEN 0
  ELSE IF SharingFixed[k] = Unparsable THEN left
  ELSE Min({SharingFixed[k], left})

(* A percentage outside 0..99 shares everything.  (The code multiplies by  *)
(* a float and truncates, so it may share one unit less.)                  *)
PercentageShare(left) ==
  IF SharingPercentage \in 0 .. 99 THEN (left * SharingPercentage) \div 100 ELSE left

Share(k, left) ==
  CASE Sharing = "all"        -> left
    [] Sharing = "percentage" -> PercentageShare(left)
    [] Sharing = "fixed"      -> FixedShare(k, left)

(* The Available of the report.                                            *)
CollectClusterResources(ready, scheduled, enforced, requested) ==
  LET total     == AllocatableTotal(ready)
      allocated == CalculateAllocatedResources(scheduled)
      reserved  == CalculateReservedResources(enforced, requested)
  IN  [k \in AllKinds |-> Share(k, ClampToZero(total[k] - allocated[k] - reserved[k]))]
=============================================================================
