---------------------------- MODULE MCProviderAgent ----------------------------
(***************************************************************************)
(* Instances of ProviderAgent for TLC: a cluster of two nodes and two      *)
(* pods, one of which asks for more while it starts than when it runs.     *)
(***************************************************************************)
EXTENDS ProviderAgent, TLC

CONSTANTS n1, n2, p1, p2, r1, r2, other

Qty(cpu, gpu) == "cpu" :> cpu @@ "gpu" :> gpu

MCKinds == {"cpu"}

MCAllocatable == [n \in NodeNames |-> IF n = n1 THEN Qty(6, 0) ELSE Qty(2, 1)]

MCPods ==
  [p \in PodNames |->
     IF p = p1
     THEN [containers |-> <<Qty(1, 0), Qty(1, 0)>>, init |-> <<Qty(3, 0), Qty(1, 0)>>,
           overhead |-> Qty(1, 0)]
     ELSE [containers |-> <<Qty(1, 2)>>, init |-> << >>, overhead |-> Qty(0, 0)]]

MCRequested == [r \in Reservations |-> "cpu" :> 1]

MCFixed == Qty(5, 0)
NoFixed == [k \in AllKinds |-> Unset]
=============================================================================
