--------------------------- MODULE MCResourceRequests --------------------------
(***************************************************************************)
(* Instances of ResourceRequests for TLC: c1 is nearer than it looks most  *)
(* of the time and farther than c2 at others, c2 shares its region, and c3 *)
(* has no location and has room for one reservation only.  No other        *)
(* requester has a bond.                                                   *)
(***************************************************************************)
EXTENDS ResourceRequests

CONSTANTS c1, c2, c3

MCLatency     == [c \in Providers |-> IF c = c1 THEN {20, 35} ELSE {30}]
MCEstimate    == [c \in Providers |-> IF c = c1 THEN 40 ELSE 10]
MCElsewhere   == [c \in Providers |-> {}]
MCRegion      == [c \in Providers |-> IF c = c3 THEN None ELSE "LOM"]
MCLocated     == Providers \ {c3}
MCAllocatable == [c \in Providers |-> IF c = c3 THEN 1 ELSE 2]
MCEnergyCost  == [c \in Providers |-> IF c = c1 THEN 100 ELSE 300]
MCRenewable   == {c2} \cap Providers
=============================================================================
