------------------------- MODULE ResourceCalculator -------------------------
(***************************************************************************)
(* The broker's resource arithmetic (internal/resource): what a            *)
(* ClusterAdvertisement's Available and Reserved become when a reservation *)
(* is locked or released.  A quantity is a function from the kinds of      *)
(* resource the code accounts for to integers: resource.Quantity has a     *)
(* sign, and neither Add nor Sub stops at zero.                            *)
(***************************************************************************)
EXTENDS Integers

CONSTANT Kinds   \* the kinds locked and released: CPU and Memory, never GPU

Quantities == [Kinds -> Int]

NoResources == [k \in Kinds |-> 0]

Plus(a, b) == [k \in Kinds |-> a[k] + b[k]]

Minus(a, b) == [k \in Kinds |-> a[k] - b[k]]

Covers(a, b) == \A k \in Kinds : a[k] >= b[k]

CanReserveAnyKind(adv, requested) ==   \* mutant: one kind that fits is enough
  \E k \in Kinds : adv.available[k] >= requested[k]

(* Whether an advertisement can accommodate the requested quantities.      *)
CanReserve(adv, requested) == Covers(adv.available, requested)

(* Reserved grows (a nil Reserved counts as zero) and Available shrinks.   *)
AddReservation(adv, requested) ==
  [adv EXCEPT !.hasReserved = TRUE,
              !.reserved    = Plus(@, requested),
              !.available   = Minus(@, requested)]

(* Only an advertisement whose Reserved is not nil can release.            *)
CanRemove(adv) == adv.hasReserved

RemoveReservationOneSided(adv, requested) ==   \* mutant: Available stays
  [adv EXCEPT !.reserved = Minus(@, requested)]

RemoveReservation(adv, requested) ==
  [adv EXCEPT !.reserved  = Minus(@, requested),
              !.available = Plus(@, requested)]
=============================================================================
