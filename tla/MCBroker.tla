------------------------------ MODULE MCBroker ------------------------------
(***************************************************************************)
(* Instances of Broker for TLC: one provider whose capacity fits either    *)
(* reservation alone, or both, depending on what its agent reports, and a  *)
(* requester cluster that offers nothing.  r1 and r2 differ in size and    *)
(* duration; where all reservations are equal they are interchangeable.    *)
(***************************************************************************)
EXTENDS Broker, TLC

CONSTANTS provider, requester, r1, r2, r3,
          bad   \* a reservation that asks for no CPU

Qty(cpu, mem) == "cpu" :> cpu @@ "memory" :> mem

MCKinds == {"cpu", "memory"}

MCRequesterID == [r \in Reservations |-> requester]

MCRequested ==
  [r \in Reservations |-> CASE r = r1 -> Qty(1, 1) [] r = r2 -> Qty(2, 1) [] r = bad -> Qty(0, 1)]

(* r1 expires one unit after it was Reserved, the others never.            *)
MCDuration == [r \in Reservations |-> IF r = r1 THEN 1 ELSE 0]

Tiny  == Qty(1, 1)   \* r1 fits, r2 does not; one of three equal ones does
Small == Qty(2, 2)   \* either fits, not both
Large == Qty(4, 3)   \* both fit

EqualRequested  == [r \in Reservations |-> Tiny]
NoDuration      == [r \in Reservations |-> 0]
Interchangeable == Permutations(Reservations)

TinyReport  == {Tiny}
OneReport   == {Small}
TwoReports  == {Small, Large}
=============================================================================
