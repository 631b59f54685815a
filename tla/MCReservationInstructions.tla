----------------------- MODULE MCReservationInstructions -----------------------
(***************************************************************************)
(* Instances of ReservationInstructions for TLC: the first instruction is  *)
(* for c1, with or without an expiry, and the second for c1 or for c2.     *)
(***************************************************************************)
EXTENDS ReservationInstructions

CONSTANTS r1, r2, c1, c2

MCGrants == [i \in Ids |-> IF i = r1 THEN [target : {c1}, timed : {FALSE}]
                                     ELSE [target : {c1, c2}, timed : {TRUE}]]
=============================================================================
