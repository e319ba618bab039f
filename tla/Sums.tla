-------------------------------- MODULE Sums --------------------------------
(***************************************************************************)
(* Sums of a natural-valued function over a finite set, as the number of   *)
(* units there are to count: f[x] of them for every x.                     *)
(***************************************************************************)
EXTENDS Integers, FiniteSets

Units(f, S) == UNION {{x} \X (1 .. f[x]) : x \in S}
SumOver(f, S) == Cardinality(Units(f, S))
=============================================================================
