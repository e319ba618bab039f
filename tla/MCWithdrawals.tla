--------------------------- MODULE MCWithdrawals ----------------------------
(***************************************************************************)
(* A small instance of Withdrawals for TLC: a driver who earned 4 and asks *)
(* for 1, 2 and 3, which he cannot all have, beside one who asks nothing.  *)
(***************************************************************************)
EXTENDS Withdrawals

F == INSTANCE FiniteSetsExt

CONSTANTS w1, w2, w3, d1, d2, r1, r2

MCOwnerOf == [w \in Withdrawals |-> d1]
MCAmount == [w \in Withdrawals |-> CASE w = w1 -> 1 [] w = w3 -> 3 [] OTHER -> 2]
MCEarned == [d \in Drivers |-> 4]

\* Callbacks in any order, late ones included.
AnyCallback == [w \in Withdrawals |-> {"PROCESSING", "COMPLETED", "FAILED"}]

(***************************************************************************)
(* Counting units is adding up: SumOver agrees with the fold of the        *)
(* community modules on every set of withdrawals.                          *)
(***************************************************************************)
AmountOf(w) == Amount[w]
ASSUME CountingIsAdding ==
  \A S \in SUBSET Withdrawals : SumOver(Amount, S) = F!MapThenSumSet(AmountOf, S)
=============================================================================
