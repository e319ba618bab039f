---------------------------- MODULE Withdrawals -----------------------------
(***************************************************************************)
(* WithdrawalsService (src/withdrawals/withdrawals.service.ts): a driver   *)
(* asks for money, which leaves his wallet at once; the operator's         *)
(* callbacks later complete the withdrawal or fail it, which pays it back. *)
(* The transfer request itself is a stub that only logs.                   *)
(*                                                                         *)
(* The trips whose funds were released beforehand gave each driver what    *)
(* Earned says; wallet updates are relative, so releases that come later   *)
(* add to it without changing anything else here.                          *)
(***************************************************************************)
EXTENDS Sums

CONSTANTS
    Drivers,
    Withdrawals,  \* one identifier per withdrawal a driver may ask for
    Requests,     \* the requests in flight at the same time
    NoWithdrawal, \* the withdrawal of an idle request
    OwnerOf,      \* Withdrawals -> Drivers
    Amount,       \* Withdrawals -> Nat \ {0}: dto.montant, in units of 10 000 GNF
    Earned,       \* Drivers -> Nat: released to the driver so far
    Callbacks,    \* the dto.statut values the operator sends for a withdrawal
    MayAbort,     \* whether a request may die half-way
    CreditLimit   \* bound: no callback comes above this withdrawable balance

ASSUME WithdrawalsAssumption ==
    /\ IsFiniteSet(Withdrawals)
    /\ NoWithdrawal \notin Withdrawals
    /\ OwnerOf \in [Withdrawals -> Drivers]
    /\ Amount \in [Withdrawals -> Nat \ {0}]
    /\ Earned \in [Drivers -> Nat]
    /\ Callbacks \in [Withdrawals -> SUBSET {"PROCESSING", "COMPLETED", "FAILED"}]
    /\ MayAbort \in BOOLEAN
    /\ CreditLimit \in Nat

VARIABLES
    wallet,      \* the columns withdrawals move: balance, withdrawable
    withdrawal,  \* withdrawals.statut, "none" before the row exists
    req          \* the requests in flight

vars == <<wallet, withdrawal, req>>

Idle == [at |-> "idle", of |-> NoWithdrawal]
Begin(r, place, w) ==
    /\ req[r] = Idle
    /\ req' = [req EXCEPT ![r] = [at |-> place, of |-> w]]
    /\ UNCHANGED <<wallet, withdrawal>>
Suspended(r, place, w) == req[r] = [at |-> place, of |-> w]
End(r) == req' = [req EXCEPT ![r] = Idle]

SetStatut(w, s) == withdrawal' = [withdrawal EXCEPT ![w] = s]
\* Mutation: the total balance is forgotten.
CreditWithdrawable(w, amount) ==
    wallet' = [wallet EXCEPT ![OwnerOf[w]].withdrawable = @ + amount]

Credit(w, amount) ==
    wallet' = [wallet EXCEPT ![OwnerOf[w]] =
                 [balance |-> @.balance + amount,
                  withdrawable |-> @.withdrawable + amount]]

Init ==
    /\ wallet = [d \in Drivers |-> [balance |-> Earned[d], withdrawable |-> Earned[d]]]
    /\ withdrawal = [w \in Withdrawals |-> "none"]
    /\ req = [r \in Requests |-> Idle]

-----------------------------------------------------------------------------
\* Mutation: the withdrawable balance is not checked.
CreateUnchecked(r, w) ==
    /\ withdrawal[w] = "none"
    /\ \A s \in Requests : req[s] # [at |-> "create", of |-> w]
    /\ Begin(r, "create", w)

\* create's check of the balance it read (w is the row it will insert).
CreateRead(r, w) ==
    /\ withdrawal[w] = "none"
    /\ \A s \in Requests : req[s] # [at |-> "create", of |-> w]
    /\ wallet[OwnerOf[w]].withdrawable >= Amount[w]
    /\ Begin(r, "create", w)

\* Mutation: the money is taken when the operator confirms, not here.
CreateWithoutDebit(r, w) ==
    /\ Suspended(r, "create", w)
    /\ SetStatut(w, "PROCESSING")
    /\ End(r)
    /\ UNCHANGED wallet

\* create's transaction: debit the wallet, insert the withdrawal.
CreateCommit(r, w) ==
    /\ Suspended(r, "create", w)
    /\ Credit(w, -Amount[w])
    /\ SetStatut(w, "PROCESSING")
    /\ End(r)

\* handleWebhook reads the row once; a callback that repeats the statut it
\* reads is acknowledged and changes nothing.
ReceiveCallback(r, w) ==
    /\ withdrawal[w] # "none"
    /\ wallet[OwnerOf[w]].withdrawable =< CreditLimit
    /\ \E s \in Callbacks[w] : s # withdrawal[w] /\ Begin(r, s, w)

\* Mutation: the column's default statut is written.
MarkPending(r, w) ==
    /\ Suspended(r, "PROCESSING", w)
    /\ SetStatut(w, "PENDING")
    /\ End(r)
    /\ UNCHANGED wallet

MarkProcessing(r, w) ==
    /\ Suspended(r, "PROCESSING", w)
    /\ SetStatut(w, "PROCESSING")
    /\ End(r)
    /\ UNCHANGED wallet

\* completeWithdrawal: whatever the row holds by now.
CompleteWithdrawal(r, w) ==
    /\ Suspended(r, "COMPLETED", w)
    /\ SetStatut(w, "COMPLETED")
    /\ End(r)
    /\ UNCHANGED wallet

\* Mutation: the amount is not paid back.
FailWithoutRefund(r, w) ==
    /\ Suspended(r, "FAILED", w)
    /\ SetStatut(w, "FAILED")
    /\ End(r)
    /\ UNCHANGED wallet

\* failWithdrawal's transaction: mark the row, pay the amount back.
FailWithdrawal(r, w) ==
    /\ Suspended(r, "FAILED", w)
    /\ SetStatut(w, "FAILED")
    /\ Credit(w, Amount[w])
    /\ End(r)

\* The request dies before its transaction commits.
Abort(r) ==
    /\ MayAbort
    /\ req[r] # Idle
    /\ End(r)
    /\ UNCHANGED <<wallet, withdrawal>>

Next ==
    \/ \E r \in Requests, w \in Withdrawals :
          \/ CreateRead(r, w) \/ CreateCommit(r, w)
          \/ ReceiveCallback(r, w)
          \/ MarkProcessing(r, w) \/ CompleteWithdrawal(r, w) \/ FailWithdrawal(r, w)
    \/ \E r \in Requests : Abort(r)

Spec == Init /\ [][Next]_vars

-----------------------------------------------------------------------------
Of(d, statuts) == {w \in Withdrawals : OwnerOf[w] = d /\ withdrawal[w] \in statuts}
Total(S) == SumOver(Amount, S)

TypeOK ==
    /\ wallet \in [Drivers -> [balance : Int, withdrawable : Int]]
    /\ withdrawal \in [Withdrawals -> {"none", "PROCESSING", "COMPLETED", "FAILED"}]
    /\ req \in [Requests -> {Idle} \cup
                            [at : {"create", "PROCESSING", "COMPLETED", "FAILED"},
                             of : Withdrawals]]

\* Debits and refunds always touch both columns: the part of the balance that
\* is not withdrawable (the money still in escrow) is never disturbed.
PendingUntouched == \A d \in Drivers : wallet[d].balance = wallet[d].withdrawable

\* What driver d asked for that is on its way or sent.
Leaving(d) == Total(Of(d, {"PROCESSING", "COMPLETED"}))

\* Whatever the interleaving and wherever requests die, a driver never loses
\* money: what he earned is withdrawable, on its way or sent.
NothingLost == \A d \in Drivers : wallet[d].withdrawable + Leaving(d) >= Earned[d]

\* A server that handles one request at a time.
OneRequestAtATime == \A r, s \in Requests : r = s

\* 'Solde insuffisant': a withdrawal never takes more than is withdrawable.
NoOverdraft == \A d \in Drivers : wallet[d].withdrawable >= 0

\* An operator whose refusal is its only word on a withdrawal, repeated or not.
RefusalIsFinal == \A w \in Withdrawals : "FAILED" \in Callbacks[w] => Callbacks[w] = {"FAILED"}

\* 'Retrait déjà marqué comme échoué': a withdrawal that failed is paid back
\* once, so the driver's money is exactly what he earned.
MoneyConserved == \A d \in Drivers : wallet[d].withdrawable + Leaving(d) = Earned[d]
=============================================================================
