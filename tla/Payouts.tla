------------------------------- MODULE Payouts -------------------------------
(***************************************************************************)
(* One wallet, both ends of it: the money path (TripFunds) releases the    *)
(* price of trips into the driver's wallet while WithdrawalsService takes  *)
(* it out and pays it back; and WalletService (src/wallet/), which shows   *)
(* the driver both without a transaction around what it reads.             *)
(***************************************************************************)
EXTENDS Ledger

CONSTANTS
    Withdrawals, NoWithdrawal, OwnerOf, Amount, Callbacks, CreditLimit,  \* as in Withdrawals
    NoReport     \* what a driver sees before he has asked for anything

ASSUME PayoutsAssumption ==
    /\ IsFiniteSet(Withdrawals)
    /\ NoWithdrawal \notin Withdrawals
    /\ OwnerOf \in [Withdrawals -> Drivers]
    /\ Amount \in [Withdrawals -> Nat \ {0}]
    /\ Callbacks \in [Withdrawals -> SUBSET {"PROCESSING", "COMPLETED", "FAILED"}]
    /\ CreditLimit \in Nat

VARIABLES
    purse,       \* the two columns of wallet that WithdrawalsService moves
    withdrawal,  \* withdrawals.statut
    wreq,        \* the requests in flight that are about a withdrawal
    report       \* each driver's history, as far as it has been read

pvars == <<vars, purse, withdrawal, wreq, report>>

W == INSTANCE Withdrawals WITH
        wallet <- purse, req <- wreq, Earned <- [d \in Drivers |-> 0]

\* One row: what either service writes, the other reads.
TripMovesPurse ==
    purse' = [d \in Drivers |-> [balance |-> wallet'[d].balance,
                                 withdrawable |-> wallet'[d].withdrawable]]
PurseMovesWallet ==
    wallet' = [d \in Drivers |-> [wallet[d] EXCEPT !.balance = purse'[d].balance,
                                                  !.withdrawable = purse'[d].withdrawable]]

PayoutsInit ==
    /\ Init
    /\ purse = [d \in Drivers |-> [balance |-> 0, withdrawable |-> 0]]
    /\ withdrawal = [w \in Withdrawals |-> "none"]
    /\ wreq = [r \in Requests |-> W!Idle]
    /\ report = [d \in Drivers |-> NoReport]

-----------------------------------------------------------------------------
TripStep ==
    /\ \/ \E r \in Requests, b \in Bookings : Receive(r, b) \/ Resume(r, b)
       \/ \E r \in Requests : Abort(r)
       \/ \E b \in Bookings : OtpExpires(b)
    /\ TripMovesPurse
    /\ UNCHANGED <<withdrawal, wreq, report>>

\* A request of WithdrawalsService takes a step.
WithdrawalStep(r, w) ==
    /\ \/ W!CreateRead(r, w) \/ W!CreateCommit(r, w)
       \/ W!ReceiveCallback(r, w)
       \/ W!MarkProcessing(r, w) \/ W!CompleteWithdrawal(r, w) \/ W!FailWithdrawal(r, w)
    /\ PurseMovesWallet
    /\ UNCHANGED <<booking, seats, payment, escrow, req, report>>

AbortWithdrawal ==
    /\ \E r \in Requests : W!Abort(r)
    /\ UNCHANGED <<vars, report>>

Released(d) == {b \in Bookings : Driver(b) = d /\ booking[b].statut = "FUNDS_RELEASED"}

\* Mutation: the bookings are read before the wallet.
ReadEarningsFirst(d) ==
    /\ \/ /\ report[d] = NoReport
          /\ report' = [report EXCEPT ![d] =
                          [withdrawable |-> 0, earnings |-> Released(d), read |-> FALSE]]
       \/ /\ report[d] # NoReport /\ ~report[d].read
          /\ report' = [report EXCEPT ![d].withdrawable = wallet[d].withdrawable, ![d].read = TRUE]
    /\ UNCHANGED <<vars, purse, withdrawal, wreq>>

\* getHistory: the wallet, then the FUNDS_RELEASED bookings.  What getBalance
\* returns is the first of these reads; the list of withdrawals comes from a
\* query between the two and is not followed.  This is the service given the
\* caller's id: its controller passes user.sub instead (see README.md).
ReadHistory(d) ==
    /\ \/ /\ report[d] = NoReport
          /\ report' = [report EXCEPT ![d] =
                          [withdrawable |-> wallet[d].withdrawable, earnings |-> {}, read |-> FALSE]]
       \/ /\ report[d] # NoReport /\ ~report[d].read
          /\ report' = [report EXCEPT ![d].earnings = Released(d), ![d].read = TRUE]
    /\ UNCHANGED <<vars, purse, withdrawal, wreq>>

\* The driver asks again.
ForgetHistory(d) ==
    /\ report[d] # NoReport
    /\ report' = [report EXCEPT ![d] = NoReport]
    /\ UNCHANGED <<vars, purse, withdrawal, wreq>>

PayoutsNext ==
    \/ TripStep
    \/ \E r \in Requests, w \in Withdrawals : WithdrawalStep(r, w)
    \/ AbortWithdrawal
    \/ \E d \in Drivers : ReadHistory(d) \/ ForgetHistory(d)
PayoutsSpec == PayoutsInit /\ [][PayoutsNext]_pvars

-----------------------------------------------------------------------------
\* Money in, money out: what is withdrawable, on its way or sent is the price
\* of the driver's released trips, to the last franc, whatever order trips,
\* withdrawals, refusals of the operator, cancellations and crashes come in.
PayoutsConserved ==
    \A d \in Drivers : wallet[d].withdrawable + W!Leaving(d) = TotalPrice(Released(d))

\* No withdrawal takes more than the wallet holds, while trips are released and
\* refused withdrawals paid back around it.  One request at a time, as the test
\* of the balance and the decrement are not one transaction.
PurseNotOverdrawn == \A d \in Drivers : wallet[d].withdrawable >= 0

\* The history explains the balance: although a trip may be released between
\* the two reads, the earnings listed cover the withdrawable amount shown.
HistoryCoversBalance ==
    \A d \in Drivers : report[d] # NoReport /\ report[d].read
        => report[d].withdrawable =< TotalPrice(report[d].earnings)
=============================================================================
