----------------------------- MODULE TripFunds ------------------------------
(***************************************************************************)
(* The life of a trip and of its money: bookings, payments, escrow and     *)
(* wallets composed, with any number of requests in flight at once.        *)
(***************************************************************************)
EXTENDS Bookings, Payments

Init ==
    /\ booking = [b \in Bookings |->
                    [statut |-> None, otpCode |-> "null", qrCode |-> FALSE]]
    /\ seats = Capacity
    /\ payment = [b \in Bookings |-> None]
    /\ escrow = [b \in Bookings |-> None]
    /\ wallet = [d \in Drivers |-> [balance |-> 0, pending |-> 0, withdrawable |-> 0]]
    /\ req = [r \in Requests |-> Idle]

\* A client or the operator sends a request, and its first checks pass.
Receive(r, b) ==
    \/ CreateRead(r, b)
    \/ CancelRead(r, b)
    \/ CompleteRead(r, b)
    \/ SetStatutRead(r, b)
    \/ StartRead(r, b)
    \/ PayRead(r, b)
    \/ ReceiveWebhook(r, b)
    \/ WalletRelease(r, b)

\* The handler resumes after an await.
Resume(r, b) == BookingsStep(r, b) \/ PaymentsStep(r, b) \/ EscrowStep(r, b)

\* The request dies: the process crashes, the database refuses, or Prisma
\* gives up on the transaction.  What is committed stays, the rest is lost.
Abort(r) ==
    /\ MayAbort
    /\ req[r].at # "idle"
    /\ End(r)
    /\ UNCHANGED rows

Next ==
    \/ \E r \in Requests, b \in Bookings : Receive(r, b) \/ Resume(r, b)
    \/ \E r \in Requests : Abort(r)
    \/ \E b \in Bookings : OtpExpires(b)

Spec == Init /\ [][Next]_vars

\* The event loop resumes every handler whose await is over.
Fairness == \A r \in Requests : WF_vars(\E b \in Bookings : Resume(r, b))
FairSpec == Spec /\ Fairness

-----------------------------------------------------------------------------
(* Properties that hold for every interleaving. *)

\* Schema: balance is the "solde total" of pendingBalance and
\* withdrawableBalance.  Every handler moves two of the three columns; no
\* interleaving, rollback or crash leaves a wallet whose parts do not add up.
WalletBalanced ==
    \A d \in Drivers : wallet[d].balance = wallet[d].pending + wallet[d].withdrawable

\* A driver's total only ever grows by the price of one of his bookings, in
\* the very step that opens that booking's escrow: the operator's duplicate
\* COMPLETED callbacks never credit a payment twice.
CreditOnlyWithEscrow ==
    [][\A d \in Drivers : wallet'[d].balance > wallet[d].balance =>
         \E b \in Bookings :
            /\ Driver(b) = d
            /\ escrow[b] = None /\ escrow'[b] = "held"
            /\ wallet'[d].balance = wallet[d].balance + Price(b)]_vars

\* With clients that only ask for the statuses updateStatus has a branch for:
DocumentedClients == RequestedStatuts \subseteq {"CONFIRMED", "COMPLETED", "CANCELLED"}

\* ... no trip is paid, under way, done or settled without money that went
\* through the escrow, although startTrip and COMPLETED never read it.
TripFunded ==
    \A b \in Bookings :
        booking[b].statut \in {"PAID", "IN_PROGRESS", "COMPLETED", "FUNDS_RELEASED"}
            => escrow[b] # None

\* ... a FUNDS_RELEASED booking has no money left in escrow.
ReleasedTripSettled ==
    \A b \in Bookings : booking[b].statut = "FUNDS_RELEASED" => escrow[b] = "released"

\* ... a PAID booking has its QR code and its OTP ("Payé — QR + OTP générés"):
\* the passenger can board.
PaidHasPass ==
    \A b \in Bookings :
        booking[b].statut = "PAID" => booking[b].qrCode /\ booking[b].otpCode # "null"

-----------------------------------------------------------------------------
(* Properties of a server that handles one request at a time. *)

OneRequestAtATime == \A r, s \in Requests : r = s

\* The escrow and the wallets implement Custody: each payment is held once
\* and settled once, whatever statuses clients write and wherever requests die.
Escrows == INSTANCE Custody WITH
    Accounts <- Bookings, Owners <- Drivers,
    OwnerOf <- [b \in Bookings |-> Driver(b)],
    Amount <- [b \in Bookings |-> Price(b)],
    account <- escrow, purse <- wallet
CustodyKept == Escrows!Spec

\* A booking goes through the statuses of BookingsService's lifecycle in their
\* order; only a cancellation leaves it.
Phase == [PENDING |-> 1, CONFIRMED |-> 2, PAID |-> 3, BOARDING |-> 4,
          IN_PROGRESS |-> 5, COMPLETED |-> 6, FUNDS_RELEASED |-> 7]
NeverBackwards ==
    [][\A b \in Bookings :
         {booking[b].statut, booking'[b].statut} \subseteq DOMAIN Phase
            => Phase[booking[b].statut] =< Phase[booking'[b].statut]]_vars

\* Money that left the escrow belongs to a trip that is over: once no request
\* is working on the booking, it is FUNDS_RELEASED or CANCELLED.
SettledBookingClosed ==
    \A b \in Bookings :
        escrow[b] = "released" /\ (\A r \in Requests : req[r].booking # b)
            => booking[b].statut \in {"FUNDS_RELEASED", "CANCELLED"}

\* With an operator that never takes a payment back: every callback says
\* COMPLETED.
FinalWord == WebhookStatuts \subseteq {"COMPLETED"}

\* ... and no two requests at once, a cancellation gives back whatever was
\* paid: no money of a cancelled booking stays in escrow, although the refund
\* is decided by payment.statut and not by the escrow, confirmPayment never
\* looks at the booking, and a cancellation may die after its refund.
CancelledRefunded ==
    \A b \in Bookings : booking[b].statut = "CANCELLED" => escrow[b] # "held"

\* "Trajet terminé → EscrowService.releaseFunds()": a completed trip is
\* eventually followed by the release of its funds.
CompletedThenReleased ==
    \A b \in Bookings :
        booking[b].statut = "COMPLETED" ~> booking[b].statut = "FUNDS_RELEASED"

-----------------------------------------------------------------------------
(* Claims of the documentation that the code does not keep; see README.md. *)

\* 'Cette réservation a déjà été annulée': a cancellation is final.
CancelledIsFinal ==
    [][\A b \in Bookings :
         booking[b].statut = "CANCELLED" => booking'[b].statut = "CANCELLED"]_vars
=============================================================================
