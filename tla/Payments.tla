------------------------------ MODULE Payments ------------------------------
(***************************************************************************)
(* PaymentsService (src/payments/payments.service.ts): starting a Mobile   *)
(* Money payment and handling the operator's callbacks, which may come     *)
(* late, twice, out of order, or for a booking that has moved on.          *)
(***************************************************************************)
EXTENDS Escrow

\* create's checks: only a PENDING or CONFIRMED booking can be paid.
PayRead(r, b) ==
    /\ booking[b].statut \in {"PENDING", "CONFIRMED"}
    /\ Begin(r, "pay", b, None)
    /\ UNCHANGED rows

\* create's insert: payments.bookingId is unique, a second row is refused.
PayCommit(r, b) ==
    /\ Suspended(r, "pay", b)
    /\ \/ payment[b] = None /\ payment' = [payment EXCEPT ![b] = "PROCESSING"]
       \/ payment[b] # None /\ UNCHANGED payment
    /\ End(r)
    /\ UNCHANGED <<booking, seats, escrow, wallet>>

\* handleWebhook: the payment row is read once; what is done next depends on
\* that snapshot and on the callback's status.
ReceiveWebhook(r, b) ==
    /\ payment[b] # None
    /\ \/ /\ "COMPLETED" \in WebhookStatuts
          /\ payment[b] # "COMPLETED"
          /\ Begin(r, "confirmPayment", b, None)
       \/ "FAILED" \in WebhookStatuts /\ Begin(r, "failPayment", b, None)
       \/ "PROCESSING" \in WebhookStatuts /\ Begin(r, "markProcessing", b, None)
    /\ UNCHANGED rows

\* Mutation: nothing refuses a second escrow for the same payment.
ConfirmAgain(r, b) ==
    /\ Suspended(r, "confirmPayment", b)
    /\ BookingRowFree(r, b)
    /\ payment' = [payment EXCEPT ![b] = "COMPLETED"]
    /\ booking' = [booking EXCEPT ![b] = [statut |-> "PAID",
                                          otpCode |-> "valid",
                                          qrCode |-> TRUE]]
    /\ HoldFunds(b)
    /\ End(r)
    /\ UNCHANGED seats

\* Mutation: the booking is paid without QR code or OTP.
ConfirmWithoutPass(r, b) ==
    /\ Suspended(r, "confirmPayment", b)
    /\ BookingRowFree(r, b)
    /\ escrow[b] = None
    /\ payment' = [payment EXCEPT ![b] = "COMPLETED"]
    /\ SetStatut(b, "PAID")
    /\ HoldFunds(b)
    /\ End(r)
    /\ UNCHANGED seats

\* confirmPayment's transaction.  It never looks at the booking's statut; if
\* an escrow exists already, escrow.create fails and everything rolls back.
ConfirmPayment(r, b) ==
    /\ Suspended(r, "confirmPayment", b)
    /\ BookingRowFree(r, b)
    /\ \/ /\ escrow[b] = None
          /\ payment' = [payment EXCEPT ![b] = "COMPLETED"]
          /\ booking' = [booking EXCEPT ![b] = [statut |-> "PAID",
                                                otpCode |-> "valid",
                                                qrCode |-> TRUE]]
          /\ HoldFunds(b)
       \/ escrow[b] # None /\ UNCHANGED <<payment, booking, escrow, wallet>>
    /\ End(r)
    /\ UNCHANGED seats

\* failPayment and the PROCESSING branch overwrite whatever statut is there.
FailPayment(r, b) ==
    /\ Suspended(r, "failPayment", b)
    /\ payment' = [payment EXCEPT ![b] = "FAILED"]
    /\ End(r)
    /\ UNCHANGED <<booking, seats, escrow, wallet>>

MarkProcessing(r, b) ==
    /\ Suspended(r, "markProcessing", b)
    /\ payment' = [payment EXCEPT ![b] = "PROCESSING"]
    /\ End(r)
    /\ UNCHANGED <<booking, seats, escrow, wallet>>

PaymentsStep(r, b) ==
    \/ PayCommit(r, b)
    \/ ConfirmPayment(r, b)
    \/ FailPayment(r, b)
    \/ MarkProcessing(r, b)
=============================================================================
