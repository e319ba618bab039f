------------------------------- MODULE Escrow -------------------------------
(***************************************************************************)
(* EscrowService (src/escrow/escrow.service.ts).  Both operations read the *)
(* escrow row and test isReleased first, and only then open a transaction  *)
(* whose writes are unconditional.                                         *)
(***************************************************************************)
EXTENDS Schema

\* confirmPayment's escrow.create and wallet.upsert, in its transaction.
HoldFunds(b) ==
    /\ escrow' = [escrow EXCEPT ![b] = "held"]
    /\ Credit(Driver(b), Price(b), Price(b), 0)

\* Mutation: isReleased is not tested.
ReleaseUnchecked(r, b) ==
    /\ escrow[b] # None
    /\ Begin(r, "releaseCommit", b, None)
    /\ UNCHANGED rows

\* POST /wallet/release/:bookingId calls releaseFunds directly, at any time.
WalletRelease(r, b) ==
    /\ escrow[b] = "held"
    /\ Begin(r, "releaseCommit", b, None)
    /\ UNCHANGED rows

\* releaseFunds' read: without a held escrow it throws and the request ends.
ReleaseRead(r, b) ==
    /\ Suspended(r, "releaseRead", b)
    /\ \/ escrow[b] = "held" /\ Goto(r, "releaseCommit")
       \/ escrow[b] # "held" /\ End(r)
    /\ UNCHANGED rows

\* Mutation: the escrow row is not marked released.
ReleaseKeepsEscrow(r, b) ==
    /\ Suspended(r, "releaseCommit", b)
    /\ BookingRowFree(r, b)
    /\ Credit(Driver(b), 0, -Price(b), Price(b))
    /\ SetStatut(b, "FUNDS_RELEASED")
    /\ End(r)
    /\ UNCHANGED <<seats, payment, escrow>>

\* releaseFunds' transaction: escrow, wallet and booking rows.
ReleaseCommit(r, b) ==
    /\ Suspended(r, "releaseCommit", b)
    /\ BookingRowFree(r, b)
    /\ escrow' = [escrow EXCEPT ![b] = "released"]
    /\ Credit(Driver(b), 0, -Price(b), Price(b))
    /\ SetStatut(b, "FUNDS_RELEASED")
    /\ End(r)
    /\ UNCHANGED <<seats, payment>>

\* refundFunds' read, inside the cancellation: a throw rolls that one back.
RefundRead(r, b) ==
    /\ Suspended(r, "refundRead", b)
    /\ \/ escrow[b] = "held" /\ Goto(r, "refundCommit")
       \/ escrow[b] # "held" /\ End(r)
    /\ UNCHANGED rows

\* Mutation: only one of the two columns is decremented.
RefundHalf(r, b) ==
    /\ Suspended(r, "refundCommit", b)
    /\ escrow' = [escrow EXCEPT ![b] = "released"]
    /\ payment' = [payment EXCEPT ![b] = "REFUNDED"]
    /\ Credit(Driver(b), -Price(b), 0, 0)
    /\ Goto(r, "cancelCommit")
    /\ UNCHANGED <<booking, seats>>

\* Mutation: the cancellation stops after the refund.
RefundOnly(r, b) ==
    /\ Suspended(r, "refundCommit", b)
    /\ escrow' = [escrow EXCEPT ![b] = "released"]
    /\ payment' = [payment EXCEPT ![b] = "REFUNDED"]
    /\ Credit(Driver(b), -Price(b), -Price(b), 0)
    /\ End(r)
    /\ UNCHANGED <<booking, seats>>

\* refundFunds' transaction, on a connection of its own: it is durable even
\* if the cancellation that called it never commits, or has timed out.
RefundCommit(r, b) ==
    /\ Suspended(r, "refundCommit", b)
    /\ escrow' = [escrow EXCEPT ![b] = "released"]
    /\ payment' = [payment EXCEPT ![b] = "REFUNDED"]
    /\ Credit(Driver(b), -Price(b), -Price(b), 0)
    /\ \/ HoldsLocks(r) /\ Goto(r, "cancelCommit")
       \/ ~HoldsLocks(r) /\ End(r)
    /\ UNCHANGED <<booking, seats>>

EscrowStep(r, b) ==
    \/ ReleaseRead(r, b)
    \/ ReleaseCommit(r, b)
    \/ RefundRead(r, b)
    \/ RefundCommit(r, b)
=============================================================================
