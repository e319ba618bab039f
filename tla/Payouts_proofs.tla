---------------------------- MODULE Payouts_proofs ----------------------------
(***************************************************************************)
(* Proofs about Payouts, for every number of bookings, drivers,            *)
(* withdrawals and requests.  What is proved of Withdrawals alone is used  *)
(* here for its instance on the wallets of the money path.                 *)
(***************************************************************************)
EXTENDS Payouts, TripFunds_proofs

WP == INSTANCE Withdrawals_proofs WITH
        wallet <- purse, req <- wreq, Earned <- [d \in Drivers |-> 0]

-----------------------------------------------------------------------------
(* The instance: its constants are as Withdrawals assumes, and its         *)
(* definitions are those of W.                                             *)

LEMMA InstanceConstants == WP!WithdrawalsAssumption
BY PayoutsAssumption, ConstantsAssumption
   DEF WP!WithdrawalsAssumption, WP!IsFiniteSet, IsFiniteSet

LEMMA SameLeaving ==
  ASSUME NEW d \in Drivers
  PROVE  W!Leaving(d) = WP!Leaving(d) /\ W!Leaving(d)' = WP!Leaving(d)'
BY DEF W!Leaving, W!Total, W!Of, W!SumOver, W!Units, W!Cardinality,
       WP!Leaving, WP!Total, WP!Of, WP!SumOver, WP!Units, WP!Cardinality

\* A step of a withdrawal is a step of Withdrawals, and writes what it moved
\* back into the wallet row.
LEMMA WithdrawalIsStep ==
  ASSUME NEW r \in Requests, NEW w \in Withdrawals, WithdrawalStep(r, w)
  PROVE  WP!Next
BY DEF WithdrawalStep, WP!Next, WP!Suspended, WP!Begin, WP!End, WP!Idle, WP!SetStatut,
       WP!Credit, WP!CreateRead, WP!CreateCommit, WP!ReceiveCallback, WP!MarkProcessing,
       WP!CompleteWithdrawal, WP!FailWithdrawal,
       W!Suspended, W!Begin, W!End, W!Idle, W!SetStatut, W!Credit, W!CreateRead,
       W!CreateCommit, W!ReceiveCallback, W!MarkProcessing, W!CompleteWithdrawal,
       W!FailWithdrawal

LEMMA AbortIsStep ==
  ASSUME AbortWithdrawal
  PROVE  WP!Next
BY DEF AbortWithdrawal, W!Abort, W!Idle, W!End, WP!Next, WP!Abort, WP!Idle, WP!End
-----------------------------------------------------------------------------
(* The money path, for documented clients, one request at a time and an    *)
(* operator that only ever confirms: the release of a trip is final.       *)

\* Money in escrow or released was paid; a cancellation about to commit has
\* refunded it; no callback takes a payment back.
PaidOff ==
  /\ \A b \in Bookings :
        escrow[b] = "held" \/ booking[b].statut = "FUNDS_RELEASED" => payment[b] = "COMPLETED"
  /\ \A r \in Requests :
        /\ req[r].at \notin {"failPayment", "markProcessing"}
        /\ req[r].at = "cancelCommit" => payment[req[r].booking] = "REFUNDED"

\* What the money path keeps.
TripInv == TypeOK /\ Funded /\ SettlesHeld /\ FreshSnapshot /\ Refunds /\ PaidOff

LEMMA StepPaidOff ==
  ASSUME DocumentedClients, OneRequestAtATime, FinalWord, TripInv, [Next]_vars
  PROVE  PaidOff'
<1>1. /\ req \in [Requests -> Request] /\ booking \in [Bookings -> BookingRow]
      /\ payment \in [Bookings -> PaymentStatut \cup {None}]
      /\ escrow \in [Bookings -> {None, "held", "released"}]
  BY DEF TripInv, TypeOK, RowsOK, RequestsOK
<1>2. ASSUME NEW r \in Requests, End(r),
             \A b \in Bookings :
                escrow'[b] = "held" \/ booking'[b].statut = "FUNDS_RELEASED"
                   => payment'[b] = "COMPLETED"
      PROVE  PaidOff'
  <2>1. \A q \in Requests : req'[q] = Idle
    BY <1>2, EndIsIdle DEF TripInv
  <2> QED BY <1>2, <2>1 DEF PaidOff, Idle
<1>3. ASSUME NEW r \in Requests, NEW b \in Bookings, Receive(r, b) PROVE PaidOff'
  <2>1. UNCHANGED rows
    BY <1>3, ReceiveRows
  <2>2. PICK place \in Place \ {"failPayment", "markProcessing", "cancelCommit"} :
           \E t : Begin(r, place, b, t)
    BY <1>3 DEF FinalWord, Receive, CreateRead, CancelRead, CompleteRead, SetStatutRead,
                StartRead, PayRead, ReceiveWebhook, WalletRelease, Place
  <2>3. \A q \in Requests : req'[q].at = place
    BY <2>2, BeginIsAlone DEF TripInv
  <2> QED BY <2>1, <2>3 DEF TripInv, PaidOff, rows
<1>4. ASSUME UNCHANGED rows, \A q \in Requests : req'[q].at \in {"refundRead", "refundCommit",
                "releaseCommit"}
      PROVE  PaidOff'
  BY <1>4 DEF TripInv, PaidOff, rows
<1>5. ASSUME NEW r \in Requests, NEW b \in Bookings, BookingsStep(r, b) PROVE PaidOff'
  <2>1. ASSUME NEW s, SetStatut(b, s), s # "FUNDS_RELEASED", UNCHANGED <<payment, escrow>>
        PROVE  \A c \in Bookings :
                  escrow'[c] = "held" \/ booking'[c].statut = "FUNDS_RELEASED"
                     => payment'[c] = "COMPLETED"
    BY <1>1, <2>1 DEF SetStatut, BookingRow, TripInv, PaidOff
  <2>2. CASE CreateCommit(r, b) \/ CancelCommit(r, b)
    BY <1>2, <2>1, <2>2 DEF CreateCommit, CancelCommit
  <2>3. CASE SetStatutCommit(r, b)
    <3>1. req[r].target = "CONFIRMED"
      BY <2>3, DocumentedTarget DEF SetStatutCommit, Suspended, TripInv
    <3> QED BY <1>2, <2>1, <2>3, <3>1 DEF SetStatutCommit
  <2>4. CASE StartCommit(r, b)
    <3>1. /\ UNCHANGED <<payment, escrow>>
          /\ \A c \in Bookings : booking'[c].statut \in {"IN_PROGRESS", booking[c].statut}
      BY <1>1, <2>4 DEF StartCommit, BookingRow
    <3> QED BY <1>2, <2>4, <3>1 DEF StartCommit, TripInv, PaidOff
  <2>5. CASE CompleteCommit(r, b)
    <3>1. \A q \in Requests : req'[q].at = "releaseRead"
      BY <2>5, GotoIsAlone DEF CompleteCommit, TripInv
    <3> QED BY <2>1, <2>5, <3>1 DEF CompleteCommit, PaidOff
  <2>6. CASE CancelLock(r, b)
    <3>1. \A q \in Requests : req'[q].at = "refundRead"
      BY <2>6, GotoIsAlone DEF CancelLock, TripInv
    <3> QED BY <1>4, <2>6, <3>1 DEF CancelLock
  <2>7. CASE CancelTimeout(r, b)
    <3>1. \A q \in Requests : req'[q].at \in {"refundRead", "refundCommit"}
      BY <1>1, <2>7 DEF CancelTimeout, Suspended, OneRequestAtATime, Request
    <3> QED BY <1>4, <2>7, <3>1 DEF CancelTimeout
  <2> QED BY <1>5, <2>2, <2>3, <2>4, <2>5, <2>6, <2>7 DEF BookingsStep
<1>6. ASSUME NEW r \in Requests, NEW b \in Bookings, PaymentsStep(r, b) PROVE PaidOff'
  <2>1. CASE PayCommit(r, b)
    BY <1>1, <1>2, <2>1 DEF PayCommit, TripInv, PaidOff, None
  <2>2. CASE ConfirmPayment(r, b)
    <3>1. ASSUME NEW c \in Bookings, escrow'[c] = "held" \/ booking'[c].statut = "FUNDS_RELEASED"
          PROVE  payment'[c] = "COMPLETED"
      BY <1>1, <2>2, <3>1 DEF ConfirmPayment, HoldFunds, TripInv, PaidOff
    <3> QED BY <1>2, <2>2, <3>1 DEF ConfirmPayment
  <2>3. ~FailPayment(r, b) /\ ~MarkProcessing(r, b)
    BY DEF FailPayment, MarkProcessing, Suspended, TripInv, PaidOff
  <2> QED BY <1>6, <2>1, <2>2, <2>3 DEF PaymentsStep
<1>7. ASSUME NEW r \in Requests, NEW b \in Bookings, EscrowStep(r, b) PROVE PaidOff'
  <2>1. CASE ReleaseRead(r, b) \/ RefundRead(r, b)
    <3>1. CASE End(r)
      BY <1>2, <2>1, <3>1 DEF ReleaseRead, RefundRead, rows, TripInv, PaidOff
    <3>2. CASE Goto(r, "releaseCommit") \/ Goto(r, "refundCommit")
      <4>1. \A q \in Requests : req'[q].at \in {"releaseCommit", "refundCommit"}
        BY <3>2, GotoIsAlone DEF TripInv
      <4> QED BY <1>4, <2>1, <4>1 DEF ReleaseRead, RefundRead
    <3> QED BY <2>1, <3>1, <3>2 DEF ReleaseRead, RefundRead
  <2>2. CASE ReleaseCommit(r, b)
    <3>1. escrow[b] = "held" /\ payment[b] = "COMPLETED"
      BY <2>2 DEF ReleaseCommit, Suspended, TripInv, SettlesHeld, PaidOff
    <3>2. ASSUME NEW c \in Bookings, escrow'[c] = "held" \/ booking'[c].statut = "FUNDS_RELEASED"
          PROVE  payment'[c] = "COMPLETED"
      BY <1>1, <2>2, <3>1, <3>2 DEF ReleaseCommit, SetStatut, TripInv, PaidOff
    <3> QED BY <1>2, <2>2, <3>2 DEF ReleaseCommit
  <2>3. CASE RefundCommit(r, b)
    <3>1. req[r].booking = b /\ escrow[b] = "held" /\ booking[b].statut # "FUNDS_RELEASED"
      BY <2>3 DEF RefundCommit, Suspended, TripInv, SettlesHeld, Funded, ReleasedTripSettled
    <3>2. ASSUME NEW c \in Bookings, escrow'[c] = "held" \/ booking'[c].statut = "FUNDS_RELEASED"
          PROVE  payment'[c] = "COMPLETED"
      BY <1>1, <2>3, <3>1, <3>2 DEF RefundCommit, TripInv, PaidOff
    <3>3. CASE End(r)
      BY <1>2, <3>2, <3>3
    <3>4. CASE Goto(r, "cancelCommit")
      <4>1. \A q \in Requests : req'[q].at = "cancelCommit" /\ req'[q].booking = b
        BY <3>1, <3>4, GotoIsAlone DEF TripInv
      <4>2. payment'[b] = "REFUNDED"
        BY <1>1, <2>3 DEF RefundCommit
      <4> QED BY <3>2, <4>1, <4>2 DEF PaidOff
    <3> QED BY <2>3, <3>3, <3>4 DEF RefundCommit
  <2> QED BY <1>7, <2>1, <2>2, <2>3 DEF EscrowStep
<1>8. ASSUME NEW r \in Requests, Abort(r) PROVE PaidOff'
  BY <1>2, <1>8 DEF Abort, rows, TripInv, PaidOff
<1>9. ASSUME NEW b \in Bookings, OtpExpires(b) PROVE PaidOff'
  BY <1>1, <1>9 DEF OtpExpires, BookingRow, TripInv, PaidOff
<1>10. CASE UNCHANGED vars
  BY <1>10 DEF vars, TripInv, PaidOff
<1> QED
  BY <1>3, <1>5, <1>6, <1>7, <1>8, <1>9, <1>10 DEF Next, Resume

LEMMA StepTripInv ==
  ASSUME DocumentedClients, OneRequestAtATime, FinalWord, TripInv, [Next]_vars
  PROVE  TripInv'
BY StepType, StepFunded, StepSettlesHeld, StepFresh, StepRefunds, StepPaidOff DEF TripInv

\* A released trip stays released.
LEMMA ReleaseIsFinal ==
  ASSUME DocumentedClients, TripInv, [Next]_vars,
         NEW b \in Bookings, booking[b].statut = "FUNDS_RELEASED"
  PROVE  booking'[b].statut = "FUNDS_RELEASED"
<1>1. /\ booking \in [Bookings -> BookingRow]
      /\ escrow[b] = "released" /\ payment[b] = "COMPLETED"
  BY DEF TripInv, TypeOK, RowsOK, Funded, ReleasedTripSettled, PaidOff
<1>2. ASSUME NEW r \in Requests, NEW c \in Bookings, PlainMove(r, c)
      PROVE  c # b
  <2>1. CASE Suspended(r, "create", c) \/ Suspended(r, "complete", c) \/ Suspended(r, "setStatut", c)
    BY <2>1 DEF Suspended, TripInv, FreshSnapshot, None
  <2>2. CASE Suspended(r, "cancelUnpaid", c) \/ Suspended(r, "cancelCommit", c)
    BY <1>1, <2>2 DEF Suspended, TripInv, Refunds, CancelsSettled, PaidOff
  <2> QED BY <1>2, <2>1, <2>2 DEF PlainMove
<1>3. ASSUME NEW r \in Requests, NEW c \in Bookings, PlainMove(r, c)
      PROVE  booking'[b].statut = "FUNDS_RELEASED"
  BY <1>1, <1>2, <1>3 DEF PlainMove, SetStatut
<1>4. ASSUME NEW r \in Requests, NEW c \in Bookings, StartMove(r, c)
      PROVE  booking'[b].statut = "FUNDS_RELEASED"
  <2>1. c # b
    BY <1>4 DEF StartMove, Suspended, TripInv, FreshSnapshot
  <2> QED BY <1>1, <1>4, <2>1 DEF StartMove
<1>5. ASSUME NEW c \in Bookings, PaidMove(c)
      PROVE  booking'[b].statut = "FUNDS_RELEASED"
  <2>1. c # b
    BY <1>1, <1>5 DEF PaidMove, HoldStep, None
  <2> QED BY <1>1, <1>5, <2>1 DEF PaidMove
<1>6. ASSUME NEW r \in Requests, NEW c \in Bookings, ReleasedMove(r, c)
      PROVE  booking'[b].statut = "FUNDS_RELEASED"
  BY <1>1, <1>6 DEF ReleasedMove, SetStatut, BookingRow
<1>7. ASSUME NEW c \in Bookings, ExpiryMove(c)
      PROVE  booking'[b].statut = "FUNDS_RELEASED"
  BY <1>1, <1>7 DEF ExpiryMove, BookingRow
<1> QED
  BY <1>3, <1>4, <1>5, <1>6, <1>7, BookingStep DEF BookingMove
-----------------------------------------------------------------------------
(* What trips released against what the wallets of their drivers received. *)

ReleasedAs(b) == booking[b].statut = "FUNDS_RELEASED"

\* Only a release makes a booking released or moves what is withdrawable.
LEMMA ReleaseOnly ==
  ASSUME DocumentedClients, TypeOK, [Next]_vars
  PROVE  \/ \E r \in Requests, b \in Bookings : ReleasedMove(r, b)
         \/ /\ \A b \in Bookings : ReleasedAs(b)' => ReleasedAs(b)
            /\ \A d \in Drivers : wallet'[d].withdrawable = wallet[d].withdrawable
<1> DEFINE Kept == /\ \A b \in Bookings : ReleasedAs(b)' => ReleasedAs(b)
                   /\ \A d \in Drivers : wallet'[d].withdrawable = wallet[d].withdrawable
<1>1. booking \in [Bookings -> BookingRow] /\ wallet \in [Drivers -> WalletRow]
  BY DEF TypeOK, RowsOK
<1>2. ASSUME NEW b \in Bookings, NEW m \in Int, NEW n \in Int, Credit(Driver(b), m, n, 0)
      PROVE  \A d \in Drivers : wallet'[d].withdrawable = wallet[d].withdrawable
  BY <1>1, <1>2 DEF Credit, WalletRow
<1>3. ASSUME NEW b \in Bookings, NEW s, SetStatut(b, s), s # "FUNDS_RELEASED"
      PROVE  \A c \in Bookings : ReleasedAs(c)' => ReleasedAs(c)
  BY <1>1, <1>3 DEF SetStatut, BookingRow, ReleasedAs
<1>4. CASE UNCHANGED rows
  BY <1>4 DEF rows, ReleasedAs
<1>5. ASSUME NEW r \in Requests, NEW b \in Bookings, BookingsStep(r, b) PROVE Kept
  <2>1. CASE CreateCommit(r, b) \/ CancelCommit(r, b) \/ CompleteCommit(r, b)
    BY <1>3, <2>1 DEF CreateCommit, CancelCommit, CompleteCommit
  <2>2. CASE SetStatutCommit(r, b)
    <3>1. req[r].target = "CONFIRMED"
      BY <2>2, DocumentedTarget DEF SetStatutCommit, Suspended
    <3> QED BY <1>3, <2>2, <3>1 DEF SetStatutCommit
  <2>3. CASE StartCommit(r, b)
    BY <1>1, <2>3 DEF StartCommit, BookingRow, ReleasedAs
  <2>4. CASE CancelLock(r, b) \/ CancelTimeout(r, b)
    BY <1>4, <2>4 DEF CancelLock, CancelTimeout, rows, ReleasedAs
  <2> QED BY <1>5, <2>1, <2>2, <2>3, <2>4 DEF BookingsStep
<1>6. ASSUME NEW r \in Requests, NEW b \in Bookings, PaymentsStep(r, b) PROVE Kept
  <2>1. CASE ConfirmPayment(r, b) /\ escrow[b] = None
    <3>1. \A d \in Drivers : wallet'[d].withdrawable = wallet[d].withdrawable
      <4>1. Price(b) \in Int /\ Credit(Driver(b), Price(b), Price(b), 0)
        BY <2>1, PriceType DEF ConfirmPayment, HoldFunds
      <4> QED BY <1>2, <4>1
    <3>2. \A c \in Bookings : ReleasedAs(c)' => ReleasedAs(c)
      BY <1>1, <2>1 DEF ConfirmPayment, ReleasedAs
    <3> QED BY <3>1, <3>2
  <2>2. CASE ConfirmPayment(r, b) /\ escrow[b] # None
    BY <2>2 DEF ConfirmPayment, ReleasedAs
  <2>3. CASE PayCommit(r, b) \/ FailPayment(r, b) \/ MarkProcessing(r, b)
    BY <2>3 DEF PayCommit, FailPayment, MarkProcessing, ReleasedAs
  <2> QED BY <1>6, <2>1, <2>2, <2>3 DEF PaymentsStep
<1>7. ASSUME NEW r \in Requests, NEW b \in Bookings, EscrowStep(r, b)
      PROVE  ReleasedMove(r, b) \/ Kept
  <2>1. CASE ReleaseCommit(r, b)
    BY <2>1 DEF ReleaseCommit, ReleasedMove, ReleaseStep
  <2>2. CASE RefundCommit(r, b)
    <3>1. -Price(b) \in Int
      BY PriceType
    <3> QED BY <1>2, <2>2, <3>1 DEF RefundCommit, ReleasedAs
  <2>3. CASE ReleaseRead(r, b) \/ RefundRead(r, b)
    BY <2>3 DEF ReleaseRead, RefundRead, rows, ReleasedAs
  <2> QED BY <1>7, <2>1, <2>2, <2>3 DEF EscrowStep
<1>8. ASSUME NEW b \in Bookings, OtpExpires(b) PROVE Kept
  BY <1>1, <1>8 DEF OtpExpires, BookingRow, ReleasedAs
<1>9. CASE \E r \in Requests, b \in Bookings : Receive(r, b)
  BY <1>4, <1>9, ReceiveRows
<1>10. CASE UNCHANGED vars \/ \E r \in Requests : Abort(r)
  BY <1>4, <1>10 DEF vars, rows, Abort
<1> QED
  BY <1>5, <1>6, <1>7, <1>8, <1>9, <1>10 DEF Next, Resume

\* Releasing one booking adds its price, for its driver only.
LEMMA ReleasedTotal ==
  ASSUME NEW b \in Bookings, \A c \in Bookings \ {b} : ReleasedAs(c)' <=> ReleasedAs(c),
         NEW d \in Drivers
  PROVE  /\ TotalPrice(Released(d)) \in Nat /\ TotalPrice(Released(d))' \in Nat
         /\ Driver(b) # d \/ (ReleasedAs(b)' <=> ReleasedAs(b)) =>
               TotalPrice(Released(d))' = TotalPrice(Released(d))
         /\ Driver(b) = d /\ ~ReleasedAs(b) /\ ReleasedAs(b)' =>
               TotalPrice(Released(d))' = TotalPrice(Released(d)) + Price(b)
<1> DEFINE f == [c \in Bookings |-> Price(c)]
           S == Released(d)
           T == {c \in Bookings : Driver(c) = d /\ ReleasedAs(c)'}
<1>1. TotalPrice(Released(d)) = SumOver(f, S) /\ TotalPrice(Released(d))' = SumOver(f, T)
  BY DEF TotalPrice, Released, ReleasedAs
<1>2. S \in SUBSET Bookings /\ T \in SUBSET Bookings
  BY DEF Released
<1>3. \A c \in Bookings \ {b} : c \in S <=> c \in T
  BY DEF Released, ReleasedAs
<1>4. /\ b \in S <=> Driver(b) = d /\ ReleasedAs(b)
      /\ b \in T <=> Driver(b) = d /\ ReleasedAs(b)'
  BY DEF Released, ReleasedAs
<1>5. IsFiniteSet(Bookings) /\ f[b] = Price(b) /\ \A c \in Bookings : f[c] \in Nat
  BY LedgerAssumption, PriceType
<1> HIDE DEF S, T, f
<1>6. /\ SumOver(f, S) \in Nat /\ SumOver(f, T) \in Nat
      /\ b \in S /\ b \in T => SumOver(f, T) = SumOver(f, S)
      /\ b \notin S /\ b \in T => SumOver(f, T) = SumOver(f, S) + f[b]
      /\ b \notin S /\ b \notin T => SumOver(f, T) = SumOver(f, S)
  BY <1>2, <1>3, <1>5, SumChange
<1> QED
  BY <1>1, <1>4, <1>5, <1>6

\* The released price of a driver is a number, and no statut changes it but
\* a release.
LEMMA ReleasedSame ==
  ASSUME \A c \in Bookings : ReleasedAs(c)' <=> ReleasedAs(c), NEW d \in Drivers
  PROVE  TotalPrice(Released(d)) \in Nat /\ TotalPrice(Released(d))' = TotalPrice(Released(d))
<1>1. Released(d)' = Released(d)
  BY DEF Released, ReleasedAs
<1>2. Released(d) \in SUBSET Bookings
  BY DEF Released
<1>3. TotalPrice(Released(d)) \in Nat
  BY <1>2, LedgerAssumption, PriceType, FS_Subset, SumType DEF TotalPrice
<1> QED BY <1>1, <1>3 DEF TotalPrice

\* What becomes withdrawable is what is released.
LEMMA TripBalance ==
  ASSUME DocumentedClients, OneRequestAtATime, FinalWord, TripInv, [Next]_vars,
         NEW d \in Drivers
  PROVE  /\ TotalPrice(Released(d)) \in Nat /\ TotalPrice(Released(d))' \in Nat
         /\ TotalPrice(Released(d))' >= TotalPrice(Released(d))
         /\ wallet'[d].withdrawable - TotalPrice(Released(d))'
            = wallet[d].withdrawable - TotalPrice(Released(d))
<1>1. /\ booking \in [Bookings -> BookingRow] /\ wallet[d].withdrawable \in Int
      /\ TypeOK
  BY DEF TripInv, TypeOK, RowsOK, WalletRow
<1>2. \A b \in Bookings : ReleasedAs(b) => ReleasedAs(b)'
  BY ReleaseIsFinal DEF ReleasedAs
<1>3. CASE /\ \A b \in Bookings : ReleasedAs(b)' => ReleasedAs(b)
           /\ \A e \in Drivers : wallet'[e].withdrawable = wallet[e].withdrawable
  <2>1. /\ TotalPrice(Released(d)) \in Nat
        /\ TotalPrice(Released(d))' = TotalPrice(Released(d))
    BY <1>2, <1>3, ReleasedSame
  <2> QED BY <1>1, <1>3, <2>1
<1>4. ASSUME NEW r \in Requests, NEW b \in Bookings, ReleasedMove(r, b)
      PROVE  /\ TotalPrice(Released(d)) \in Nat /\ TotalPrice(Released(d))' \in Nat
             /\ TotalPrice(Released(d))' >= TotalPrice(Released(d))
             /\ wallet'[d].withdrawable - TotalPrice(Released(d))'
                = wallet[d].withdrawable - TotalPrice(Released(d))
  <2>1. ~ReleasedAs(b)
    BY <1>4 DEF ReleasedMove, Suspended, TripInv, SettlesHeld, Funded, ReleasedTripSettled,
                ReleasedAs
  <2>2. ReleasedAs(b)' /\ \A c \in Bookings \ {b} : ReleasedAs(c)' <=> ReleasedAs(c)
    BY <1>1, <1>4 DEF ReleasedMove, SetStatut, BookingRow, ReleasedAs
  <2>3. /\ Driver(b) \in Drivers /\ Price(b) \in Nat /\ -Price(b) \in Int
    BY DriverType, PriceType
  <2>4. /\ d # Driver(b) => wallet'[d].withdrawable = wallet[d].withdrawable
        /\ d = Driver(b) => wallet'[d].withdrawable = wallet[d].withdrawable + Price(b)
    BY <1>1, <1>4, <2>3, CreditStep DEF ReleasedMove, ReleaseStep
  <2>5. /\ TotalPrice(Released(d)) \in Nat /\ TotalPrice(Released(d))' \in Nat
        /\ Driver(b) # d => TotalPrice(Released(d))' = TotalPrice(Released(d))
        /\ Driver(b) = d => TotalPrice(Released(d))' = TotalPrice(Released(d)) + Price(b)
    BY <2>1, <2>2, ReleasedTotal, Zenon
  <2> QED BY <1>1, <2>3, <2>4, <2>5
<1> QED
  BY <1>1, <1>3, <1>4, ReleaseOnly
-----------------------------------------------------------------------------
(* Both services on one wallet row.  PayoutsConserved needs that the two    *)
(* views of the row agree and what each service keeps of its own rows.      *)

OneRow ==
  \A d \in Drivers : /\ purse[d].balance = wallet[d].balance
                     /\ purse[d].withdrawable = wallet[d].withdrawable

\* What a driver read first was backed by released trips, and still is.
ReportBacked ==
  /\ report \in [Drivers -> {NoReport} \cup
                   [withdrawable : Int, earnings : SUBSET Bookings, read : BOOLEAN]]
  /\ \A d \in Drivers : report[d] # NoReport /\ ~report[d].read
        => report[d].withdrawable =< TotalPrice(Released(d))

PayoutsInv ==
  /\ TripInv
  /\ WP!TypeOK /\ WP!InsertedOnce /\ WP!ActsOnLeaving
  /\ OneRow /\ ReportBacked

LEMMA TripStepNext == ASSUME TripStep PROVE [Next]_vars
BY DEF TripStep, Next

\* A step that leaves the rows of the trips alone keeps what is said of them.
LEMMA TripInvSame ==
  ASSUME TripInv, UNCHANGED <<booking, seats, payment, escrow, req>>,
         wallet' \in [Drivers -> WalletRow]
  PROVE  TripInv'
<1>1. TypeOK'
  BY DEF TripInv, TypeOK, RowsOK, RequestsOK
<1>2. Funded' /\ SettlesHeld' /\ FreshSnapshot' /\ Refunds' /\ PaidOff'
  BY DEF TripInv, Funded, TripFunded, ReleasedTripSettled, PaidHasPass, InFlightFunded,
         SettlesHeld, FreshSnapshot, Refunds, CancelsSettled, CancelledSettled, PaidOff
<1> QED BY <1>1, <1>2 DEF TripInv

LEMMA WithdrawalsInvSame ==
  ASSUME PayoutsInv, UNCHANGED <<withdrawal, wreq>>,
         purse' \in [Drivers -> [balance : Int, withdrawable : Int]]
  PROVE  WP!TypeOK' /\ WP!InsertedOnce' /\ WP!ActsOnLeaving'
BY DEF PayoutsInv, WP!TypeOK, WP!InsertedOnce, WP!ActsOnLeaving, WP!Suspended, WP!Idle

\* A report is backed as long as nothing is taken from the released trips.
LEMMA ReportSame ==
  ASSUME PayoutsInv, UNCHANGED report,
         \A d \in Drivers : /\ TotalPrice(Released(d)) \in Nat
                            /\ TotalPrice(Released(d))' \in Nat
                            /\ TotalPrice(Released(d))' >= TotalPrice(Released(d))
  PROVE  ReportBacked'
<1> SUFFICES ASSUME NEW d \in Drivers, report[d] # NoReport, ~report[d].read
             PROVE  report[d].withdrawable =< TotalPrice(Released(d))'
  BY DEF PayoutsInv, ReportBacked
<1>1. /\ report[d].withdrawable \in Int
      /\ report[d].withdrawable =< TotalPrice(Released(d))
  BY DEF PayoutsInv, ReportBacked
<1> QED BY <1>1

LEMMA StepPayouts ==
  ASSUME DocumentedClients, OneRequestAtATime, FinalWord, WP!RefusalIsFinal,
         PayoutsInv, PayoutsConserved, HistoryCoversBalance, [PayoutsNext]_pvars
  PROVE  PayoutsInv' /\ PayoutsConserved' /\ HistoryCoversBalance'
<1>1. /\ wallet \in [Drivers -> WalletRow]
      /\ purse \in [Drivers -> [balance : Int, withdrawable : Int]]
  BY DEF PayoutsInv, TripInv, TypeOK, RowsOK, WP!TypeOK
<1>2. ASSUME NEW d \in Drivers
      PROVE  /\ TotalPrice(Released(d)) \in Nat /\ W!Leaving(d) \in Nat
             /\ wallet[d].withdrawable \in Int
             /\ wallet[d].withdrawable + W!Leaving(d) = TotalPrice(Released(d))
  <2>1. Released(d) \in SUBSET Bookings
    BY DEF Released
  <2>2. TotalPrice(Released(d)) \in Nat
    BY <2>1, LedgerAssumption, PriceType, FS_Subset, SumType DEF TotalPrice
  <2>3. W!Leaving(d) \in Nat
    BY InstanceConstants, SameLeaving, WP!LeavingType
  <2> QED BY <1>1, <2>2, <2>3 DEF PayoutsConserved, WalletRow
<1>3. ASSUME TripStep PROVE PayoutsInv' /\ PayoutsConserved' /\ HistoryCoversBalance'
  <2>1. /\ [Next]_vars /\ UNCHANGED <<withdrawal, wreq, report>>
        /\ purse' = [d \in Drivers |-> [balance |-> wallet'[d].balance,
                                       withdrawable |-> wallet'[d].withdrawable]]
    BY <1>3, TripStepNext DEF TripStep, TripMovesPurse
  <2>2. TripInv' /\ wallet' \in [Drivers -> WalletRow]
    BY <2>1, StepTripInv DEF PayoutsInv, TripInv, TypeOK, RowsOK
  <2>3. purse' \in [Drivers -> [balance : Int, withdrawable : Int]] /\ OneRow'
    BY <2>1, <2>2 DEF WalletRow, OneRow
  <2>4. WP!TypeOK' /\ WP!InsertedOnce' /\ WP!ActsOnLeaving'
    BY <2>1, <2>3, WithdrawalsInvSame
  <2>5. ASSUME NEW d \in Drivers
        PROVE  /\ TotalPrice(Released(d)) \in Nat /\ TotalPrice(Released(d))' \in Nat
               /\ TotalPrice(Released(d))' >= TotalPrice(Released(d))
               /\ wallet'[d].withdrawable - TotalPrice(Released(d))'
                  = wallet[d].withdrawable - TotalPrice(Released(d))
    BY <2>1, TripBalance DEF PayoutsInv
  <2>6. ReportBacked'
    BY <2>1, <2>5, ReportSame
  <2>7. PayoutsConserved'
    <3> SUFFICES ASSUME NEW d \in Drivers
                 PROVE  wallet'[d].withdrawable + W!Leaving(d)' = TotalPrice(Released(d))'
      BY DEF PayoutsConserved
    <3>1. W!Leaving(d)' = W!Leaving(d)
      BY <2>1, InstanceConstants, SameLeaving, WP!LeavingSame
    <3>2. wallet'[d].withdrawable \in Int
      BY <2>2 DEF WalletRow
    <3> QED BY <1>2, <2>5, <3>1, <3>2
  <2>8. HistoryCoversBalance'
    BY <2>1 DEF HistoryCoversBalance, TotalPrice
  <2> QED BY <2>2, <2>3, <2>4, <2>6, <2>7, <2>8 DEF PayoutsInv
<1>4. ASSUME WP!Next, UNCHANGED <<booking, seats, payment, escrow, req, report>>,
             PurseMovesWallet
      PROVE  PayoutsInv' /\ PayoutsConserved' /\ HistoryCoversBalance'
  <2>1. WP!TypeOK' /\ WP!InsertedOnce'
    BY <1>4, InstanceConstants, WP!StepType, WP!StepInsertedOnce DEF PayoutsInv
  <2>2. WP!ActsOnLeaving'
    <3>1. WP!OneRequestAtATime
      BY DEF OneRequestAtATime, WP!OneRequestAtATime
    <3> QED BY <1>4, <3>1, InstanceConstants, WP!StepActsOnLeaving DEF PayoutsInv
  <2>3. purse' \in [Drivers -> [balance : Int, withdrawable : Int]]
    BY <2>1 DEF WP!TypeOK
  <2>4. wallet' \in [Drivers -> WalletRow] /\ OneRow'
    BY <1>1, <1>4, <2>3 DEF PurseMovesWallet, WalletRow, OneRow
  <2>5. TripInv'
    BY <1>4, <2>4, TripInvSame DEF PayoutsInv
  <2>6. ASSUME NEW d \in Drivers PROVE Released(d)' = Released(d)
    BY <1>4 DEF Released
  <2>7. ReportBacked'
    BY <1>2, <1>4, <2>6, ReportSame DEF TotalPrice
  <2>8. PayoutsConserved'
    <3> SUFFICES ASSUME NEW d \in Drivers
                 PROVE  wallet'[d].withdrawable + W!Leaving(d)' = TotalPrice(Released(d))'
      BY DEF PayoutsConserved
    <3>1. purse'[d].withdrawable + WP!Leaving(d)' = purse[d].withdrawable + WP!Leaving(d)
      BY <1>4, InstanceConstants, WP!StepBalance DEF PayoutsInv
    <3>2. TotalPrice(Released(d))' = TotalPrice(Released(d))
      BY <2>6 DEF TotalPrice
    <3>3. purse'[d].withdrawable = wallet'[d].withdrawable
          /\ purse[d].withdrawable = wallet[d].withdrawable
      BY <2>4 DEF OneRow, PayoutsInv
    <3> QED BY <1>2, <3>1, <3>2, <3>3, SameLeaving
  <2>9. HistoryCoversBalance'
    BY <1>4 DEF HistoryCoversBalance, TotalPrice
  <2> QED BY <2>1, <2>2, <2>4, <2>5, <2>7, <2>8, <2>9 DEF PayoutsInv
<1>5. ASSUME UNCHANGED <<vars, purse, withdrawal, wreq>>,
             ReportBacked', HistoryCoversBalance'
      PROVE  PayoutsInv' /\ PayoutsConserved' /\ HistoryCoversBalance'
  <2>1. TripInv' /\ OneRow'
    BY <1>1, <1>5, TripInvSame DEF vars, PayoutsInv, OneRow
  <2>2. WP!TypeOK' /\ WP!InsertedOnce' /\ WP!ActsOnLeaving'
    BY <1>1, <1>5, WithdrawalsInvSame
  <2>3. PayoutsConserved'
    <3> SUFFICES ASSUME NEW d \in Drivers
                 PROVE  wallet'[d].withdrawable + W!Leaving(d)' = TotalPrice(Released(d))'
      BY DEF PayoutsConserved
    <3>1. W!Leaving(d)' = W!Leaving(d)
      BY <1>5, InstanceConstants, SameLeaving, WP!LeavingSame
    <3>2. TotalPrice(Released(d))' = TotalPrice(Released(d))
      BY <1>5 DEF vars, TotalPrice, Released
    <3> QED BY <1>2, <1>5, <3>1, <3>2 DEF vars
  <2> QED BY <1>5, <2>1, <2>2, <2>3 DEF PayoutsInv
<1>6. ASSUME NEW r \in Requests, NEW w \in Withdrawals, WithdrawalStep(r, w)
      PROVE  PayoutsInv' /\ PayoutsConserved' /\ HistoryCoversBalance'
  <2>1. WP!Next
    BY <1>6, WithdrawalIsStep
  <2> QED BY <1>4, <1>6, <2>1 DEF WithdrawalStep
<1>7. ASSUME AbortWithdrawal
      PROVE  PayoutsInv' /\ PayoutsConserved' /\ HistoryCoversBalance'
  <2>1. WP!Next
    BY <1>7, AbortIsStep
  <2>2. PurseMovesWallet
    <3>1. UNCHANGED <<wallet, purse>>
      BY <1>7 DEF AbortWithdrawal, W!Abort, vars
    <3> QED BY <1>1, <3>1 DEF PurseMovesWallet, PayoutsInv, OneRow, WalletRow
  <2> QED BY <1>4, <1>7, <2>1, <2>2 DEF AbortWithdrawal, vars
<1>8. ASSUME NEW d \in Drivers, ReadHistory(d)
      PROVE  PayoutsInv' /\ PayoutsConserved' /\ HistoryCoversBalance'
  <2> DEFINE Report == [withdrawable : Int, earnings : SUBSET Bookings, read : BOOLEAN]
  <2>1. /\ UNCHANGED <<vars, purse, withdrawal, wreq>>
        /\ \A e \in Drivers : Released(e)' = Released(e)
    BY <1>8 DEF ReadHistory, vars, Released
  <2>2. wallet[d].withdrawable \in Int /\ wallet[d].withdrawable =< TotalPrice(Released(d))
    BY <1>2
  <2>3. /\ report \in [Drivers -> {NoReport} \cup Report]
        /\ \A e \in Drivers : report[e] # NoReport /\ ~report[e].read
              => report[e].withdrawable =< TotalPrice(Released(e))
        /\ \A e \in Drivers : report[e] # NoReport /\ report[e].read
              => report[e].withdrawable =< TotalPrice(report[e].earnings)
    BY DEF PayoutsInv, ReportBacked, HistoryCoversBalance
  <2>4. PICK new \in Report :
           /\ report' = [report EXCEPT ![d] = new]
           /\ ~new.read => new.withdrawable =< TotalPrice(Released(d))
           /\ new.read => new.withdrawable =< TotalPrice(new.earnings)
    <3>1. CASE report[d] = NoReport
      <4> DEFINE new == [withdrawable |-> wallet[d].withdrawable, earnings |-> {}, read |-> FALSE]
      <4>1. new \in Report /\ ~new.read /\ new.withdrawable =< TotalPrice(Released(d))
        BY <2>2
      <4>2. report' = [report EXCEPT ![d] = new]
        BY <1>8, <3>1 DEF ReadHistory
      <4> QED BY <4>1, <4>2
    <3>2. CASE report[d] # NoReport
      <4> DEFINE new == [report[d] EXCEPT !.earnings = Released(d), !.read = TRUE]
      <4>1. report[d] \in Report /\ ~report[d].read
        BY <1>8, <2>3, <3>2 DEF ReadHistory
      <4>2. Released(d) \in SUBSET Bookings
        BY DEF Released
      <4>3. /\ new \in Report /\ new.read /\ new.earnings = Released(d)
            /\ new.withdrawable = report[d].withdrawable
        BY <4>1, <4>2
      <4>4. report' = [report EXCEPT ![d] = new]
        BY <1>8, <2>3, <3>2, <4>1 DEF ReadHistory
      <4>5. report[d].withdrawable =< TotalPrice(Released(d))
        BY <2>3, <3>2, <4>1
      <4> HIDE DEF new
      <4> QED BY <4>3, <4>4, <4>5
    <3> QED BY <3>1, <3>2
  <2> HIDE DEF Report
  <2>5. \A e \in Drivers : report'[e] = IF e = d THEN new ELSE report[e]
    BY <2>3, <2>4
  <2>6. report' \in [Drivers -> {NoReport} \cup Report]
    BY <2>3, <2>4
  <2>7. ReportBacked'
    <3> SUFFICES ASSUME NEW e \in Drivers, report'[e] # NoReport, ~report'[e].read
                 PROVE  report'[e].withdrawable =< TotalPrice(Released(e))'
      BY <2>6 DEF ReportBacked, Report
    <3>1. TotalPrice(Released(e))' = TotalPrice(Released(e))
      BY <2>1 DEF TotalPrice
    <3> QED BY <2>3, <2>4, <2>5, <3>1
  <2>8. HistoryCoversBalance'
    <3> SUFFICES ASSUME NEW e \in Drivers, report'[e] # NoReport, report'[e].read
                 PROVE  report'[e].withdrawable =< TotalPrice(report'[e].earnings)
      BY DEF HistoryCoversBalance, TotalPrice
    <3> QED BY <2>3, <2>4, <2>5
  <2> QED BY <1>5, <2>1, <2>7, <2>8
<1>9. ASSUME NEW d \in Drivers, ForgetHistory(d)
      PROVE  PayoutsInv' /\ PayoutsConserved' /\ HistoryCoversBalance'
  <2>1. /\ UNCHANGED <<vars, purse, withdrawal, wreq>>
        /\ \A e \in Drivers : report'[e] \in {NoReport, report[e]}
        /\ \A e \in Drivers : Released(e)' = Released(e)
    BY <1>9 DEF ForgetHistory, vars, Released, PayoutsInv, ReportBacked
  <2>2. ReportBacked'
    BY <1>9, <2>1 DEF ForgetHistory, PayoutsInv, ReportBacked, TotalPrice
  <2>3. HistoryCoversBalance'
    BY <2>1 DEF HistoryCoversBalance, TotalPrice
  <2> QED BY <1>5, <2>1, <2>2, <2>3
<1>10. CASE UNCHANGED pvars
  BY <1>5, <1>10 DEF pvars, vars, PayoutsInv, ReportBacked, HistoryCoversBalance, TotalPrice,
                     Released
<1> QED
  BY <1>3, <1>6, <1>7, <1>8, <1>9, <1>10 DEF PayoutsNext

\* For documented clients, one request at a time in each service, an operator
\* that never takes a payment back and whose refusal of a withdrawal is final:
LEMMA PayoutsInvariant ==
  ASSUME DocumentedClients, OneRequestAtATime, FinalWord, W!RefusalIsFinal
  PROVE  PayoutsSpec => [](PayoutsInv /\ PayoutsConserved /\ HistoryCoversBalance)
<1> WP!RefusalIsFinal
  BY DEF W!RefusalIsFinal, WP!RefusalIsFinal
<1>1. PayoutsInit => PayoutsInv /\ PayoutsConserved /\ HistoryCoversBalance
  <2> SUFFICES ASSUME PayoutsInit
               PROVE  PayoutsInv /\ PayoutsConserved /\ HistoryCoversBalance
    OBVIOUS
  <2>1. TypeOK /\ Funded
    BY InitType, InitFunded DEF PayoutsInit
  <2>2. SettlesHeld /\ FreshSnapshot /\ Refunds /\ PaidOff
    BY DEF PayoutsInit, Init, SettlesHeld, FreshSnapshot, Refunds, CancelsSettled,
           CancelledSettled, PaidOff, Idle, None
  <2>3. WP!TypeOK /\ WP!InsertedOnce /\ WP!ActsOnLeaving
    BY DEF PayoutsInit, W!Idle, WP!TypeOK, WP!InsertedOnce, WP!ActsOnLeaving,
           WP!Suspended, WP!Idle
  <2>4. OneRow /\ ReportBacked /\ HistoryCoversBalance
    BY DEF PayoutsInit, Init, OneRow, ReportBacked, HistoryCoversBalance
  <2>5. PayoutsConserved
    <3> SUFFICES ASSUME NEW d \in Drivers
                 PROVE  wallet[d].withdrawable + W!Leaving(d) = TotalPrice(Released(d))
      BY DEF PayoutsConserved
    <3>1. Released(d) = {}
      BY DEF PayoutsInit, Init, Released, None
    <3>2. TotalPrice(Released(d)) = 0
      BY <3>1, SumEmpty DEF TotalPrice
    <3>3. WP!Init
      BY DEF PayoutsInit, W!Idle, WP!Init, WP!Idle
    <3>4. W!Leaving(d) = 0
      BY <3>3, InstanceConstants, SameLeaving, WP!LeavingInit
    <3> QED BY <3>2, <3>4 DEF PayoutsInit, Init
  <2> QED BY <2>1, <2>2, <2>3, <2>4, <2>5 DEF PayoutsInv, TripInv
<1>2. PayoutsInv /\ PayoutsConserved /\ HistoryCoversBalance /\ [PayoutsNext]_pvars
         => PayoutsInv' /\ PayoutsConserved' /\ HistoryCoversBalance'
  BY StepPayouts
<1> QED BY <1>1, <1>2, PTL DEF PayoutsSpec

\* ... what is withdrawable, on its way or sent is the price of the driver's
\* released trips, whatever order trips, withdrawals and refusals come in and
\* wherever requests die.
THEOREM PayoutsAreConserved ==
  ASSUME DocumentedClients, OneRequestAtATime, FinalWord, W!RefusalIsFinal
  PROVE  PayoutsSpec => []PayoutsConserved
BY PayoutsInvariant, PTL

\* ... and the earnings a driver is shown cover the balance he is shown,
\* although they are read one after the other.
THEOREM HistoryIsCovered ==
  ASSUME DocumentedClients, OneRequestAtATime, FinalWord, W!RefusalIsFinal
  PROVE  PayoutsSpec => []HistoryCoversBalance
BY PayoutsInvariant, PTL
-----------------------------------------------------------------------------
(* No withdrawal overdraws the wallet: releases only ever raise what a     *)
(* creation in flight was granted, whatever clients and operators do.      *)

PursesInv == TypeOK /\ WP!TypeOK /\ OneRow /\ WP!Backed

\* The money path never lowers a withdrawable balance.
LEMMA TripRaises ==
  ASSUME TypeOK, [Next]_vars, NEW d \in Drivers
  PROVE  wallet'[d].withdrawable >= wallet[d].withdrawable
<1>1. /\ wallet[d].withdrawable \in Int
      /\ wallet \in [Drivers -> WalletRow]
  BY DEF TypeOK, RowsOK, WalletRow
<1>2. ASSUME NEW b \in Bookings, HoldStep(b) \/ ReleaseStep(b) \/ RefundStep(b)
      PROVE  wallet'[d].withdrawable >= wallet[d].withdrawable
  <2>1. Driver(b) \in Drivers /\ Price(b) \in Nat /\ -Price(b) \in Int /\ Price(b) >= 0
    BY DriverType, PriceType
  <2> QED
    BY <1>1, <1>2, <2>1, CreditStep DEF HoldStep, ReleaseStep, RefundStep
<1>3. CASE UNCHANGED <<escrow, wallet>>
  BY <1>1, <1>3
<1> QED BY <1>2, <1>3, MoneyStep DEF MoneyMove

LEMMA StepPurses ==
  ASSUME OneRequestAtATime, PursesInv, [PayoutsNext]_pvars
  PROVE  PursesInv'
<1>1. /\ wallet \in [Drivers -> WalletRow]
      /\ purse \in [Drivers -> [balance : Int, withdrawable : Int]]
      /\ WP!OneRequestAtATime
  BY DEF PursesInv, TypeOK, RowsOK, WP!TypeOK, OneRequestAtATime, WP!OneRequestAtATime
<1>2. ASSUME TripStep PROVE PursesInv'
  <2>1. /\ [Next]_vars /\ UNCHANGED <<withdrawal, wreq>>
        /\ purse' = [d \in Drivers |-> [balance |-> wallet'[d].balance,
                                       withdrawable |-> wallet'[d].withdrawable]]
    BY <1>2, TripStepNext DEF TripStep, TripMovesPurse
  <2>2. TypeOK' /\ wallet' \in [Drivers -> WalletRow]
    BY <2>1, StepType DEF PursesInv, TypeOK, RowsOK
  <2>3. purse' \in [Drivers -> [balance : Int, withdrawable : Int]] /\ OneRow'
    BY <2>1, <2>2 DEF WalletRow, OneRow
  <2>4. WP!TypeOK'
    BY <2>1, <2>3 DEF PursesInv, WP!TypeOK, WP!Idle
  <2>5. ASSUME NEW d \in Drivers
        PROVE  /\ purse[d].withdrawable \in Int /\ purse'[d].withdrawable \in Int
               /\ purse'[d].withdrawable >= purse[d].withdrawable
    BY <1>1, <2>1, <2>3, TripRaises DEF PursesInv, OneRow
  <2>6. WP!NoOverdraft'
    BY <2>5 DEF PursesInv, WP!Backed, WP!NoOverdraft
  <2>7. WP!CreateBacked'
    <3> SUFFICES ASSUME NEW r \in Requests, NEW w \in Withdrawals, WP!Suspended(r, "create", w)
                 PROVE  purse'[OwnerOf[w]].withdrawable >= Amount[w]
      BY <2>1 DEF WP!CreateBacked, WP!Suspended
    <3>1. OwnerOf[w] \in Drivers /\ Amount[w] \in Int
      BY PayoutsAssumption
    <3>2. purse[OwnerOf[w]].withdrawable >= Amount[w]
      BY DEF PursesInv, WP!Backed, WP!CreateBacked
    <3> QED BY <2>5, <3>1, <3>2
  <2> QED BY <2>2, <2>3, <2>4, <2>6, <2>7 DEF PursesInv, WP!Backed
<1>3. ASSUME WP!Next, UNCHANGED <<booking, seats, payment, escrow, req>>, PurseMovesWallet
      PROVE  PursesInv'
  <2>1. WP!TypeOK' /\ WP!Backed'
    BY <1>1, <1>3, InstanceConstants, WP!StepType, WP!StepBacked DEF PursesInv
  <2>2. purse' \in [Drivers -> [balance : Int, withdrawable : Int]]
    BY <2>1 DEF WP!TypeOK
  <2>3. wallet' \in [Drivers -> WalletRow] /\ OneRow'
    BY <1>1, <1>3, <2>2 DEF PurseMovesWallet, WalletRow, OneRow
  <2>4. TypeOK'
    BY <1>3, <2>3 DEF PursesInv, TypeOK, RowsOK, RequestsOK
  <2> QED BY <2>1, <2>3, <2>4 DEF PursesInv
<1>4. ASSUME NEW r \in Requests, NEW w \in Withdrawals, WithdrawalStep(r, w) PROVE PursesInv'
  <2>1. WP!Next
    BY <1>4, WithdrawalIsStep
  <2> QED BY <1>3, <1>4, <2>1 DEF WithdrawalStep
<1>5. ASSUME AbortWithdrawal PROVE PursesInv'
  <2>1. WP!Next
    BY <1>5, AbortIsStep
  <2>2. PurseMovesWallet
    <3>1. UNCHANGED <<wallet, purse>>
      BY <1>5 DEF AbortWithdrawal, W!Abort, vars
    <3> QED BY <1>1, <3>1 DEF PurseMovesWallet, PursesInv, OneRow, WalletRow
  <2> QED BY <1>3, <1>5, <2>1, <2>2 DEF AbortWithdrawal, vars
<1>6. ASSUME UNCHANGED <<vars, purse, withdrawal, wreq>> PROVE PursesInv'
  <2>1. TypeOK' /\ OneRow'
    BY <1>6 DEF vars, PursesInv, TypeOK, RowsOK, RequestsOK, OneRow
  <2>2. WP!TypeOK' /\ WP!Backed'
    BY <1>6 DEF PursesInv, WP!TypeOK, WP!Backed, WP!NoOverdraft, WP!CreateBacked,
                WP!Suspended, WP!Idle
  <2> QED BY <2>1, <2>2 DEF PursesInv
<1>7. CASE \/ \E d \in Drivers : ReadHistory(d) \/ ForgetHistory(d)
           \/ UNCHANGED pvars
  BY <1>6, <1>7 DEF ReadHistory, ForgetHistory, pvars
<1> QED
  BY <1>2, <1>4, <1>5, <1>7 DEF PayoutsNext

\* One request at a time in each service, no withdrawal takes more than the
\* wallet holds, whatever releases, refusals of the operator and crashes come
\* between its check and its debit.
THEOREM PursesNeverOverdrawn == ASSUME OneRequestAtATime PROVE PayoutsSpec => []PurseNotOverdrawn
<1>1. PayoutsInit => PursesInv
  <2> SUFFICES ASSUME PayoutsInit PROVE PursesInv
    OBVIOUS
  <2>1. TypeOK /\ OneRow
    BY InitType DEF PayoutsInit, Init, OneRow
  <2>2. WP!TypeOK /\ WP!Backed
    BY DEF PayoutsInit, W!Idle, WP!TypeOK, WP!Backed, WP!NoOverdraft, WP!CreateBacked,
           WP!Suspended, WP!Idle
  <2> QED BY <2>1, <2>2 DEF PursesInv
<1>2. PursesInv /\ [PayoutsNext]_pvars => PursesInv'
  BY StepPurses
<1>3. PursesInv => PurseNotOverdrawn
  BY DEF PursesInv, OneRow, WP!Backed, WP!NoOverdraft, PurseNotOverdrawn
<1> QED BY <1>1, <1>2, <1>3, PTL DEF PayoutsSpec
=============================================================================
