-------------------------- MODULE TripFunds_proofs --------------------------
(***************************************************************************)
(* Proofs about TripFunds and Ledger, for every number of bookings,        *)
(* vehicles, drivers and concurrent requests.                              *)
(***************************************************************************)
EXTENDS Ledger, Sums_proofs

-----------------------------------------------------------------------------
(* Lemmas about the operators the actions are built from. *)

\* The price of a booking is a positive number.
LEMMA PriceType == \A b \in Bookings : Price(b) \in Nat /\ Price(b) > 0
<1> SUFFICES ASSUME NEW b \in Bookings PROVE Price(b) \in Nat /\ Price(b) > 0
  OBVIOUS
<1>1. UnitPrice \in Nat \ {0} /\ PlacesOf[b] \in Nat \ {0}
  BY ConstantsAssumption
<1>2. \A m, n \in Nat \ {0} : m * n \in Nat /\ m * n > 0
  BY SMT
<1> QED BY <1>1, <1>2 DEF Price

\* A booking belongs to one driver.
LEMMA DriverType == \A b \in Bookings : Driver(b) \in Drivers
BY ConstantsAssumption DEF Driver

\* Starting, continuing and ending a request keeps the requests well formed.
LEMMA BeginType ==
  ASSUME RequestsOK, NEW r \in Requests, NEW b \in Bookings, NEW place \in Place,
         NEW s \in BookingStatut \cup {None}, Begin(r, place, b, s),
         place = "setStatut" => s \in RequestedStatuts \ {"CANCELLED", "COMPLETED"}
  PROVE  RequestsOK'
BY DEF RequestsOK, Request, Begin

LEMMA GotoType ==
  ASSUME RequestsOK, NEW r \in Requests, NEW place \in Place \ {"setStatut"},
         req[r].at # "idle", Goto(r, place)
  PROVE  RequestsOK'
BY DEF RequestsOK, Request, Goto

LEMMA EndType ==
  ASSUME RequestsOK, NEW r \in Requests, End(r)
  PROVE  RequestsOK'
BY DEF RequestsOK, Request, End, Idle, Place

\* Writing the statut column keeps the rows well formed.
LEMMA SetStatutType ==
  ASSUME booking \in [Bookings -> BookingRow], NEW b \in Bookings,
         NEW s \in BookingStatut \cup {None}, SetStatut(b, s)
  PROVE  booking' \in [Bookings -> BookingRow]
BY DEF SetStatut, BookingRow

\* A relative update by integers keeps the wallets well formed.
LEMMA CreditType ==
  ASSUME wallet \in [Drivers -> WalletRow], NEW d \in Drivers,
         NEW m \in Int, NEW n \in Int, NEW k \in Int, Credit(d, m, n, k)
  PROVE  wallet' \in [Drivers -> WalletRow]
BY DEF Credit, WalletRow

-----------------------------------------------------------------------------
(* Type correctness, one lemma per group of actions. *)

\* Receiving a request writes no row.
LEMMA ReceiveRows ==
  ASSUME NEW r \in Requests, NEW b \in Bookings, Receive(r, b)
  PROVE  UNCHANGED rows
BY DEF Receive, CreateRead, CancelRead, CompleteRead, SetStatutRead, StartRead,
       PayRead, ReceiveWebhook, WalletRelease

LEMMA ReceiveType ==
  ASSUME TypeOK, NEW r \in Requests, NEW b \in Bookings, Receive(r, b)
  PROVE  TypeOK'
<1>1. RowsOK'
  BY ReceiveRows DEF TypeOK, RowsOK, rows
<1>2. ASSUME NEW place \in Place \ {"setStatut"}, NEW s \in BookingStatut \cup {None},
             Begin(r, place, b, s)
      PROVE  RequestsOK'
  BY <1>2, BeginType DEF TypeOK
<1>3. RequestsOK'
  <2>1. CASE SetStatutRead(r, b)
    <3>1. PICK s \in RequestedStatuts \ {"CANCELLED", "COMPLETED"} : Begin(r, "setStatut", b, s)
      BY <2>1 DEF SetStatutRead
    <3> QED
      BY <3>1, BeginType, ConstantsAssumption DEF TypeOK, Place
  <2>2. CASE CancelRead(r, b) \/ CompleteRead(r, b)
    BY <2>2, <1>2 DEF CancelRead, CompleteRead, Place, BookingStatut
  <2>3. CASE CreateRead(r, b) \/ StartRead(r, b) \/ PayRead(r, b) \/ WalletRelease(r, b)
    BY <2>3, <1>2 DEF CreateRead, StartRead, PayRead, WalletRelease, Place
  <2>4. CASE ReceiveWebhook(r, b)
    BY <2>4, <1>2 DEF ReceiveWebhook, Place
  <2> QED
    BY <2>1, <2>2, <2>3, <2>4 DEF Receive
<1> QED
  BY <1>1, <1>3 DEF TypeOK

LEMMA BookingsType ==
  ASSUME TypeOK, NEW r \in Requests, NEW b \in Bookings, BookingsStep(r, b)
  PROVE  TypeOK'
<1>1. VehicleOf[b] \in Vehicles /\ PlacesOf[b] \in Int
  BY ConstantsAssumption
<1>2. CASE CreateCommit(r, b)
  BY <1>1, <1>2, EndType, SetStatutType DEF CreateCommit, TypeOK, RowsOK, BookingStatut
<1>3. CASE CancelLock(r, b)
  BY <1>3, GotoType DEF CancelLock, Suspended, TypeOK, RowsOK, rows, Place
<1>4. CASE CancelCommit(r, b)
  BY <1>1, <1>4, EndType, SetStatutType DEF CancelCommit, TypeOK, RowsOK, BookingStatut
<1>5. CASE CompleteCommit(r, b)
  BY <1>5, GotoType, SetStatutType
     DEF CompleteCommit, Suspended, TypeOK, RowsOK, BookingStatut, Place
<1>6. CASE SetStatutCommit(r, b)
  <2>1. req[r].target \in BookingStatut
    BY <1>6, ConstantsAssumption DEF SetStatutCommit, Suspended, TypeOK, RequestsOK
  <2> QED
    BY <1>6, <2>1, EndType, SetStatutType DEF SetStatutCommit, TypeOK, RowsOK
<1>7. CASE StartCommit(r, b)
  <2>1. booking' \in [Bookings -> BookingRow]
    BY <1>7 DEF StartCommit, TypeOK, RowsOK, BookingRow, BookingStatut
  <2> QED
    BY <1>7, <2>1, EndType DEF StartCommit, TypeOK, RowsOK
<1>8. CASE CancelTimeout(r, b)
  <2>1. RequestsOK'
    BY <1>8 DEF CancelTimeout, Suspended, TypeOK, RequestsOK, Request
  <2> QED
    BY <1>8, <2>1 DEF CancelTimeout, TypeOK, RowsOK, rows
<1> QED
  BY <1>2, <1>3, <1>4, <1>5, <1>6, <1>7, <1>8 DEF BookingsStep

LEMMA PaymentsType ==
  ASSUME TypeOK, NEW r \in Requests, NEW b \in Bookings, PaymentsStep(r, b)
  PROVE  TypeOK'
<1>1. CASE ConfirmPayment(r, b)
  <2>1. Price(b) \in Int /\ Driver(b) \in Drivers
    BY PriceType, DriverType
  <2>2. booking' \in [Bookings -> BookingRow]
    <3>1. [statut |-> "PAID", otpCode |-> "valid", qrCode |-> TRUE] \in BookingRow
      BY Zenon DEF BookingRow, BookingStatut
    <3> QED
      BY <1>1, <3>1 DEF ConfirmPayment, TypeOK, RowsOK
  <2>3. wallet' \in [Drivers -> WalletRow]
    BY <1>1, <2>1, CreditType DEF ConfirmPayment, HoldFunds, TypeOK, RowsOK
  <2>4. /\ payment' \in [Bookings -> PaymentStatut \cup {None}]
        /\ escrow' \in [Bookings -> {None, "held", "released"}]
        /\ seats' \in [Vehicles -> Int]
    BY <1>1 DEF ConfirmPayment, HoldFunds, TypeOK, RowsOK, PaymentStatut
  <2> QED
    BY <1>1, <2>2, <2>3, <2>4, EndType DEF ConfirmPayment, TypeOK, RowsOK
<1>2. CASE PayCommit(r, b)
  BY <1>2, EndType DEF PayCommit, TypeOK, RowsOK, PaymentStatut
<1>3. CASE FailPayment(r, b)
  BY <1>3, EndType DEF FailPayment, TypeOK, RowsOK, PaymentStatut
<1>4. CASE MarkProcessing(r, b)
  BY <1>4, EndType DEF MarkProcessing, TypeOK, RowsOK, PaymentStatut
<1> QED
  BY <1>1, <1>2, <1>3, <1>4 DEF PaymentsStep

LEMMA EscrowType ==
  ASSUME TypeOK, NEW r \in Requests, NEW b \in Bookings, EscrowStep(r, b)
  PROVE  TypeOK'
<1>1. Price(b) \in Int /\ Driver(b) \in Drivers
  BY PriceType, DriverType
<1>2. CASE ReleaseRead(r, b)
  BY <1>2, GotoType, EndType DEF ReleaseRead, Suspended, TypeOK, RowsOK, rows, Place
<1>3. CASE RefundRead(r, b)
  BY <1>3, GotoType, EndType DEF RefundRead, Suspended, TypeOK, RowsOK, rows, Place
<1>4. CASE ReleaseCommit(r, b)
  <2>1. wallet' \in [Drivers -> WalletRow]
    BY <1>1, <1>4, CreditType DEF ReleaseCommit, TypeOK, RowsOK
  <2> QED
    BY <1>4, <2>1, EndType, SetStatutType DEF ReleaseCommit, TypeOK, RowsOK, BookingStatut
<1>5. CASE RefundCommit(r, b)
  <2>1. wallet' \in [Drivers -> WalletRow]
    BY <1>1, <1>5, CreditType DEF RefundCommit, TypeOK, RowsOK
  <2> QED
    BY <1>5, <2>1, GotoType, EndType
       DEF RefundCommit, Suspended, TypeOK, RowsOK, PaymentStatut, Place
<1> QED
  BY <1>2, <1>3, <1>4, <1>5 DEF EscrowStep

LEMMA InitType == Init => TypeOK
<1> SUFFICES ASSUME Init PROVE TypeOK
  OBVIOUS
<1>1. RowsOK
  BY ConstantsAssumption DEF Init, RowsOK, BookingRow, WalletRow
<1>2. RequestsOK
  BY DEF Init, RequestsOK, Request, Idle, Place
<1> QED
  BY <1>1, <1>2 DEF TypeOK

LEMMA StepType == TypeOK /\ [Next]_vars => TypeOK'
<1> SUFFICES ASSUME TypeOK, [Next]_vars PROVE TypeOK'
  OBVIOUS
<1>1. ASSUME NEW r \in Requests, NEW b \in Bookings, Receive(r, b) PROVE TypeOK'
  BY <1>1, ReceiveType
<1>2. ASSUME NEW r \in Requests, NEW b \in Bookings, Resume(r, b) PROVE TypeOK'
  BY <1>2, BookingsType, PaymentsType, EscrowType DEF Resume
<1>3. ASSUME NEW r \in Requests, Abort(r) PROVE TypeOK'
  BY <1>3, EndType DEF Abort, TypeOK, RowsOK, rows
<1>4. ASSUME NEW b \in Bookings, OtpExpires(b) PROVE TypeOK'
  BY <1>4 DEF OtpExpires, TypeOK, RowsOK, RequestsOK, BookingRow
<1>5. CASE UNCHANGED vars
  BY <1>5 DEF vars, TypeOK, RowsOK, RequestsOK
<1> QED
  BY <1>1, <1>2, <1>3, <1>4, <1>5 DEF Next

\* Every row and every request is well formed in every reachable state, for
\* any clients, any operator and any number of requests in flight.
THEOREM TypeCorrect == Spec => []TypeOK
BY InitType, StepType, PTL DEF Spec

-----------------------------------------------------------------------------
(* Every movement of money is one of three. *)

HoldStep(b) ==
  /\ escrow[b] = None
  /\ escrow' = [escrow EXCEPT ![b] = "held"]
  /\ Credit(Driver(b), Price(b), Price(b), 0)
ReleaseStep(b) ==
  /\ escrow' = [escrow EXCEPT ![b] = "released"]
  /\ Credit(Driver(b), 0, -Price(b), Price(b))
RefundStep(b) ==
  /\ escrow' = [escrow EXCEPT ![b] = "released"]
  /\ Credit(Driver(b), -Price(b), -Price(b), 0)

\* A step moves no money, or holds, releases or refunds that of one booking.
MoneyMove ==
  \/ UNCHANGED <<escrow, wallet>>
  \/ \E r \in Requests, b \in Bookings :
        \/ HoldStep(b)
        \/ Suspended(r, "releaseCommit", b) /\ ReleaseStep(b) /\ End(r)
        \/ Suspended(r, "refundCommit", b) /\ RefundStep(b)
           /\ (Goto(r, "cancelCommit") \/ End(r))

LEMMA MoneyStep == [Next]_vars => MoneyMove
<1> SUFFICES ASSUME [Next]_vars PROVE MoneyMove
  OBVIOUS
<1>1. ASSUME NEW r \in Requests, NEW b \in Bookings, Receive(r, b) PROVE MoneyMove
  BY <1>1, ReceiveRows DEF rows, MoneyMove
<1>2. ASSUME NEW r \in Requests, NEW b \in Bookings, BookingsStep(r, b) PROVE MoneyMove
  BY <1>2 DEF BookingsStep, CreateCommit, CancelLock, CancelTimeout, CancelCommit,
              CompleteCommit, SetStatutCommit, StartCommit, rows, MoneyMove
<1>3. ASSUME NEW r \in Requests, NEW b \in Bookings, PaymentsStep(r, b) PROVE MoneyMove
  <2>1. CASE ConfirmPayment(r, b)
    BY <2>1 DEF ConfirmPayment, HoldFunds, HoldStep, MoneyMove
  <2>2. CASE PayCommit(r, b) \/ FailPayment(r, b) \/ MarkProcessing(r, b)
    BY <2>2 DEF PayCommit, FailPayment, MarkProcessing, MoneyMove
  <2> QED BY <1>3, <2>1, <2>2 DEF PaymentsStep
<1>4. ASSUME NEW r \in Requests, NEW b \in Bookings, EscrowStep(r, b) PROVE MoneyMove
  <2>1. CASE ReleaseCommit(r, b)
    BY <2>1 DEF ReleaseCommit, ReleaseStep, MoneyMove
  <2>2. CASE RefundCommit(r, b)
    BY <2>2 DEF RefundCommit, RefundStep, MoneyMove
  <2>3. CASE ReleaseRead(r, b) \/ RefundRead(r, b)
    BY <2>3 DEF ReleaseRead, RefundRead, rows, MoneyMove
  <2> QED BY <1>4, <2>1, <2>2, <2>3 DEF EscrowStep
<1>5. ASSUME NEW r \in Requests, Abort(r) PROVE MoneyMove
  BY <1>5 DEF Abort, rows, MoneyMove
<1>6. ASSUME NEW b \in Bookings, OtpExpires(b) PROVE MoneyMove
  BY <1>6 DEF OtpExpires, MoneyMove
<1>7. CASE UNCHANGED vars
  BY <1>7 DEF vars, MoneyMove
<1> QED
  BY <1>1, <1>2, <1>3, <1>4, <1>5, <1>6, <1>7 DEF Next, Resume

\* An escrow row never disappears, and one released stays released.
LEMMA EscrowStays ==
  ASSUME TypeOK, [Next]_vars, NEW b \in Bookings
  PROVE  /\ escrow[b] # None => escrow'[b] # None
         /\ escrow[b] = "released" => escrow'[b] = "released"
<1>1. escrow \in [Bookings -> {None, "held", "released"}]
  BY DEF TypeOK, RowsOK
<1>2. CASE UNCHANGED <<escrow, wallet>>
  BY <1>2
<1>3. ASSUME NEW c \in Bookings, HoldStep(c) \/ ReleaseStep(c) \/ RefundStep(c)
      PROVE  /\ escrow[b] # None => escrow'[b] # None
             /\ escrow[b] = "released" => escrow'[b] = "released"
  BY <1>1, <1>3 DEF HoldStep, ReleaseStep, RefundStep, None
<1> QED
  BY <1>2, <1>3, MoneyStep DEF MoneyMove

-----------------------------------------------------------------------------
(* The wallets, for every interleaving. *)

\* An update that adds as much to the total as to the two parts keeps every
\* wallet balanced.
LEMMA CreditBalanced ==
  ASSUME wallet \in [Drivers -> WalletRow], WalletBalanced, NEW d \in Drivers,
         NEW m \in Int, NEW n \in Int, NEW k \in Int, Credit(d, m, n, k), m = n + k
  PROVE  WalletBalanced'
BY DEF Credit, WalletRow, WalletBalanced

LEMMA StepBalanced == TypeOK /\ WalletBalanced /\ [Next]_vars => WalletBalanced'
<1> SUFFICES ASSUME TypeOK, WalletBalanced, [Next]_vars PROVE WalletBalanced'
  OBVIOUS
<1>1. CASE UNCHANGED <<escrow, wallet>>
  BY <1>1 DEF WalletBalanced
<1>2. ASSUME NEW b \in Bookings, HoldStep(b) \/ ReleaseStep(b) \/ RefundStep(b)
      PROVE  WalletBalanced'
  <2>1. Price(b) \in Int /\ Driver(b) \in Drivers /\ wallet \in [Drivers -> WalletRow]
    BY PriceType, DriverType DEF TypeOK, RowsOK
  <2> QED
    BY <1>2, <2>1, CreditBalanced DEF HoldStep, ReleaseStep, RefundStep
<1> QED
  BY <1>1, <1>2, MoneyStep DEF MoneyMove

\* The total of a wallet is always the sum of its two parts.
THEOREM WalletsBalanced == Spec => []WalletBalanced
<1>1. Init => WalletBalanced
  BY DEF Init, WalletBalanced
<1> QED
  BY <1>1, StepBalanced, TypeCorrect, PTL DEF Spec

\* A wallet's total grows only when an escrow is opened, by its price: one
\* credit per payment, however many callbacks the operator sends.
THEOREM CreditedOnce == Spec => CreditOnlyWithEscrow
<1> DEFINE Grows == \A d \in Drivers : wallet'[d].balance > wallet[d].balance =>
                      \E b \in Bookings :
                         /\ Driver(b) = d
                         /\ escrow[b] = None /\ escrow'[b] = "held"
                         /\ wallet'[d].balance = wallet[d].balance + Price(b)
<1>1. TypeOK /\ [Next]_vars => [Grows]_vars
  <2> SUFFICES ASSUME TypeOK, [Next]_vars, NEW d \in Drivers,
                      wallet'[d].balance > wallet[d].balance
               PROVE  \E b \in Bookings :
                         /\ Driver(b) = d
                         /\ escrow[b] = None /\ escrow'[b] = "held"
                         /\ wallet'[d].balance = wallet[d].balance + Price(b)
    OBVIOUS
  <2>1. wallet \in [Drivers -> WalletRow] /\ wallet[d].balance \in Int
    BY DEF TypeOK, RowsOK, WalletRow
  <2>2. wallet' # wallet
    BY <2>1
  <2>3. ASSUME NEW b \in Bookings, ReleaseStep(b) \/ RefundStep(b) PROVE FALSE
    BY <2>1, <2>3, PriceType DEF ReleaseStep, RefundStep, Credit
  <2>4. PICK b \in Bookings : HoldStep(b)
    BY <2>2, <2>3, MoneyStep DEF MoneyMove
  <2>5. Driver(b) = d /\ wallet'[d].balance = wallet[d].balance + Price(b)
    BY <2>1, <2>2, <2>4, PriceType, DriverType DEF HoldStep, Credit
  <2> QED
    BY <2>4, <2>5 DEF HoldStep, TypeOK, RowsOK
<1> QED
  BY <1>1, TypeCorrect, PTL DEF Spec, CreditOnlyWithEscrow

-----------------------------------------------------------------------------
(* Every write of a booking row is one of these. *)

PlainMove(r, b) ==
  \/ Suspended(r, "create", b) /\ SetStatut(b, "PENDING")
  \/ /\ Suspended(r, "cancelUnpaid", b) \/ Suspended(r, "cancelCommit", b)
     /\ SetStatut(b, "CANCELLED")
  \/ Suspended(r, "complete", b) /\ SetStatut(b, "COMPLETED")
  \/ Suspended(r, "setStatut", b) /\ SetStatut(b, req[r].target)
StartMove(r, b) ==
  /\ Suspended(r, "start", b)
  /\ booking' = [booking EXCEPT ![b].statut = "IN_PROGRESS", ![b].otpCode = "null"]
PaidMove(b) ==
  /\ booking' = [booking EXCEPT ![b] =
                   [statut |-> "PAID", otpCode |-> "valid", qrCode |-> TRUE]]
  /\ HoldStep(b)
ReleasedMove(r, b) ==
  /\ Suspended(r, "releaseCommit", b)
  /\ SetStatut(b, "FUNDS_RELEASED")
  /\ ReleaseStep(b)
ExpiryMove(b) == booking' = [booking EXCEPT ![b].otpCode = "expired"]

BookingMove ==
  \/ UNCHANGED booking
  \/ \E r \in Requests, b \in Bookings :
        \/ PlainMove(r, b) /\ (End(r) \/ Goto(r, "releaseRead"))
        \/ StartMove(r, b) /\ End(r)
        \/ PaidMove(b) /\ End(r)
        \/ ReleasedMove(r, b) /\ End(r)
  \/ \E b \in Bookings : ExpiryMove(b)

LEMMA BookingStep == [Next]_vars => BookingMove
<1> SUFFICES ASSUME [Next]_vars PROVE BookingMove
  OBVIOUS
<1>1. ASSUME NEW r \in Requests, NEW b \in Bookings, Receive(r, b) PROVE BookingMove
  BY <1>1, ReceiveRows DEF rows, BookingMove
<1>2. ASSUME NEW r \in Requests, NEW b \in Bookings, BookingsStep(r, b) PROVE BookingMove
  <2>1. CASE StartCommit(r, b)
    BY <2>1 DEF StartCommit, StartMove, BookingMove
  <2>2. CASE CancelLock(r, b) \/ CancelTimeout(r, b)
    BY <2>2 DEF CancelLock, CancelTimeout, rows, BookingMove
  <2>3. CASE \/ CreateCommit(r, b) \/ CancelCommit(r, b)
             \/ CompleteCommit(r, b) \/ SetStatutCommit(r, b)
    BY <2>3 DEF CreateCommit, CancelCommit, CompleteCommit, SetStatutCommit,
                PlainMove, BookingMove
  <2> QED BY <1>2, <2>1, <2>2, <2>3 DEF BookingsStep
<1>3. ASSUME NEW r \in Requests, NEW b \in Bookings, PaymentsStep(r, b) PROVE BookingMove
  <2>1. CASE ConfirmPayment(r, b)
    BY <2>1 DEF ConfirmPayment, HoldFunds, HoldStep, PaidMove, BookingMove
  <2>2. CASE PayCommit(r, b) \/ FailPayment(r, b) \/ MarkProcessing(r, b)
    BY <2>2 DEF PayCommit, FailPayment, MarkProcessing, BookingMove
  <2> QED BY <1>3, <2>1, <2>2 DEF PaymentsStep
<1>4. ASSUME NEW r \in Requests, NEW b \in Bookings, EscrowStep(r, b) PROVE BookingMove
  <2>1. CASE ReleaseCommit(r, b)
    BY <2>1 DEF ReleaseCommit, ReleaseStep, ReleasedMove, BookingMove
  <2>2. CASE RefundCommit(r, b) \/ ReleaseRead(r, b) \/ RefundRead(r, b)
    BY <2>2 DEF RefundCommit, ReleaseRead, RefundRead, rows, BookingMove
  <2> QED BY <1>4, <2>1, <2>2 DEF EscrowStep
<1>5. ASSUME NEW r \in Requests, Abort(r) PROVE BookingMove
  BY <1>5 DEF Abort, rows, BookingMove
<1>6. ASSUME NEW b \in Bookings, OtpExpires(b) PROVE BookingMove
  BY <1>6 DEF OtpExpires, ExpiryMove, BookingMove
<1>7. CASE UNCHANGED vars
  BY <1>7 DEF vars, BookingMove
<1> QED
  BY <1>1, <1>2, <1>3, <1>4, <1>5, <1>6, <1>7 DEF Next, Resume

\* A step moves one request at most: another one's place is not touched.
LEMMA RequestStep ==
  ASSUME TypeOK, [Next]_vars, NEW s \in Requests
  PROVE  \/ req'[s] = req[s]
         \/ req'[s] = Idle
         \/ \E b \in Bookings : Receive(s, b) \/ Resume(s, b)
<1>1. req \in [Requests -> Request]
  BY DEF TypeOK, RequestsOK
<1>2. ASSUME NEW r \in Requests, NEW b \in Bookings, Receive(r, b), r # s
      PROVE  req'[s] = req[s]
  BY <1>1, <1>2 DEF Receive, CreateRead, CancelRead, CompleteRead, SetStatutRead,
                    StartRead, PayRead, ReceiveWebhook, WalletRelease, Begin
<1>3. ASSUME NEW r \in Requests, NEW b \in Bookings, Resume(r, b), r # s
      PROVE  req'[s] = req[s]
  BY <1>1, <1>3 DEF Resume, BookingsStep, PaymentsStep, EscrowStep, CreateCommit,
                    CancelLock, CancelTimeout, CancelCommit, CompleteCommit,
                    SetStatutCommit, StartCommit, PayCommit, ConfirmPayment, FailPayment, MarkProcessing, ReleaseRead,
                    ReleaseCommit, RefundRead, RefundCommit, Goto, End
<1>4. ASSUME NEW r \in Requests, Abort(r) PROVE req'[s] = req[s] \/ req'[s] = Idle
  BY <1>1, <1>4 DEF Abort, End
<1>5. ASSUME NEW b \in Bookings, OtpExpires(b) PROVE req'[s] = req[s]
  BY <1>5 DEF OtpExpires
<1>6. CASE UNCHANGED vars
  BY <1>6 DEF vars
<1> QED
  BY <1>2, <1>3, <1>4, <1>5, <1>6 DEF Next

-----------------------------------------------------------------------------
(* Trips are funded, for clients that stay within updateStatus' branches.  *)
(* TripFunded is not inductive: a handler that read a PAID or IN_PROGRESS  *)
(* booking writes the next status later, when that status may be gone.     *)
(* What stays true is that the money went through the escrow.              *)

InFlightFunded ==
  \A r \in Requests :
     req[r].at \in {"start", "complete", "releaseCommit"} => escrow[req[r].booking] # None

Funded == TripFunded /\ ReleasedTripSettled /\ PaidHasPass /\ InFlightFunded

LEMMA InitFunded == Init => Funded
BY DEF Init, Funded, TripFunded, ReleasedTripSettled, PaidHasPass, InFlightFunded, Idle, None

\* The places InFlightFunded speaks of are entered only on a funded booking.
LEMMA StepInFlight ==
  ASSUME TypeOK, TripFunded, InFlightFunded, [Next]_vars
  PROVE  InFlightFunded'
<1> SUFFICES ASSUME NEW s \in Requests,
                    req'[s].at \in {"start", "complete", "releaseCommit"}
             PROVE  escrow'[req'[s].booking] # None
  BY DEF InFlightFunded
<1>1. ASSUME req'[s] = req[s] PROVE escrow'[req'[s].booking] # None
  BY <1>1, EscrowStays DEF InFlightFunded, TypeOK, RequestsOK
<1>2. ASSUME NEW b \in Bookings, escrow[b] # None, req'[s].booking = b
      PROVE  escrow'[req'[s].booking] # None
  BY <1>2, EscrowStays
<1>3. ASSUME NEW r \in Requests, NEW b \in Bookings, Receive(r, b), s = r
      PROVE  escrow'[req'[s].booking] # None
  <2>1. req \in [Requests -> Request]
    BY DEF TypeOK, RequestsOK
  <2>2. CASE StartRead(r, b) \/ CompleteRead(r, b) \/ WalletRelease(r, b)
    <3>1. escrow[b] # None
      BY <2>2 DEF StartRead, CompleteRead, WalletRelease, TripFunded, None
    <3>2. req'[s].booking = b
      BY <1>3, <2>1, <2>2 DEF StartRead, CompleteRead, WalletRelease, Begin
    <3> QED BY <1>2, <3>1, <3>2
  <2>3. CASE CreateRead(r, b) \/ PayRead(r, b) \/ SetStatutRead(r, b)
    BY <1>3, <2>1, <2>3 DEF CreateRead, PayRead, SetStatutRead, Begin
  <2>4. CASE CancelRead(r, b) \/ ReceiveWebhook(r, b)
    BY <1>3, <2>1, <2>4 DEF CancelRead, ReceiveWebhook, Begin
  <2> QED BY <1>3, <2>2, <2>3, <2>4 DEF Receive
<1>4. ASSUME NEW r \in Requests, NEW b \in Bookings, Resume(r, b), s = r
      PROVE  escrow'[req'[s].booking] # None
  <2>1. req \in [Requests -> Request]
    BY DEF TypeOK, RequestsOK
  <2>2. CASE ReleaseRead(r, b)
    <3>1. escrow[b] = "held" /\ Goto(r, "releaseCommit")
      BY <1>4, <2>1, <2>2 DEF ReleaseRead, End, Idle
    <3>2. req'[s].booking = b
      BY <1>4, <2>1, <2>2, <3>1 DEF ReleaseRead, Suspended, Goto, Request
    <3> QED BY <1>2, <3>1, <3>2 DEF None
  <2>3. CASE CancelLock(r, b) \/ CompleteCommit(r, b) \/ RefundRead(r, b) \/ RefundCommit(r, b)
    BY <1>4, <2>1, <2>3 DEF CancelLock, CompleteCommit, RefundRead, RefundCommit,
                            Goto, End, Idle, Request
  <2>4. CASE End(r)
    BY <1>4, <2>1, <2>4 DEF End, Idle
  <2>5. CASE CancelTimeout(r, b)
    BY <1>4, <2>1, <2>5 DEF CancelTimeout, Suspended, Request
  <2> QED
    BY <1>4, <2>2, <2>3, <2>4, <2>5
       DEF Resume, BookingsStep, PaymentsStep, EscrowStep, CreateCommit, CancelCommit,
           SetStatutCommit, StartCommit, PayCommit, ConfirmPayment, FailPayment,
           MarkProcessing, ReleaseCommit
<1>5. ASSUME req'[s] = Idle PROVE FALSE
  BY <1>5 DEF Idle
<1> QED
  BY <1>1, <1>3, <1>4, <1>5, RequestStep

\* With documented clients, the last branch of updateStatus only confirms.
LEMMA DocumentedTarget ==
  ASSUME DocumentedClients, TypeOK, NEW r \in Requests, req[r].at = "setStatut"
  PROVE  req[r].target = "CONFIRMED"
BY DEF DocumentedClients, TypeOK, RequestsOK

LEMMA StepFunded ==
  ASSUME DocumentedClients, TypeOK, Funded, [Next]_vars
  PROVE  Funded'
<1> USE DEF None
<1>1. /\ booking \in [Bookings -> BookingRow]
      /\ escrow \in [Bookings -> {None, "held", "released"}]
  BY DEF TypeOK, RowsOK
<1>2. InFlightFunded'
  BY StepInFlight DEF Funded
<1>3. ASSUME NEW b \in Bookings, booking'[b] = booking[b]
      PROVE  /\ booking'[b].statut \in {"PAID", "IN_PROGRESS", "COMPLETED", "FUNDS_RELEASED"}
                   => escrow'[b] # None
             /\ booking'[b].statut = "FUNDS_RELEASED" => escrow'[b] = "released"
             /\ booking'[b].statut = "PAID" => booking'[b].qrCode /\ booking'[b].otpCode # "null"
  BY <1>3, EscrowStays DEF Funded, TripFunded, ReleasedTripSettled, PaidHasPass
<1>4. CASE UNCHANGED booking
  BY <1>2, <1>3, <1>4 DEF Funded, TripFunded, ReleasedTripSettled, PaidHasPass
<1>5. ASSUME NEW r \in Requests, NEW c \in Bookings, PlainMove(r, c) PROVE Funded'
  <2>1. /\ booking' = [booking EXCEPT ![c].statut = booking'[c].statut]
        /\ booking'[c].statut \in {"PENDING", "CANCELLED", "COMPLETED", "CONFIRMED"}
        /\ booking'[c].statut = "COMPLETED" => escrow[c] # None
    <3>1. CASE Suspended(r, "setStatut", c) /\ SetStatut(c, req[r].target)
      BY <1>1, <3>1, DocumentedTarget DEF SetStatut, Suspended, BookingRow
    <3>2. CASE Suspended(r, "complete", c) /\ SetStatut(c, "COMPLETED")
      BY <1>1, <3>2 DEF SetStatut, Suspended, BookingRow, Funded, InFlightFunded
    <3>3. CASE SetStatut(c, "PENDING") \/ SetStatut(c, "CANCELLED")
      BY <1>1, <3>3 DEF SetStatut, BookingRow
    <3> QED BY <1>5, <3>1, <3>2, <3>3 DEF PlainMove
  <2>2. \A b \in Bookings \ {c} : booking'[b] = booking[b]
    BY <1>1, <2>1
  <2> QED
    BY <1>2, <1>3, <2>1, <2>2, EscrowStays
       DEF Funded, TripFunded, ReleasedTripSettled, PaidHasPass
<1>6. ASSUME NEW r \in Requests, NEW c \in Bookings, StartMove(r, c) PROVE Funded'
  <2>1. booking'[c].statut = "IN_PROGRESS" /\ escrow[c] # None
    BY <1>1, <1>6 DEF StartMove, Suspended, BookingRow, Funded, InFlightFunded
  <2>2. \A b \in Bookings \ {c} : booking'[b] = booking[b]
    BY <1>1, <1>6 DEF StartMove
  <2> QED
    BY <1>2, <1>3, <2>1, <2>2, EscrowStays
       DEF Funded, TripFunded, ReleasedTripSettled, PaidHasPass
<1>7. ASSUME NEW c \in Bookings, PaidMove(c) PROVE Funded'
  <2>1. /\ booking'[c] = [statut |-> "PAID", otpCode |-> "valid", qrCode |-> TRUE]
        /\ escrow'[c] = "held"
        /\ \A b \in Bookings \ {c} : booking'[b] = booking[b]
    BY <1>1, <1>7 DEF PaidMove, HoldStep
  <2> QED
    BY <1>2, <1>3, <2>1 DEF Funded, TripFunded, ReleasedTripSettled, PaidHasPass
<1>8. ASSUME NEW r \in Requests, NEW c \in Bookings, ReleasedMove(r, c) PROVE Funded'
  <2>1. booking'[c].statut = "FUNDS_RELEASED" /\ escrow'[c] = "released"
    BY <1>1, <1>8 DEF ReleasedMove, ReleaseStep, SetStatut, BookingRow
  <2>2. \A b \in Bookings \ {c} : booking'[b] = booking[b]
    BY <1>1, <1>8 DEF ReleasedMove, SetStatut
  <2> QED
    BY <1>2, <1>3, <2>1, <2>2 DEF Funded, TripFunded, ReleasedTripSettled, PaidHasPass
<1>9. ASSUME NEW c \in Bookings, ExpiryMove(c) PROVE Funded'
  <2>1. \A b \in Bookings : /\ booking'[b].statut = booking[b].statut
                            /\ booking'[b].qrCode = booking[b].qrCode
                            /\ booking[b].otpCode # "null" => booking'[b].otpCode # "null"
    BY <1>1, <1>9 DEF ExpiryMove, BookingRow
  <2> QED
    BY <1>2, <2>1, EscrowStays DEF Funded, TripFunded, ReleasedTripSettled, PaidHasPass
<1> QED
  BY <1>4, <1>5, <1>6, <1>7, <1>8, <1>9, BookingStep DEF BookingMove

LEMMA FundedInvariant == ASSUME DocumentedClients PROVE Spec => []Funded
<1>1. TypeOK /\ Funded /\ [Next]_vars => Funded'
  BY StepFunded
<1> QED
  BY <1>1, InitFunded, TypeCorrect, PTL DEF Spec

\* No trip is paid, under way, done or settled unless its money went through
\* the escrow, however many requests interleave and wherever they die.
THEOREM TripsFunded == ASSUME DocumentedClients PROVE Spec => []TripFunded
<1>1. Funded => TripFunded
  BY DEF Funded
<1> QED BY <1>1, FundedInvariant, PTL

\* A settled trip has left no money in escrow.
THEOREM ReleasedTripsSettled == ASSUME DocumentedClients PROVE Spec => []ReleasedTripSettled
<1>1. Funded => ReleasedTripSettled
  BY DEF Funded
<1> QED BY <1>1, FundedInvariant, PTL

\* A paid passenger always has a QR code and an OTP to board with.
THEOREM PaidHavePasses == ASSUME DocumentedClients PROVE Spec => []PaidHasPass
<1>1. Funded => PaidHasPass
  BY DEF Funded
<1> QED BY <1>1, FundedInvariant, PTL

-----------------------------------------------------------------------------
(* A server that handles one request at a time keeps the custody of funds. *)
(* What it needs from the schedule is that the escrow a handler read as    *)
(* held is still held when the handler settles it.                         *)

SettlesHeld ==
  \A r \in Requests :
     req[r].at \in {"releaseCommit", "refundCommit"} => escrow[req[r].booking] = "held"

LEMMA StepSettlesHeld ==
  ASSUME OneRequestAtATime, TypeOK, SettlesHeld, [Next]_vars
  PROVE  SettlesHeld'
<1> SUFFICES ASSUME NEW s \in Requests, req'[s].at \in {"releaseCommit", "refundCommit"}
             PROVE  escrow'[req'[s].booking] = "held"
  BY DEF SettlesHeld
<1> USE DEF None
<1>1. /\ req \in [Requests -> Request]
      /\ escrow \in [Bookings -> {None, "held", "released"}]
      /\ req[s].at # "idle" => req[s].booking \in Bookings
  BY DEF TypeOK, RequestsOK, RowsOK
<1>2. CASE req'[s] = req[s]
  <2>1. escrow[req[s].booking] = "held" /\ req[s].booking \in Bookings
    BY <1>1, <1>2 DEF SettlesHeld
  <2>2. ASSUME NEW b \in Bookings, HoldStep(b) PROVE escrow'[req[s].booking] = "held"
    BY <1>1, <2>1, <2>2 DEF HoldStep
  <2>3. ASSUME NEW r \in Requests, End(r) \/ Goto(r, "cancelCommit") PROVE FALSE
    BY <1>1, <1>2, <2>3 DEF OneRequestAtATime, End, Goto, Idle, Request
  <2> QED BY <1>2, <2>1, <2>2, <2>3, MoneyStep DEF MoneyMove
<1>3. ASSUME NEW b \in Bookings, Receive(s, b) PROVE escrow'[req'[s].booking] = "held"
  <2>1. CASE WalletRelease(s, b)
    BY <1>1, <2>1 DEF WalletRelease, Begin, rows
  <2>2. CASE \/ CreateRead(s, b) \/ CancelRead(s, b) \/ CompleteRead(s, b)
             \/ SetStatutRead(s, b) \/ StartRead(s, b)
    BY <1>1, <2>2 DEF CreateRead, CancelRead, CompleteRead, SetStatutRead, StartRead, Begin
  <2>3. CASE PayRead(s, b) \/ ReceiveWebhook(s, b)
    BY <1>1, <2>3 DEF PayRead, ReceiveWebhook, Begin
  <2> QED BY <1>3, <2>1, <2>2, <2>3 DEF Receive
<1>4. ASSUME NEW b \in Bookings, Resume(s, b) PROVE escrow'[req'[s].booking] = "held"
  <2>1. CASE ReleaseRead(s, b) \/ RefundRead(s, b)
    BY <1>1, <2>1 DEF ReleaseRead, RefundRead, Suspended, Goto, End, Idle, Request, rows
  <2>2. CASE CancelLock(s, b) \/ CompleteCommit(s, b) \/ RefundCommit(s, b)
    BY <1>1, <2>2 DEF CancelLock, CompleteCommit, RefundCommit, Goto, End, Idle, Request
  <2>3. CASE End(s)
    BY <1>1, <2>3 DEF End, Idle
  <2>4. CASE CancelTimeout(s, b)
    BY <1>1, <2>4 DEF CancelTimeout, SettlesHeld, Request, rows
  <2> QED
    BY <1>4, <2>1, <2>2, <2>3, <2>4
       DEF Resume, BookingsStep, PaymentsStep, EscrowStep, CreateCommit, CancelCommit,
           SetStatutCommit, StartCommit, PayCommit, ConfirmPayment, FailPayment,
           MarkProcessing, ReleaseCommit
<1>5. ASSUME req'[s] = Idle PROVE FALSE
  BY <1>5 DEF Idle
<1> QED
  BY <1>2, <1>3, <1>4, <1>5, RequestStep

\* A step of the server is a step of Custody, or moves no money.
LEMMA StepCustody ==
  ASSUME TypeOK, SettlesHeld, [Next]_vars
  PROVE  [Escrows!Next]_<<escrow, wallet>>
<1>1. CASE UNCHANGED <<escrow, wallet>>
  BY <1>1
<1>2. ASSUME NEW b \in Bookings, HoldStep(b) PROVE Escrows!Hold(b)
  BY <1>2 DEF HoldStep, Credit, Escrows!Hold, Escrows!Move, Escrows!Credit, None
<1>3. ASSUME NEW r \in Requests, NEW b \in Bookings,
             Suspended(r, "releaseCommit", b), ReleaseStep(b)
      PROVE  Escrows!Release(b)
  BY <1>3 DEF SettlesHeld, Suspended, ReleaseStep, Credit,
              Escrows!Release, Escrows!Move, Escrows!Credit
<1>4. ASSUME NEW r \in Requests, NEW b \in Bookings,
             Suspended(r, "refundCommit", b), RefundStep(b)
      PROVE  Escrows!Refund(b)
  BY <1>4 DEF SettlesHeld, Suspended, RefundStep, Credit,
              Escrows!Refund, Escrows!Move, Escrows!Credit
<1> QED
  BY <1>1, <1>2, <1>3, <1>4, MoneyStep DEF MoneyMove, Escrows!Next

\* With one request at a time, escrows and wallets implement Custody: each
\* payment is held once and settled once, wherever a request may die.
THEOREM CustodyImplemented == ASSUME OneRequestAtATime PROVE Spec => CustodyKept
<1>1. Init => Escrows!Init /\ SettlesHeld
  BY DEF Init, Escrows!Init, SettlesHeld, Idle, None
<1>2. TypeOK /\ SettlesHeld /\ [Next]_vars => SettlesHeld'
  BY StepSettlesHeld
<1>3. TypeOK /\ SettlesHeld /\ [Next]_vars => [Escrows!Next]_<<escrow, wallet>>
  BY StepCustody
<1> QED
  BY <1>1, <1>2, <1>3, TypeCorrect, PTL DEF Spec, CustodyKept, Escrows!Spec

-----------------------------------------------------------------------------
(* A server that handles one request at a time, for documented clients,    *)
(* never moves a booking backwards: what a handler read is still so when   *)
(* it writes, and a payment is confirmed before the trip it pays for.      *)

FreshSnapshot ==
  \A r \in Requests :
     LET s == booking[req[r].booking].statut IN
       /\ req[r].at = "create" => s = None
       /\ req[r].at = "setStatut" => s = "PENDING"
       /\ req[r].at = "start" => s = "PAID"
       /\ req[r].at = "complete" => s = "IN_PROGRESS"

OnDocumentedPath ==
  \A b \in Bookings : booking[b].statut \notin {"BOARDING", "DISPUTE", "INCIDENT"}

LEMMA StepFresh ==
  ASSUME DocumentedClients, OneRequestAtATime, TypeOK, FreshSnapshot, [Next]_vars
  PROVE  FreshSnapshot'
<1> SUFFICES ASSUME NEW q \in Requests
             PROVE  LET s == booking'[req'[q].booking].statut IN
                      /\ req'[q].at = "create" => s = None
                      /\ req'[q].at = "setStatut" => s = "PENDING"
                      /\ req'[q].at = "start" => s = "PAID"
                      /\ req'[q].at = "complete" => s = "IN_PROGRESS"
  BY DEF FreshSnapshot
<1> DEFINE Watched == {"create", "setStatut", "start", "complete"}
<1> USE DEF None
<1>1. /\ req \in [Requests -> Request]
      /\ booking \in [Bookings -> BookingRow]
      /\ req[q].at # "idle" => req[q].booking \in Bookings
  BY DEF TypeOK, RequestsOK, RowsOK
<1>2. CASE req'[q] = req[q] /\ req[q].at \in Watched
  <2>1. ASSUME NEW r \in Requests, End(r) \/ Goto(r, "releaseRead") PROVE FALSE
    BY <1>1, <1>2, <2>1 DEF OneRequestAtATime, End, Goto, Idle, Request
  <2>2. UNCHANGED booking \/ \E b \in Bookings : ExpiryMove(b)
    BY <2>1, BookingStep DEF BookingMove
  <2>3. \A b \in Bookings : booking'[b].statut = booking[b].statut
    BY <1>1, <2>2 DEF ExpiryMove, BookingRow
  <2> QED BY <1>1, <1>2, <2>3 DEF FreshSnapshot
<1>3. ASSUME NEW b \in Bookings, Receive(q, b), req'[q].at \in Watched
      PROVE  LET s == booking'[req'[q].booking].statut IN
               /\ req'[q].at = "create" => s = None
               /\ req'[q].at = "setStatut" => s = "PENDING"
               /\ req'[q].at = "start" => s = "PAID"
               /\ req'[q].at = "complete" => s = "IN_PROGRESS"
  <2>1. CASE SetStatutRead(q, b)
    BY <1>1, <2>1 DEF SetStatutRead, Begin, rows, DocumentedClients
  <2>2. CASE CreateRead(q, b) \/ StartRead(q, b) \/ CompleteRead(q, b)
    BY <1>1, <2>2 DEF CreateRead, StartRead, CompleteRead, Begin, rows
  <2>3. CASE CancelRead(q, b) \/ PayRead(q, b) \/ WalletRelease(q, b)
    BY <1>1, <1>3, <2>3 DEF CancelRead, PayRead, WalletRelease, Begin
  <2>4. CASE ReceiveWebhook(q, b)
    BY <1>1, <1>3, <2>4 DEF ReceiveWebhook, Begin
  <2> QED BY <1>3, <2>1, <2>2, <2>3, <2>4 DEF Receive
<1>4. ASSUME NEW b \in Bookings, Resume(q, b), req'[q].at \in Watched PROVE FALSE
  <2>1. CASE ReleaseRead(q, b) \/ RefundRead(q, b)
    BY <1>1, <1>4, <2>1 DEF ReleaseRead, RefundRead, Goto, End, Idle, Request
  <2>2. CASE CancelLock(q, b) \/ CompleteCommit(q, b) \/ RefundCommit(q, b)
    BY <1>1, <1>4, <2>2 DEF CancelLock, CompleteCommit, RefundCommit, Goto, End, Idle, Request
  <2>3. CASE End(q)
    BY <1>1, <1>4, <2>3 DEF End, Idle
  <2>4. CASE CancelTimeout(q, b)
    BY <1>1, <1>4, <2>4 DEF CancelTimeout, Suspended, Request
  <2> QED
    BY <1>4, <2>1, <2>2, <2>3, <2>4
       DEF Resume, BookingsStep, PaymentsStep, EscrowStep, CreateCommit, CancelCommit,
           SetStatutCommit, StartCommit, PayCommit, ConfirmPayment, FailPayment,
           MarkProcessing, ReleaseCommit
<1>5. CASE req'[q] = Idle
  BY <1>5 DEF Idle
<1>6. CASE req'[q].at \notin Watched
  BY <1>6
<1> QED
  BY <1>2, <1>3, <1>4, <1>5, <1>6, RequestStep

LEMMA StepOnPath ==
  ASSUME DocumentedClients, TypeOK, OnDocumentedPath, [Next]_vars
  PROVE  OnDocumentedPath'
<1>1. booking \in [Bookings -> BookingRow]
  BY DEF TypeOK, RowsOK
<1>2. ASSUME NEW r \in Requests, NEW c \in Bookings, PlainMove(r, c) PROVE OnDocumentedPath'
  BY <1>1, <1>2, DocumentedTarget
     DEF PlainMove, SetStatut, Suspended, BookingRow, OnDocumentedPath
<1>3. ASSUME NEW r \in Requests, NEW c \in Bookings, StartMove(r, c) PROVE OnDocumentedPath'
  BY <1>1, <1>3 DEF StartMove, BookingRow, OnDocumentedPath
<1>4. ASSUME NEW c \in Bookings, PaidMove(c) PROVE OnDocumentedPath'
  BY <1>1, <1>4 DEF PaidMove, OnDocumentedPath
<1>5. ASSUME NEW r \in Requests, NEW c \in Bookings, ReleasedMove(r, c)
      PROVE  OnDocumentedPath'
  BY <1>1, <1>5 DEF ReleasedMove, SetStatut, BookingRow, OnDocumentedPath
<1>6. ASSUME NEW c \in Bookings, ExpiryMove(c) PROVE OnDocumentedPath'
  BY <1>1, <1>6 DEF ExpiryMove, BookingRow, OnDocumentedPath
<1>7. CASE UNCHANGED booking
  BY <1>7 DEF OnDocumentedPath
<1> QED
  BY <1>2, <1>3, <1>4, <1>5, <1>6, <1>7, BookingStep DEF BookingMove

\* A write moves a booking forward, or to or from CANCELLED.
LEMMA StepForward ==
  ASSUME DocumentedClients, TypeOK, Funded, FreshSnapshot, OnDocumentedPath, [Next]_vars,
         NEW b \in Bookings,
         {booking[b].statut, booking'[b].statut} \subseteq DOMAIN Phase
  PROVE  Phase[booking[b].statut] =< Phase[booking'[b].statut]
<1> USE DEF None
<1>1. /\ booking \in [Bookings -> BookingRow]
      /\ booking[b].statut \in {"PENDING", "CONFIRMED", "PAID", "IN_PROGRESS",
                               "COMPLETED", "FUNDS_RELEASED"}
  BY DEF TypeOK, RowsOK, OnDocumentedPath, Phase
<1>2. CASE booking'[b].statut = booking[b].statut
  BY <1>1, <1>2 DEF Phase
<1>3. ASSUME NEW r \in Requests, NEW c \in Bookings, PlainMove(r, c)
      PROVE  Phase[booking[b].statut] =< Phase[booking'[b].statut]
  <2>1. CASE b # c
    BY <1>1, <1>2, <1>3, <2>1 DEF PlainMove, SetStatut
  <2>2. CASE b = c /\ Suspended(r, "setStatut", c) /\ SetStatut(c, req[r].target)
    BY <1>1, <2>2, DocumentedTarget DEF Suspended, SetStatut, FreshSnapshot, Phase, BookingRow
  <2>3. CASE b = c /\ Suspended(r, "complete", c) /\ SetStatut(c, "COMPLETED")
    BY <1>1, <2>3 DEF Suspended, SetStatut, FreshSnapshot, Phase, BookingRow
  <2>4. CASE b = c /\ Suspended(r, "create", c) /\ SetStatut(c, "PENDING")
    BY <1>1, <2>4 DEF Suspended, SetStatut, FreshSnapshot
  <2>5. CASE b = c /\ SetStatut(c, "CANCELLED")
    BY <1>1, <2>5 DEF SetStatut, Phase, BookingRow
  <2> QED BY <1>3, <2>1, <2>2, <2>3, <2>4, <2>5 DEF PlainMove
<1>4. ASSUME NEW r \in Requests, NEW c \in Bookings, StartMove(r, c)
      PROVE  Phase[booking[b].statut] =< Phase[booking'[b].statut]
  BY <1>1, <1>2, <1>4 DEF StartMove, Suspended, FreshSnapshot, Phase, BookingRow
<1>5. ASSUME NEW c \in Bookings, PaidMove(c)
      PROVE  Phase[booking[b].statut] =< Phase[booking'[b].statut]
  BY <1>1, <1>2, <1>5 DEF PaidMove, HoldStep, Funded, TripFunded, Phase
<1>6. ASSUME NEW r \in Requests, NEW c \in Bookings, ReleasedMove(r, c)
      PROVE  Phase[booking[b].statut] =< Phase[booking'[b].statut]
  BY <1>1, <1>2, <1>6 DEF ReleasedMove, SetStatut, Phase, BookingRow
<1>7. ASSUME NEW c \in Bookings, ExpiryMove(c)
      PROVE  booking'[b].statut = booking[b].statut
  BY <1>1, <1>7 DEF ExpiryMove, BookingRow
<1> QED
  BY <1>2, <1>3, <1>4, <1>5, <1>6, <1>7, BookingStep DEF BookingMove

\* With one request at a time and documented clients, a booking only moves
\* forward through its lifecycle, until it is cancelled.
THEOREM LifecycleForward ==
  ASSUME DocumentedClients, OneRequestAtATime PROVE Spec => NeverBackwards
<1> DEFINE Forward ==
      \A b \in Bookings :
         {booking[b].statut, booking'[b].statut} \subseteq DOMAIN Phase
            => Phase[booking[b].statut] =< Phase[booking'[b].statut]
<1>1. Init => FreshSnapshot /\ OnDocumentedPath
  BY DEF Init, FreshSnapshot, OnDocumentedPath, Idle, None
<1>2. TypeOK /\ FreshSnapshot /\ [Next]_vars => FreshSnapshot'
  BY StepFresh
<1>3. TypeOK /\ OnDocumentedPath /\ [Next]_vars => OnDocumentedPath'
  BY StepOnPath
<1>4. TypeOK /\ Funded /\ FreshSnapshot /\ OnDocumentedPath /\ [Next]_vars => [Forward]_vars
  BY StepForward
<1> QED
  BY <1>1, <1>2, <1>3, <1>4, TypeCorrect, FundedInvariant, PTL DEF Spec, NeverBackwards

-----------------------------------------------------------------------------
(* One request at a time, a cancellation refunds what was paid: the payment *)
(* it read decides rightly, since no callback comes before it has written. *)

CancelsSettled ==
  \A r \in Requests :
     /\ req[r].at = "cancelUnpaid" => payment[req[r].booking] # "COMPLETED"
     /\ req[r].at = "cancelCommit" => escrow[req[r].booking] = "released"

\* A cancelled booking whose payment says COMPLETED has no money in escrow.
CancelledSettled ==
  \A b \in Bookings :
     booking[b].statut = "CANCELLED" /\ payment[b] = "COMPLETED" => escrow[b] # "held"

Refunds == CancelsSettled /\ CancelledSettled

\* A request that ends leaves none in flight.
LEMMA EndIsIdle ==
  ASSUME OneRequestAtATime, TypeOK, NEW r \in Requests, End(r)
  PROVE  \A s \in Requests : req'[s] = Idle
BY DEF OneRequestAtATime, TypeOK, RequestsOK, End

\* A request that begins or goes on is the only one.
LEMMA BeginIsAlone ==
  ASSUME OneRequestAtATime, TypeOK, NEW r \in Requests, NEW b \in Bookings,
         NEW place \in Place, NEW t, Begin(r, place, b, t)
  PROVE  \A s \in Requests : s = r /\ req'[s].at = place /\ req'[s].booking = b
BY DEF OneRequestAtATime, TypeOK, RequestsOK, Begin

LEMMA GotoIsAlone ==
  ASSUME OneRequestAtATime, TypeOK, NEW r \in Requests, NEW place, Goto(r, place)
  PROVE  \A s \in Requests : s = r /\ req'[s].at = place /\ req'[s].booking = req[r].booking
BY DEF OneRequestAtATime, TypeOK, RequestsOK, Request, Goto

LEMMA StepRefunds ==
  ASSUME OneRequestAtATime, TypeOK, Refunds, [Next]_vars
  PROVE  Refunds'
<1>1. /\ booking \in [Bookings -> BookingRow]
      /\ payment \in [Bookings -> PaymentStatut \cup {None}]
      /\ escrow \in [Bookings -> {None, "held", "released"}]
  BY DEF TypeOK, RowsOK
<1>2. ASSUME UNCHANGED rows PROVE CancelledSettled'
  BY <1>2 DEF rows, Refunds, CancelledSettled
<1>3. ASSUME NEW r \in Requests, End(r) PROVE CancelsSettled'
  BY <1>3, EndIsIdle DEF CancelsSettled, Idle
<1>4. ASSUME NEW r \in Requests, NEW b \in Bookings, Receive(r, b) PROVE Refunds'
  <2>1. UNCHANGED rows
    BY <1>4, ReceiveRows
  <2>2. ASSUME NEW place \in Place, NEW t \in BookingStatut \cup {None},
               Begin(r, place, b, t),
               place # "cancelCommit", place = "cancelUnpaid" => payment[b] # "COMPLETED"
        PROVE  Refunds'
    <3>1. CancelsSettled'
      BY <2>1, <2>2, BeginIsAlone DEF rows, CancelsSettled
    <3> QED BY <1>2, <2>1, <3>1 DEF Refunds
  <2>3. CASE CancelRead(r, b)
    BY <2>2, <2>3 DEF CancelRead, PolicyRefunds, Place, BookingStatut
  <2>4. CASE CreateRead(r, b) \/ CompleteRead(r, b) \/ StartRead(r, b)
    BY <2>2, <2>4 DEF CreateRead, CompleteRead, StartRead, Place, BookingStatut
  <2>5. CASE SetStatutRead(r, b)
    BY <2>2, <2>5, ConstantsAssumption DEF SetStatutRead, Place
  <2>6. CASE PayRead(r, b) \/ WalletRelease(r, b) \/ ReceiveWebhook(r, b)
    BY <2>2, <2>6 DEF PayRead, WalletRelease, ReceiveWebhook, Place
  <2> QED BY <1>4, <2>3, <2>4, <2>5, <2>6 DEF Receive
<1>5. ASSUME NEW r \in Requests, NEW b \in Bookings, BookingsStep(r, b) PROVE Refunds'
  <2>1. CASE CancelCommit(r, b)
    <3>1. payment[b] # "COMPLETED" \/ escrow[b] = "released"
      BY <2>1 DEF CancelCommit, Suspended, Refunds, CancelsSettled
    <3>2. CancelledSettled'
      BY <1>1, <2>1, <3>1 DEF CancelCommit, SetStatut, Refunds, CancelledSettled
    <3> QED BY <1>3, <2>1, <3>2 DEF CancelCommit, Refunds
  <2>2. CASE CreateCommit(r, b) \/ StartCommit(r, b)
    <3>1. CancelledSettled'
      BY <1>1, <2>2
         DEF CreateCommit, StartCommit, SetStatut, BookingRow, Refunds, CancelledSettled
    <3> QED BY <1>3, <2>2, <3>1 DEF CreateCommit, StartCommit, Refunds
  <2>3. CASE SetStatutCommit(r, b)
    <3>1. req[r].target # "CANCELLED"
      BY <2>3 DEF SetStatutCommit, Suspended, TypeOK, RequestsOK
    <3>2. CancelledSettled'
      BY <1>1, <2>3, <3>1 DEF SetStatutCommit, SetStatut, Refunds, CancelledSettled
    <3> QED BY <1>3, <2>3, <3>2 DEF SetStatutCommit, Refunds
  <2>4. CASE CompleteCommit(r, b)
    <3>1. CancelledSettled'
      BY <1>1, <2>4 DEF CompleteCommit, SetStatut, BookingRow, Refunds, CancelledSettled
    <3> QED BY <2>4, <3>1, GotoIsAlone DEF CompleteCommit, Refunds, CancelsSettled
  <2>5. CASE CancelLock(r, b)
    <3>1. CancelsSettled'
      BY <2>5, GotoIsAlone DEF CancelLock, CancelsSettled
    <3> QED BY <1>2, <2>5, <3>1 DEF CancelLock, Refunds
  <2>6. CASE CancelTimeout(r, b)
    <3>1. CancelsSettled'
      BY <2>6 DEF CancelTimeout, TypeOK, RequestsOK, Request, rows, Refunds, CancelsSettled
    <3> QED BY <1>2, <2>6, <3>1 DEF CancelTimeout, Refunds
  <2> QED BY <1>5, <2>1, <2>2, <2>3, <2>4, <2>5, <2>6 DEF BookingsStep
<1>6. ASSUME NEW r \in Requests, NEW b \in Bookings, PaymentsStep(r, b) PROVE Refunds'
  <2>1. CancelledSettled'
    BY <1>1, <1>6 DEF PaymentsStep, PayCommit, ConfirmPayment, FailPayment, MarkProcessing,
                      HoldFunds, Refunds, CancelledSettled
  <2> QED
    BY <1>3, <1>6, <2>1 DEF PaymentsStep, PayCommit, ConfirmPayment, FailPayment,
                            MarkProcessing, Refunds
<1>7. ASSUME NEW r \in Requests, NEW b \in Bookings, EscrowStep(r, b) PROVE Refunds'
  <2>1. CASE ReleaseRead(r, b) \/ RefundRead(r, b)
    <3>1. ASSUME NEW place \in {"releaseCommit", "refundCommit"}, Goto(r, place)
          PROVE  CancelsSettled'
      BY <3>1, GotoIsAlone DEF CancelsSettled
    <3> QED BY <1>2, <1>3, <2>1, <3>1 DEF ReleaseRead, RefundRead, Refunds
  <2>2. CASE ReleaseCommit(r, b)
    <3>1. CancelledSettled'
      BY <1>1, <2>2 DEF ReleaseCommit, SetStatut, BookingRow, Refunds, CancelledSettled
    <3> QED BY <1>3, <2>2, <3>1 DEF ReleaseCommit, Refunds
  <2>3. CASE RefundCommit(r, b)
    <3>1. escrow'[b] = "released" /\ req[r].booking = b
      BY <1>1, <2>3 DEF RefundCommit, Suspended
    <3>2. CancelsSettled'
      BY <1>3, <2>3, <3>1, GotoIsAlone DEF RefundCommit, CancelsSettled
    <3>3. CancelledSettled'
      BY <1>1, <2>3 DEF RefundCommit, Refunds, CancelledSettled
    <3> QED BY <3>2, <3>3 DEF Refunds
  <2> QED BY <1>7, <2>1, <2>2, <2>3 DEF EscrowStep
<1>8. ASSUME NEW r \in Requests, Abort(r) PROVE Refunds'
  BY <1>2, <1>3, <1>8 DEF Abort, Refunds
<1>9. ASSUME NEW b \in Bookings, OtpExpires(b) PROVE Refunds'
  BY <1>1, <1>9 DEF OtpExpires, BookingRow, Refunds, CancelsSettled, CancelledSettled
<1>10. CASE UNCHANGED vars
  BY <1>10 DEF vars, Refunds, CancelsSettled, CancelledSettled
<1> QED
  BY <1>4, <1>5, <1>6, <1>7, <1>8, <1>9, <1>10 DEF Next, Resume

\* An operator that keeps its word has no callback in flight that takes a
\* payment back, so money in escrow is still a payment that says COMPLETED.
HeldIsPaid ==
  /\ \A b \in Bookings : escrow[b] = "held" => payment[b] = "COMPLETED"
  /\ \A r \in Requests : req[r].at \notin {"failPayment", "markProcessing"}

LEMMA StepHeldIsPaid == ASSUME FinalWord PROVE TypeOK /\ HeldIsPaid /\ [Next]_vars => HeldIsPaid'
<1> SUFFICES ASSUME TypeOK, HeldIsPaid, [Next]_vars PROVE HeldIsPaid'
  OBVIOUS
<1>1. /\ req \in [Requests -> Request]
      /\ payment \in [Bookings -> PaymentStatut \cup {None}]
      /\ escrow \in [Bookings -> {None, "held", "released"}]
  BY DEF TypeOK, RowsOK, RequestsOK
<1>2. ASSUME NEW s \in Requests PROVE req'[s].at \notin {"failPayment", "markProcessing"}
  <2>1. CASE req'[s] = req[s] \/ req'[s] = Idle
    BY <2>1 DEF HeldIsPaid, Idle
  <2>2. ASSUME NEW b \in Bookings, Receive(s, b)
        PROVE  req'[s].at \notin {"failPayment", "markProcessing"}
    BY <1>1, <2>2 DEF FinalWord, Receive, CreateRead, CancelRead, CompleteRead,
         SetStatutRead, StartRead, PayRead, ReceiveWebhook, WalletRelease, Begin
  <2>3. ASSUME NEW b \in Bookings, Resume(s, b)
        PROVE  req'[s].at \notin {"failPayment", "markProcessing"}
    <3>1. ASSUME End(s) PROVE req'[s] = Idle
      BY <1>1, <3>1 DEF End
    <3>2. ASSUME NEW place \in {"refundRead", "releaseRead", "releaseCommit",
                                 "refundCommit", "cancelCommit"}, Goto(s, place)
          PROVE  req'[s].at = place
      BY <1>1, <3>2 DEF Goto, Request
    <3>3. CASE BookingsStep(s, b)
      <4>1. CASE CancelTimeout(s, b)
        BY <1>1, <4>1 DEF CancelTimeout, HeldIsPaid, Request
      <4> QED
        BY <2>1, <3>1, <3>2, <3>3, <4>1 DEF BookingsStep, CreateCommit, CancelLock,
           CancelCommit, CompleteCommit, SetStatutCommit, StartCommit
    <3>4. CASE PaymentsStep(s, b)
      BY <2>1, <3>1, <3>4 DEF PaymentsStep, PayCommit, ConfirmPayment, FailPayment, MarkProcessing
    <3>5. CASE EscrowStep(s, b)
      BY <2>1, <3>1, <3>2, <3>5 DEF EscrowStep, ReleaseRead, ReleaseCommit, RefundRead, RefundCommit
    <3> QED BY <2>3, <3>3, <3>4, <3>5 DEF Resume
  <2> QED BY <2>1, <2>2, <2>3, RequestStep
<1>3. ASSUME UNCHANGED <<payment, escrow>>
      PROVE  \A b \in Bookings : escrow'[b] = "held" => payment'[b] = "COMPLETED"
  BY <1>3 DEF HeldIsPaid
<1>4. ASSUME NEW r \in Requests, NEW b \in Bookings, PaymentsStep(r, b)
      PROVE  \A c \in Bookings : escrow'[c] = "held" => payment'[c] = "COMPLETED"
  <2>1. CASE ConfirmPayment(r, b)
    BY <1>1, <2>1 DEF ConfirmPayment, HoldFunds, HeldIsPaid
  <2>2. CASE PayCommit(r, b)
    BY <1>1, <2>2 DEF PayCommit, HeldIsPaid, None
  <2>3. ~FailPayment(r, b) /\ ~MarkProcessing(r, b)
    BY DEF FailPayment, MarkProcessing, Suspended, HeldIsPaid
  <2> QED BY <1>4, <2>1, <2>2, <2>3 DEF PaymentsStep
<1>5. ASSUME NEW r \in Requests, NEW b \in Bookings, EscrowStep(r, b)
      PROVE  \A c \in Bookings : escrow'[c] = "held" => payment'[c] = "COMPLETED"
  <2>1. CASE ReleaseCommit(r, b) \/ RefundCommit(r, b)
    BY <1>1, <2>1 DEF ReleaseCommit, RefundCommit, HeldIsPaid
  <2>2. CASE ReleaseRead(r, b) \/ RefundRead(r, b)
    BY <1>3, <2>2 DEF ReleaseRead, RefundRead, rows
  <2> QED BY <1>5, <2>1, <2>2 DEF EscrowStep
<1>6. ASSUME NEW r \in Requests, NEW b \in Bookings, Receive(r, b) \/ BookingsStep(r, b)
      PROVE  UNCHANGED <<payment, escrow>>
  <2>1. CASE Receive(r, b)
    BY <2>1, ReceiveRows DEF rows
  <2>2. CASE BookingsStep(r, b)
    BY <2>2 DEF BookingsStep, CreateCommit, CancelLock, CancelTimeout, CancelCommit,
                CompleteCommit, SetStatutCommit, StartCommit, rows
  <2> QED BY <1>6, <2>1, <2>2
<1>7. ASSUME (\E r \in Requests : Abort(r)) \/ (\E b \in Bookings : OtpExpires(b))
             \/ UNCHANGED vars
      PROVE  UNCHANGED <<payment, escrow>>
  BY <1>7 DEF Abort, OtpExpires, rows, vars
<1>8. \A b \in Bookings : escrow'[b] = "held" => payment'[b] = "COMPLETED"
  BY <1>3, <1>4, <1>5, <1>6, <1>7 DEF Next, Resume
<1> QED BY <1>2, <1>8 DEF HeldIsPaid

\* One request at a time and an operator that keeps its word: a cancelled
\* booking keeps no money in escrow, whatever statuses clients write, however
\* late and often the payment is confirmed and wherever requests die.
THEOREM CancellationsRefund ==
  ASSUME OneRequestAtATime, FinalWord
  PROVE  Spec => []CancelledRefunded
<1>1. Init => Refunds /\ HeldIsPaid
  BY DEF Init, Refunds, CancelsSettled, CancelledSettled, HeldIsPaid, Idle, None
<1>2. TypeOK /\ Refunds /\ [Next]_vars => Refunds'
  BY StepRefunds
<1>3. TypeOK /\ HeldIsPaid /\ [Next]_vars => HeldIsPaid'
  BY StepHeldIsPaid
<1>4. Refunds /\ HeldIsPaid => CancelledRefunded
  BY DEF Refunds, CancelledSettled, HeldIsPaid, CancelledRefunded
<1> QED BY <1>1, <1>2, <1>3, <1>4, TypeCorrect, PTL DEF Spec

-----------------------------------------------------------------------------
(* One request at a time, none of them cut short: a booking whose money    *)
(* left the escrow is over, or is just being cancelled.                    *)

Over(b) == booking[b].statut \in {"FUNDS_RELEASED", "CANCELLED"}
Closing ==
  \A b \in Bookings :
     escrow[b] = "released" => Over(b) \/ \E r \in Requests : Suspended(r, "cancelCommit", b)

\* A cancellation that does not time out keeps its target.
NotTimedOut ==
  \A r \in Requests :
     req[r].at \in {"cancelPaid", "refundRead", "refundCommit"} => req[r].target = "CANCELLED"

LEMMA StepNotTimedOut ==
  ASSUME ~MayAbort, TypeOK, NotTimedOut, [Next]_vars
  PROVE  NotTimedOut'
<1> SUFFICES ASSUME NEW s \in Requests,
                    req'[s].at \in {"cancelPaid", "refundRead", "refundCommit"}
             PROVE  req'[s].target = "CANCELLED"
  BY DEF NotTimedOut
<1>1. req \in [Requests -> Request]
  BY DEF TypeOK, RequestsOK
<1>2. CASE req'[s] = req[s]
  BY <1>2 DEF NotTimedOut
<1>3. ASSUME NEW b \in Bookings, Receive(s, b) PROVE req'[s].target = "CANCELLED"
  BY <1>1, <1>3 DEF Receive, CreateRead, CancelRead, CompleteRead, SetStatutRead, StartRead,
                    PayRead, ReceiveWebhook, WalletRelease, Begin
<1>4. ASSUME NEW b \in Bookings, Resume(s, b) PROVE req'[s].target = "CANCELLED"
  <2>1. CASE CancelLock(s, b) \/ RefundRead(s, b)
    BY <1>1, <2>1 DEF CancelLock, RefundRead, Suspended, NotTimedOut, Goto, End, Idle, Request
  <2>2. CASE CompleteCommit(s, b) \/ ReleaseRead(s, b) \/ RefundCommit(s, b)
    BY <1>1, <2>2 DEF CompleteCommit, ReleaseRead, RefundCommit, Goto, End, Idle, Request
  <2>3. CASE End(s)
    BY <1>1, <2>3 DEF End, Idle
  <2> QED
    BY <1>4, <2>1, <2>2, <2>3
       DEF Resume, BookingsStep, PaymentsStep, EscrowStep, CreateCommit, CancelTimeout,
           CancelCommit, SetStatutCommit, StartCommit, PayCommit, ConfirmPayment, FailPayment,
           MarkProcessing, ReleaseCommit
<1>5. CASE req'[s] = Idle
  BY <1>5 DEF Idle
<1> QED BY <1>2, <1>3, <1>4, <1>5, RequestStep

LEMMA StepClosing ==
  ASSUME DocumentedClients, OneRequestAtATime, ~MayAbort, TypeOK, FreshSnapshot, NotTimedOut,
         Closing, [Next]_vars
  PROVE  Closing'
<1>1. /\ booking \in [Bookings -> BookingRow]
      /\ escrow \in [Bookings -> {None, "held", "released"}]
  BY DEF TypeOK, RowsOK
<1>2. ASSUME NEW r \in Requests, req[r].at # "cancelCommit", NEW b \in Bookings,
             escrow[b] = "released"
      PROVE  Over(b)
  BY <1>2 DEF OneRequestAtATime, Closing, Suspended
<1>3. ASSUME NEW r \in Requests, req[r].at # "cancelCommit", UNCHANGED <<booking, escrow>>
      PROVE  Closing'
  BY <1>2, <1>3 DEF Closing, Over
<1>4. ASSUME NEW r \in Requests, NEW b \in Bookings, Receive(r, b) PROVE Closing'
  <2>1. req[r].at = "idle"
    BY <1>4 DEF Receive, CreateRead, CancelRead, CompleteRead, SetStatutRead, StartRead,
                PayRead, ReceiveWebhook, WalletRelease, Begin
  <2> QED BY <1>3, <1>4, <2>1, ReceiveRows DEF rows
<1>5. ASSUME NEW r \in Requests, NEW b \in Bookings, BookingsStep(r, b) PROVE Closing'
  <2>1. CASE CancelCommit(r, b)
    <3>1. Over(b)'
      BY <1>1, <2>1 DEF CancelCommit, SetStatut, Over
    <3>2. ASSUME NEW c \in Bookings, c # b, escrow'[c] = "released" PROVE Over(c)'
      <4>1. escrow[c] = "released" /\ booking'[c] = booking[c]
        BY <1>1, <2>1, <3>2 DEF CancelCommit, SetStatut
      <4>2. ~\E s \in Requests : Suspended(s, "cancelCommit", c)
        BY <2>1, <3>2 DEF OneRequestAtATime, CancelCommit, Suspended
      <4> QED BY <4>1, <4>2 DEF Closing, Over
    <3> QED BY <3>1, <3>2 DEF Closing
  <2>2. ASSUME req[r].at # "cancelCommit", UNCHANGED escrow, ~Over(b),
               \A c \in Bookings : c # b => booking'[c] = booking[c]
        PROVE  Closing'
    BY <1>2, <2>2 DEF Closing, Over
  <2>3. CASE CreateCommit(r, b) \/ CompleteCommit(r, b)
    <3>1. ~Over(b)
      BY <2>3 DEF CreateCommit, CompleteCommit, Suspended, FreshSnapshot, Over, None
    <3> QED
      BY <1>1, <2>2, <2>3, <3>1 DEF CreateCommit, CompleteCommit, Suspended, SetStatut
  <2>4. CASE SetStatutCommit(r, b) \/ StartCommit(r, b)
    <3>1. ~Over(b)
      BY <2>4 DEF SetStatutCommit, StartCommit, Suspended, FreshSnapshot, Over
    <3> QED
      BY <1>1, <2>2, <2>4, <3>1 DEF SetStatutCommit, StartCommit, Suspended, SetStatut
  <2>5. CASE CancelLock(r, b)
    BY <1>3, <2>5 DEF CancelLock, Suspended, rows
  <2>6. CASE CancelTimeout(r, b)
    BY <2>6 DEF CancelTimeout
  <2> QED BY <1>5, <2>1, <2>3, <2>4, <2>5, <2>6 DEF BookingsStep
<1>6. ASSUME NEW r \in Requests, NEW b \in Bookings, PaymentsStep(r, b) PROVE Closing'
  <2>1. CASE ConfirmPayment(r, b) /\ escrow[b] = None
    <3>1. req[r].at # "cancelCommit" /\ escrow'[b] # "released"
      BY <1>1, <2>1 DEF ConfirmPayment, Suspended, HoldFunds
    <3>2. \A c \in Bookings : c # b => booking'[c] = booking[c] /\ escrow'[c] = escrow[c]
      BY <1>1, <2>1 DEF ConfirmPayment, HoldFunds, None
    <3> QED BY <1>2, <3>1, <3>2 DEF Closing, Over
  <2>2. CASE ConfirmPayment(r, b) /\ escrow[b] # None
    BY <1>3, <2>2 DEF ConfirmPayment, Suspended
  <2>3. CASE PayCommit(r, b) \/ FailPayment(r, b) \/ MarkProcessing(r, b)
    BY <1>3, <2>3 DEF PayCommit, FailPayment, MarkProcessing, Suspended
  <2> QED BY <1>6, <2>1, <2>2, <2>3 DEF PaymentsStep
<1>7. ASSUME NEW r \in Requests, NEW b \in Bookings, EscrowStep(r, b) PROVE Closing'
  <2>1. CASE ReleaseRead(r, b) \/ RefundRead(r, b)
    BY <1>3, <2>1 DEF ReleaseRead, RefundRead, Suspended, rows
  <2>2. CASE ReleaseCommit(r, b)
    <3>1. Over(b)' /\ req[r].at # "cancelCommit"
      BY <1>1, <2>2 DEF ReleaseCommit, Suspended, SetStatut, Over
    <3>2. \A c \in Bookings : c # b => booking'[c] = booking[c] /\ escrow'[c] = escrow[c]
      BY <1>1, <2>2 DEF ReleaseCommit, SetStatut
    <3> QED BY <1>2, <3>1, <3>2 DEF Closing, Over
  <2>3. CASE RefundCommit(r, b)
    <3>1. req'[r].at = "cancelCommit" /\ req'[r].booking = b /\ req[r].at # "cancelCommit"
      BY <2>3, GotoIsAlone DEF RefundCommit, Suspended, HoldsLocks, NotTimedOut
    <3>2. \A c \in Bookings : booking'[c] = booking[c] /\ (c # b => escrow'[c] = escrow[c])
      BY <1>1, <2>3 DEF RefundCommit
    <3> QED BY <1>2, <3>1, <3>2 DEF Closing, Over, Suspended
  <2> QED BY <1>7, <2>1, <2>2, <2>3 DEF EscrowStep
<1>8. ASSUME NEW r \in Requests, Abort(r) PROVE FALSE
  BY <1>8 DEF Abort
<1>9. ASSUME NEW b \in Bookings, OtpExpires(b) PROVE Closing'
  BY <1>1, <1>9 DEF OtpExpires, BookingRow, Closing, Over, Suspended
<1>10. CASE UNCHANGED vars
  BY <1>10 DEF vars, Closing, Over, Suspended
<1> QED
  BY <1>4, <1>5, <1>6, <1>7, <1>8, <1>9, <1>10 DEF Next, Resume

\* One request at a time, for documented clients and requests that are never
\* cut short, money that left the escrow belongs to a trip that is over.
THEOREM SettledIsClosed ==
  ASSUME DocumentedClients, OneRequestAtATime, ~MayAbort PROVE Spec => []SettledBookingClosed
<1>1. Init => FreshSnapshot /\ NotTimedOut /\ Closing
  BY DEF Init, FreshSnapshot, NotTimedOut, Closing, Idle, None
<1>2. TypeOK /\ FreshSnapshot /\ [Next]_vars => FreshSnapshot'
  BY StepFresh
<1>3. TypeOK /\ NotTimedOut /\ [Next]_vars => NotTimedOut'
  BY StepNotTimedOut
<1>4. TypeOK /\ FreshSnapshot /\ NotTimedOut /\ Closing /\ [Next]_vars => Closing'
  BY StepClosing
<1>5. Closing => SettledBookingClosed
  BY DEF Closing, Over, SettledBookingClosed, Suspended
<1> QED BY <1>1, <1>2, <1>3, <1>4, <1>5, TypeCorrect, PTL DEF Spec
-----------------------------------------------------------------------------
(* Ledger: what wallets hold against the escrows they come from.           *)

\* Writing one escrow row moves the total of the escrows in some states by
\* the price of that booking at most, and for its driver only.
LEMMA EscrowTotal ==
  ASSUME TypeOK, NEW b \in Bookings, NEW s, escrow' = [escrow EXCEPT ![b] = s],
         NEW d \in Drivers, NEW states
  PROVE  /\ Escrowed(d, states) \in Nat /\ Escrowed(d, states)' \in Nat
         /\ Driver(b) # d \/ (escrow[b] \in states <=> s \in states) =>
               Escrowed(d, states)' = Escrowed(d, states)
         /\ Driver(b) = d /\ escrow[b] \in states /\ s \notin states =>
               Escrowed(d, states)' = Escrowed(d, states) - Price(b)
         /\ Driver(b) = d /\ escrow[b] \notin states /\ s \in states =>
               Escrowed(d, states)' = Escrowed(d, states) + Price(b)
<1> DEFINE f == [c \in Bookings |-> Price(c)]
           S == EscrowsOf(d, states)
           T == {c \in Bookings : Driver(c) = d /\ escrow'[c] \in states}
<1>1. Escrowed(d, states) = SumOver(f, S) /\ Escrowed(d, states)' = SumOver(f, T)
  BY DEF Escrowed, TotalPrice, EscrowsOf
<1>2. S \in SUBSET Bookings /\ T \in SUBSET Bookings
  BY DEF EscrowsOf
<1>3. escrow'[b] = s /\ \A c \in Bookings \ {b} : escrow'[c] = escrow[c]
  BY DEF TypeOK, RowsOK
<1>4. \A c \in Bookings \ {b} : c \in S <=> c \in T
  BY <1>3 DEF EscrowsOf
<1>5. /\ b \in S <=> Driver(b) = d /\ escrow[b] \in states
      /\ b \in T <=> Driver(b) = d /\ s \in states
  BY <1>3 DEF EscrowsOf
<1>6. IsFiniteSet(Bookings) /\ f[b] = Price(b) /\ \A c \in Bookings : f[c] \in Nat
  BY LedgerAssumption, PriceType
<1> HIDE DEF S, T, f
<1>7. /\ SumOver(f, S) \in Nat /\ SumOver(f, T) \in Nat
      /\ b \in S /\ b \in T => SumOver(f, T) = SumOver(f, S)
      /\ b \in S /\ b \notin T => SumOver(f, T) = SumOver(f, S) - f[b]
      /\ b \notin S /\ b \in T => SumOver(f, T) = SumOver(f, S) + f[b]
      /\ b \notin S /\ b \notin T => SumOver(f, T) = SumOver(f, S)
  BY <1>2, <1>4, <1>6, SumChange
<1> QED
  BY <1>1, <1>5, <1>6, <1>7

LEMMA EscrowTotalSame ==
  ASSUME UNCHANGED escrow, NEW d \in Drivers, NEW states
  PROVE  Escrowed(d, states)' = Escrowed(d, states)
BY DEF Escrowed, TotalPrice, EscrowsOf

LEMMA EscrowTotalInit ==
  ASSUME Init, NEW d \in Drivers, NEW states, None \notin states
  PROVE  Escrowed(d, states) = 0
<1>1. EscrowsOf(d, states) = {}
  BY DEF Init, EscrowsOf
<1> QED BY <1>1, SumEmpty DEF Escrowed, TotalPrice

\* A relative update moves the columns of one wallet.
LEMMA CreditStep ==
  ASSUME TypeOK, NEW e \in Drivers, NEW m \in Int, NEW n \in Int, NEW k \in Int,
         Credit(e, m, n, k), NEW d \in Drivers
  PROVE  /\ d # e => wallet'[d] = wallet[d]
         /\ d = e => /\ wallet'[d].balance = wallet[d].balance + m
                     /\ wallet'[d].pending = wallet[d].pending + n
                     /\ wallet'[d].withdrawable = wallet[d].withdrawable + k
BY DEF Credit, TypeOK, RowsOK

LEMMA StepNeverOverCredited ==
  ASSUME TypeOK, NeverOverCredited, [Next]_vars
  PROVE  NeverOverCredited'
<1> DEFINE Paid == {"held", "released"}
<1> SUFFICES ASSUME NEW d \in Drivers
             PROVE  wallet'[d].balance =< Escrowed(d, Paid)'
  BY DEF NeverOverCredited
<1>1. /\ wallet[d] \in WalletRow /\ wallet[d].balance \in Int
      /\ wallet[d].balance =< Escrowed(d, Paid)
  BY DEF TypeOK, RowsOK, WalletRow, NeverOverCredited
<1>2. CASE UNCHANGED <<escrow, wallet>>
  BY <1>1, <1>2, EscrowTotalSame
<1>3. ASSUME NEW b \in Bookings, HoldStep(b)
      PROVE  wallet'[d].balance =< Escrowed(d, Paid)'
  <2>1. Driver(b) \in Drivers /\ Price(b) \in Nat
    BY DriverType, PriceType
  <2>2. wallet'[d].balance = IF d = Driver(b) THEN wallet[d].balance + Price(b)
                                              ELSE wallet[d].balance
    BY <1>3, <2>1, CreditStep DEF HoldStep
  <2>3. /\ escrow' = [escrow EXCEPT ![b] = "held"]
        /\ escrow[b] \notin Paid /\ "held" \in Paid
    BY <1>3 DEF HoldStep, None
  <2> HIDE DEF Paid
  <2>4. /\ Escrowed(d, Paid)' \in Nat /\ Escrowed(d, Paid) \in Nat
        /\ Driver(b) # d => Escrowed(d, Paid)' = Escrowed(d, Paid)
        /\ Driver(b) = d => Escrowed(d, Paid)' = Escrowed(d, Paid) + Price(b)
    BY <2>3, EscrowTotal, ZenonT(60)
  <2> QED BY <1>1, <2>1, <2>2, <2>4
<1>4. ASSUME NEW b \in Bookings, ReleaseStep(b) \/ RefundStep(b)
      PROVE  wallet'[d].balance =< Escrowed(d, Paid)'
  <2>1. Driver(b) \in Drivers /\ Price(b) \in Nat
    BY DriverType, PriceType
  <2>2. wallet'[d].balance =< wallet[d].balance
    BY <1>1, <1>4, <2>1, CreditStep DEF ReleaseStep, RefundStep
  <2>3. wallet'[d].balance \in Int
    BY <1>1, <1>4, <2>1, CreditStep DEF ReleaseStep, RefundStep
  <2>4. escrow' = [escrow EXCEPT ![b] = "released"] /\ "released" \in Paid
    BY <1>4 DEF ReleaseStep, RefundStep
  <2> HIDE DEF Paid
  <2>5. /\ Escrowed(d, Paid)' \in Nat /\ Escrowed(d, Paid) \in Nat
        /\ Driver(b) # d \/ escrow[b] \in Paid => Escrowed(d, Paid)' = Escrowed(d, Paid)
        /\ Driver(b) = d /\ escrow[b] \notin Paid =>
              Escrowed(d, Paid)' = Escrowed(d, Paid) + Price(b)
    <3>1. /\ Escrowed(d, Paid) \in Nat /\ Escrowed(d, Paid)' \in Nat
          /\ Driver(b) # d \/ (escrow[b] \in Paid <=> "released" \in Paid) =>
                Escrowed(d, Paid)' = Escrowed(d, Paid)
          /\ Driver(b) = d /\ escrow[b] \notin Paid /\ "released" \in Paid =>
                Escrowed(d, Paid)' = Escrowed(d, Paid) + Price(b)
      BY <2>4, EscrowTotal, ZenonT(60)
    <3> QED BY <2>4, <3>1
  <2>6. Escrowed(d, Paid)' >= Escrowed(d, Paid)
    BY <2>1, <2>5
  <2> QED BY <1>1, <2>2, <2>3, <2>5, <2>6
<1> QED
  BY <1>2, <1>3, <1>4, MoneyStep DEF MoneyMove

\* However requests interleave, a driver's total never exceeds what the
\* passengers of his bookings paid into escrow, each booking once.
THEOREM NeverOverCreditedHolds == Spec => []NeverOverCredited
<1>1. Init => NeverOverCredited
  BY EscrowTotalInit DEF Init, NeverOverCredited, None
<1> QED
  BY <1>1, StepNeverOverCredited, TypeCorrect, PTL DEF Spec

LEMMA StepPendingIsHeld ==
  ASSUME TypeOK, SettlesHeld, PendingIsHeld, [Next]_vars
  PROVE  PendingIsHeld'
<1> SUFFICES ASSUME NEW d \in Drivers
             PROVE  wallet'[d].pending = Escrowed(d, {"held"})'
  BY DEF PendingIsHeld
<1>1. /\ wallet[d] \in WalletRow /\ wallet[d].pending \in Int
      /\ wallet[d].pending = Escrowed(d, {"held"})
  BY DEF TypeOK, RowsOK, WalletRow, PendingIsHeld
<1>2. CASE UNCHANGED <<escrow, wallet>>
  BY <1>1, <1>2, EscrowTotalSame
<1>3. ASSUME NEW b \in Bookings, HoldStep(b)
      PROVE  wallet'[d].pending = Escrowed(d, {"held"})'
  <2>1. Driver(b) \in Drivers /\ Price(b) \in Nat
    BY DriverType, PriceType
  <2>2. wallet'[d].pending = IF d = Driver(b) THEN wallet[d].pending + Price(b)
                                              ELSE wallet[d].pending
    BY <1>3, <2>1, CreditStep DEF HoldStep
  <2>3. /\ escrow' = [escrow EXCEPT ![b] = "held"]
        /\ escrow[b] \notin {"held"} /\ "held" \in {"held"}
    BY <1>3 DEF HoldStep, None
  <2>4. /\ Driver(b) # d => Escrowed(d, {"held"})' = Escrowed(d, {"held"})
        /\ Driver(b) = d => Escrowed(d, {"held"})' = Escrowed(d, {"held"}) + Price(b)
    BY <2>3, EscrowTotal, ZenonT(60)
  <2> QED BY <1>1, <2>2, <2>4
<1>4. ASSUME NEW b \in Bookings, escrow[b] = "held", ReleaseStep(b) \/ RefundStep(b)
      PROVE  wallet'[d].pending = Escrowed(d, {"held"})'
  <2>1. Driver(b) \in Drivers /\ Price(b) \in Nat
    BY DriverType, PriceType
  <2>2. escrow' = [escrow EXCEPT ![b] = "released"]
    BY <1>4 DEF ReleaseStep, RefundStep
  <2>3. /\ d # Driver(b) => wallet'[d].pending = wallet[d].pending
        /\ d = Driver(b) => wallet'[d].pending = wallet[d].pending + (-Price(b))
    <3>1. -Price(b) \in Int
      BY <2>1
    <3> QED BY <1>4, <2>1, <3>1, CreditStep DEF ReleaseStep, RefundStep
  <2>4. /\ Driver(b) # d => Escrowed(d, {"held"})' = Escrowed(d, {"held"})
        /\ Driver(b) = d => Escrowed(d, {"held"})' = Escrowed(d, {"held"}) - Price(b)
    <3>1. escrow[b] \in {"held"} /\ "released" \notin {"held"}
      BY <1>4
    <3> QED BY <2>2, <3>1, EscrowTotal, ZenonT(60)
  <2> QED BY <1>1, <2>1, <2>3, <2>4
<1>5. ASSUME NEW r \in Requests, NEW b \in Bookings,
             Suspended(r, "releaseCommit", b) \/ Suspended(r, "refundCommit", b)
      PROVE  escrow[b] = "held"
  BY <1>5 DEF SettlesHeld, Suspended
<1> QED
  BY <1>2, <1>3, <1>4, <1>5, MoneyStep DEF MoneyMove

\* One request at a time, pendingBalance is the money held in escrow for the
\* driver, to the last franc, whatever clients write and wherever requests die.
THEOREM PendingIsHeldHolds == ASSUME OneRequestAtATime PROVE Spec => []PendingIsHeld
<1>1. Init => SettlesHeld /\ PendingIsHeld
  BY EscrowTotalInit DEF Init, SettlesHeld, PendingIsHeld, Idle, None
<1>2. TypeOK /\ SettlesHeld /\ [Next]_vars => SettlesHeld'
  BY StepSettlesHeld
<1> QED
  BY <1>1, <1>2, StepPendingIsHeld, TypeCorrect, PTL DEF Spec
-----------------------------------------------------------------------------
(* Ledger: the seats of a vehicle against the bookings that occupy them.   *)

Live(b) == booking[b].statut \notin {None, "CANCELLED"}

\* A step changes no seat, inserts or cancels a booking, or gives a booking
\* some other statut on behalf of a request that is about it.
InsertMove(r, b) ==
  /\ Suspended(r, "create", b)
  /\ SetStatut(b, "PENDING")
  /\ seats' = [seats EXCEPT ![VehicleOf[b]] = @ - PlacesOf[b]]
  /\ End(r)
CancelMove(r, b) ==
  /\ Suspended(r, "cancelUnpaid", b) \/ Suspended(r, "cancelCommit", b)
  /\ SetStatut(b, "CANCELLED")
  /\ seats' = [seats EXCEPT ![VehicleOf[b]] = @ + PlacesOf[b]]
  /\ End(r)
WriteMove(r, b) ==
  /\ req[r].booking = b /\ req[r].at \notin {"idle", "create"}
  /\ \E row \in BookingRow : /\ booking' = [booking EXCEPT ![b] = row]
                             /\ row.statut \notin {None, "CANCELLED"}
  /\ UNCHANGED seats
  /\ End(r) \/ Goto(r, "releaseRead")
SeatMove ==
  \/ UNCHANGED <<booking, seats>>
  \/ (\E b \in Bookings : ExpiryMove(b)) /\ UNCHANGED seats
  \/ \E r \in Requests, b \in Bookings :
        InsertMove(r, b) \/ CancelMove(r, b) \/ WriteMove(r, b)

LEMMA SeatStep == TypeOK /\ [Next]_vars => SeatMove
<1> SUFFICES ASSUME TypeOK, [Next]_vars PROVE SeatMove
  OBVIOUS
<1>1. booking \in [Bookings -> BookingRow] /\ req \in [Requests -> Request]
  BY DEF TypeOK, RowsOK, RequestsOK
<1>2. ASSUME UNCHANGED rows PROVE SeatMove
  BY <1>2 DEF rows, SeatMove
\* Writing the statut alone leaves a well-formed row.
<1>3. ASSUME NEW b \in Bookings, NEW s \in BookingStatut, SetStatut(b, s)
      PROVE  \E row \in BookingRow : booking' = [booking EXCEPT ![b] = row] /\ row.statut = s
  <2>1. [booking[b] EXCEPT !.statut = s] \in BookingRow
    BY <1>1 DEF BookingRow
  <2> QED BY <1>1, <1>3, <2>1 DEF SetStatut, BookingRow
<1>4. ASSUME NEW r \in Requests, NEW b \in Bookings, NEW s \in BookingStatut \ {"CANCELLED"},
             SetStatut(b, s), req[r].booking = b, req[r].at \notin {"idle", "create"},
             UNCHANGED seats, End(r) \/ Goto(r, "releaseRead")
      PROVE  SeatMove
  <2>1. PICK row \in BookingRow : booking' = [booking EXCEPT ![b] = row] /\ row.statut = s
    BY <1>3, <1>4
  <2> QED BY <1>4, <2>1 DEF SeatMove, WriteMove, None, BookingStatut
<1>5. ASSUME NEW r \in Requests, NEW b \in Bookings, Receive(r, b) PROVE SeatMove
  BY <1>2, <1>5, ReceiveRows
<1>6. ASSUME NEW r \in Requests, NEW b \in Bookings, BookingsStep(r, b) PROVE SeatMove
  <2>1. CASE CreateCommit(r, b)
    BY <2>1 DEF CreateCommit, InsertMove, SeatMove
  <2>2. CASE CancelCommit(r, b)
    BY <2>2 DEF CancelCommit, CancelMove, SeatMove
  <2>3. CASE CompleteCommit(r, b)
    BY <1>4, <2>3 DEF CompleteCommit, Suspended, BookingStatut
  <2>4. CASE SetStatutCommit(r, b)
    <3>1. req[r].target \in BookingStatut \ {"CANCELLED"}
      BY <2>4, ConstantsAssumption DEF SetStatutCommit, Suspended, TypeOK, RequestsOK
    <3> QED BY <1>4, <2>4, <3>1 DEF SetStatutCommit, Suspended
  <2>5. CASE StartCommit(r, b)
    <3> DEFINE row == [booking[b] EXCEPT !.statut = "IN_PROGRESS", !.otpCode = "null"]
    <3>1. row \in BookingRow /\ row.statut = "IN_PROGRESS"
      BY <1>1 DEF BookingRow, BookingStatut
    <3>2. booking' = [booking EXCEPT ![b] = row]
      BY <1>1, <2>5 DEF StartCommit, BookingRow
    <3> HIDE DEF row
    <3> QED BY <2>5, <3>1, <3>2 DEF StartCommit, Suspended, WriteMove, SeatMove, None
  <2>6. CASE CancelLock(r, b) \/ CancelTimeout(r, b)
    BY <1>2, <2>6 DEF CancelLock, CancelTimeout
  <2> QED BY <1>6, <2>1, <2>2, <2>3, <2>4, <2>5, <2>6 DEF BookingsStep
<1>7. ASSUME NEW r \in Requests, NEW b \in Bookings, PaymentsStep(r, b) PROVE SeatMove
  <2>1. CASE ConfirmPayment(r, b) /\ escrow[b] = None
    <3> DEFINE row == [statut |-> "PAID", otpCode |-> "valid", qrCode |-> TRUE]
    <3>1. row \in BookingRow
      BY Zenon DEF BookingRow, BookingStatut
    <3>2. row.statut \notin {None, "CANCELLED"}
      BY DEF None
    <3> QED BY <2>1, <3>1, <3>2 DEF ConfirmPayment, Suspended, WriteMove, SeatMove
  <2>2. CASE ConfirmPayment(r, b) /\ escrow[b] # None
    BY <2>2 DEF ConfirmPayment, SeatMove
  <2>3. CASE PayCommit(r, b) \/ FailPayment(r, b) \/ MarkProcessing(r, b)
    BY <2>3 DEF PayCommit, FailPayment, MarkProcessing, SeatMove
  <2> QED BY <1>7, <2>1, <2>2, <2>3 DEF PaymentsStep
<1>8. ASSUME NEW r \in Requests, NEW b \in Bookings, EscrowStep(r, b) PROVE SeatMove
  <2>1. CASE ReleaseCommit(r, b)
    BY <1>4, <2>1 DEF ReleaseCommit, Suspended, BookingStatut
  <2>2. CASE RefundCommit(r, b)
    BY <2>2 DEF RefundCommit, SeatMove
  <2>3. CASE ReleaseRead(r, b) \/ RefundRead(r, b)
    BY <1>2, <2>3 DEF ReleaseRead, RefundRead
  <2> QED BY <1>8, <2>1, <2>2, <2>3 DEF EscrowStep
<1>9. ASSUME NEW r \in Requests, Abort(r) PROVE SeatMove
  BY <1>2, <1>9 DEF Abort
<1>10. ASSUME NEW b \in Bookings, OtpExpires(b) PROVE SeatMove
  BY <1>10 DEF OtpExpires, ExpiryMove, SeatMove
<1>11. CASE UNCHANGED vars
  BY <1>11 DEF vars, SeatMove
<1> QED
  BY <1>5, <1>6, <1>7, <1>8, <1>9, <1>10, <1>11 DEF Next, Resume

\* Changing one booking moves the places it takes in or out of its vehicle.
LEMMA PlacesTotal ==
  ASSUME NEW b \in Bookings, \A c \in Bookings \ {b} : Live(c)' = Live(c), NEW v \in Vehicles
  PROVE  LET before == TotalPlaces(Occupying(v))
             after == TotalPlaces(Occupying(v))'
         IN
         /\ before \in Nat /\ after \in Nat
         /\ VehicleOf[b] # v \/ (Live(b) <=> Live(b)') => after = before
         /\ VehicleOf[b] = v /\ Live(b) /\ ~Live(b)' => after = before - PlacesOf[b]
         /\ VehicleOf[b] = v /\ ~Live(b) /\ Live(b)' => after = before + PlacesOf[b]
<1> DEFINE S == Occupying(v)
           T == {c \in Bookings : VehicleOf[c] = v /\ Live(c)'}
<1>1. TotalPlaces(Occupying(v)) = SumOver(PlacesOf, S)
      /\ TotalPlaces(Occupying(v))' = SumOver(PlacesOf, T)
  BY DEF TotalPlaces, Occupying, Live
<1>2. S \in SUBSET Bookings /\ T \in SUBSET Bookings
  BY DEF Occupying
<1>3. \A c \in Bookings \ {b} : c \in S <=> c \in T
  BY DEF Occupying, Live
<1>4. /\ b \in S <=> VehicleOf[b] = v /\ Live(b)
      /\ b \in T <=> VehicleOf[b] = v /\ Live(b)'
  BY DEF Occupying, Live
<1>5. IsFiniteSet(Bookings) /\ \A c \in Bookings : PlacesOf[c] \in Nat
  BY LedgerAssumption, ConstantsAssumption
<1> HIDE DEF S, T
<1>6. /\ SumOver(PlacesOf, S) \in Nat /\ SumOver(PlacesOf, T) \in Nat
      /\ b \in S /\ b \in T => SumOver(PlacesOf, T) = SumOver(PlacesOf, S)
      /\ b \in S /\ b \notin T => SumOver(PlacesOf, T) = SumOver(PlacesOf, S) - PlacesOf[b]
      /\ b \notin S /\ b \in T => SumOver(PlacesOf, T) = SumOver(PlacesOf, S) + PlacesOf[b]
      /\ b \notin S /\ b \notin T => SumOver(PlacesOf, T) = SumOver(PlacesOf, S)
  BY <1>2, <1>3, <1>5, SumChange
<1> QED
  BY <1>1, <1>4, <1>6

LEMMA PlacesTotalSame ==
  ASSUME \A c \in Bookings : Live(c)' = Live(c), NEW v \in Vehicles
  PROVE  TotalPlaces(Occupying(v)) \in Nat
         /\ TotalPlaces(Occupying(v))' = TotalPlaces(Occupying(v))
<1>1. Occupying(v)' = Occupying(v)
  BY DEF Occupying, Live
<1>2. Occupying(v) \in SUBSET Bookings
  BY DEF Occupying
<1>3. TotalPlaces(Occupying(v)) \in Nat
  BY <1>2, LedgerAssumption, ConstantsAssumption, FS_Subset, SumType DEF TotalPlaces
<1> QED BY <1>1, <1>3 DEF TotalPlaces

-----------------------------------------------------------------------------
(* Every schedule inserts a booking once, and nothing is ever done for a   *)
(* booking that has no row yet.                                            *)

BookedOnce ==
  /\ \A b \in Bookings : booking[b].statut = None => payment[b] = None /\ escrow[b] = None
  /\ \A r \in Requests :
        /\ req[r].at = "create" => booking[req[r].booking].statut = None
        /\ req[r].at \notin {"idle", "create"} => booking[req[r].booking].statut # None
  /\ \A r, q \in Requests :
        req[r].at = "create" /\ req[q].at = "create" /\ req[r].booking = req[q].booking => r = q
Untouched(b) == booking[b].statut = None /\ payment[b] = None /\ escrow[b] = None
Working(r) == req[r].at \notin {"idle", "create"}

\* A request is left alone, ends, begins to insert a booking, begins to work
\* on rows that exist, or goes on with what it works on.
RequestMove(r) ==
  \/ req'[r] = req[r]
  \/ req'[r] = Idle
  \/ \E b \in Bookings :
        /\ Begin(r, "create", b, None)
        /\ booking[b].statut = None
        /\ \A q \in Requests : req[q].at = "create" => req[q].booking # b
        /\ seats[VehicleOf[b]] >= PlacesOf[b]
  \/ \E b \in Bookings :
        req'[r].booking = b /\ req'[r].at # "create" /\ ~Untouched(b)
  \/ Working(r) /\ req'[r].at # "create" /\ req'[r].booking = req[r].booking

LEMMA RequestMoves ==
  ASSUME TypeOK, [Next]_vars, NEW r \in Requests
  PROVE  RequestMove(r)
<1>1. req \in [Requests -> Request]
  BY DEF TypeOK, RequestsOK
<1>2. ASSUME NEW b \in Bookings, Receive(r, b) PROVE RequestMove(r)
  <2>1. CASE CreateRead(r, b)
    BY <2>1 DEF CreateRead, RequestMove
  <2>2. ASSUME NEW place, NEW t, Begin(r, place, b, t), place # "create", ~Untouched(b)
        PROVE  RequestMove(r)
    BY <1>1, <2>2 DEF Begin, RequestMove
  <2>3. CASE \/ CancelRead(r, b) \/ CompleteRead(r, b) \/ SetStatutRead(r, b)
             \/ StartRead(r, b) \/ PayRead(r, b)
    <3>1. booking[b].statut # None
      BY <2>3 DEF CancelRead, CompleteRead, SetStatutRead, StartRead, PayRead, Found, None
    <3>2. PICK place, t : Begin(r, place, b, t) /\ place # "create"
      BY <2>3 DEF CancelRead, CompleteRead, SetStatutRead, StartRead, PayRead
    <3> QED BY <2>2, <3>1, <3>2 DEF Untouched
  <2>4. CASE ReceiveWebhook(r, b)
    BY <2>2, <2>4 DEF ReceiveWebhook, Untouched
  <2>5. CASE WalletRelease(r, b)
    BY <2>2, <2>5 DEF WalletRelease, Untouched, None
  <2> QED BY <1>2, <2>1, <2>3, <2>4, <2>5 DEF Receive
<1>3. ASSUME NEW b \in Bookings, Resume(r, b) PROVE RequestMove(r)
  <2>1. ASSUME End(r) PROVE RequestMove(r)
    BY <1>1, <2>1 DEF End, RequestMove
  <2>2. ASSUME NEW place, Goto(r, place), place # "create", Working(r)
        PROVE  RequestMove(r)
    BY <1>1, <2>2 DEF Goto, RequestMove, Request
  <2>3. CASE BookingsStep(r, b)
    <3>1. CASE CancelTimeout(r, b)
      BY <1>1, <3>1 DEF CancelTimeout, Suspended, RequestMove, Request, Working
    <3>2. CASE CancelLock(r, b) \/ CompleteCommit(r, b)
      BY <2>2, <3>2 DEF CancelLock, CompleteCommit, Suspended, Working
    <3>3. CASE \/ CreateCommit(r, b) \/ CancelCommit(r, b)
               \/ SetStatutCommit(r, b) \/ StartCommit(r, b)
      BY <2>1, <3>3 DEF CreateCommit, CancelCommit, SetStatutCommit, StartCommit
    <3> QED BY <2>3, <3>1, <3>2, <3>3 DEF BookingsStep
  <2>4. CASE PaymentsStep(r, b)
    BY <2>1, <2>4 DEF PaymentsStep, PayCommit, ConfirmPayment, FailPayment, MarkProcessing
  <2>5. CASE EscrowStep(r, b)
    BY <2>1, <2>2, <2>5 DEF EscrowStep, ReleaseRead, ReleaseCommit, RefundRead,
                            RefundCommit, Suspended, Working
  <2> QED BY <1>3, <2>3, <2>4, <2>5 DEF Resume
<1> QED BY <1>2, <1>3, RequestStep DEF RequestMove

\* A payment or an escrow is inserted by a request that works on its booking.
LEMMA InsertedByWorker ==
  ASSUME TypeOK, [Next]_vars, NEW b \in Bookings,
         payment[b] = None, escrow[b] = None,
         \A r \in Requests : Working(r) => req[r].booking # b
  PROVE  payment'[b] = None /\ escrow'[b] = None
<1>1. /\ payment \in [Bookings -> PaymentStatut \cup {None}]
      /\ escrow \in [Bookings -> {None, "held", "released"}]
  BY DEF TypeOK, RowsOK
<1>2. ASSUME UNCHANGED rows PROVE payment'[b] = None /\ escrow'[b] = None
  BY <1>2 DEF rows
<1>3. ASSUME NEW r \in Requests, NEW c \in Bookings, Receive(r, c)
      PROVE  UNCHANGED rows
  BY <1>3, ReceiveRows
<1>4. ASSUME NEW r \in Requests, NEW c \in Bookings, BookingsStep(r, c)
      PROVE  payment'[b] = None /\ escrow'[b] = None
  BY <1>4 DEF BookingsStep, CreateCommit, CancelLock, CancelTimeout, CancelCommit,
              CompleteCommit, SetStatutCommit, StartCommit, rows
<1>5. ASSUME NEW r \in Requests, NEW c \in Bookings, PaymentsStep(r, c)
      PROVE  payment'[b] = None /\ escrow'[b] = None
  <2>1. c # b
    BY <1>5 DEF PaymentsStep, PayCommit, ConfirmPayment, FailPayment, MarkProcessing,
                Suspended, Working
  <2> QED
    BY <1>1, <1>5, <2>1 DEF PaymentsStep, PayCommit, ConfirmPayment, FailPayment,
                            MarkProcessing, HoldFunds
<1>6. ASSUME NEW r \in Requests, NEW c \in Bookings, EscrowStep(r, c)
      PROVE  payment'[b] = None /\ escrow'[b] = None
  <2>1. c # b
    BY <1>6 DEF EscrowStep, ReleaseRead, ReleaseCommit, RefundRead, RefundCommit,
                Suspended, Working
  <2> QED
    BY <1>1, <1>6, <2>1 DEF EscrowStep, ReleaseRead, ReleaseCommit, RefundRead,
                            RefundCommit, rows
<1>7. ASSUME NEW r \in Requests, Abort(r) PROVE UNCHANGED rows
  BY <1>7 DEF Abort
<1>8. ASSUME NEW c \in Bookings, OtpExpires(c) PROVE payment'[b] = None /\ escrow'[b] = None
  BY <1>8 DEF OtpExpires
<1>9. CASE UNCHANGED vars
  BY <1>9 DEF vars
<1> QED
  BY <1>2, <1>3, <1>4, <1>5, <1>6, <1>7, <1>8, <1>9 DEF Next, Resume

\* A booking row is inserted by its create request, which ends; it stays.
LEMMA InsertedByCreate ==
  ASSUME TypeOK, BookedOnce, SeatMove, NEW b \in Bookings
  PROVE  /\ booking'[b].statut = None => booking[b].statut = None
         /\ booking[b].statut = None =>
               \/ booking'[b].statut = None
               \/ \E r \in Requests : Suspended(r, "create", b) /\ End(r)
<1>1. booking \in [Bookings -> BookingRow] /\ req \in [Requests -> Request]
  BY DEF TypeOK, RowsOK, RequestsOK
<1>2. CASE UNCHANGED <<booking, seats>>
  BY <1>2
<1>3. CASE \E c \in Bookings : ExpiryMove(c)
  BY <1>1, <1>3 DEF ExpiryMove, BookingRow
<1>4. ASSUME NEW r \in Requests, NEW c \in Bookings, InsertMove(r, c)
      PROVE  /\ booking'[b].statut = None => booking[b].statut = None
             /\ b # c => booking'[b].statut = booking[b].statut
  BY <1>1, <1>4 DEF InsertMove, SetStatut, BookingRow, None
<1>5. ASSUME NEW r \in Requests, NEW c \in Bookings, CancelMove(r, c)
      PROVE  /\ booking'[b].statut = None <=> booking[b].statut = None
  <2>1. booking[c].statut # None
    BY <1>5 DEF CancelMove, Suspended, BookedOnce
  <2> QED BY <1>1, <1>5, <2>1 DEF CancelMove, SetStatut, BookingRow, None
<1>6. ASSUME NEW r \in Requests, NEW c \in Bookings, WriteMove(r, c)
      PROVE  /\ booking'[b].statut = None <=> booking[b].statut = None
  <2>1. booking[c].statut # None
    BY <1>6 DEF WriteMove, BookedOnce
  <2> QED BY <1>1, <1>6, <2>1 DEF WriteMove
<1> QED
  BY <1>2, <1>3, <1>4, <1>5, <1>6 DEF SeatMove, InsertMove

LEMMA StepBookedOnce == TypeOK /\ BookedOnce /\ [Next]_vars => BookedOnce'
<1> SUFFICES ASSUME TypeOK, BookedOnce, [Next]_vars PROVE BookedOnce'
  OBVIOUS
<1>1. req \in [Requests -> Request]
      /\ \A r \in Requests : req[r].at # "idle" => req[r].booking \in Bookings
  BY DEF TypeOK, RequestsOK
<1>2. SeatMove
  BY SeatStep
<1>3. \A r \in Requests : RequestMove(r)
  BY RequestMoves
<1>4. \A b \in Bookings : booking'[b].statut = None => booking[b].statut = None
  BY <1>2, InsertedByCreate
<1>5. ASSUME NEW r \in Requests, req[r].at = "create", req'[r] = req[r]
      PROVE  booking'[req[r].booking].statut = None
  <2>1. req[r].booking \in Bookings /\ booking[req[r].booking].statut = None
    BY <1>1, <1>5 DEF BookedOnce
  <2>2. ASSUME NEW q \in Requests, Suspended(q, "create", req[r].booking), End(q)
        PROVE  FALSE
    <3>1. q = r
      BY <1>5, <2>2 DEF BookedOnce, Suspended
    <3> QED BY <1>1, <1>5, <2>2, <3>1 DEF End, Idle
  <2> QED BY <1>2, <2>1, <2>2, InsertedByCreate
<1>6. ASSUME NEW b \in Bookings, booking'[b].statut = None
      PROVE  payment'[b] = None /\ escrow'[b] = None
  <2>1. payment[b] = None /\ escrow[b] = None
        /\ \A r \in Requests : Working(r) => req[r].booking # b
    BY <1>4, <1>6 DEF BookedOnce, Working
  <2> QED BY <2>1, InsertedByWorker
<1>7. ASSUME NEW r \in Requests, req'[r].at = "create"
      PROVE  booking'[req'[r].booking].statut = None
  <2>1. ASSUME NEW b \in Bookings, Begin(r, "create", b, None), booking[b].statut = None,
               \A q \in Requests : req[q].at = "create" => req[q].booking # b
        PROVE  booking'[req'[r].booking].statut = None
    <3>1. req'[r].booking = b
      BY <1>1, <2>1 DEF Begin
    <3> QED BY <1>2, <2>1, <3>1, InsertedByCreate DEF Suspended
  <2> QED BY <1>3, <1>5, <1>7, <2>1 DEF RequestMove, Idle
<1>8. ASSUME NEW r \in Requests, req'[r].at \notin {"idle", "create"}
      PROVE  booking'[req'[r].booking].statut # None
  BY <1>1, <1>3, <1>4, <1>8 DEF RequestMove, BookedOnce, Untouched, Working, Begin, Idle
<1>9. ASSUME NEW r \in Requests, NEW q \in Requests, req'[r].at = "create",
             req'[q].at = "create", req'[r].booking = req'[q].booking
      PROVE  r = q
  BY <1>1, <1>3, <1>9 DEF RequestMove, BookedOnce, Begin, Idle
<1> QED BY <1>6, <1>7, <1>8, <1>9 DEF BookedOnce
\* However many requests there are, a booking is inserted once.
LEMMA BookedOnceHolds == Spec => []BookedOnce
<1>1. Init => BookedOnce
  BY DEF Init, BookedOnce, Idle, None
<1> QED BY <1>1, StepBookedOnce, TypeCorrect, PTL DEF Spec

\* What a step does to the free and to the occupied seats of a vehicle.
SeatsTaken(v, b) ==
  /\ VehicleOf[b] = v
  /\ seats'[v] = seats[v] - PlacesOf[b]
  /\ TotalPlaces(Occupying(v))' = TotalPlaces(Occupying(v)) + PlacesOf[b]
SeatsGiven(v, b) ==
  /\ VehicleOf[b] = v
  /\ seats'[v] = seats[v] + PlacesOf[b]
  /\ TotalPlaces(Occupying(v))'
     = TotalPlaces(Occupying(v)) - (IF Live(b) THEN PlacesOf[b] ELSE 0)
Revived(b) == booking[b].statut = "CANCELLED" /\ booking'[b].statut # "CANCELLED"
SeatsKept(v) ==
  /\ seats'[v] = seats[v]
  /\ \/ TotalPlaces(Occupying(v))' = TotalPlaces(Occupying(v))
     \/ /\ TotalPlaces(Occupying(v))' >= TotalPlaces(Occupying(v))
        /\ \E b \in Bookings : Revived(b)
SeatChange(v) ==
  \/ SeatsKept(v)
  \/ \E r \in Requests, b \in Bookings : InsertMove(r, b) /\ SeatsTaken(v, b)
  \/ \E r \in Requests, b \in Bookings : CancelMove(r, b) /\ SeatsGiven(v, b)

LEMMA SeatChanges ==
  ASSUME TypeOK, BookedOnce, [Next]_vars, NEW v \in Vehicles
  PROVE  /\ TotalPlaces(Occupying(v)) \in Nat /\ TotalPlaces(Occupying(v))' \in Nat
         /\ SeatChange(v)
<1> DEFINE n == TotalPlaces(Occupying(v))
           m == TotalPlaces(Occupying(v))'
<1>1. /\ booking \in [Bookings -> BookingRow] /\ seats \in [Vehicles -> Int]
      /\ VehicleOf \in [Bookings -> Vehicles] /\ PlacesOf \in [Bookings -> Nat \ {0}]
  BY ConstantsAssumption DEF TypeOK, RowsOK
<1>2. SeatMove
  BY SeatStep
<1>3. ASSUME \A c \in Bookings : Live(c)' = Live(c), UNCHANGED seats
      PROVE  n \in Nat /\ m \in Nat /\ SeatChange(v)
  <2>1. n \in Nat /\ m = n
    BY <1>3, PlacesTotalSame
  <2> QED BY <1>3, <2>1 DEF SeatChange, SeatsKept
<1>4. CASE UNCHANGED <<booking, seats>>
  BY <1>3, <1>4 DEF Live
<1>5. CASE (\E b \in Bookings : ExpiryMove(b)) /\ UNCHANGED seats
  BY <1>1, <1>3, <1>5 DEF Live, ExpiryMove, BookingRow
<1>6. ASSUME NEW b \in Bookings, \A c \in Bookings \ {b} : Live(c)' = Live(c)
      PROVE  /\ n \in Nat /\ m \in Nat
             /\ VehicleOf[b] # v \/ (Live(b) <=> Live(b)') => m = n
             /\ VehicleOf[b] = v /\ Live(b) /\ ~Live(b)' => m = n - PlacesOf[b]
             /\ VehicleOf[b] = v /\ ~Live(b) /\ Live(b)' => m = n + PlacesOf[b]
  BY <1>6, PlacesTotal, Zenon
<1> HIDE DEF n, m
<1>7. ASSUME NEW r \in Requests, NEW b \in Bookings, InsertMove(r, b)
      PROVE  n \in Nat /\ m \in Nat /\ SeatChange(v)
  <2>1. booking[b].statut = None
    BY <1>7 DEF InsertMove, Suspended, BookedOnce
  <2>2. /\ \A c \in Bookings \ {b} : Live(c)' = Live(c)
        /\ ~Live(b) /\ Live(b)'
    BY <1>1, <1>7, <2>1 DEF InsertMove, SetStatut, BookingRow, Live, None
  <2>3. /\ n \in Nat /\ m \in Nat
        /\ VehicleOf[b] # v => m = n
        /\ VehicleOf[b] = v => m = n + PlacesOf[b]
    BY <1>6, <2>2
  <2>4. seats'[v] = IF VehicleOf[b] = v THEN seats[v] - PlacesOf[b] ELSE seats[v]
    BY <1>1, <1>7 DEF InsertMove
  <2>5. CASE VehicleOf[b] = v
    <3>1. seats'[v] = seats[v] - PlacesOf[b] /\ m = n + PlacesOf[b]
      BY <2>3, <2>4, <2>5
    <3> QED BY <1>7, <2>3, <2>5, <3>1 DEF SeatChange, SeatsTaken, n, m
  <2>6. CASE VehicleOf[b] # v
    <3>1. seats'[v] = seats[v] /\ m = n
      BY <2>3, <2>4, <2>6
    <3> QED BY <2>3, <3>1 DEF SeatChange, SeatsKept, n, m
  <2> QED BY <2>3, <2>5, <2>6
<1>8. ASSUME NEW r \in Requests, NEW b \in Bookings, CancelMove(r, b)
      PROVE  n \in Nat /\ m \in Nat /\ SeatChange(v)
  <2>1. /\ \A c \in Bookings \ {b} : Live(c)' = Live(c)
        /\ ~Live(b)'
    BY <1>1, <1>8 DEF CancelMove, SetStatut, BookingRow, Live
  <2>2. /\ n \in Nat /\ m \in Nat
        /\ VehicleOf[b] # v => m = n
        /\ VehicleOf[b] = v => m = n - (IF Live(b) THEN PlacesOf[b] ELSE 0)
    BY <1>1, <1>6, <2>1
  <2>3. seats'[v] = IF VehicleOf[b] = v THEN seats[v] + PlacesOf[b] ELSE seats[v]
    BY <1>1, <1>8 DEF CancelMove
  <2>4. CASE VehicleOf[b] = v
    <3>1. /\ seats'[v] = seats[v] + PlacesOf[b]
          /\ m = n - (IF Live(b) THEN PlacesOf[b] ELSE 0)
      BY <2>2, <2>3, <2>4
    <3> QED BY <1>8, <2>2, <2>4, <3>1 DEF SeatChange, SeatsGiven, n, m
  <2>5. CASE VehicleOf[b] # v
    <3>1. seats'[v] = seats[v] /\ m = n
      BY <2>2, <2>3, <2>5
    <3> QED BY <2>2, <3>1 DEF SeatChange, SeatsKept, n, m
  <2> QED BY <2>2, <2>4, <2>5
<1>9. ASSUME NEW r \in Requests, NEW b \in Bookings, WriteMove(r, b)
      PROVE  n \in Nat /\ m \in Nat /\ SeatChange(v)
  <2>1. /\ \A c \in Bookings \ {b} : Live(c)' = Live(c)
        /\ Live(b)'
    BY <1>1, <1>9 DEF WriteMove, Live
  <2>2. Live(b) \/ Revived(b)
    BY <1>1, <1>9, <2>1 DEF WriteMove, BookedOnce, Live, Revived
  <2>3. n \in Nat /\ m \in Nat /\ m >= n /\ (Live(b) => m = n)
    BY <1>1, <1>6, <2>1
  <2> QED BY <1>9, <2>2, <2>3 DEF WriteMove, SeatChange, SeatsKept, n, m
<1>10. n \in Nat /\ m \in Nat /\ SeatChange(v)
  BY <1>2, <1>4, <1>5, <1>7, <1>8, <1>9 DEF SeatMove, n, m
<1> QED BY <1>10 DEF n, m

\* However requests interleave, every seat of a vehicle is free or occupied by
\* a booking that was not cancelled: two creations or two cancellations at
\* once, or a payment confirmed after a cancellation, may count a seat twice
\* but never lose one.
THEOREM SeatsNeverLostHolds == Spec => []SeatsNeverLost
<1>1. Init => SeatsNeverLost
  <2> SUFFICES ASSUME Init, NEW v \in Vehicles
               PROVE  seats[v] + TotalPlaces(Occupying(v)) >= Capacity[v]
    BY DEF SeatsNeverLost
  <2>1. Occupying(v) = {}
    BY DEF Init, Occupying
  <2> QED BY <2>1, SumEmpty, ConstantsAssumption DEF Init, TotalPlaces
<1>2. TypeOK /\ BookedOnce /\ SeatsNeverLost /\ [Next]_vars => SeatsNeverLost'
  <2> SUFFICES ASSUME TypeOK, BookedOnce, SeatsNeverLost, [Next]_vars, NEW v \in Vehicles
               PROVE  seats'[v] + TotalPlaces(Occupying(v))' >= Capacity[v]
    BY DEF SeatsNeverLost
  <2>1. /\ seats[v] \in Int /\ Capacity[v] \in Nat
        /\ \A b \in Bookings : PlacesOf[b] \in Nat
        /\ seats[v] + TotalPlaces(Occupying(v)) >= Capacity[v]
    BY ConstantsAssumption DEF TypeOK, RowsOK, SeatsNeverLost
  <2>2. /\ TotalPlaces(Occupying(v)) \in Nat /\ TotalPlaces(Occupying(v))' \in Nat
        /\ SeatChange(v)
    BY SeatChanges
  <2> QED BY <2>1, <2>2 DEF SeatChange, SeatsKept, SeatsTaken, SeatsGiven
<1> QED BY <1>1, <1>2, BookedOnceHolds, TypeCorrect, PTL DEF Spec

\* A creation in flight read enough free seats, and nobody takes them meanwhile.
EnoughSeats ==
  \A r \in Requests, b \in Bookings :
     Suspended(r, "create", b) => seats[VehicleOf[b]] >= PlacesOf[b]

\* One request at a time, placesDisponibles never goes below zero: the seats
\* that create saw are still there when it takes them.
THEOREM SeatsNeverNegativeHolds == ASSUME OneRequestAtATime PROVE Spec => []SeatsNeverNegative
<1>1. Init => EnoughSeats /\ SeatsNeverNegative
  BY ConstantsAssumption DEF Init, EnoughSeats, SeatsNeverNegative, Suspended, Idle
<1>2. TypeOK /\ BookedOnce /\ EnoughSeats /\ [Next]_vars => EnoughSeats'
  <2> SUFFICES ASSUME TypeOK, BookedOnce, EnoughSeats, [Next]_vars,
                      NEW r \in Requests, NEW b \in Bookings, Suspended(r, "create", b)'
               PROVE  seats'[VehicleOf[b]] >= PlacesOf[b]
    BY DEF EnoughSeats
  <2>1. req \in [Requests -> Request] /\ \A q \in Requests : q = r
    BY DEF TypeOK, RequestsOK, OneRequestAtATime
  <2>2. UNCHANGED seats
    BY <2>1, SeatStep DEF SeatMove, InsertMove, CancelMove, WriteMove, Suspended, End, Goto, Idle, Request
  <2>3. seats[VehicleOf[b]] >= PlacesOf[b]
    BY <2>1, RequestMoves DEF RequestMove, EnoughSeats, Suspended, Begin, Idle
  <2> QED BY <2>2, <2>3
<1>3. TypeOK /\ BookedOnce /\ EnoughSeats /\ SeatsNeverNegative /\ [Next]_vars => SeatsNeverNegative'
  <2> SUFFICES ASSUME TypeOK, BookedOnce, EnoughSeats, SeatsNeverNegative, [Next]_vars,
                      NEW v \in Vehicles
               PROVE  seats'[v] >= 0
    BY DEF SeatsNeverNegative
  <2>1. /\ seats[v] \in Int /\ seats[v] >= 0
        /\ \A b \in Bookings : PlacesOf[b] \in Nat
    BY ConstantsAssumption DEF TypeOK, RowsOK, SeatsNeverNegative
  <2>2. SeatChange(v)
    BY SeatChanges
  <2>3. ASSUME NEW r \in Requests, NEW b \in Bookings, InsertMove(r, b), VehicleOf[b] = v
        PROVE  seats[v] >= PlacesOf[b]
    BY <2>3 DEF EnoughSeats, InsertMove
  <2> QED BY <2>1, <2>2, <2>3 DEF SeatChange, SeatsKept, SeatsTaken, SeatsGiven
<1> QED BY <1>1, <1>2, <1>3, BookedOnceHolds, TypeCorrect, PTL DEF Spec

\* A cancellation in flight was accepted for a booking that was not cancelled.
CancelPlaces == {"cancelUnpaid", "cancelPaid", "refundRead", "refundCommit", "cancelCommit"}
CancelsLive ==
  \A r \in Requests :
     req[r].at \in CancelPlaces => booking[req[r].booking].statut # "CANCELLED"

LEMMA StepCancelsLive ==
  ASSUME OneRequestAtATime, TypeOK, CancelsLive, [Next]_vars
  PROVE  CancelsLive'
<1> SUFFICES ASSUME NEW r \in Requests, req'[r].at \in CancelPlaces
             PROVE  booking'[req'[r].booking].statut # "CANCELLED"
  BY DEF CancelsLive
<1>1. /\ req \in [Requests -> Request] /\ booking \in [Bookings -> BookingRow]
      /\ \A q \in Requests : q = r
      /\ req[r].at # "idle" => req[r].booking \in Bookings
  BY DEF TypeOK, RequestsOK, RowsOK, OneRequestAtATime
<1>2. \A b \in Bookings : booking'[b].statut = booking[b].statut
  <2>1. ASSUME NEW q \in Requests, End(q) \/ Goto(q, "releaseRead") PROVE FALSE
    BY <1>1, <2>1 DEF End, Goto, Idle, Request, CancelPlaces
  <2>2. UNCHANGED booking \/ \E b \in Bookings : ExpiryMove(b)
    BY <2>1, SeatStep DEF SeatMove, InsertMove, CancelMove, WriteMove
  <2> QED BY <1>1, <2>2 DEF ExpiryMove, BookingRow
<1>3. CASE req'[r] = req[r]
  BY <1>1, <1>2, <1>3 DEF CancelsLive, CancelPlaces
<1>4. ASSUME NEW b \in Bookings, Receive(r, b)
      PROVE  req'[r].booking = b /\ booking[b].statut # "CANCELLED"
  <2>1. CASE CancelRead(r, b)
    BY <1>1, <2>1 DEF CancelRead, Begin
  <2>2. CASE \/ CreateRead(r, b) \/ CompleteRead(r, b) \/ SetStatutRead(r, b)
             \/ StartRead(r, b) \/ PayRead(r, b) \/ ReceiveWebhook(r, b)
             \/ WalletRelease(r, b)
    BY <1>1, <2>2 DEF CreateRead, CompleteRead, SetStatutRead, StartRead, PayRead,
                      ReceiveWebhook, WalletRelease, Begin, CancelPlaces
  <2> QED BY <1>4, <2>1, <2>2 DEF Receive
<1>5. ASSUME NEW b \in Bookings, Resume(r, b)
      PROVE  req[r].at \in CancelPlaces /\ req'[r].booking = req[r].booking
  <2>1. ~End(r)
    BY <1>1 DEF End, Idle, CancelPlaces
  <2>2. CASE BookingsStep(r, b)
    BY <1>1, <2>1, <2>2 DEF BookingsStep, CreateCommit, CancelLock, CancelTimeout,
         CancelCommit, CompleteCommit, SetStatutCommit, StartCommit, Suspended, Goto,
         Request, CancelPlaces
  <2>3. CASE PaymentsStep(r, b)
    BY <2>1, <2>3 DEF PaymentsStep, PayCommit, ConfirmPayment, FailPayment, MarkProcessing
  <2>4. CASE EscrowStep(r, b)
    BY <1>1, <2>1, <2>4 DEF EscrowStep, ReleaseRead, ReleaseCommit, RefundRead,
         RefundCommit, Suspended, Goto, Request, CancelPlaces
  <2> QED BY <1>5, <2>2, <2>3, <2>4 DEF Resume
<1>6. CASE \E b \in Bookings : Receive(r, b)
  BY <1>2, <1>4, <1>6
<1>7. CASE \E b \in Bookings : Resume(r, b)
  BY <1>1, <1>2, <1>5, <1>7 DEF CancelsLive, CancelPlaces
<1>8. req'[r] # Idle
  BY DEF Idle, CancelPlaces
<1> QED BY <1>3, <1>6, <1>7, <1>8, RequestStep

\* One request at a time, a step that revives no booking neither makes nor
\* loses a seat.
LEMMA SeatsBalance ==
  ASSUME TypeOK, BookedOnce, CancelsLive, [Next]_vars, NEW v \in Vehicles,
         \A b \in Bookings : ~Revived(b)
  PROVE  seats'[v] + TotalPlaces(Occupying(v))' = seats[v] + TotalPlaces(Occupying(v))
<1>1. seats[v] \in Int /\ \A b \in Bookings : PlacesOf[b] \in Nat
  BY ConstantsAssumption DEF TypeOK, RowsOK
<1>2. /\ TotalPlaces(Occupying(v)) \in Nat /\ TotalPlaces(Occupying(v))' \in Nat
      /\ SeatChange(v)
  BY SeatChanges
<1>3. ASSUME NEW r \in Requests, NEW b \in Bookings, CancelMove(r, b)
      PROVE  Live(b)
  <2>1. /\ req[r].at \in CancelPlaces /\ req[r].booking = b
        /\ req[r].at \notin {"idle", "create"}
    BY <1>3 DEF CancelMove, Suspended, CancelPlaces
  <2> QED BY <2>1 DEF CancelsLive, BookedOnce, Live
<1> QED BY <1>1, <1>2, <1>3 DEF SeatChange, SeatsKept, SeatsTaken, SeatsGiven

\* One request at a time, a vehicle is overbooked by a revival only: as long as
\* no callback makes a CANCELLED booking PAID again, the bookings of a vehicle
\* never occupy more places than it has.
THEOREM OverbookedOnlyByRevival ==
  ASSUME OneRequestAtATime
  PROVE  Spec /\ [][NothingRevives]_vars => []NeverOverbooked
<1> DEFINE Exact == \A v \in Vehicles :
                       seats[v] + TotalPlaces(Occupying(v)) = Capacity[v]
<1>1. Init => CancelsLive /\ Exact
  <2> SUFFICES ASSUME Init PROVE CancelsLive /\ Exact
    OBVIOUS
  <2>1. CancelsLive
    BY DEF Init, CancelsLive, CancelPlaces, Idle
  <2>2. ASSUME NEW v \in Vehicles PROVE seats[v] + TotalPlaces(Occupying(v)) = Capacity[v]
    <3>1. Occupying(v) = {}
      BY DEF Init, Occupying
    <3> QED BY <3>1, SumEmpty, ConstantsAssumption DEF Init, TotalPlaces
  <2> QED BY <2>1, <2>2
<1>2. TypeOK /\ CancelsLive /\ [Next]_vars => CancelsLive'
  BY StepCancelsLive
<1>3. TypeOK /\ BookedOnce /\ CancelsLive /\ Exact /\ [Next]_vars /\ [NothingRevives]_vars
         => Exact'
  <2> SUFFICES ASSUME TypeOK, BookedOnce, CancelsLive, Exact, [Next]_vars,
                      [NothingRevives]_vars, NEW v \in Vehicles
               PROVE  seats'[v] + TotalPlaces(Occupying(v))' = Capacity[v]
    OBVIOUS
  <2>1. \A b \in Bookings : ~Revived(b)
    BY DEF NothingRevives, Revived, vars
  <2>2. seats'[v] + TotalPlaces(Occupying(v))' = seats[v] + TotalPlaces(Occupying(v))
    BY <2>1, SeatsBalance
  <2> QED BY <2>2
<1>4. TypeOK /\ BookedOnce /\ SeatsNeverNegative /\ Exact => NeverOverbooked
  <2> SUFFICES ASSUME TypeOK, SeatsNeverNegative, Exact, NEW v \in Vehicles
               PROVE  TotalPlaces(Occupying(v)) =< Capacity[v]
    BY DEF NeverOverbooked
  <2>1. /\ seats[v] \in Int /\ seats[v] >= 0
        /\ seats[v] + TotalPlaces(Occupying(v)) = Capacity[v]
    BY DEF TypeOK, RowsOK, SeatsNeverNegative
  <2>2. TotalPlaces(Occupying(v)) \in Nat
    <3>1. Occupying(v) \in SUBSET Bookings
      BY DEF Occupying
    <3> QED BY <3>1, LedgerAssumption, ConstantsAssumption, FS_Subset, SumType DEF TotalPlaces
  <2> QED BY <2>1, <2>2
<1> HIDE DEF Exact
<1> QED
  BY <1>1, <1>2, <1>3, <1>4, BookedOnceHolds, SeatsNeverNegativeHolds, TypeCorrect, PTL DEF Spec
=============================================================================
