------------------------------- MODULE Schema -------------------------------
(***************************************************************************)
(* The shared state of AutoConnect's money path: the PostgreSQL rows that  *)
(* bookings, payments, escrow and wallet handlers read and write through   *)
(* Prisma (prisma/schema.prisma), and the HTTP requests in flight.         *)
(*                                                                         *)
(* A handler is an async function.  Between two of its awaits any other    *)
(* handler may run, so a request is a process: it reads its rows, checks   *)
(* them, and later writes what it decided, whatever the rows hold by then. *)
(* A request that fails its first checks changes nothing and is no action. *)
(***************************************************************************)
EXTENDS Integers

CONSTANTS
    Bookings,          \* one identifier per booking a passenger may ask for
    Vehicles,
    Drivers,
    Requests,          \* the requests the server runs at the same time
    NoBooking,         \* the booking of an idle request
    VehicleOf,         \* Bookings -> Vehicles: dto.vehicleId
    PlacesOf,          \* Bookings -> Nat \ {0}: dto.places, @Min(1)
    DriverOf,          \* Vehicles -> Drivers: vehicle.driverId
    Capacity,          \* Vehicles -> Nat: vehicle.capacite
    UnitPrice,         \* prixUnitaire, in units of 100 000 GNF
    RequestedStatuts,  \* the dto.statut values clients send
    WebhookStatuts,    \* the dto.statut values the operator sends
    MayAbort,          \* whether a request may die half-way (crash, timeout)
    SeatLimit          \* bound: no cancellation is sent above these free seats

BookingStatut ==
    {"PENDING", "CONFIRMED", "PAID", "BOARDING", "IN_PROGRESS", "COMPLETED",
     "FUNDS_RELEASED", "CANCELLED", "DISPUTE", "INCIDENT"}

PaymentStatut == {"PENDING", "PROCESSING", "COMPLETED", "FAILED", "REFUNDED"}

\* A row that has not been inserted yet has the status "none".
None == "none"

ASSUME ConstantsAssumption ==
    /\ NoBooking \notin Bookings
    /\ VehicleOf \in [Bookings -> Vehicles]
    /\ PlacesOf \in [Bookings -> Nat \ {0}]
    /\ DriverOf \in [Vehicles -> Drivers]
    /\ Capacity \in [Vehicles -> Nat]
    /\ UnitPrice \in Nat \ {0}
    /\ RequestedStatuts \subseteq BookingStatut
    /\ WebhookStatuts \subseteq {"PROCESSING", "COMPLETED", "FAILED"}
    /\ MayAbort \in BOOLEAN
    /\ SeatLimit \in Nat

VARIABLES
    booking,   \* bookings: statut, otpCode (with its expiry), qrCode issued?
    seats,     \* vehicles.placesDisponibles
    payment,   \* payments.statut; bookingId is unique, so one row per booking
    escrow,    \* escrow: none, held (isHeld) or released (isReleased)
    wallet,    \* wallets: balance, pendingBalance, withdrawableBalance
    req        \* the requests in flight: where each stands and on what

vars == <<booking, seats, payment, escrow, wallet, req>>
rows == <<booking, seats, payment, escrow, wallet>>

Driver(b) == DriverOf[VehicleOf[b]]
Price(b) == UnitPrice * PlacesOf[b]

(***************************************************************************)
(* Requests.  "at" is the await the handler is suspended at; what its      *)
(* checks concluded from the rows it read is part of that place.           *)
(***************************************************************************)
Place == {"idle", "create", "cancelUnpaid", "cancelPaid", "refundRead",
          "refundCommit", "cancelCommit", "setStatut", "complete",
          "releaseRead", "releaseCommit", "start", "pay", "confirmPayment",
          "failPayment", "markProcessing"}

Idle == [at |-> "idle", booking |-> NoBooking, target |-> None]

Begin(r, place, b, s) ==
    /\ req[r].at = "idle"
    /\ req' = [req EXCEPT ![r] = [at |-> place, booking |-> b, target |-> s]]
Goto(r, place) == req' = [req EXCEPT ![r].at = place]
End(r) == req' = [req EXCEPT ![r] = Idle]

\* The row of request r's booking, when r is suspended at the given place.
Suspended(r, place, b) == req[r].at = place /\ req[r].booking = b

(***************************************************************************)
(* The one transaction that stays open across awaits on another connection *)
(* is the cancellation of a paid booking: it keeps its booking row and its *)
(* vehicle row locked while the refund runs, until it commits or times out *)
(* ("target" is then "none").  Every other transaction is a batch of       *)
(* writes that commits as one step.                                        *)
(***************************************************************************)
HoldsLocks(r) ==
    req[r].at \in {"refundRead", "refundCommit", "cancelCommit"} /\ req[r].target = "CANCELLED"

BookingRowFree(r, b) ==
    \A s \in Requests \ {r} : HoldsLocks(s) => req[s].booking # b
VehicleRowFree(r, v) ==
    \A s \in Requests \ {r} : HoldsLocks(s) => VehicleOf[req[s].booking] # v

SetStatut(b, s) == booking' = [booking EXCEPT ![b].statut = s]

\* Relative updates ({increment}, {decrement}) of the driver's wallet row.
Credit(d, balance, pending, withdrawable) ==
    wallet' = [wallet EXCEPT ![d] =
                 [balance |-> @.balance + balance,
                  pending |-> @.pending + pending,
                  withdrawable |-> @.withdrawable + withdrawable]]

-----------------------------------------------------------------------------
BookingRow == [statut : BookingStatut \cup {None},
               otpCode : {"null", "valid", "expired"},
               qrCode : BOOLEAN]
WalletRow == [balance : Int, pending : Int, withdrawable : Int]
Request == [at : Place, booking : Bookings \cup {NoBooking},
            target : BookingStatut \cup {None}]

RowsOK ==
    /\ booking \in [Bookings -> BookingRow]
    /\ seats \in [Vehicles -> Int]
    /\ payment \in [Bookings -> PaymentStatut \cup {None}]
    /\ escrow \in [Bookings -> {None, "held", "released"}]
    /\ wallet \in [Drivers -> WalletRow]

RequestsOK ==
    /\ req \in [Requests -> Request]
    /\ \A r \in Requests : req[r].at # "idle" => req[r].booking \in Bookings
    /\ \A r \in Requests :
          req[r].at = "setStatut" =>
             req[r].target \in RequestedStatuts \ {"CANCELLED", "COMPLETED"}

\* The columns have their types, a request in flight is about a booking, and
\* updateStatus' last branch never writes a statut that has its own branch.
TypeOK == RowsOK /\ RequestsOK
=============================================================================
