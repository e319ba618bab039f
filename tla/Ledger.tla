------------------------------- MODULE Ledger -------------------------------
(***************************************************************************)
(* What the columns of many rows add up to: wallets against the escrows of *)
(* the driver's bookings, free seats against the vehicle's bookings.       *)
(***************************************************************************)
EXTENDS TripFunds, Sums

\* The database holds finitely many bookings.
ASSUME LedgerAssumption == IsFiniteSet(Bookings)

EscrowsOf(d, states) == {b \in Bookings : Driver(b) = d /\ escrow[b] \in states}
TotalPrice(S) == SumOver([b \in Bookings |-> Price(b)], S)
TotalPlaces(S) == SumOver(PlacesOf, S)

\* What the passengers of driver d's bookings have in escrow, in those states.
Escrowed(d, states) == TotalPrice(EscrowsOf(d, states))

\* The bookings that occupy seats of vehicle v.
Occupying(v) ==
    {b \in Bookings : VehicleOf[b] = v /\ booking[b].statut \notin {None, "CANCELLED"}}

\* Whatever the interleaving, a driver's total never exceeds what the
\* passengers of his bookings paid into escrow, once each.
NeverOverCredited ==
    \A d \in Drivers : wallet[d].balance =< Escrowed(d, {"held", "released"})

\* Whatever the interleaving, seats are never lost: every seat of a vehicle is
\* free or occupied by a booking that was not cancelled.
SeatsNeverLost ==
    \A v \in Vehicles : seats[v] + TotalPlaces(Occupying(v)) >= Capacity[v]

\* One request at a time, pendingBalance is the money held in escrow ("En
\* attente (trajet non validé)"), so it is never negative.
PendingIsHeld ==
    \A d \in Drivers : wallet[d].pending = Escrowed(d, {"held"})

\* One request at a time, placesDisponibles is never negative: the check of
\* create ('Pas assez de places disponibles') still covers its decrement.
SeatsNeverNegative == \A v \in Vehicles : seats[v] >= 0

\* What that check is for: the bookings of a vehicle never occupy more places
\* than it has.  Even one request at a time the code does not keep it: a
\* COMPLETED callback that comes after the cancellation makes the booking PAID
\* again and takes no seats, which may have been sold to somebody else.
NeverOverbooked == \A v \in Vehicles : TotalPlaces(Occupying(v)) =< Capacity[v]

\* No step turns a CANCELLED booking into anything else.
NothingRevives ==
    \A b \in Bookings : booking[b].statut = "CANCELLED" => booking'[b].statut = "CANCELLED"
=============================================================================
