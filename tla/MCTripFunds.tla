---------------------------- MODULE MCTripFunds -----------------------------
(***************************************************************************)
(* Small instances of TripFunds for TLC.                                   *)
(***************************************************************************)
EXTENDS Ledger

CONSTANTS b1, b2, v1, d1, r1, r2, r3

MCVehicles == {v1}
MCDrivers == {d1}
MCVehicleOf == [b \in Bookings |-> v1]
MCDriverOf == [v \in Vehicles |-> d1]
\* The second booking asks for two seats, so the prices differ.
MCPlacesOf == [b \in Bookings |-> IF b = b1 THEN 1 ELSE 2]
MCCapacity == [v \in Vehicles |-> 3]
\* A vehicle with one seat less than the bookings ask for together.
TightCapacity == [v \in Vehicles |-> 2]

\* The statuses updateStatus has a branch for, and all of them: DISPUTE stands
\* for BOARDING and INCIDENT too, none of which any handler tests.
Documented == {"CONFIRMED", "COMPLETED", "CANCELLED"}
AnyStatut == BookingStatut \ {"BOARDING", "INCIDENT"}
\* The callbacks of an operator that may take its word back, or never does.
AnyCallback == {"PROCESSING", "COMPLETED", "FAILED"}
FinalCallback == {"COMPLETED"}
=============================================================================
