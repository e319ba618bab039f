------------------------------- MODULE MCFleet -------------------------------
(***************************************************************************)
(* Small instances of Fleet for TLC: two bookings of one vehicle, whose    *)
(* driver changes its capacity between 2 and 3 seats, and one freight.     *)
(***************************************************************************)
EXTENDS Fleet

CONSTANTS b1, b2, v1, d1, r1, f1, q1, a1, a2

MCVehicleOf == [b \in Bookings |-> v1]
MCDriverOf == [v \in Vehicles |-> d1]
MCPlacesOf == [b \in Bookings |-> IF b = b1 THEN 1 ELSE 2]
MCCapacity == [v \in Vehicles |-> 0]

Documented == {"CONFIRMED", "COMPLETED", "CANCELLED"}
FinalCallback == {"COMPLETED"}
=============================================================================
