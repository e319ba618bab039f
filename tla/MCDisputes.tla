----------------------------- MODULE MCDisputes -----------------------------
(***************************************************************************)
(* Small instances of Disputes for TLC: one booking and two disputes about *)
(* it.                                                                     *)
(***************************************************************************)
EXTENDS Disputes

CONSTANTS b1, v1, d1, r1, r2, x1, x2

MCVehicleOf == [b \in Bookings |-> v1]
MCDriverOf == [v \in Vehicles |-> d1]
MCPlacesOf == [b \in Bookings |-> 1]
MCCapacity == [v \in Vehicles |-> 1]
MCDisputeOf == [x \in Disputes |-> b1]

Documented == {"CONFIRMED", "COMPLETED", "CANCELLED"}
AnyCallback == {"PROCESSING", "COMPLETED", "FAILED"}
FinalCallback == {"COMPLETED"}
=============================================================================
