----------------------------- MODULE MCRowLocks -----------------------------
(***************************************************************************)
(* Small instances of RowLocks for TLC: two bookings of one vehicle and    *)
(* one driver, three requests.                                             *)
(***************************************************************************)
EXTENDS RowLocks

CONSTANTS b1, b2, v1, d1

MCVehicleOf == [b \in Bookings |-> v1]
MCDriverOf == [b \in Bookings |-> d1]
=============================================================================
