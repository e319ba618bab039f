--------------------------- MODULE MCNotifications --------------------------
(***************************************************************************)
(* Small instances of Notifications for TLC: one booking, its passenger    *)
(* and its driver, and the notes about its payment and its end.            *)
(***************************************************************************)
EXTENDS Notifications

CONSTANTS b1, v1, d1, r1, r2, u1, u2

MCVehicleOf == [b \in Bookings |-> v1]
MCDriverOf == [v \in Vehicles |-> d1]
MCPlacesOf == [b \in Bookings |-> 1]
MCCapacity == [v \in Vehicles |-> 1]
MCPassengerUser == [b \in Bookings |-> u1]
MCDriverUser == [d \in Drivers |-> u2]

Documented == {"CONFIRMED", "COMPLETED", "CANCELLED"}
AnyCallback == {"PROCESSING", "COMPLETED", "FAILED"}
FinalCallback == {"COMPLETED"}
=============================================================================
