------------------------------ MODULE MCPayouts ------------------------------
(***************************************************************************)
(* Small instances of Payouts for TLC: two trips worth 1 and 2, and two    *)
(* withdrawals of 1 and 2, of which the operator refuses the second.       *)
(***************************************************************************)
EXTENDS Payouts

CONSTANTS b1, b2, v1, d1, r1, w1, w2

MCVehicleOf == [b \in Bookings |-> v1]
MCDriverOf == [v \in Vehicles |-> d1]
MCPlacesOf == [b \in Bookings |-> IF b = b1 THEN 1 ELSE 2]
MCCapacity == [v \in Vehicles |-> 3]
MCOwnerOf == [w \in Withdrawals |-> d1]
MCAmount == [w \in Withdrawals |-> IF w = w1 THEN 1 ELSE 2]
OneVerdict == [w \in Withdrawals |-> IF w = w1 THEN {"PROCESSING", "COMPLETED"} ELSE {"FAILED"}]

Documented == {"CONFIRMED", "COMPLETED", "CANCELLED"}
FinalCallback == {"COMPLETED"}
=============================================================================
