SPECIFICATION Spec
CONSTANTS
    b1 = b1
    b2 = b2
    v1 = v1
    d1 = d1
    Bookings = {b1, b2}
    Requests = {1, 2, 3}
    Handlers = {"cancelPaid", "cancelUnpaid", "release", "confirm", "start"}
    VehicleOf <- MCVehicleOf
    DriverOf <- MCDriverOf
    PoolSize = 3
    NoBooking = NoBooking
    Nobody = Nobody
INVARIANTS LocksOK DeadlocksOnlyOnRepeat
PROPERTIES EveryRequestEnds
\* The requests end and no other comes.
CHECK_DEADLOCK FALSE
