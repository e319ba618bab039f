SPECIFICATION FairSpec
CONSTANTS
    b1 = b1
    b2 = b2
    v1 = v1
    d1 = d1
    r1 = r1
    r2 = r2
    r3 = r3
    NoBooking = NoBooking
    Bookings = {b1, b2}
    Vehicles <- MCVehicles
    Drivers <- MCDrivers
    Requests = {r1}
    VehicleOf <- MCVehicleOf
    PlacesOf <- MCPlacesOf
    DriverOf <- MCDriverOf
    Capacity <- MCCapacity
    UnitPrice = 1
    RequestedStatuts <- Documented
    WebhookStatuts <- AnyCallback
    MayAbort = FALSE
    SeatLimit = 4
INVARIANTS SettledBookingClosed
PROPERTIES NeverBackwards CompletedThenReleased
\* The system rests when no client has anything left to ask.
CHECK_DEADLOCK FALSE
