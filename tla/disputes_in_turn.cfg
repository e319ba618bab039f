SPECIFICATION DisputesSpec
CONSTANTS
    b1 = b1
    v1 = v1
    d1 = d1
    r1 = r1
    r2 = r2
    x1 = x1
    x2 = x2
    NoBooking = NoBooking
    Bookings = {b1}
    Vehicles = {v1}
    Drivers = {d1}
    Requests = {r1}
    VehicleOf <- MCVehicleOf
    PlacesOf <- MCPlacesOf
    DriverOf <- MCDriverOf
    Capacity <- MCCapacity
    UnitPrice = 1
    RequestedStatuts <- Documented
    WebhookStatuts <- AnyCallback
    MayAbort = TRUE
    SeatLimit = 1
    Disputes = {x1, x2}
    NoDispute = NoDispute
    DisputeOf <- MCDisputeOf
INVARIANTS DisputesTypeOK OneActiveDispute
PROPERTIES ClosedIsFinal DisputeStopsTrip
\* The system rests when no client has anything left to ask.
CHECK_DEADLOCK FALSE
