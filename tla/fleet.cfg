SPECIFICATION FleetSpec
CONSTANTS
    b1 = b1
    b2 = b2
    v1 = v1
    d1 = d1
    r1 = r1
    f1 = f1
    q1 = q1
    a1 = a1
    a2 = a2
    NoBooking = NoBooking
    Bookings = {b1, b2}
    Vehicles = {v1}
    Drivers = {d1}
    Requests = {r1}
    VehicleOf <- MCVehicleOf
    PlacesOf <- MCPlacesOf
    DriverOf <- MCDriverOf
    Capacity <- MCCapacity
    UnitPrice = 1
    RequestedStatuts <- Documented
    WebhookStatuts <- FinalCallback
    MayAbort = TRUE
    SeatLimit = 4
    Freights = {f1}
    FreightRequests = {q1}
    Assignees = {a1, a2}
    NoFreight = NoFreight
    NoAssignee = NoAssignee
    Capacities = {2, 3}
PROPERTIES BookedIsListed SeatsConserved AssignedOnce
\* The system rests when no client has anything left to ask.
CHECK_DEADLOCK FALSE
