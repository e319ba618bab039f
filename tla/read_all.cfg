SPECIFICATION NotificationsSpec
CONSTANTS
    b1 = b1
    v1 = v1
    d1 = d1
    r1 = r1
    r2 = r2
    u1 = u1
    u2 = u2
    NoBooking = NoBooking
    Bookings = {b1}
    Vehicles = {v1}
    Drivers = {d1}
    Requests = {r1}
    VehicleOf <- MCVehicleOf
    PlacesOf <- MCPlacesOf
    DriverOf <- MCDriverOf
    Capacity <- MCCapacity
    UnitPrice = 1
    RequestedStatuts <- Documented
    WebhookStatuts <- FinalCallback
    MayAbort = FALSE
    SeatLimit = 2
    PassengerUser <- MCPassengerUser
    DriverUser <- MCDriverUser
    Undefined = Undefined
    NoteTypes = {"PAYMENT_SUCCESS", "PAYMENT_RECEIVED", "TRIP_COMPLETED"}
PROPERTIES ReadsOwnNotes
\* The system rests when no client has anything left to ask.
CHECK_DEADLOCK FALSE
