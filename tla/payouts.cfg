SPECIFICATION PayoutsSpec
CONSTANTS
    b1 = b1
    b2 = b2
    v1 = v1
    d1 = d1
    r1 = r1
    w1 = w1
    w2 = w2
    NoBooking = NoBooking
    Bookings = {b1, b2}
    Vehicles = {v1}
    Drivers = {d1}
    Requests = {r1}
    VehicleOf <- MCVehicleOf
    PlacesOf <- MCPlacesOf
    DriverOf <- MCDriverOf
    Capacity <- MCCapacity
    UnitPrice = 1
    RequestedStatuts <- Documented
    WebhookStatuts <- FinalCallback
    MayAbort = TRUE
    SeatLimit = 4
    Withdrawals = {w1, w2}
    NoWithdrawal = NoWithdrawal
    OwnerOf <- MCOwnerOf
    Amount <- MCAmount
    Callbacks <- OneVerdict
    CreditLimit = 3
    NoReport = NoReport
INVARIANTS PayoutsConserved HistoryCoversBalance CancelledRefunded PurseNotOverdrawn
\* The system rests when no client has anything left to ask.
CHECK_DEADLOCK FALSE
