SPECIFICATION Spec
CONSTANTS
    w1 = w1
    w2 = w2
    w3 = w3
    d1 = d1
    d2 = d2
    r1 = r1
    r2 = r2
    NoWithdrawal = NoWithdrawal
    Drivers = {d1, d2}
    Withdrawals = {w1, w2, w3}
    Requests = {r1, r2}
    OwnerOf <- MCOwnerOf
    Amount <- MCAmount
    Earned <- MCEarned
    Callbacks <- AnyCallback
    MayAbort = TRUE
    CreditLimit = 6
INVARIANTS TypeOK PendingUntouched NothingLost
\* The system rests when the operator has nothing left to say.
CHECK_DEADLOCK FALSE
