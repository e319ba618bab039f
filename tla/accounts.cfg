SPECIFICATION Spec
CONSTANTS
    p1 = p1
    p2 = p2
    p3 = p3
    p4 = p4
    r1 = r1
    r2 = r2
    People = {p1, p2, p3, p4}
    TelephoneOf <- MCTelephoneOf
    RoleOf <- MCRoleOf
    LicenceOf <- MCLicenceOf
    Routes = {"login", "payments/webhook", "bookings", "disputes", "withdrawals",
              "withdrawals/webhook"}
    IsPublic <- MCIsPublic
    RolesOf <- MCRolesOf
    Requests = {r1, r2}
    Nobody = Nobody
INVARIANTS TypeOK OneAccountPerTelephone DriversHaveProfiles
\* Nobody has to call.
CHECK_DEADLOCK FALSE
