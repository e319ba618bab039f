------------------------------ MODULE Accounts -------------------------------
(***************************************************************************)
(* AuthService, UsersService and the guards (src/auth/, src/users/):       *)
(* people register, log in and out, and call the routes of the API.  Every *)
(* bcrypt call and every row is an await, so two registrations of one      *)
(* telephone can both find it free.                                        *)
(*                                                                         *)
(* bcrypt keeps 72 bytes of a refresh token, which all tokens of one user  *)
(* begin with: what the column holds is that the user is logged in.  The   *)
(* service's refreshToken has no caller (POST /auth/refresh throws).       *)
(***************************************************************************)
EXTENDS Integers, FiniteSets

CONSTANTS
    People,      \* what each sends to register: telephone, role, licence
    TelephoneOf, \* People -> telephones
    RoleOf,      \* People -> Role: register takes any
    LicenceOf,   \* People -> numeroPermis, which a CHAUFFEUR must send
    Routes,      \* the routes people call ...
    IsPublic,    \* ... those with @Public(), ...
    RolesOf,     \* ... and the @Roles of their handler or controller, if any
    Requests, Nobody

Role == {"PASSAGER", "CHAUFFEUR", "AGENT_GARE", "ADMIN"}

ASSUME AccountsAssumption ==
    /\ Nobody \notin People
    /\ RoleOf \in [People -> Role]
    /\ IsPublic \in [Routes -> BOOLEAN]
    /\ RolesOf \in [Routes -> SUBSET Role]

VARIABLES
    user,       \* users: "none", "active" or "suspended"
    passenger,  \* who has a passenger row, ...
    driver,     \* ... a driver row, ...
    wallet,     \* ... a wallet
    loggedIn,   \* whose refreshToken is not null
    req         \* the requests in flight

rows == <<user, passenger, driver, wallet, loggedIn>>
vars == <<rows, req>>

Idle == [at |-> "idle", who |-> Nobody]
Begin(r, place, p) ==
    /\ req[r] = Idle
    /\ req' = [req EXCEPT ![r] = [at |-> place, who |-> p]]
At(r, place, p) == req[r] = [at |-> place, who |-> p]
Goto(r, place) == req' = [req EXCEPT ![r].at = place]
End(r) == req' = [req EXCEPT ![r] = Idle]

Init ==
    /\ user = [p \in People |-> "none"]
    /\ passenger = {} /\ driver = {} /\ wallet = {} /\ loggedIn = {}
    /\ req = [r \in Requests |-> Idle]

-----------------------------------------------------------------------------
Registered == {p \in People : user[p] # "none"}
TelephoneTaken(p) == \E q \in Registered : TelephoneOf[q] = TelephoneOf[p]
LicenceTaken(p) ==
    RoleOf[p] = "CHAUFFEUR" /\ \E q \in driver : LicenceOf[q] = LicenceOf[p]

\* register's check of the telephone; the password is hashed after it.
RegisterRead(r, p) ==
    /\ ~TelephoneTaken(p)
    /\ Begin(r, "register", p)
    /\ UNCHANGED rows

InsertProfile(p) ==
    \/ /\ RoleOf[p] = "PASSAGER"
       /\ passenger' = passenger \cup {p}
       /\ UNCHANGED <<driver, wallet>>
    \/ /\ RoleOf[p] = "CHAUFFEUR"
       /\ driver' = driver \cup {p}
       /\ wallet' = wallet \cup {p}
       /\ UNCHANGED passenger
    \/ RoleOf[p] \in {"AGENT_GARE", "ADMIN"} /\ UNCHANGED <<passenger, driver, wallet>>

\* Mutation: the check is trusted, users.telephone has no unique index.
RegisterUnindexed(r, p) ==
    /\ At(r, "register", p)
    /\ user[p] = "none" /\ ~LicenceTaken(p)
    /\ user' = [user EXCEPT ![p] = "active"]
    /\ InsertProfile(p)
    /\ Goto(r, "tokens")
    /\ UNCHANGED loggedIn

\* Mutation: the rows are inserted one by one, without a transaction.
RegisterRowByRow(r, p) ==
    /\ At(r, "register", p)
    /\ ~TelephoneTaken(p)
    /\ user' = [user EXCEPT ![p] = "active"]
    /\ \/ LicenceTaken(p) /\ UNCHANGED <<passenger, driver, wallet>>
       \/ ~LicenceTaken(p) /\ InsertProfile(p)
    /\ Goto(r, "tokens")
    /\ UNCHANGED loggedIn

\* register's transaction: the user and the rows of the role, all of them, or,
\* when a unique index (telephone, numeroPermis) refuses one, none.
RegisterCommit(r, p) ==
    /\ At(r, "register", p)
    /\ \/ /\ ~TelephoneTaken(p) /\ ~LicenceTaken(p)
          /\ user' = [user EXCEPT ![p] = "active"]
          /\ InsertProfile(p)
          /\ Goto(r, "tokens")
          /\ UNCHANGED loggedIn
       \/ (TelephoneTaken(p) \/ LicenceTaken(p)) /\ End(r) /\ UNCHANGED rows

\* Mutation: no row is needed to log in.
LoginUnknown(r, p) ==
    /\ user[p] # "suspended"
    /\ Begin(r, "tokens", p)
    /\ UNCHANGED rows

\* login's checks, with the right password (a wrong one changes nothing).
LoginRead(r, p) ==
    /\ user[p] = "active"
    /\ Begin(r, "tokens", p)
    /\ UNCHANGED rows

\* generateTokens stores the hash of the refresh token it returns.
GenerateTokens(r, p) ==
    /\ At(r, "tokens", p)
    /\ loggedIn' = loggedIn \cup {p}
    /\ End(r)
    /\ UNCHANGED <<user, passenger, driver, wallet>>

LogoutRead(r, p) == user[p] = "active" /\ Begin(r, "logout", p) /\ UNCHANGED rows
Logout(r, p) ==
    /\ At(r, "logout", p)
    /\ loggedIn' = loggedIn \ {p}
    /\ End(r)
    /\ UNCHANGED <<user, passenger, driver, wallet>>

-----------------------------------------------------------------------------
Authentic(p) == p # Nobody /\ user[p] = "active"

\* JwtAuthGuard; JwtStrategy.validate reads the user again at every request.
JwtAuthGuard(route, p) == IsPublic[route] \/ Authentic(p)

\* A public route is passed without asking who calls: no user on the request.
Caller(route, p) == IF IsPublic[route] THEN Nobody ELSE p

\* RolesGuard, with the user that JwtAuthGuard has put on the request.
RolesGuard(route, p) ==
    RolesOf[route] # {} => p # Nobody /\ RoleOf[p] \in RolesOf[route]

Answer(route, p) ==
    IF ~JwtAuthGuard(route, p) THEN "401"
    ELSE IF RolesGuard(route, Caller(route, p)) THEN "handled"
    ELSE "403"

\* Somebody, with or without a token, calls a route; the answer of the guards.
Call(r, p, route) ==
    /\ req[r] = Idle
    /\ req' = [req EXCEPT ![r] = [at |-> Answer(route, p), who |-> p, route |-> route]]
    /\ UNCHANGED rows

Called(r) == req[r].at \in {"handled", "401", "403"}
Return(r) == Called(r) /\ End(r) /\ UNCHANGED rows

\* Nothing in the repository sets isSuspended: an administrator does, elsewhere.
Suspend(p) ==
    /\ user[p] # "none"
    /\ \E s \in {"active", "suspended"} : user' = [user EXCEPT ![p] = s]
    /\ UNCHANGED <<passenger, driver, wallet, loggedIn, req>>

\* The process crashes or the database fails.
Abort(r) == req[r] # Idle /\ End(r) /\ UNCHANGED rows

Next ==
    \/ \E r \in Requests, p \in People :
          \/ RegisterRead(r, p) \/ RegisterCommit(r, p)
          \/ LoginRead(r, p) \/ GenerateTokens(r, p)
          \/ LogoutRead(r, p) \/ Logout(r, p)
    \/ \E r \in Requests, p \in People \cup {Nobody}, route \in Routes : Call(r, p, route)
    \/ \E r \in Requests : Return(r) \/ Abort(r)
    \/ \E p \in People : Suspend(p)

Spec == Init /\ [][Next]_vars

-----------------------------------------------------------------------------
RequestsOK ==
    req \in [Requests ->
               {Idle} \cup [at : {"register", "tokens", "logout"}, who : People]
               \cup [at : {"handled", "401", "403"}, who : People \cup {Nobody}, route : Routes]]

\* Types, and foreign keys: what is stored about a person belongs to a user.
TypeOK ==
    /\ user \in [People -> {"none", "active", "suspended"}]
    /\ passenger \cup driver \cup wallet \cup loggedIn \subseteq Registered
    /\ RequestsOK

\* 'Un utilisateur avec ce numéro existe déjà': however registrations
\* interleave and are repeated, a telephone belongs to one account.
OneAccountPerTelephone ==
    \A p, q \in Registered : TelephoneOf[p] = TelephoneOf[q] => p = q

\* The handlers look the driver row of a CHAUFFEUR up, and the money path his
\* wallet: a driver whom the guards let through has both, wherever his
\* registration stopped.
DriversHaveProfiles ==
    \A r \in Requests :
        Called(r) /\ req[r].at = "handled" /\ ~IsPublic[req[r].route]
            /\ RoleOf[req[r].who] = "CHAUFFEUR"
            => req[r].who \in driver \cap wallet
=============================================================================
