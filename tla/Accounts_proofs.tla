--------------------------- MODULE Accounts_proofs ---------------------------
(***************************************************************************)
(* Proofs about Accounts, for every number of people, routes and requests  *)
(* in flight, and every wiring of the routes.                              *)
(***************************************************************************)
EXTENDS Accounts, TLAPS

\* A registered driver has his rows: the transaction of register wrote them.
Profiles == \A p \in Registered : RoleOf[p] = "CHAUFFEUR" => p \in driver \cap wallet

\* Whoever is being logged in or out is registered.
InFlightRegistered ==
  \A r \in Requests : req[r].at \in {"tokens", "logout"} => req[r].who \in Registered

AccountsInv ==
  TypeOK /\ OneAccountPerTelephone /\ Profiles /\ InFlightRegistered /\ DriversHaveProfiles

LEMMA InitInv == Init => AccountsInv
BY DEF Init, AccountsInv, TypeOK, RequestsOK, OneAccountPerTelephone, Profiles, Registered,
       InFlightRegistered, DriversHaveProfiles, Called, Idle

\* A request that begins, or ends, is well formed and about a registered person.
LEMMA RequestMoves ==
  ASSUME RequestsOK, InFlightRegistered, DriversHaveProfiles, UNCHANGED rows,
         NEW r \in Requests,
         \/ End(r)
         \/ \E p \in People : \/ Begin(r, "register", p)
                              \/ p \in Registered /\ Begin(r, "tokens", p)
                              \/ p \in Registered /\ Begin(r, "logout", p)
  PROVE  RequestsOK' /\ InFlightRegistered' /\ DriversHaveProfiles'
<1>1. Registered' = Registered /\ driver' = driver /\ wallet' = wallet
  BY DEF rows, Registered
<1>2. ASSUME NEW s \in Requests, s # r PROVE req'[s] = req[s]
  BY <1>2 DEF Begin, End, RequestsOK
<1>3. CASE End(r)
  <2>1. req'[r] = Idle
    BY <1>3 DEF End, RequestsOK
  <2>2. RequestsOK'
    BY <1>3 DEF End, RequestsOK
  <2>3. InFlightRegistered' /\ DriversHaveProfiles'
    BY <1>1, <1>2, <2>1 DEF InFlightRegistered, DriversHaveProfiles, Called, Idle
  <2> QED BY <2>2, <2>3
<1>4. ASSUME NEW p \in People, NEW place \in {"register", "tokens", "logout"},
             Begin(r, place, p), place = "register" \/ p \in Registered
      PROVE  RequestsOK' /\ InFlightRegistered' /\ DriversHaveProfiles'
  <2>1. req'[r] = [at |-> place, who |-> p]
    BY <1>4 DEF Begin, RequestsOK
  <2>2. RequestsOK'
    BY <1>4 DEF Begin, RequestsOK
  <2>3. InFlightRegistered' /\ DriversHaveProfiles'
    BY <1>1, <1>2, <1>4, <2>1 DEF InFlightRegistered, DriversHaveProfiles, Called
  <2> QED BY <2>2, <2>3
<1> QED BY <1>3, <1>4

\* The user, the rows of his role and his wallet come together, under unique
\* indexes: what was registered stays as it was.
LEMMA StepRegister ==
  ASSUME AccountsInv, NEW r \in Requests, NEW p \in People,
         RegisterCommit(r, p), ~TelephoneTaken(p), ~LicenceTaken(p)
  PROVE  AccountsInv'
<1>1. /\ user' = [user EXCEPT ![p] = "active"] /\ loggedIn' = loggedIn
      /\ InsertProfile(p)
      /\ req[r] = [at |-> "register", who |-> p] /\ Goto(r, "tokens")
  BY DEF RegisterCommit, At
<1>2. /\ passenger \subseteq passenger' /\ passenger' \subseteq passenger \cup {p}
      /\ driver \subseteq driver' /\ driver' \subseteq driver \cup {p}
      /\ wallet \subseteq wallet' /\ wallet' \subseteq wallet \cup {p}
      /\ RoleOf[p] = "CHAUFFEUR" => p \in driver' \cap wallet'
  BY <1>1 DEF InsertProfile
<1>3. Registered' = Registered \cup {p}
  BY <1>1 DEF Registered, AccountsInv, TypeOK
<1>4. /\ req'[r] = [at |-> "tokens", who |-> p]
      /\ \A s \in Requests : s # r => req'[s] = req[s]
      /\ RequestsOK'
  BY <1>1 DEF Goto, AccountsInv, TypeOK, RequestsOK
<1>5. TypeOK'
  BY <1>1, <1>2, <1>3, <1>4 DEF AccountsInv, TypeOK
<1>6. OneAccountPerTelephone'
  BY <1>3 DEF OneAccountPerTelephone, AccountsInv, TelephoneTaken
<1>7. Profiles'
  BY <1>2, <1>3 DEF Profiles, AccountsInv
<1>8. InFlightRegistered' /\ DriversHaveProfiles'
  BY <1>2, <1>3, <1>4 DEF AccountsInv, InFlightRegistered, DriversHaveProfiles, Called
<1> QED BY <1>5, <1>6, <1>7, <1>8 DEF AccountsInv

\* Logging in or out moves nothing but who is logged in.
LEMMA StepTokens ==
  ASSUME AccountsInv, NEW r \in Requests, NEW p \in People,
         GenerateTokens(r, p) \/ Logout(r, p)
  PROVE  AccountsInv'
<1>1. /\ UNCHANGED <<user, passenger, driver, wallet>> /\ End(r)
      /\ req[r].at \in {"tokens", "logout"} /\ req[r].who = p
      /\ loggedIn' \subseteq loggedIn \cup {p}
  BY DEF GenerateTokens, Logout, At
<1>2. Registered' = Registered /\ p \in Registered
  BY <1>1 DEF Registered, AccountsInv, InFlightRegistered
<1>3. /\ req'[r] = Idle
      /\ \A s \in Requests : s # r => req'[s] = req[s]
      /\ RequestsOK'
  BY <1>1 DEF End, AccountsInv, TypeOK, RequestsOK
<1>4. TypeOK'
  BY <1>1, <1>2, <1>3 DEF AccountsInv, TypeOK
<1>5. OneAccountPerTelephone' /\ Profiles'
  BY <1>1, <1>2 DEF AccountsInv, OneAccountPerTelephone, Profiles
<1>6. InFlightRegistered' /\ DriversHaveProfiles'
  BY <1>1, <1>2, <1>3 DEF AccountsInv, InFlightRegistered, DriversHaveProfiles, Called, Idle
<1> QED BY <1>4, <1>5, <1>6 DEF AccountsInv

\* The guards let a driver through only when the strategy found his user row.
LEMMA StepCall ==
  ASSUME AccountsInv, NEW r \in Requests, NEW p \in People \cup {Nobody},
         NEW route \in Routes, Call(r, p, route)
  PROVE  AccountsInv'
<1>1. Answer(route, p) \in {"handled", "401", "403"}
  BY DEF Answer
<1>2. /\ req'[r] = [at |-> Answer(route, p), who |-> p, route |-> route]
      /\ \A s \in Requests : s # r => req'[s] = req[s]
      /\ RequestsOK'
  BY <1>1 DEF Call, AccountsInv, TypeOK, RequestsOK
<1>3. UNCHANGED rows
  BY DEF Call
<1>4. ASSUME Answer(route, p) = "handled", ~IsPublic[route]
      PROVE  p \in Registered
  BY <1>4 DEF Answer, JwtAuthGuard, Authentic, Registered
<1>5. TypeOK' /\ OneAccountPerTelephone' /\ Profiles'
  BY <1>2, <1>3 DEF rows, AccountsInv, TypeOK, OneAccountPerTelephone, Profiles, Registered
<1>6. InFlightRegistered'
  BY <1>1, <1>2, <1>3 DEF rows, AccountsInv, InFlightRegistered, Registered
<1>7. DriversHaveProfiles'
  BY <1>2, <1>3, <1>4 DEF rows, AccountsInv, Profiles, DriversHaveProfiles, Called
<1> QED BY <1>5, <1>6, <1>7 DEF AccountsInv

LEMMA StepInv == AccountsInv /\ [Next]_vars => AccountsInv'
<1> SUFFICES ASSUME AccountsInv, [Next]_vars PROVE AccountsInv'
  OBVIOUS
<1>1. ASSUME UNCHANGED rows, RequestsOK', InFlightRegistered', DriversHaveProfiles'
      PROVE  AccountsInv'
  BY <1>1 DEF rows, AccountsInv, TypeOK, OneAccountPerTelephone, Profiles, Registered
<1>2. ASSUME NEW r \in Requests, End(r), UNCHANGED rows PROVE AccountsInv'
  BY <1>1, <1>2, RequestMoves DEF AccountsInv, TypeOK
<1>3. ASSUME NEW r \in Requests, NEW p \in People,
             RegisterRead(r, p) \/ LoginRead(r, p) \/ LogoutRead(r, p)
      PROVE  AccountsInv'
  BY <1>1, <1>3, RequestMoves
     DEF RegisterRead, LoginRead, LogoutRead, Registered, AccountsInv, TypeOK
<1>4. ASSUME NEW r \in Requests, NEW p \in People, RegisterCommit(r, p) PROVE AccountsInv'
  BY <1>2, <1>4, StepRegister DEF RegisterCommit
<1>5. ASSUME NEW r \in Requests, Return(r) \/ Abort(r) PROVE AccountsInv'
  BY <1>2, <1>5 DEF Return, Abort
<1>6. ASSUME NEW p \in People, Suspend(p) PROVE AccountsInv'
  <2>1. Registered' = Registered /\ user' \in [People -> {"none", "active", "suspended"}]
    BY <1>6 DEF Suspend, Registered, AccountsInv, TypeOK
  <2> QED
    BY <1>6, <2>1 DEF Suspend, AccountsInv, TypeOK, RequestsOK, OneAccountPerTelephone, Profiles,
                      InFlightRegistered, DriversHaveProfiles, Called
<1>7. CASE UNCHANGED vars
  BY <1>7 DEF vars, rows, AccountsInv, TypeOK, RequestsOK, OneAccountPerTelephone, Profiles,
              Registered, InFlightRegistered, DriversHaveProfiles, Called
<1> QED
  BY <1>3, <1>4, <1>5, <1>6, <1>7, StepTokens, StepCall DEF Next

\* Accounts are well formed, and nothing is stored about people who are not
\* registered, however registrations, logins and logouts interleave.
THEOREM AccountsTypeCorrect == Spec => []TypeOK
BY InitInv, StepInv, PTL DEF Spec, AccountsInv

\* A telephone belongs to one account, however often and at whatever time the
\* same person, or another one with the same telephone, registers.
THEOREM OneAccount == Spec => []OneAccountPerTelephone
<1>1. AccountsInv => OneAccountPerTelephone
  BY DEF AccountsInv
<1> QED BY <1>1, InitInv, StepInv, PTL DEF Spec

\* A driver whom the guards let through has his driver row and his wallet.
THEOREM ProfilesComplete == Spec => []DriversHaveProfiles
<1>1. AccountsInv => DriversHaveProfiles
  BY DEF AccountsInv
<1> QED BY <1>1, InitInv, StepInv, PTL DEF Spec
=============================================================================
