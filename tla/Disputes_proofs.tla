--------------------------- MODULE Disputes_proofs ---------------------------
(***************************************************************************)
(* Proofs about Disputes, for every number of bookings, disputes and       *)
(* concurrent requests.      A step of the money path is a step of         *)
(* TripFunds, so what TripFunds_proofs shows of it is used here.           *)
(***************************************************************************)
EXTENDS Disputes, TripFunds_proofs

\* What a request that is about a dispute looks like, and where it stands.
OpeningPlaces == {"findActive", "open"}
Verdicts == {"RESOLU", "REJETE"}

DisputeRowsOK == dispute \in [Disputes -> {None, "OUVERT", "RESOLU", "REJETE"}]
DisputeRequestsOK ==
  dreq \in [Requests -> {IdleDispute} \cup [at : OpeningPlaces \cup Verdicts, of : Disputes]]

LEMMA TypeParts == DisputesTypeOK <=> TypeOK /\ DisputeRowsOK /\ DisputeRequestsOK
BY DEF DisputesTypeOK, DisputeRowsOK, DisputeRequestsOK, OpeningPlaces, Verdicts

\* The actions of a dispute's requests, as what they do to the request.
TakeMove(r) ==
  \E x \in Disputes :
     \/ dispute[x] = None /\ Take(r, "findActive", x)
     \/ \E verdict \in Verdicts : dispute[x] = "OUVERT" /\ Take(r, verdict, x)
DisputeRequestMove(r) ==
  \/ TakeMove(r)
  \/ dreq[r].at = "findActive" /\ Active(DisputeOf[dreq[r].of]) = {} /\ GoOn(r, "open")
  \/ Finish(r)

\* Every step of the disputes is one of three: it moves a request, opens a
\* dispute or closes one.
QuietStep(r) == DisputeRequestMove(r) /\ UNCHANGED <<vars, dispute>>
OpenStep(r, x) == OpenDispute(r, x)
CloseStep(r, x) == CloseDispute(r, x)

LEMMA DisputeMove ==
  ASSUME DisputesStep
  PROVE  \E r \in Requests : QuietStep(r) \/ \E x \in Disputes : OpenStep(r, x) \/ CloseStep(r, x)
<1>1. ASSUME NEW r \in Requests, NEW x \in Disputes, CreateDispute(r, x) PROVE QuietStep(r)
  BY <1>1 DEF CreateDispute, QuietStep, DisputeRequestMove, TakeMove
<1>2. ASSUME NEW r \in Requests, NEW x \in Disputes, FindActive(r, x) PROVE QuietStep(r)
  BY <1>2 DEF FindActive, At, QuietStep, DisputeRequestMove
<1>3. ASSUME NEW r \in Requests, NEW x \in Disputes, ResolveDispute(r, x) PROVE QuietStep(r)
  BY <1>3 DEF ResolveDispute, QuietStep, DisputeRequestMove, TakeMove, Verdicts
<1>4. ASSUME NEW r \in Requests, AbortDispute(r) PROVE QuietStep(r)
  BY <1>4 DEF AbortDispute, QuietStep, DisputeRequestMove
<1> QED BY <1>1, <1>2, <1>3, <1>4 DEF DisputesStep, OpenStep, CloseStep

-----------------------------------------------------------------------------
(* Type correctness. *)

LEMMA RequestMoveType ==
  ASSUME DisputeRequestsOK, NEW r \in Requests, DisputeRequestMove(r)
  PROVE  DisputeRequestsOK'
<1>1. CASE TakeMove(r)
  BY <1>1 DEF TakeMove, Take, DisputeRequestsOK, OpeningPlaces, Verdicts
<1>2. CASE dreq[r].at = "findActive" /\ GoOn(r, "open")
  <2>1. dreq[r] \in [at : OpeningPlaces \cup Verdicts, of : Disputes]
    BY <1>2 DEF DisputeRequestsOK, IdleDispute
  <2>2. [dreq[r] EXCEPT !.at = "open"] \in [at : OpeningPlaces \cup Verdicts, of : Disputes]
    BY <2>1 DEF OpeningPlaces
  <2> QED BY <1>2, <2>2 DEF GoOn, DisputeRequestsOK
<1>3. CASE Finish(r)
  BY <1>3 DEF Finish, DisputeRequestsOK
<1> QED BY <1>1, <1>2, <1>3 DEF DisputeRequestMove

LEMMA StepDisputesType == DisputesTypeOK /\ [DisputesNext]_dvars => DisputesTypeOK'
<1> SUFFICES ASSUME TypeOK, DisputeRowsOK, DisputeRequestsOK, [DisputesNext]_dvars
             PROVE  TypeOK' /\ DisputeRowsOK' /\ DisputeRequestsOK'
  BY DEF DisputesTypeOK, DisputeRowsOK, DisputeRequestsOK, OpeningPlaces, Verdicts
<1>1. CASE TripStep \/ UNCHANGED dvars
  <2>1. [Next]_vars /\ UNCHANGED <<dispute, dreq>>
    BY <1>1 DEF TripStep, Next, dvars
  <2> QED BY <2>1, StepType DEF DisputeRowsOK, DisputeRequestsOK
<1>2. ASSUME NEW r \in Requests, QuietStep(r)
      PROVE  TypeOK' /\ DisputeRowsOK' /\ DisputeRequestsOK'
  <2>1. TypeOK'
    BY <1>2, StepType DEF QuietStep
  <2> QED BY <1>2, <2>1, RequestMoveType DEF QuietStep, DisputeRowsOK
<1>3. ASSUME NEW r \in Requests, NEW x \in Disputes, OpenStep(r, x)
      PROVE  TypeOK' /\ DisputeRowsOK' /\ DisputeRequestsOK'
  <2>1. DisputeOf[x] \in Bookings
    BY DisputesAssumption
  <2>2. booking' \in [Bookings -> BookingRow]
    BY <1>3, <2>1, SetStatutType DEF OpenStep, OpenDispute, TypeOK, RowsOK, BookingStatut
  <2>3. TypeOK'
    BY <1>3, <2>2 DEF OpenStep, OpenDispute, TypeOK, RowsOK, RequestsOK
  <2>4. DisputeRequestsOK'
    BY <1>3, RequestMoveType DEF OpenStep, OpenDispute, DisputeRequestMove
  <2> QED BY <1>3, <2>3, <2>4 DEF OpenStep, OpenDispute, DisputeRowsOK
<1>4. ASSUME NEW r \in Requests, NEW x \in Disputes, CloseStep(r, x)
      PROVE  TypeOK' /\ DisputeRowsOK' /\ DisputeRequestsOK'
  <2>1. TypeOK'
    BY <1>4, StepType DEF CloseStep, CloseDispute
  <2>2. DisputeRequestsOK'
    BY <1>4, RequestMoveType DEF CloseStep, CloseDispute, DisputeRequestMove
  <2> QED BY <1>4, <2>1, <2>2 DEF CloseStep, CloseDispute, DisputeRowsOK
<1> QED
  BY <1>1, <1>2, <1>3, <1>4, DisputeMove DEF DisputesNext

\* The rows and requests of disputes, and of the money path beside them, are
\* well formed under every interleaving.
THEOREM DisputesTypeCorrect == DisputesSpec => []DisputesTypeOK
<1>1. DisputesInit => DisputesTypeOK
  BY InitType DEF DisputesInit, DisputesTypeOK
<1> QED BY <1>1, StepDisputesType, PTL DEF DisputesSpec

-----------------------------------------------------------------------------
(* One request at a time, what a handler read of the disputes is still so  *)
(* when it writes.                                                         *)

DisputeFresh ==
  \A r \in Requests :
     /\ dreq[r].at \in OpeningPlaces => dispute[dreq[r].of] = None
     /\ dreq[r].at = "open" => Active(DisputeOf[dreq[r].of]) = {}
     /\ dreq[r].at \in Verdicts => dispute[dreq[r].of] = "OUVERT"

DisputesInv == DisputeFresh /\ OneActiveDispute

LEMMA StepDisputesInv ==
  ASSUME OneRequestAtATime, DisputesTypeOK, DisputesInv, [DisputesNext]_dvars
  PROVE  DisputesInv'
<1>1. DisputeRowsOK /\ DisputeRequestsOK
  BY TypeParts
<1>2. ASSUME NEW r \in Requests, Finish(r) PROVE DisputeFresh'
  <2>1. \A s \in Requests : dreq'[s].at = "idle"
    BY <1>1, <1>2 DEF OneRequestAtATime, Finish, DisputeRequestsOK, IdleDispute
  <2> QED BY <2>1 DEF DisputeFresh, OpeningPlaces, Verdicts
<1>3. CASE UNCHANGED <<dispute, dreq>>
  BY <1>3 DEF DisputesInv, DisputeFresh, OneActiveDispute, Active
<1>4. ASSUME NEW r \in Requests, QuietStep(r) PROVE DisputesInv'
  <2>1. OneActiveDispute' /\ dispute' = dispute
    BY <1>4 DEF QuietStep, DisputesInv, OneActiveDispute
  <2>2. CASE TakeMove(r)
    <3>1. PICK x \in Disputes, place \in {"findActive"} \cup Verdicts :
             /\ Take(r, place, x)
             /\ dispute[x] = IF place \in Verdicts THEN "OUVERT" ELSE None
      BY <2>2 DEF TakeMove, Verdicts
    <3>2. \A s \in Requests : s = r /\ dreq'[s] = [at |-> place, of |-> x]
      BY <1>1, <3>1 DEF OneRequestAtATime, Take, DisputeRequestsOK
    <3>3. DisputeFresh'
      BY <2>1, <3>1, <3>2 DEF DisputeFresh, OpeningPlaces, Verdicts
    <3> QED BY <2>1, <3>3 DEF DisputesInv
  <2>3. CASE /\ dreq[r].at = "findActive" /\ Active(DisputeOf[dreq[r].of]) = {}
             /\ GoOn(r, "open")
    <3>1. dreq[r] \in [at : OpeningPlaces \cup Verdicts, of : Disputes]
      BY <1>1, <2>3 DEF DisputeRequestsOK, IdleDispute
    <3>2. \A s \in Requests : s = r /\ dreq'[s].at = "open" /\ dreq'[s].of = dreq[r].of
      BY <1>1, <2>3, <3>1 DEF OneRequestAtATime, GoOn, DisputeRequestsOK
    <3>3. DisputeFresh'
      BY <2>1, <2>3, <3>2 DEF DisputesInv, DisputeFresh, OpeningPlaces, Verdicts, Active
    <3> QED BY <2>1, <3>3 DEF DisputesInv
  <2>4. CASE Finish(r)
    BY <1>2, <2>1, <2>4 DEF DisputesInv
  <2> QED BY <1>4, <2>2, <2>3, <2>4 DEF QuietStep, DisputeRequestMove
<1>5. ASSUME NEW r \in Requests, NEW x \in Disputes, OpenStep(r, x) PROVE DisputesInv'
  <2>1. Active(DisputeOf[x]) = {} /\ Finish(r) /\ dispute' = [dispute EXCEPT ![x] = "OUVERT"]
    BY <1>5 DEF OpenStep, OpenDispute, At, DisputesInv, DisputeFresh
  <2>2. OneActiveDispute'
    BY <1>1, <2>1 DEF DisputesInv, OneActiveDispute, Active, DisputeRowsOK
  <2> QED BY <1>2, <2>1, <2>2 DEF DisputesInv
<1>6. ASSUME NEW r \in Requests, NEW x \in Disputes, CloseStep(r, x) PROVE DisputesInv'
  <2>1. /\ Finish(r)
        /\ dispute' = [dispute EXCEPT ![x] = dreq[r].at] /\ dreq[r].at \in Verdicts
    BY <1>6 DEF CloseStep, CloseDispute, Verdicts
  <2>2. OneActiveDispute'
    BY <1>1, <2>1 DEF DisputesInv, OneActiveDispute, DisputeRowsOK, Verdicts
  <2> QED BY <1>2, <2>1, <2>2 DEF DisputesInv
<1> QED
  BY <1>3, <1>4, <1>5, <1>6, DisputeMove DEF DisputesNext, TripStep, dvars

LEMMA InitDisputesInv == DisputesInit => DisputesInv
BY DEF DisputesInit, DisputesInv, DisputeFresh, OneActiveDispute, IdleDispute,
       OpeningPlaces, Verdicts, None

\* One request at a time, a booking has at most one active dispute, wherever
\* requests die and whatever the money path does to the booking.
THEOREM OneDispute == ASSUME OneRequestAtATime PROVE DisputesSpec => []OneActiveDispute
<1>1. DisputesTypeOK /\ DisputesInv /\ [DisputesNext]_dvars => DisputesInv'
  BY StepDisputesInv
<1>2. DisputesInv => OneActiveDispute
  BY DEF DisputesInv
<1> QED BY <1>1, <1>2, InitDisputesInv, DisputesTypeCorrect, PTL DEF DisputesSpec

\* A write of a dispute's row opens one that is not there or closes an open one.
LEMMA StepClosed ==
  ASSUME DisputesTypeOK, DisputesInv, [DisputesNext]_dvars, NEW x \in Disputes,
         dispute[x] \in Verdicts
  PROVE  dispute'[x] = dispute[x]
<1>1. DisputeRowsOK
  BY TypeParts
<1>2. ASSUME NEW r \in Requests, QuietStep(r) PROVE dispute'[x] = dispute[x]
  BY <1>2 DEF QuietStep
<1>3. ASSUME NEW r \in Requests, NEW y \in Disputes, OpenStep(r, y)
      PROVE  dispute'[x] = dispute[x]
  BY <1>1, <1>3 DEF OpenStep, OpenDispute, At, DisputesInv, DisputeFresh, OpeningPlaces,
                    Verdicts, DisputeRowsOK, None
<1>4. ASSUME NEW r \in Requests, NEW y \in Disputes, CloseStep(r, y)
      PROVE  dispute'[x] = dispute[x]
  BY <1>1, <1>4 DEF CloseStep, CloseDispute, DisputesInv, DisputeFresh, Verdicts, DisputeRowsOK
<1> QED
  BY <1>2, <1>3, <1>4, DisputeMove DEF DisputesNext, TripStep, dvars

\* One request at a time, the decision on a dispute is never replaced.
THEOREM DecisionsFinal == ASSUME OneRequestAtATime PROVE DisputesSpec => ClosedIsFinal
<1> DEFINE Final == \A x \in Disputes :
                      dispute[x] \in {"RESOLU", "REJETE"} => dispute'[x] = dispute[x]
<1>1. DisputesTypeOK /\ DisputesInv /\ [DisputesNext]_dvars => DisputesInv'
  BY StepDisputesInv
<1>2. DisputesTypeOK /\ DisputesInv /\ [DisputesNext]_dvars => [Final]_dvars
  BY StepClosed DEF Verdicts
<1> QED
  BY <1>1, <1>2, InitDisputesInv, DisputesTypeCorrect, PTL DEF DisputesSpec, ClosedIsFinal

-----------------------------------------------------------------------------
(* A paid trip that is disputed goes nowhere: with one request at a time,  *)
(* no request of the trip is under way when the dispute is opened, and its *)
(* payment is not confirmed twice.                                         *)

\* A request is about the money path or about a dispute.
Exclusive == \A r \in Requests : dreq[r].at # "idle" => req[r].at = "idle"

LEMMA StepExclusive ==
  ASSUME OneRequestAtATime, DisputesTypeOK, Exclusive, [DisputesNext]_dvars
  PROVE  Exclusive'
<1>1. DisputeRequestsOK /\ req \in [Requests -> Request]
  BY TypeParts DEF TypeOK, RequestsOK
<1>2. CASE UNCHANGED <<req, dreq>>
  BY <1>2 DEF Exclusive
<1>3. ASSUME NEW r \in Requests, dreq[r].at = "idle", UNCHANGED dreq PROVE Exclusive'
  BY <1>3 DEF OneRequestAtATime, Exclusive
<1>4. ASSUME NEW r \in Requests, Abort(r) PROVE Exclusive'
  BY <1>1, <1>4 DEF Abort, End, Idle, OneRequestAtATime, Exclusive
<1>5. ASSUME NEW r \in Requests, Finish(r) PROVE Exclusive'
  BY <1>1, <1>5 DEF Finish, IdleDispute, DisputeRequestsOK, OneRequestAtATime, Exclusive
<1>6. ASSUME NEW r \in Requests, QuietStep(r) PROVE Exclusive'
  <2>1. req' = req
    BY <1>6 DEF QuietStep, vars
  <2>2. CASE req[r].at = "idle"
    BY <2>1, <2>2 DEF OneRequestAtATime, Exclusive
  <2>3. CASE Finish(r)
    BY <1>5, <2>3
  <2> QED
    BY <1>6, <2>2, <2>3 DEF QuietStep, DisputeRequestMove, TakeMove, Take, Exclusive
<1>7. ASSUME NEW r \in Requests, NEW x \in Disputes, OpenStep(r, x) \/ CloseStep(r, x)
      PROVE  Exclusive'
  BY <1>5, <1>7 DEF OpenStep, OpenDispute, CloseStep, CloseDispute
<1> QED
  BY <1>2, <1>3, <1>4, <1>6, <1>7, DisputeMove
     DEF DisputesNext, TripStep, OtpExpires, dvars, vars

LEMMA StepFreshBesideDisputes ==
  ASSUME DocumentedClients, OneRequestAtATime, DisputesTypeOK, Exclusive, FreshSnapshot,
         [DisputesNext]_dvars
  PROVE  FreshSnapshot'
<1>1. TypeOK
  BY DEF DisputesTypeOK
<1>2. CASE [Next]_vars
  BY <1>1, <1>2, StepFresh
<1>3. ASSUME NEW r \in Requests, NEW x \in Disputes, OpenStep(r, x) PROVE FreshSnapshot'
  <2>1. req[r].at = "idle" /\ req' = req
    BY <1>3 DEF OpenStep, OpenDispute, At, Exclusive
  <2>2. \A s \in Requests : req'[s].at = "idle"
    BY <2>1 DEF OneRequestAtATime
  <2> QED BY <2>2 DEF FreshSnapshot
<1> QED
  BY <1>2, <1>3, DisputeMove
     DEF DisputesNext, TripStep, Next, QuietStep, CloseStep, CloseDispute, dvars

\* What writes the statut of a paid booking that is stopped is no start,
\* confirmation or completion, which read another statut, and no payment, as
\* the escrow exists.
LEMMA StepStops ==
  ASSUME DocumentedClients, DisputesTypeOK, FreshSnapshot, [DisputesNext]_dvars,
         NEW b \in Bookings, escrow[b] # None, booking[b].statut \in Stopped
  PROVE  booking'[b].statut \in Stopped
<1> DEFINE Stops == booking'[b].statut \in Stopped
<1>1. TypeOK /\ booking \in [Bookings -> BookingRow]
  BY DEF DisputesTypeOK, TypeOK, RowsOK
<1>2. ASSUME NEW r \in Requests, NEW c \in Bookings, PlainMove(r, c) PROVE Stops
  <2>1. CASE b # c
    BY <1>1, <1>2, <2>1 DEF PlainMove, SetStatut
  <2>2. CASE b = c /\ SetStatut(c, "CANCELLED")
    BY <1>1, <2>2 DEF SetStatut, BookingRow, Stopped
  <2>3. CASE b = c /\ \E place \in {"create", "complete", "setStatut"} : Suspended(r, place, c)
    BY <2>3 DEF Suspended, FreshSnapshot, Stopped, None
  <2> QED BY <1>2, <2>1, <2>2, <2>3 DEF PlainMove
<1>3. ASSUME NEW r \in Requests, NEW c \in Bookings, StartMove(r, c) PROVE Stops
  BY <1>1, <1>3 DEF StartMove, Suspended, FreshSnapshot, Stopped
<1>4. ASSUME NEW c \in Bookings, PaidMove(c) PROVE Stops
  BY <1>1, <1>4 DEF PaidMove, HoldStep
<1>5. ASSUME NEW r \in Requests, NEW c \in Bookings, ReleasedMove(r, c) PROVE Stops
  BY <1>1, <1>5 DEF ReleasedMove, SetStatut, BookingRow, Stopped
<1>6. ASSUME NEW c \in Bookings, ExpiryMove(c) PROVE Stops
  BY <1>1, <1>6 DEF ExpiryMove, BookingRow
<1>7. CASE UNCHANGED booking
  BY <1>7
<1>8. CASE [Next]_vars
  BY <1>2, <1>3, <1>4, <1>5, <1>6, <1>7, <1>8, BookingStep DEF BookingMove
<1>9. ASSUME NEW r \in Requests, NEW x \in Disputes, OpenStep(r, x) PROVE Stops
  BY <1>1, <1>9 DEF OpenStep, OpenDispute, SetStatut, BookingRow, Stopped
<1> QED
  BY <1>8, <1>9, DisputeMove
     DEF DisputesNext, TripStep, Next, QuietStep, CloseStep, CloseDispute, dvars

\* With documented clients, one request at a time, a paid trip that is disputed,
\* cancelled or settled stays so: no start, completion or second payment takes
\* it further, whatever requests and callbacks come afterwards.
THEOREM DisputedTripsStop ==
  ASSUME DocumentedClients, OneRequestAtATime PROVE DisputesSpec => DisputeStopsTrip
<1> DEFINE Stops ==
      \A b \in Bookings : escrow[b] # None /\ booking[b].statut \in Stopped
                          => booking'[b].statut \in Stopped
<1>1. DisputesInit => Exclusive /\ FreshSnapshot
  BY DEF DisputesInit, Init, Exclusive, FreshSnapshot, IdleDispute, Idle, None
<1>2. DisputesTypeOK /\ Exclusive /\ [DisputesNext]_dvars => Exclusive'
  BY StepExclusive
<1>3. DisputesTypeOK /\ Exclusive /\ FreshSnapshot /\ [DisputesNext]_dvars => FreshSnapshot'
  BY StepFreshBesideDisputes
<1>4. DisputesTypeOK /\ FreshSnapshot /\ [DisputesNext]_dvars => [Stops]_dvars
  BY StepStops
<1> QED
  BY <1>1, <1>2, <1>3, <1>4, DisputesTypeCorrect, PTL DEF DisputesSpec, DisputeStopsTrip
=============================================================================
