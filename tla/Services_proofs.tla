-------------------------- MODULE Services_proofs ---------------------------
(***************************************************************************)
(* Proofs about the services that run beside the money path, for every     *)
(* number of vehicles, drivers, users, freights and concurrent requests:   *)
(* Fleet (vehicles, drivers, freight), then Notifications.                 *)
(***************************************************************************)
EXTENDS Fleet, Notifications, TripFunds_proofs

-----------------------------------------------------------------------------
(* Fleet: only what the search shows can be booked.                        *)

VehiclesOK == vehicle \in [Vehicles -> [statut : VehicleStatut \cup {None}, capacite : Nat]]

\* updateAvailability lets verified drivers only be available.
AvailableVerified ==
  /\ available \in [Drivers -> BOOLEAN] /\ verified \in [Drivers -> BOOLEAN]
  /\ \A d \in Drivers : available[d] => verified[d]

FleetInv == TypeOK /\ VehiclesOK /\ AvailableVerified

\* Beside the fleet, the money path takes its own steps.
LEMMA TripStepNext == ASSUME TripStep PROVE [Next]_vars /\ UNCHANGED fleet
BY DEF TripStep, Next, Receive

LEMMA InitFleetInv == FleetInit => FleetInv
<1> SUFFICES ASSUME FleetInit PROVE FleetInv
  OBVIOUS
<1>1. TypeOK
  BY InitType DEF FleetInit
<1>2. VehiclesOK /\ AvailableVerified
  BY DEF FleetInit, VehiclesOK, AvailableVerified
<1> QED BY <1>1, <1>2 DEF FleetInv

LEMMA StepFleetInv == FleetInv /\ [FleetNext]_allvars => FleetInv'
<1> SUFFICES ASSUME FleetInv, [FleetNext]_allvars PROVE FleetInv'
  OBVIOUS
<1>1. ASSUME UNCHANGED <<vars, fleet>> PROVE FleetInv'
  <2>1. TypeOK'
    BY <1>1, StepType DEF FleetInv
  <2> QED BY <1>1, <2>1 DEF fleet, FleetInv, VehiclesOK, AvailableVerified
<1>2. CASE TripStep
  <2>1. TypeOK'
    BY <1>2, TripStepNext, StepType DEF FleetInv
  <2> QED BY <1>2, <2>1, TripStepNext DEF fleet, FleetInv, VehiclesOK, AvailableVerified
<1>3. ASSUME NEW v \in Vehicles, NEW c \in Capacities, NEW s \in VehicleStatut,
             RegisterVehicle(v, c, s)
      PROVE  FleetInv'
  <2>1. c \in Nat
    BY FleetAssumption
  <2>2. TypeOK'
    BY <1>3, <2>1 DEF RegisterVehicle, FleetInv, TypeOK, RowsOK, RequestsOK
  <2> QED BY <1>3, <2>1, <2>2 DEF RegisterVehicle, FleetInv, VehiclesOK, AvailableVerified
<1>4. ASSUME NEW v \in Vehicles, NEW c \in Capacities, NEW s \in VehicleStatut,
             UpdateVehicle(v, c, s)
      PROVE  FleetInv'
  <2>1. c \in Nat
    BY FleetAssumption
  <2>2. TypeOK'
    BY <1>4, StepType DEF UpdateVehicle, FleetInv
  <2> QED BY <1>4, <2>1, <2>2 DEF UpdateVehicle, FleetInv, VehiclesOK, AvailableVerified
<1>5. ASSUME NEW v \in Vehicles, RemoveVehicle(v) PROVE FleetInv'
  <2>1. TypeOK'
    BY <1>5, StepType DEF RemoveVehicle, FleetInv
  <2>2. VehiclesOK'
    BY <1>5 DEF RemoveVehicle, FleetInv, VehiclesOK, VehicleStatut
  <2> QED BY <1>5, <2>1, <2>2 DEF RemoveVehicle, FleetInv, AvailableVerified
<1>6. ASSUME NEW d \in Drivers, Verify(d) \/ \E on \in BOOLEAN : UpdateAvailability(d, on)
      PROVE  FleetInv'
  <2>1. UNCHANGED <<vars, vehicle>>
    BY <1>6 DEF Verify, UpdateAvailability
  <2>2. TypeOK'
    BY <2>1, StepType DEF FleetInv
  <2>3. AvailableVerified'
    BY <1>6 DEF Verify, UpdateAvailability, FleetInv, AvailableVerified
  <2> QED BY <2>1, <2>2, <2>3 DEF FleetInv, VehiclesOK
<1> QED
  BY <1>1, <1>2, <1>3, <1>4, <1>5, <1>6 DEF FleetNext, FleetStep, allvars

\* A request that comes to wait before create's commit has passed the check.
LEMMA StepListed ==
  ASSUME FleetInv, [FleetNext]_allvars, NEW r \in Requests,
         req[r].at # "create", req'[r].at = "create"
  PROVE  VehicleOf[req'[r].booking] \in Nearby
<1>1. req \in [Requests -> Request] /\ seats \in [Vehicles -> Int]
  BY DEF FleetInv, TypeOK, RequestsOK, RowsOK
<1>2. req' # req
  OBVIOUS
<1>3. TripStep
  BY <1>2 DEF FleetNext, FleetStep, allvars, vars, fleet, RegisterVehicle, UpdateVehicle,
              RemoveVehicle, Verify, UpdateAvailability
<1>4. ASSUME NEW s \in Requests, NEW b \in Bookings, CreateRead(s, b), Bookable(VehicleOf[b])
      PROVE  VehicleOf[req'[r].booking] \in Nearby
  <2>1. s = r /\ req'[r].booking = b
    BY <1>1, <1>4 DEF CreateRead, Begin
  <2>2. VehicleOf[b] \in Vehicles /\ PlacesOf[b] \in Nat \ {0} /\ DriverOf[VehicleOf[b]] \in Drivers
    BY ConstantsAssumption
  <2>3. seats[VehicleOf[b]] > 0
    BY <1>1, <1>4, <2>2 DEF CreateRead
  <2>4. vehicle[VehicleOf[b]].statut = "ACTIF" /\ available[DriverOf[VehicleOf[b]]]
    BY <1>4 DEF Bookable
  <2>5. verified[DriverOf[VehicleOf[b]]]
    BY <2>2, <2>4 DEF FleetInv, AvailableVerified
  <2> QED BY <2>1, <2>2, <2>3, <2>4, <2>5 DEF Nearby
<1>5. ASSUME NEW s \in Requests, NEW b \in Bookings, booking[b].statut # None, Receive(s, b)
      PROVE  FALSE
  <2>1. ~CreateRead(s, b)
    BY <1>5 DEF CreateRead
  <2> QED
    BY <1>1, <1>5, <2>1 DEF Receive, CancelRead, CompleteRead, SetStatutRead, StartRead,
                            PayRead, ReceiveWebhook, WalletRelease, Begin, Request
<1>6. ASSUME NEW s \in Requests, End(s) PROVE FALSE
  BY <1>1, <1>6 DEF End, Idle
<1>7. ASSUME NEW s \in Requests, NEW place \in Place \ {"create"}, Goto(s, place) PROVE FALSE
  BY <1>1, <1>7 DEF Goto, Request
<1>8. ASSUME NEW s \in Requests, NEW b \in Bookings, Resume(s, b) PROVE FALSE
  <2>1. CASE CancelLock(s, b) \/ CompleteCommit(s, b) \/ RefundCommit(s, b)
    BY <1>6, <1>7, <2>1 DEF CancelLock, CompleteCommit, RefundCommit, Place
  <2>2. CASE ReleaseRead(s, b) \/ RefundRead(s, b)
    BY <1>6, <1>7, <2>2 DEF ReleaseRead, RefundRead, Place
  <2>3. CASE CancelTimeout(s, b)
    BY <1>1, <2>3 DEF CancelTimeout, Request
  <2> QED
    BY <1>6, <1>8, <2>1, <2>2, <2>3
       DEF Resume, BookingsStep, PaymentsStep, EscrowStep, CreateCommit, CancelCommit,
           SetStatutCommit, StartCommit, PayCommit, ConfirmPayment, FailPayment,
           MarkProcessing, ReleaseCommit
<1> QED
  BY <1>2, <1>3, <1>4, <1>5, <1>6, <1>8 DEF TripStep, Abort, OtpExpires

\* A booking is only accepted for a vehicle the search shows, whatever
\* identifier the passenger sends and however requests interleave.
THEOREM BookedAreListed == FleetSpec => BookedIsListed
<1> DEFINE Listed == \A r \in Requests :
             req[r].at # "create" /\ req'[r].at = "create"
                => VehicleOf[req'[r].booking] \in Nearby
<1>1. FleetInv /\ [FleetNext]_allvars => [Listed]_allvars
  BY StepListed
<1> QED BY <1>1, InitFleetInv, StepFleetInv, PTL DEF FleetSpec, BookedIsListed

-----------------------------------------------------------------------------
(* The seats of a vehicle, one request at a time: what the money path keeps *)
(* of a booking and its cancellation, the fleet does not disturb.           *)

SeatsInv == FleetInv /\ BookedOnce /\ CancelsLive

LEMMA StepSeatsInv ==
  ASSUME OneRequestAtATime, SeatsInv, [FleetNext]_allvars
  PROVE  SeatsInv'
<1>1. FleetInv'
  BY StepFleetInv DEF SeatsInv
<1>2. CASE TripStep
  <2>1. BookedOnce' /\ CancelsLive'
    BY <1>2, TripStepNext, StepBookedOnce, StepCancelsLive DEF SeatsInv, FleetInv
  <2> QED BY <1>1, <2>1 DEF SeatsInv
<1>3. CASE UNCHANGED <<booking, payment, escrow, req>>
  <2>1. BookedOnce' /\ CancelsLive'
    BY <1>3 DEF SeatsInv, BookedOnce, CancelsLive
  <2> QED BY <1>1, <2>1 DEF SeatsInv
<1> QED
  BY <1>2, <1>3 DEF FleetNext, FleetStep, allvars, vars, RegisterVehicle, UpdateVehicle,
                    RemoveVehicle, Verify, UpdateAvailability

\* A vehicle keeps the seats it was registered with, free or booked, as long
\* as no confirmation or release revives a cancelled booking: whatever new
\* capacity its driver writes and wherever requests die.
THEOREM SeatsAreConserved == ASSUME OneRequestAtATime PROVE FleetSpec => SeatsConserved
<1> DEFINE Kept == \A v \in Vehicles :
             /\ vehicle[v].statut # None
             /\ \A b \in Bookings : booking[b].statut = "CANCELLED" => booking'[b] = booking[b]
             => seats'[v] + TotalPlaces(Occupying(v))' = seats[v] + TotalPlaces(Occupying(v))
<1>1. FleetInit => SeatsInv
  <2> SUFFICES ASSUME FleetInit PROVE SeatsInv
    OBVIOUS
  <2>1. BookedOnce /\ CancelsLive
    BY DEF FleetInit, Init, BookedOnce, CancelsLive, CancelPlaces, Idle, None
  <2> QED BY <2>1, InitFleetInv DEF SeatsInv
<1>2. SeatsInv /\ [FleetNext]_allvars => SeatsInv'
  BY StepSeatsInv
<1>3. SeatsInv /\ [FleetNext]_allvars => [Kept]_allvars
  <2> SUFFICES ASSUME SeatsInv, [FleetNext]_allvars, NEW v \in Vehicles,
                      vehicle[v].statut # None,
                      \A b \in Bookings :
                         booking[b].statut = "CANCELLED" => booking'[b] = booking[b]
               PROVE  seats'[v] + TotalPlaces(Occupying(v))'
                      = seats[v] + TotalPlaces(Occupying(v))
    OBVIOUS
  <2>1. CASE TripStep
    BY <2>1, TripStepNext, SeatsBalance DEF SeatsInv, FleetInv, Revived
  <2>2. CASE UNCHANGED booking /\ seats'[v] = seats[v]
    BY <2>2 DEF TotalPlaces, Occupying
  <2>3. ASSUME NEW w \in Vehicles, NEW c \in Capacities, NEW s \in VehicleStatut,
               RegisterVehicle(w, c, s)
        PROVE  UNCHANGED booking /\ seats'[v] = seats[v]
    BY <2>3 DEF RegisterVehicle, SeatsInv, FleetInv, TypeOK, RowsOK
  <2> QED
    BY <2>1, <2>2, <2>3 DEF FleetNext, FleetStep, allvars, vars, UpdateVehicle,
                            RemoveVehicle, Verify, UpdateAvailability
<1> QED BY <1>1, <1>2, <1>3, PTL DEF FleetSpec, SeatsConserved

-----------------------------------------------------------------------------
(* One assignment at a time, a freight that was read as waiting still is   *)
(* when its assignment writes.                                             *)

OneAssignment == \A p, q \in FreightRequests : p = q

AssignsWaiting ==
  /\ freight \in [Freights -> [statut : {None, "EN_ATTENTE", "EN_TRANSIT"},
                               driver : Assignees \cup {NoAssignee}]]
  /\ freq \in [FreightRequests -> {IdleFreight} \cup [of : Freights, to : Assignees]]
  /\ \A f \in Freights : freight[f].statut # "EN_TRANSIT" => freight[f].driver = NoAssignee
  /\ \A q \in FreightRequests :
        freq[q] # IdleFreight => freight[freq[q].of].statut = "EN_ATTENTE"

LEMMA StepAssigns ==
  ASSUME OneAssignment, AssignsWaiting, [FleetNext]_allvars
  PROVE  /\ AssignsWaiting'
         /\ \A f \in Freights :
               freight[f].driver # NoAssignee => freight'[f].driver = freight[f].driver
<1> DEFINE Kept == \A f \in Freights :
                     freight[f].driver # NoAssignee => freight'[f].driver = freight[f].driver
<1> USE DEF None
<1>1. CASE UNCHANGED <<freight, freq>>
  BY <1>1 DEF AssignsWaiting
<1>2. ASSUME NEW f \in Freights, CreateFreight(f) PROVE AssignsWaiting' /\ Kept
  BY <1>2 DEF CreateFreight, Waiting, AssignsWaiting
<1>3. ASSUME NEW q \in FreightRequests, NEW f \in Freights, NEW d \in Assignees,
             AssignRead(q, f, d)
      PROVE  AssignsWaiting' /\ Kept
  BY <1>3 DEF AssignRead, OneAssignment, AssignsWaiting
<1>4. ASSUME NEW q \in FreightRequests, AssignWrite(q) PROVE AssignsWaiting' /\ Kept
  <2>1. freq[q] \in [of : Freights, to : Assignees] /\ freight[freq[q].of].driver = NoAssignee
    BY <1>4 DEF AssignWrite, AssignsWaiting
  <2>2. \A p \in FreightRequests : freq'[p] = IdleFreight
    BY <1>4 DEF AssignWrite, OneAssignment, AssignsWaiting
  <2> QED BY <1>4, <2>1, <2>2 DEF AssignWrite, AssignsWaiting
<1>5. ASSUME NEW q \in FreightRequests, AbortAssign(q) PROVE AssignsWaiting' /\ Kept
  BY <1>5 DEF AbortAssign, AssignsWaiting
<1> QED
  BY <1>1, <1>2, <1>3, <1>4, <1>5 DEF FleetNext, FreightStep, allvars

\* With one assignment at a time, the driver of a freight never changes.
THEOREM FreightAssignedOnce == ASSUME OneAssignment PROVE FleetSpec => AssignedOnce
<1> DEFINE Kept == \A f \in Freights :
             freight[f].driver # NoAssignee => freight'[f].driver = freight[f].driver
<1>1. FleetInit => AssignsWaiting
  BY DEF FleetInit, FreightInit, AssignsWaiting, None
<1>2. AssignsWaiting /\ [FleetNext]_allvars => AssignsWaiting' /\ [Kept]_allvars
  BY StepAssigns
<1> QED BY <1>1, <1>2, PTL DEF FleetSpec, AssignedOnce

-----------------------------------------------------------------------------
(* Notifications: what a note tells of the money is true.                  *)

PaymentNotes == {"PAYMENT_SUCCESS", "PAYMENT_RECEIVED"}

\* What a note tells of the money is so.
True(n) ==
  /\ n.type \in PaymentNotes => escrow[n.on] # None
  /\ n.type = "TRIP_COMPLETED" => escrow[n.on] = "released"

\* NotesTruthful is not inductive: a note that is still to be written must
\* already be true, and stay so until it is.
NotesInv ==
  /\ TypeOK
  /\ inbox \in [Note -> {"none", "unread", "read", "lost"}]
  /\ outbox \in [Requests -> SUBSET Note]
  /\ \A n \in Note : inbox[n] \in {"unread", "read"} => True(n)
  /\ \A r \in Requests : \A n \in outbox[r] : True(n)

\* The notes about money are owed by a confirmation and by a release.
LEMMA ToldOfMoney ==
  ASSUME NEW r \in Requests, NEW notes \in Told(r), NEW n \in notes
  PROVE  /\ n.type \in PaymentNotes =>
              /\ n.on = req[r].booking
              /\ req[r].at = "confirmPayment" /\ escrow[req[r].booking] = None
         /\ n.type = "TRIP_COMPLETED" =>
              n.on = req[r].booking /\ req[r].at = "releaseCommit"
BY DEF Told, ToPassenger, ToDriver, To, PaymentNotes

\* ... which have moved it when they owe the note.
LEMMA ToldIsTrue ==
  ASSUME TypeOK, NEW r \in Requests, NEW b \in Bookings, Resume(r, b),
         NEW notes \in Told(r), NEW n \in notes
  PROVE  True(n)'
<1>1. escrow \in [Bookings -> {None, "held", "released"}]
  BY DEF TypeOK, RowsOK
<1>2. CASE n.type \in PaymentNotes
  <2>1. /\ n.on = req[r].booking
        /\ req[r].at = "confirmPayment" /\ escrow[req[r].booking] = None
    BY <1>2, ToldOfMoney
  <2>2. ConfirmPayment(r, b) /\ req[r].booking = b
    BY <2>1 DEF Resume, BookingsStep, PaymentsStep, EscrowStep, CreateCommit,
                CancelLock, CancelTimeout, CancelCommit, CompleteCommit, SetStatutCommit, StartCommit,
                PayCommit, ConfirmPayment, FailPayment, MarkProcessing, ReleaseRead,
                ReleaseCommit, RefundRead, RefundCommit, Suspended
  <2>3. escrow'[b] = "held"
    BY <1>1, <2>1, <2>2 DEF ConfirmPayment, HoldFunds
  <2> QED BY <1>2, <2>1, <2>2, <2>3 DEF True, PaymentNotes, None
<1>3. CASE n.type = "TRIP_COMPLETED"
  <2>1. n.on = req[r].booking /\ req[r].at = "releaseCommit"
    BY <1>3, ToldOfMoney
  <2>2. ReleaseCommit(r, b) /\ req[r].booking = b
    BY <2>1 DEF Resume, BookingsStep, PaymentsStep, EscrowStep, CreateCommit,
                CancelLock, CancelTimeout, CancelCommit, CompleteCommit, SetStatutCommit, StartCommit,
                PayCommit, ConfirmPayment, FailPayment, MarkProcessing, ReleaseRead,
                ReleaseCommit, RefundRead, RefundCommit, Suspended
  <2>3. escrow'[b] = "released"
    BY <1>1, <2>2 DEF ReleaseCommit
  <2> QED BY <1>3, <2>1, <2>2, <2>3 DEF True, PaymentNotes
<1> QED BY <1>2, <1>3 DEF True

LEMMA StepNotes == NotesInv /\ [NotificationsNext]_nvars => NotesInv'
<1> SUFFICES ASSUME NotesInv, [NotificationsNext]_nvars PROVE NotesInv'
  OBVIOUS
<1>1. [Next]_vars
  BY DEF NotificationsNext, ReceiveRequest, ResumeHandler, Notify, LoseNote, MarkAllAsRead,
         nvars, Next
<1>2. TypeOK'
  BY <1>1, StepType DEF NotesInv
<1>3. ASSUME NEW n \in Note, True(n) PROVE True(n)'
  <2>1. n.on \in Bookings
    BY DEF Note
  <2> QED BY <1>1, <1>3, <2>1, EscrowStays DEF True, NotesInv
<1>4. CASE UNCHANGED <<inbox, outbox>>
  BY <1>2, <1>3, <1>4 DEF NotesInv
<1>5. ASSUME NEW r \in Requests, NEW b \in Bookings, ResumeHandler(r, b) PROVE NotesInv'
  <2>1. PICK notes \in Told(r) : outbox' = [outbox EXCEPT ![r] = notes \cap Note]
    BY <1>5 DEF ResumeHandler
  <2>2. \A n \in notes : True(n)'
    BY <1>5, ToldIsTrue DEF ResumeHandler, NotesInv
  <2>3. \A s \in Requests : \A n \in outbox'[s] : True(n)'
    BY <1>3, <2>1, <2>2 DEF NotesInv
  <2>4. outbox' \in [Requests -> SUBSET Note] /\ inbox' = inbox
    BY <1>5, <2>1 DEF ResumeHandler, NotesInv
  <2> QED BY <1>2, <1>3, <2>3, <2>4 DEF NotesInv
<1>6. ASSUME NEW r \in Requests, NEW n \in Note, Notify(r, n) \/ LoseNote(r, n)
      PROVE  NotesInv'
  <2>1. True(n) /\ outbox' = [outbox EXCEPT ![r] = @ \ {n}]
    BY <1>6 DEF Notify, LoseNote, NotesInv
  <2>2. \/ inbox' = [inbox EXCEPT ![n] = "unread"]
        \/ inbox' = [inbox EXCEPT ![n] = IF @ = "none" THEN "lost" ELSE @]
    BY <1>6 DEF Notify, LoseNote
  <2>3. inbox' \in [Note -> {"none", "unread", "read", "lost"}]
    BY <2>2 DEF NotesInv
  <2>4. \A m \in Note : inbox'[m] \in {"unread", "read"} => True(m)
    BY <2>1, <2>2 DEF NotesInv
  <2>5. /\ outbox' \in [Requests -> SUBSET Note]
        /\ \A s \in Requests : \A m \in outbox'[s] : True(m)
    BY <2>1 DEF NotesInv
  <2> QED BY <1>2, <1>3, <2>3, <2>4, <2>5 DEF NotesInv
<1>7. ASSUME NEW u \in Users, MarkAllAsRead(u) PROVE NotesInv'
  <2>1. /\ inbox' \in [Note -> {"none", "unread", "read", "lost"}] /\ outbox' = outbox
        /\ \A n \in Note : inbox'[n] \in {"unread", "read"} => inbox[n] \in {"unread", "read"}
    BY <1>7 DEF MarkAllAsRead, NotesInv
  <2> QED BY <1>2, <1>3, <2>1 DEF NotesInv
<1> QED
  BY <1>4, <1>5, <1>6, <1>7 DEF NotificationsNext, ReceiveRequest, nvars

\* Nobody is ever told of money that has not moved, under every interleaving
\* and wherever a request or an insert fails.
THEOREM NotesAreTruthful == NotificationsSpec => []NotesTruthful
<1>1. NotificationsInit => NotesInv
  <2> SUFFICES ASSUME NotificationsInit PROVE NotesInv
    OBVIOUS
  <2>1. TypeOK
    BY InitType DEF NotificationsInit
  <2> QED BY <2>1 DEF NotificationsInit, NotesInv
<1>2. NotesInv => NotesTruthful
  BY DEF NotesInv, NotesTruthful, True, PaymentNotes
<1> QED BY <1>1, <1>2, StepNotes, PTL DEF NotificationsSpec
=============================================================================
