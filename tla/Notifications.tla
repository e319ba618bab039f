---------------------------- MODULE Notifications ----------------------------
(***************************************************************************)
(* NotificationsService (src/notifications/notifications.service.ts) and   *)
(* the notes the handlers of the money path write.  A handler writes them  *)
(* after its transaction committed and before it answers: they are what is *)
(* lost when a request dies at that point, and nobody writes them later.   *)
(*                                                                         *)
(* A note stands for the latest row of its type, booking and user.         *)
(***************************************************************************)
EXTENDS TripFunds

CONSTANTS
    PassengerUser,  \* Bookings -> the user of the booking's passenger
    DriverUser,     \* Drivers -> the user of the driver
    Undefined,      \* the value of a property an object does not have
    NoteTypes       \* bound: the types of notes that are followed

Users == {PassengerUser[b] : b \in Bookings} \cup {DriverUser[d] : d \in Drivers}

ASSUME NotificationsAssumption == Undefined \notin Users

VARIABLES
    inbox,   \* each note: "none", "unread", "read" (isRead) or, if its insert
             \* failed, "lost"
    outbox   \* the notes each request has still to write

nvars == <<vars, inbox, outbox>>

Note == [type : NoteTypes, on : Bookings, user : Users]
To(type, b, user) == [type |-> type, on |-> b, user |-> user]
ToPassenger(type, b) == To(type, b, PassengerUser[b])
ToDriver(type, b) == To(type, b, DriverUser[Driver(b)])

\* Mutation: the end of the trip is told before the funds are released.
ToldEarly(r) ==
    LET b == req[r].booking IN
    CASE req[r].at = "complete" -> {{ToPassenger("TRIP_COMPLETED", b)}}
      [] req[r].at = "confirmPayment" /\ escrow[b] = None ->
            {{ToPassenger("PAYMENT_SUCCESS", b), ToDriver("PAYMENT_RECEIVED", b)}}
      [] OTHER -> {{}}

\* The notes a request owes once the writes it is suspended at have committed.
\* A cancellation tells the other party; a repeated confirmation, the direct
\* release and the default branch of updateStatus tell nobody.
Told(r) ==
    LET b == req[r].booking
        place == req[r].at
    IN
    CASE place = "create" ->
            {{ToDriver("BOOKING_NEW", b), ToPassenger("BOOKING_PENDING", b)}}
      [] place \in {"cancelUnpaid", "cancelCommit"} ->
            {{ToDriver("RESERVATION_CANCELLED", b)}, {ToPassenger("RESERVATION_CANCELLED", b)}}
      [] place = "setStatut" /\ req[r].target = "CONFIRMED" ->
            {{ToPassenger("RESERVATION_CONFIRMED", b)}}
      [] place = "releaseCommit" /\ req[r].target = "COMPLETED" ->
            {{ToPassenger("TRIP_COMPLETED", b)}}
      [] place = "start" -> {{ToPassenger("TRIP_STARTED", b)}}
      [] place = "confirmPayment" /\ escrow[b] = None ->
            {{ToPassenger("PAYMENT_SUCCESS", b), ToDriver("PAYMENT_RECEIVED", b)}}
      [] place = "failPayment" -> {{ToPassenger("PAYMENT_FAILED", b)}}
      [] OTHER -> {{}}

-----------------------------------------------------------------------------
\* A request of the money path starts, once the earlier one has answered ...
ReceiveRequest(r, b) ==
    /\ outbox[r] = {}
    /\ Receive(r, b)
    /\ UNCHANGED <<inbox, outbox>>

\* ... and its writes commit, after which it owes their notes.
ResumeHandler(r, b) ==
    /\ Resume(r, b)
    /\ \E notes \in Told(r) : outbox' = [outbox EXCEPT ![r] = notes \cap Note]
    /\ UNCHANGED inbox

\* Mutation: the notes are awaited one after the other and the first decides.
NotifyFirst(r, n) ==
    /\ n \in outbox[r]
    /\ inbox' = [inbox EXCEPT ![n] = "unread"]
    /\ outbox' = [outbox EXCEPT ![r] = {}]
    /\ UNCHANGED vars

\* NotificationsService.create; several notes of one request are written
\* concurrently (Promise.all).
Notify(r, n) ==
    /\ n \in outbox[r]
    /\ inbox' = [inbox EXCEPT ![n] = "unread"]
    /\ outbox' = [outbox EXCEPT ![r] = @ \ {n}]
    /\ UNCHANGED vars

\* The insert fails or the process dies: the client sees an error for what is
\* committed, and the note is lost.
LoseNote(r, n) ==
    /\ MayAbort
    /\ n \in outbox[r]
    /\ inbox' = [inbox EXCEPT ![n] = IF @ = "none" THEN "lost" ELSE @]
    /\ outbox' = [outbox EXCEPT ![r] = @ \ {n}]
    /\ UNCHANGED vars

\* What the controller passes on for the caller u: his user.sub.  The object
\* JwtStrategy.validate returns has an id, a telephone and a role, and no sub.
Sub(u) == Undefined

\* Prisma ignores a filter whose value is undefined.
Selected(userId) == {n \in Note : userId \in {n.user, Undefined}}

\* markAllAsRead: one updateMany over the unread notes it selects.  (markAsRead
\* compares the same user.sub with the note's owner: it refuses everybody and
\* changes nothing.)
MarkAllAsRead(u) ==
    /\ inbox' = [n \in Note |->
                   IF n \in Selected(Sub(u)) /\ inbox[n] = "unread" THEN "read" ELSE inbox[n]]
    /\ UNCHANGED <<vars, outbox>>

NotificationsInit ==
    /\ Init
    /\ inbox = [n \in Note |-> "none"]
    /\ outbox = [r \in Requests |-> {}]

NotificationsNext ==
    \/ \E r \in Requests, b \in Bookings : ReceiveRequest(r, b) \/ ResumeHandler(r, b)
    \/ \E r \in Requests, n \in Note : Notify(r, n) \/ LoseNote(r, n)
    \/ \E u \in Users : MarkAllAsRead(u)
    \/ (\E r \in Requests : Abort(r)) /\ UNCHANGED <<inbox, outbox>>
    \/ (\E b \in Bookings : OtpExpires(b)) /\ UNCHANGED <<inbox, outbox>>

\* The event loop resumes every handler whose await is over.
NotificationsSpec ==
    /\ NotificationsInit /\ [][NotificationsNext]_nvars
    /\ \A r \in Requests :
          /\ WF_nvars(\E b \in Bookings : ResumeHandler(r, b))
          /\ WF_nvars(\E n \in Note : Notify(r, n))

-----------------------------------------------------------------------------
\* Nobody is told of money that has not moved: a note of a payment has an
\* escrow behind it, and the end of a trip is told once its funds are out.
NotesTruthful ==
    \A n \in Note : inbox[n] \in {"unread", "read"} =>
        /\ n.type \in {"PAYMENT_SUCCESS", "PAYMENT_RECEIVED"} => escrow[n.on] # None
        /\ n.type = "TRIP_COMPLETED" => escrow[n.on] = "released"

\* A payment that went into escrow is eventually told to the passenger and to
\* the driver, except for an insert that itself failed: neither the other one's
\* failure nor what happens to the booking meanwhile keeps a note back.
PaidIsTold ==
    \A b \in Bookings :
        escrow[b] # None ~> /\ inbox[ToPassenger("PAYMENT_SUCCESS", b)] # "none"
                            /\ inbox[ToDriver("PAYMENT_RECEIVED", b)] # "none"

-----------------------------------------------------------------------------
(* A claim of the documentation that the code does not keep; see README.md. *)

\* "Marque toutes les notifications non lues de l'utilisateur comme lues": the
\* notes that are read in one step all belong to one user.
ReadsOwnNotes ==
    [][\A n, m \in Note :
         inbox'[n] = "read" /\ inbox[n] # "read" /\ inbox'[m] = "read" /\ inbox[m] # "read"
            => n.user = m.user]_nvars
=============================================================================
