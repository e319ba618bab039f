------------------------------ MODULE Disputes ------------------------------
(***************************************************************************)
(* DisputesService (src/disputes/disputes.service.ts) beside the money     *)
(* path: opening a dispute marks the booking DISPUTE, whatever its statut; *)
(* an administrator closes it, which leaves the booking as it is.          *)
(*                                                                         *)
(* This is the service, called by a participant of the booking: everybody  *)
(* else is refused and nothing changes.  The controller of this repository *)
(* hands it user.sub, which JwtStrategy.validate never sets, so that over  *)
(* HTTP it refuses the participants too (see README.md).                   *)
(***************************************************************************)
EXTENDS TripFunds

CONSTANTS
    Disputes,        \* one identifier per dispute that may be opened
    NoDispute,       \* the dispute of a handler that is working on none
    DisputeOf        \* Disputes -> Bookings: dto.bookingId

ASSUME DisputesAssumption ==
    /\ NoDispute \notin Disputes
    /\ DisputeOf \in [Disputes -> Bookings]

VARIABLES
    dispute,  \* disputes.statut, "none" before the row exists
    dreq      \* the requests in flight that are about a dispute

dvars == <<vars, dispute, dreq>>

Active(b) == {x \in Disputes : DisputeOf[x] = b /\ dispute[x] = "OUVERT"}

IdleDispute == [at |-> "idle", of |-> NoDispute]
At(r, place, x) == dreq[r].at = place /\ dreq[r].of = x
GoOn(r, place) == dreq' = [dreq EXCEPT ![r].at = place]
Finish(r) == dreq' = [dreq EXCEPT ![r] = IdleDispute]
Take(r, place, x) ==
    /\ req[r].at = "idle" /\ dreq[r].at = "idle"
    /\ dreq' = [dreq EXCEPT ![r] = [at |-> place, of |-> x]]

-----------------------------------------------------------------------------
\* create reads the booking, whatever its statut, and its participants.
CreateDispute(r, x) ==
    /\ dispute[x] = None
    /\ \A s \in Requests : dreq[s].of # x
    /\ Found(DisputeOf[x])
    /\ Take(r, "findActive", x)
    /\ UNCHANGED <<vars, dispute>>

\* Mutation: the disputes of the booking are not looked up.
FindNothing(r, x) ==
    /\ At(r, "findActive", x)
    /\ GoOn(r, "open")
    /\ UNCHANGED <<vars, dispute>>

\* create's second read: an active dispute of the booking is a conflict.
FindActive(r, x) ==
    /\ At(r, "findActive", x)
    /\ \/ Active(DisputeOf[x]) = {} /\ GoOn(r, "open")
       \/ Active(DisputeOf[x]) # {} /\ Finish(r)
    /\ UNCHANGED <<vars, dispute>>

\* create's transaction: the dispute, and the booking in DISPUTE.
OpenDispute(r, x) ==
    /\ At(r, "open", x)
    /\ BookingRowFree(r, DisputeOf[x])
    /\ dispute' = [dispute EXCEPT ![x] = "OUVERT"]
    /\ SetStatut(DisputeOf[x], "DISPUTE")
    /\ Finish(r)
    /\ UNCHANGED <<seats, payment, escrow, wallet, req>>

\* Mutation: a closed dispute can be decided again.
ResolveAny(r, x) ==
    /\ dispute[x] # None
    /\ \E verdict \in {"RESOLU", "REJETE"} : Take(r, verdict, x)
    /\ UNCHANGED <<vars, dispute>>

\* resolve, sent by an administrator, on a dispute it reads as not closed.
ResolveDispute(r, x) ==
    /\ dispute[x] = "OUVERT"
    /\ \E verdict \in {"RESOLU", "REJETE"} : Take(r, verdict, x)
    /\ UNCHANGED <<vars, dispute>>

\* Mutation: the administrator's verdict is lost.
CloseAsOpen(r, x) ==
    /\ dreq[r].at \in {"RESOLU", "REJETE"} /\ dreq[r].of = x
    /\ dispute' = [dispute EXCEPT ![x] = "EN_COURS"]
    /\ Finish(r)
    /\ UNCHANGED vars

CloseDispute(r, x) ==
    /\ dreq[r].at \in {"RESOLU", "REJETE"} /\ dreq[r].of = x
    /\ dispute' = [dispute EXCEPT ![x] = dreq[r].at]
    /\ Finish(r)
    /\ UNCHANGED vars

AbortDispute(r) ==
    /\ MayAbort
    /\ dreq[r].at # "idle"
    /\ Finish(r)
    /\ UNCHANGED <<vars, dispute>>

DisputesStep ==
    \/ \E r \in Requests, x \in Disputes :
          \/ CreateDispute(r, x) \/ FindActive(r, x) \/ OpenDispute(r, x)
          \/ ResolveDispute(r, x) \/ CloseDispute(r, x)
    \/ \E r \in Requests : AbortDispute(r)

\* A step of the money path, by a request that is about no dispute.
TripStep ==
    /\ \/ \E r \in Requests, b \in Bookings :
             dreq[r].at = "idle" /\ (Receive(r, b) \/ Resume(r, b))
       \/ \E r \in Requests : Abort(r)
       \/ \E b \in Bookings : OtpExpires(b)
    /\ UNCHANGED <<dispute, dreq>>

DisputesInit ==
    /\ Init
    /\ dispute = [x \in Disputes |-> None]
    /\ dreq = [r \in Requests |-> IdleDispute]
DisputesNext == TripStep \/ DisputesStep
DisputesSpec == DisputesInit /\ [][DisputesNext]_dvars

-----------------------------------------------------------------------------
DisputesTypeOK ==
    /\ TypeOK
    /\ dispute \in [Disputes -> {None, "OUVERT", "RESOLU", "REJETE"}]
    /\ dreq \in [Requests ->
                   {IdleDispute} \cup
                   [at : {"findActive", "open", "RESOLU", "REJETE"}, of : Disputes]]

\* "Un seul litige actif par réservation à la fois".
OneActiveDispute == \A x, y \in Disputes :
    x # y /\ DisputeOf[x] = DisputeOf[y] => ~(dispute[x] = "OUVERT" /\ dispute[y] = "OUVERT")

\* "Ce litige est déjà clôturé": the decision on a dispute is never replaced.
ClosedIsFinal ==
    [][\A x \in Disputes : dispute[x] \in {"RESOLU", "REJETE"} => dispute'[x] = dispute[x]]_dvars

\* A paid trip goes nowhere once it is disputed: it is never started, completed
\* or paid again, however late the requests and callbacks that were about it; it
\* can only be cancelled or settled, and these may still be disputed.  (A dispute
\* about an unpaid booking stops nothing: a payment makes it PAID.)
Stopped == {"DISPUTE", "CANCELLED", "FUNDS_RELEASED"}
DisputeStopsTrip ==
    [][\A b \in Bookings : escrow[b] # None /\ booking[b].statut \in Stopped
         => booking'[b].statut \in Stopped]_dvars
=============================================================================
