------------------------------ MODULE Bookings ------------------------------
(***************************************************************************)
(* BookingsService (src/bookings/bookings.service.ts): creating a booking, *)
(* PATCH /bookings/:id/status (updateStatus) and POST /bookings/:id/start. *)
(* Role checks only reject; a caller with the required role always exists, *)
(* so they do not appear.                                                  *)
(***************************************************************************)
EXTENDS Escrow

\* findOne: the booking exists and the caller is one of its participants.
Found(b) == booking[b].statut # None

\* getCancellationPolicy: it answers 'refund' whenever the payment it is given
\* is COMPLETED (scheduledAt is never set, and a late cancellation refunds too).
PolicyRefunds(b) == payment[b] = "COMPLETED"

\* decodeBookingQrData: JSON of an object with a bookingId or of a string, or
\* the bare identifier; anything else, or nothing at all, designates no booking.
QrData == [form : {"object", "string", "identifier", "other"}, id : Bookings]
DecodeBookingQrData(data) == IF data.form = "other" THEN NoBooking ELSE data.id

\* startTrip's second check: the OTP that was stored, unexpired, or data that
\* decodes to this booking's id.  The booking's own qrCode is not consulted.
PassValid(b, otpMatches, data) ==
    \/ otpMatches /\ booking[b].otpCode = "valid"
    \/ DecodeBookingQrData(data) = b

\* Mutation: the free seats are not checked.
CreateUnchecked(r, b) ==
    /\ booking[b].statut = None
    /\ \A s \in Requests : req[s].at = "create" => req[s].booking # b
    /\ Begin(r, "create", b, None)
    /\ UNCHANGED rows

\* create's check of the free seats of the vehicle it read.
CreateRead(r, b) ==
    /\ booking[b].statut = None
    /\ \A s \in Requests : req[s].at = "create" => req[s].booking # b
    /\ seats[VehicleOf[b]] >= PlacesOf[b]
    /\ Begin(r, "create", b, None)
    /\ UNCHANGED rows

\* create's transaction: insert the booking, decrement the free seats.
CreateCommit(r, b) ==
    /\ Suspended(r, "create", b)
    /\ VehicleRowFree(r, VehicleOf[b])
    /\ SetStatut(b, "PENDING")
    /\ seats' = [seats EXCEPT ![VehicleOf[b]] = @ - PlacesOf[b]]
    /\ End(r)
    /\ UNCHANGED <<payment, escrow, wallet>>

\* Mutation: the payment is not looked at, no cancellation refunds.
CancelWithoutRefund(r, b) ==
    /\ "CANCELLED" \in RequestedStatuts
    /\ Found(b)
    /\ booking[b].statut \notin {"CANCELLED", "COMPLETED", "IN_PROGRESS"}
    /\ seats[VehicleOf[b]] < SeatLimit
    /\ Begin(r, "cancelUnpaid", b, "CANCELLED")
    /\ UNCHANGED rows

\* updateStatus, dto.statut = CANCELLED: the statut and the payment it reads
\* here decide, whatever they become, whether the cancellation goes on and
\* whether it refunds.
CancelRead(r, b) ==
    /\ "CANCELLED" \in RequestedStatuts
    /\ Found(b)
    /\ booking[b].statut \notin {"CANCELLED", "COMPLETED", "IN_PROGRESS"}
    /\ seats[VehicleOf[b]] < SeatLimit
    /\ \/ PolicyRefunds(b) /\ Begin(r, "cancelPaid", b, "CANCELLED")
       \/ ~PolicyRefunds(b) /\ Begin(r, "cancelUnpaid", b, "CANCELLED")
    /\ UNCHANGED rows

\* The cancellation of a paid booking opens its transaction, locks the booking
\* and the vehicle rows with its two updates, and calls refundFunds.
CancelLock(r, b) ==
    /\ Suspended(r, "cancelPaid", b)
    /\ BookingRowFree(r, b)
    /\ VehicleRowFree(r, VehicleOf[b])
    /\ Goto(r, "refundRead")
    /\ UNCHANGED rows

\* Prisma's timeout rolls the cancellation back and frees its rows.  It does
\* not stop the callback: the refund it is waiting for goes on.
CancelTimeout(r, b) ==
    /\ MayAbort
    /\ Suspended(r, "refundRead", b) \/ Suspended(r, "refundCommit", b)
    /\ HoldsLocks(r)
    /\ req' = [req EXCEPT ![r].target = None]
    /\ UNCHANGED rows

\* Mutation: the seats are not given back.
CancelKeepsSeats(r, b) ==
    /\ Suspended(r, "cancelUnpaid", b) \/ Suspended(r, "cancelCommit", b)
    /\ BookingRowFree(r, b)
    /\ SetStatut(b, "CANCELLED")
    /\ End(r)
    /\ UNCHANGED <<seats, payment, escrow, wallet>>

\* The cancellation commits: booking cancelled, seats given back.
CancelCommit(r, b) ==
    /\ Suspended(r, "cancelUnpaid", b) \/ Suspended(r, "cancelCommit", b)
    /\ BookingRowFree(r, b)
    /\ VehicleRowFree(r, VehicleOf[b])
    /\ SetStatut(b, "CANCELLED")
    /\ seats' = [seats EXCEPT ![VehicleOf[b]] = @ + PlacesOf[b]]
    /\ End(r)
    /\ UNCHANGED <<payment, escrow, wallet>>

\* Mutation: any booking can be completed.
CompleteUnchecked(r, b) ==
    /\ "COMPLETED" \in RequestedStatuts
    /\ Found(b) /\ booking[b].statut # "CANCELLED"
    /\ Begin(r, "complete", b, "COMPLETED")
    /\ UNCHANGED rows

\* updateStatus, dto.statut = COMPLETED, sent by the driver.
CompleteRead(r, b) ==
    /\ "COMPLETED" \in RequestedStatuts
    /\ booking[b].statut = "IN_PROGRESS"
    /\ Begin(r, "complete", b, "COMPLETED")
    /\ UNCHANGED rows

\* Mutation: releaseFunds is not called.
CompleteOnly(r, b) ==
    /\ Suspended(r, "complete", b)
    /\ BookingRowFree(r, b)
    /\ SetStatut(b, "COMPLETED")
    /\ End(r)
    /\ UNCHANGED <<seats, payment, escrow, wallet>>

\* The statut is written alone; releaseFunds is called after it.
CompleteCommit(r, b) ==
    /\ Suspended(r, "complete", b)
    /\ BookingRowFree(r, b)
    /\ SetStatut(b, "COMPLETED")
    /\ Goto(r, "releaseRead")
    /\ UNCHANGED <<seats, payment, escrow, wallet>>

\* Mutation: the COMPLETED branch falls through to the last line.
SetStatutFallsThrough(r, b) ==
    /\ Found(b) /\ booking[b].statut # "CANCELLED"
    /\ \E s \in RequestedStatuts \ {"CANCELLED"} : Begin(r, "setStatut", b, s)
    /\ UNCHANGED rows

\* Mutation: the driver may confirm whatever the booking's statut.
ConfirmAnyBooking(r, b) ==
    /\ Found(b) /\ booking[b].statut # "CANCELLED"
    /\ \E s \in RequestedStatuts \ {"CANCELLED", "COMPLETED"} : Begin(r, "setStatut", b, s)
    /\ UNCHANGED rows

\* updateStatus, dto.statut = CONFIRMED (the driver, on a PENDING booking) or,
\* by the last line of the method, any statut without a branch of its own.
SetStatutRead(r, b) ==
    /\ Found(b) /\ booking[b].statut # "CANCELLED"
    /\ \E s \in RequestedStatuts \ {"CANCELLED", "COMPLETED"} :
          /\ s = "CONFIRMED" => booking[b].statut = "PENDING"
          /\ Begin(r, "setStatut", b, s)
    /\ UNCHANGED rows

SetStatutCommit(r, b) ==
    /\ Suspended(r, "setStatut", b)
    /\ BookingRowFree(r, b)
    /\ SetStatut(b, req[r].target)
    /\ End(r)
    /\ UNCHANGED <<seats, payment, escrow, wallet>>

\* startTrip's checks, with the driver near the passenger.
StartRead(r, b) ==
    /\ booking[b].statut = "PAID"
    /\ \E otpMatches \in BOOLEAN, data \in QrData : PassValid(b, otpMatches, data)
    /\ Begin(r, "start", b, None)
    /\ UNCHANGED rows

\* startTrip's update erases the OTP and leaves the QR code.
StartCommit(r, b) ==
    /\ Suspended(r, "start", b)
    /\ BookingRowFree(r, b)
    /\ booking' = [booking EXCEPT ![b].statut = "IN_PROGRESS",
                                  ![b].otpCode = "null"]
    /\ End(r)
    /\ UNCHANGED <<seats, payment, escrow, wallet>>

\* Time passes: a stored OTP reaches otpExpiresAt.
OtpExpires(b) ==
    /\ booking[b].otpCode = "valid"
    /\ booking' = [booking EXCEPT ![b].otpCode = "expired"]
    /\ UNCHANGED <<seats, payment, escrow, wallet, req>>

BookingsStep(r, b) ==
    \/ CreateCommit(r, b)
    \/ CancelLock(r, b)
    \/ CancelTimeout(r, b)
    \/ CancelCommit(r, b)
    \/ CompleteCommit(r, b)
    \/ SetStatutCommit(r, b)
    \/ StartCommit(r, b)
=============================================================================
