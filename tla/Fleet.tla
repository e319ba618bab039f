-------------------------------- MODULE Fleet --------------------------------
(***************************************************************************)
(* VehiclesService (src/vehicles/vehicles.service.ts) and DriversService   *)
(* (src/drivers/drivers.service.ts) beside the money path: drivers register *)
(* vehicles, change and retire them and say when they are available, while *)
(* passengers book them.  Only the owner of a vehicle gets past the checks *)
(* of update and remove, so the caller is the driver of the vehicle.       *)
(*                                                                         *)
(* Freight, the other thing drivers are assigned to, runs beside it.       *)
(***************************************************************************)
EXTENDS Ledger, Freight

CONSTANT Capacities   \* the dto.capacite values drivers send

ASSUME FleetAssumption == Capacities \subseteq Nat \ {0}

VehicleStatut == {"ACTIF", "INACTIF", "MAINTENANCE"}

VARIABLES
    vehicle,    \* vehicles: statut ("none" before it is registered), capacite
    available,  \* drivers.isAvailable
    verified    \* drivers.isVerified

fleet == <<vehicle, available, verified>>
allvars == <<vars, freight, freq, fleet>>

FleetInit ==
    /\ Init
    /\ FreightInit
    /\ vehicle = [v \in Vehicles |-> [statut |-> None, capacite |-> 0]]
    /\ available = [d \in Drivers |-> FALSE]
    /\ verified = [d \in Drivers |-> FALSE]

\* An UPDATE of the vehicle row waits for a cancellation that has it locked.
RowFree(v) == \A r \in Requests : HoldsLocks(r) => VehicleOf[req[r].booking] # v

-----------------------------------------------------------------------------
\* VehiclesService.create.  The registration number is unique, so a second
\* registration of v is refused, by the check or by the index.
RegisterVehicle(v, capacite, statut) ==
    /\ vehicle[v].statut = None
    /\ vehicle' = [vehicle EXCEPT ![v] = [statut |-> statut, capacite |-> capacite]]
    /\ seats' = [seats EXCEPT ![v] = capacite]
    /\ UNCHANGED <<booking, payment, escrow, wallet, req, available, verified>>

\* Mutation: a new capacity is also the number of free seats, as in create.
UpdateRefillsSeats(v, capacite, statut) ==
    /\ vehicle[v].statut # None /\ RowFree(v)
    /\ vehicle' = [vehicle EXCEPT ![v] = [statut |-> statut, capacite |-> capacite]]
    /\ seats' = [seats EXCEPT ![v] = capacite]
    /\ UNCHANGED <<booking, payment, escrow, wallet, req, available, verified>>

\* VehiclesService.update: the fields of the dto, and nothing that depends on
\* them; the free seats stay as they are.
UpdateVehicle(v, capacite, statut) ==
    /\ vehicle[v].statut # None /\ RowFree(v)
    /\ vehicle' = [vehicle EXCEPT ![v] = [statut |-> statut, capacite |-> capacite]]
    /\ UNCHANGED <<vars, available, verified>>

\* VehiclesService.remove keeps the row, and the bookings it has.
RemoveVehicle(v) ==
    /\ vehicle[v].statut # None /\ RowFree(v)
    /\ vehicle' = [vehicle EXCEPT ![v].statut = "INACTIF"]
    /\ UNCHANGED <<vars, available, verified>>

\* Mutation: a driver needs no verification to be available.
AvailableUnverified(d, isAvailable) ==
    /\ available' = [available EXCEPT ![d] = isAvailable]
    /\ UNCHANGED <<vars, vehicle, verified>>

\* updateAvailability.  Its read comes earlier, but nothing takes a
\* verification back.
UpdateAvailability(d, isAvailable) ==
    /\ isAvailable => verified[d]
    /\ available' = [available EXCEPT ![d] = isAvailable]
    /\ UNCHANGED <<vars, vehicle, verified>>

\* Nothing in the repository sets isVerified: an administrator does, elsewhere.
Verify(d) ==
    /\ ~verified[d]
    /\ verified' = [verified EXCEPT ![d] = TRUE]
    /\ UNCHANGED <<vars, vehicle, available>>

\* 'Ce véhicule ou son chauffeur n'est pas disponible': create's own check,
\* which does not ask whether the driver is verified.
Bookable(v) == vehicle[v].statut = "ACTIF" /\ available[DriverOf[v]]

TripStep ==
    /\ \/ \E r \in Requests, b \in Bookings :
             \/ CreateRead(r, b) /\ Bookable(VehicleOf[b])
             \/ booking[b].statut # None /\ Receive(r, b)
             \/ Resume(r, b)
       \/ \E r \in Requests : Abort(r)
       \/ \E b \in Bookings : OtpExpires(b)
    /\ UNCHANGED fleet

FleetStep ==
    \/ TripStep
    \/ \E v \in Vehicles :
          \/ RemoveVehicle(v)
          \/ \E c \in Capacities, s \in VehicleStatut :
                RegisterVehicle(v, c, s) \/ UpdateVehicle(v, c, s)
    \/ \E d \in Drivers : Verify(d) \/ \E on \in BOOLEAN : UpdateAvailability(d, on)

FleetNext ==
    \/ FleetStep /\ UNCHANGED <<freight, freq>>
    \/ FreightStep /\ UNCHANGED <<vars, fleet>>
FleetSpec == FleetInit /\ [][FleetNext]_allvars

-----------------------------------------------------------------------------
\* findNearby: the vehicles a passenger is shown.
Nearby ==
    {v \in Vehicles : /\ vehicle[v].statut = "ACTIF" /\ seats[v] > 0
                      /\ available[DriverOf[v]] /\ verified[DriverOf[v]]}

\* POST /bookings takes any vehicle identifier and does not test isVerified,
\* yet a booking is only accepted for a vehicle that the search shows: with an
\* unverified driver, retired or full, it cannot be booked by its identifier.
BookedIsListed ==
    [][\A r \in Requests :
         req[r].at # "create" /\ req'[r].at = "create"
            => VehicleOf[req'[r].booking] \in Nearby]_allvars

\* The seats of a vehicle are those it was registered with: they pass between
\* free and booked, one request at a time, and neither a new capacity, nor a
\* retirement, nor a request that dies makes or loses one.  (A confirmation or
\* a release that revives a cancelled booking does; see README.md.)
SeatsConserved ==
    [][\A v \in Vehicles :
         /\ vehicle[v].statut # None
         /\ \A b \in Bookings : booking[b].statut = "CANCELLED" => booking'[b] = booking[b]
         => seats'[v] + TotalPlaces(Occupying(v))' = seats[v] + TotalPlaces(Occupying(v))]_allvars

\* 'Le fret ne peut pas être réassigné dans cet état': one assignment at a
\* time, the driver of a freight never changes, whatever dies in between.
AssignedOnce ==
    [][\A f \in Freights :
         freight[f].driver # NoAssignee => freight'[f].driver = freight[f].driver]_allvars
=============================================================================
