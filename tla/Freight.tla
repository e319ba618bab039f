------------------------------- MODULE Freight -------------------------------
(***************************************************************************)
(* FreightService (src/freight/freight.service.ts): a freight waits until  *)
(* somebody assigns it to a driver.  The driver is whatever identifier the *)
(* path holds, freight.driverId being no foreign key; no operation ever    *)
(* writes LIVRE.                                                           *)
(***************************************************************************)
EXTENDS Schema

CONSTANTS
    Freights,         \* one identifier per freight that may be created
    FreightRequests,  \* the assignments in flight at the same time
    Assignees,        \* the driver identifiers clients put in the path
    NoFreight, NoAssignee

ASSUME FreightAssumption == NoFreight \notin Freights /\ NoAssignee \notin Assignees

VARIABLES
    freight,  \* freight: statut and driverId
    freq      \* the assignments in flight

Waiting == [statut |-> "EN_ATTENTE", driver |-> NoAssignee]
IdleFreight == [of |-> NoFreight, to |-> NoAssignee]

FreightInit ==
    /\ freight = [f \in Freights |-> [statut |-> None, driver |-> NoAssignee]]
    /\ freq = [q \in FreightRequests |-> IdleFreight]

CreateFreight(f) ==
    /\ freight[f].statut = None
    /\ freight' = [freight EXCEPT ![f] = Waiting]
    /\ UNCHANGED freq

\* Mutation: the statut of the freight is not looked at.
AssignAny(q, f, d) ==
    /\ freq[q] = IdleFreight /\ freight[f].statut # None
    /\ freq' = [freq EXCEPT ![q] = [of |-> f, to |-> d]]
    /\ UNCHANGED freight

\* assignToDriver's read: only a freight that waits can be assigned.
AssignRead(q, f, d) ==
    /\ freq[q] = IdleFreight
    /\ freight[f].statut = "EN_ATTENTE"
    /\ freq' = [freq EXCEPT ![q] = [of |-> f, to |-> d]]
    /\ UNCHANGED freight

\* Its update, whatever the row holds by then.
AssignWrite(q) ==
    /\ freq[q] # IdleFreight
    /\ freight' = [freight EXCEPT ![freq[q].of] = [statut |-> "EN_TRANSIT", driver |-> freq[q].to]]
    /\ freq' = [freq EXCEPT ![q] = IdleFreight]

\* The assignment dies before its update.
AbortAssign(q) ==
    /\ MayAbort
    /\ freq[q] # IdleFreight
    /\ freq' = [freq EXCEPT ![q] = IdleFreight]
    /\ UNCHANGED freight

FreightStep ==
    \/ \E f \in Freights : CreateFreight(f)
    \/ \E q \in FreightRequests :
          \/ \E f \in Freights, d \in Assignees : AssignRead(q, f, d)
          \/ AssignWrite(q) \/ AbortAssign(q)
=============================================================================
