------------------------------ MODULE RowLocks ------------------------------
(***************************************************************************)
(* What the handlers of the money path hold while they run: connections of *)
(* the pool of PrismaService (src/prisma/prisma.service.ts) and, inside a  *)
(* transaction, the row of every UPDATE until COMMIT or ROLLBACK.  TripFunds *)
(* takes a transaction for one step; here it is its statements, in the     *)
(* order of the code, each waiting for its row.                            *)
(*                                                                         *)
(* The cancellation of a paid booking holds a connection and two rows while *)
(* escrowService.refundFunds works on another connection.  PostgreSQL sees *)
(* who waits for whose row, not that the first connection waits for the    *)
(* second; only Prisma's timeout of interactive transactions ends that.    *)
(***************************************************************************)
EXTENDS Integers, Sequences, FiniteSets

CONSTANTS
    Bookings,
    Requests,   \* 1 .. n: the requests, in the order in which they come
    Handlers,   \* the handlers that clients and the operator call
    VehicleOf,  \* Bookings -> vehicles
    DriverOf,   \* Bookings -> drivers, whose wallet is credited
    PoolSize,   \* connections of the pool (pg's default is 10)
    NoBooking,  \* the booking of a request that has not started
    Nobody      \* the owner of a row that is not locked

\* The rows each handler updates, in its order, given those of releaseFunds.
\* The refund is the second transaction of cancelPaid.  create's and
\* holdFunds' INSERTs lock nothing anyone waits for, except the unique escrow
\* of a payment; withdraw stands for all three writes of a wallet in
\* WithdrawalsService.
StatementsWith(release) ==
    [create       |-> <<"vehicle">>,
     cancelUnpaid |-> <<"booking", "vehicle">>,
     cancelPaid   |-> <<"booking", "vehicle">>,
     refund       |-> <<"escrow", "payment", "wallet">>,
     confirm      |-> <<"payment", "booking", "escrow", "wallet">>,
     release      |-> release,
     withdraw     |-> <<"wallet">>,
     failPayment  |-> <<"payment">>,
     start        |-> <<"booking">>]

\* Mutation: the release credits the driver before it marks the escrow.
StatementsReordered == StatementsWith(<<"wallet", "escrow", "booking">>)

\* releaseFunds: escrow, wallet, booking.
Statements == StatementsWith(<<"escrow", "wallet", "booking">>)

\* The handlers whose write is a single UPDATE, without a transaction.
Autocommitted == {"failPayment", "start"}

ASSUME RowLocksAssumption ==
    /\ NoBooking \notin Bookings
    /\ Nobody \notin Requests \X {"outer", "refund"}
    /\ Handlers \subseteq DOMAIN Statements \ {"refund"}
    /\ PoolSize \in Nat \ {0}
    /\ Requests \subseteq Nat /\ IsFiniteSet(Requests)

Sessions == Requests \X {"outer", "refund"}
Outer(r) == <<r, "outer">>
Refund(r) == <<r, "refund">>

Row(table, b) ==
    CASE table = "vehicle" -> <<"vehicle", VehicleOf[b]>>
      [] table = "wallet" -> <<"wallet", DriverOf[b]>>
      [] OTHER -> <<table, b>>
Tables == {"booking", "vehicle", "escrow", "payment", "wallet"}
Rows == {Row(table, b) : table \in Tables, b \in Bookings}

VARIABLES
    job,      \* what each request does, and on which booking
    session,  \* each session: where it stands, and its next statement
    owner,    \* the session that holds each row's lock
    escrow    \* the committed escrow of each booking

vars == <<job, session, owner, escrow>>

Off == [at |-> "off", next |-> 1]
Over == [at |-> "over", next |-> 1]
NotStarted == [does |-> "nothing", on |-> NoBooking]

Init ==
    /\ job = [r \in Requests |-> NotStarted]
    /\ session = [s \in Sessions |-> Off]
    /\ owner = [row \in Rows |-> Nobody]
    /\ escrow \in [Bookings -> {"none", "held"}]

-----------------------------------------------------------------------------
Program(s) == IF s[2] = "refund" THEN Statements["refund"] ELSE Statements[job[s[1]].does]
Booking(s) == job[s[1]].on
NextRow(s) == Row(Program(s)[session[s].next], Booking(s))
Finished(s) == session[s].next > Len(Program(s))

\* A connection is held from the moment a session is open until it is over.
FreeConnections == PoolSize - Cardinality({s \in Sessions : session[s].at = "open"})

\* s is inside an UPDATE that waits for a row somebody else has locked.
Blocked(s) ==
    /\ session[s].at = "open" /\ ~Finished(s)
    /\ owner[NextRow(s)] \notin {s, Nobody}

\* Mutation: a session that ends keeps its locks.
CloseOnly(ended) ==
    /\ session' = [s \in Sessions |-> IF s \in ended THEN Over ELSE session[s]]
    /\ UNCHANGED owner

\* COMMIT and ROLLBACK release the rows and return the connection.
Close(ended) ==
    /\ session' = [s \in Sessions |-> IF s \in ended THEN Over ELSE session[s]]
    /\ owner' = [row \in Rows |-> IF owner[row] \in ended THEN Nobody ELSE owner[row]]

\* When the refund fails, its error rolls the cancellation back too; when the
\* cancellation's own transaction ends, the refund, if any, goes on.
FailsWith(s) == IF s[2] = "refund" THEN {s, Outer(s[1])} ELSE {s}

-----------------------------------------------------------------------------
\* A request passes its checks and asks for a connection.  Funds are released
\* or refunded only if an escrow is held; a callback may be repeated.
Start(r, h, b) ==
    /\ job[r] = NotStarted
    /\ \A q \in Requests : q < r => job[q] # NotStarted
    /\ h \in {"release", "cancelPaid"} => escrow[b] = "held"
    /\ job' = [job EXCEPT ![r] = [does |-> h, on |-> b]]
    /\ session' = [session EXCEPT ![Outer(r)].at = "queued"]
    /\ UNCHANGED <<owner, escrow>>

Connect(s) ==
    /\ session[s].at = "queued"
    /\ FreeConnections > 0
    /\ session' = [session EXCEPT ![s].at = "open"]
    /\ UNCHANGED <<job, owner, escrow>>

\* Prisma's maxWait: a transaction that gets no connection is given up.
GiveUp(s) ==
    /\ session[s].at = "queued"
    /\ job[s[1]].does \notin Autocommitted
    /\ Close(FailsWith(s))
    /\ UNCHANGED <<job, escrow>>

\* An UPDATE of a transaction gets its row, and keeps it.
Update(s) ==
    /\ session[s].at = "open" /\ ~Finished(s)
    /\ job[s[1]].does \notin Autocommitted
    /\ owner[NextRow(s)] \in {s, Nobody}
    /\ owner' = [owner EXCEPT ![NextRow(s)] = s]
    /\ session' = [session EXCEPT ![s].next = @ + 1]
    /\ ~(Program(s)[session[s].next] = "escrow" /\ job[s[1]].does = "confirm"
            /\ escrow[Booking(s)] # "none")
    /\ UNCHANGED <<job, escrow>>

\* confirmPayment's escrow.create for a payment that has one already: once the
\* row is free, the unique index refuses it and the transaction rolls back.
EscrowExists(s) ==
    /\ session[s].at = "open" /\ ~Finished(s) /\ ~Blocked(s)
    /\ job[s[1]].does = "confirm" /\ Program(s)[session[s].next] = "escrow"
    /\ escrow[Booking(s)] # "none"
    /\ Close({s})
    /\ UNCHANGED <<job, escrow>>

\* A single UPDATE waits for its row and commits at once.
WriteAlone(s) ==
    /\ session[s].at = "open" /\ job[s[1]].does \in Autocommitted
    /\ ~Blocked(s)
    /\ Close({s})
    /\ UNCHANGED <<job, escrow>>

\* The cancellation calls refundFunds, which first reads the booking on any
\* connection: this read waits for one without a limit.
CallRefund(r) ==
    /\ job[r].does = "cancelPaid"
    /\ session[Outer(r)].at = "open" /\ Finished(Outer(r))
    /\ session[Refund(r)].at = "off"
    /\ session' = [session EXCEPT ![Refund(r)].at = "reading"]
    /\ UNCHANGED <<job, owner, escrow>>

\* That read: 'Les fonds ont déjà été libérés ou remboursés' ends both.
ReadEscrow(r) ==
    /\ session[Refund(r)].at = "reading"
    /\ FreeConnections > 0
    /\ \/ /\ escrow[job[r].on] = "held"
          /\ session' = [session EXCEPT ![Refund(r)].at = "queued"]
          /\ UNCHANGED owner
       \/ escrow[job[r].on] # "held" /\ Close(FailsWith(Refund(r)))
    /\ UNCHANGED <<job, escrow>>

\* What a committed transaction leaves of the escrow.
EscrowAfter(s) ==
    IF s[2] = "refund" \/ job[s[1]].does = "release" THEN "released"
    ELSE IF job[s[1]].does = "confirm" THEN "held"
    ELSE escrow[Booking(s)]

\* COMMIT; the cancellation of a paid booking commits after its refund.
Commit(s) ==
    /\ session[s].at = "open" /\ Finished(s)
    /\ s[2] = "outer" /\ job[s[1]].does = "cancelPaid" => session[Refund(s[1])].at = "over"
    /\ escrow' = [escrow EXCEPT ![Booking(s)] = EscrowAfter(s)]
    /\ Close({s})
    /\ UNCHANGED job

\* Mutation: the cancellation waits for its refund without a limit.
TimeoutUnlessRefunding(s) ==
    /\ session[s].at = "open" /\ ~Blocked(s)
    /\ job[s[1]].does \notin Autocommitted
    /\ session[Refund(s[1])].at = "off"
    /\ Close(FailsWith(s))
    /\ UNCHANGED <<job, escrow>>

\* Prisma's timeout of an interactive transaction.  Its ROLLBACK goes through
\* the same connection, hence only once no UPDATE is waiting there.  The
\* callback of a cancellation that timed out is not stopped: its refund goes on.
Timeout(s) ==
    /\ session[s].at = "open" /\ ~Blocked(s)
    /\ job[s[1]].does \notin Autocommitted
    /\ Close(FailsWith(s))
    /\ UNCHANGED <<job, escrow>>

\* Sessions that wait for each other's rows in a ring: all PostgreSQL sees.
Deadlocks ==
    {C \in SUBSET {s \in Sessions : Blocked(s)} :
        C # {} /\ {owner[NextRow(s)] : s \in C} = C}

\* PostgreSQL's deadlock detector aborts one of them.
AbortDeadlock ==
    \E C \in Deadlocks : \E s \in C : Close(FailsWith(s)) /\ UNCHANGED <<job, escrow>>

SessionStep(s) ==
    \/ Connect(s) \/ GiveUp(s)
    \/ Update(s) \/ EscrowExists(s) \/ WriteAlone(s)
    \/ Commit(s) \/ Timeout(s)
Step(r) ==
    \/ \E k \in {"outer", "refund"} : SessionStep(<<r, k>>)
    \/ CallRefund(r) \/ ReadEscrow(r)

Server == (\E r \in Requests : Step(r)) \/ AbortDeadlock
Next ==
    \/ \E r \in Requests, h \in Handlers, b \in Bookings : Start(r, h, b)
    \/ Server

\* The server, the database and the timers run; clients owe nothing.
Spec == Init /\ [][Next]_vars /\ WF_vars(Server)

-----------------------------------------------------------------------------
Ended(r) == \A k \in {"outer", "refund"} : session[<<r, k>>].at \in {"off", "over"}

\* Every row in somebody's hands belongs to a session that is still running,
\* and the pool is never overdrawn: no path out of a transaction forgets one.
LocksOK ==
    /\ job \in [Requests -> [does : Handlers, on : Bookings] \cup {NotStarted}]
    /\ session \in [Sessions -> [at : {"off", "reading", "queued", "open", "over"}, next : 1 .. 5]]
    /\ escrow \in [Bookings -> {"none", "held", "released"}]
    /\ \A row \in Rows : owner[row] = Nobody \/ session[owner[row]].at = "open"
    /\ FreeConnections >= 0

\* The order in which transactions take their rows is sound: PostgreSQL finds
\* a deadlock only around a repeated confirmation, which waits for the escrow
\* row of a payment that is already confirmed.
DeadlocksOnlyOnRepeat ==
    \A C \in Deadlocks :
        \E s \in C : job[s[1]].does = "confirm" /\ escrow[Booking(s)] # "none"

\* No request waits for ever: not for a row, not for its own refund, not for a
\* connection, although nothing but Prisma's timeout ends some of these waits.
EveryRequestEnds ==
    []<>(\A r \in Requests : job[r] # NotStarted => Ended(r))
=============================================================================
