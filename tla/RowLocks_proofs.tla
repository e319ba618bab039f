--------------------------- MODULE RowLocks_proofs ---------------------------
(***************************************************************************)
(* Proofs about RowLocks, for every finite number of requests, every       *)
(* choice of handlers and every size of the pool.                          *)
(***************************************************************************)
EXTENDS RowLocks, FiniteSetTheorems, TLAPS

Place == {"off", "reading", "queued", "open", "over"}

TypesOK ==
  /\ job \in [Requests -> [does : Handlers, on : Bookings] \cup {NotStarted}]
  /\ session \in [Sessions -> [at : Place, next : 1 .. 5]]
  /\ escrow \in [Bookings -> {"none", "held", "released"}]
  /\ owner \in [Rows -> Sessions \cup {Nobody}]

\* A lock is in the hands of a session that runs.
OwnersRun == \A row \in Rows : owner[row] = Nobody \/ session[owner[row]].at = "open"

\* Before a request has come it has no session.
Quiet == \A s \in Sessions : job[s[1]] = NotStarted => session[s] = Off

PoolKept == FreeConnections >= 0

LocksInv == TypesOK /\ OwnersRun /\ Quiet /\ PoolKept

-----------------------------------------------------------------------------
(* Sessions and programs. *)

LEMMA SessionOfRequest ==
  /\ \A r \in Requests : Outer(r) \in Sessions /\ Refund(r) \in Sessions
  /\ \A r \in Requests : Outer(r)[1] = r /\ Refund(r)[1] = r
  /\ \A r \in Requests, k \in {"outer", "refund"} : <<r, k>> \in Sessions
  /\ \A s \in Sessions : s[1] \in Requests
BY DEF Sessions, Outer, Refund

\* No transaction updates more than four rows.
LEMMA ShortPrograms == \A h \in DOMAIN Statements : Len(Statements[h]) \in 0 .. 4
BY DEF Statements, StatementsWith

LEMMA ProgramIsShort ==
  ASSUME TypesOK, Quiet, NEW s \in Sessions, session[s].at = "open"
  PROVE  Len(Program(s)) \in 0 .. 4
<1>1. job[s[1]] # NotStarted
  BY DEF Quiet, Off
<1>2. job[s[1]].does \in Handlers
  BY <1>1, SessionOfRequest DEF TypesOK
<1>3. "refund" \in DOMAIN Statements
  BY DEF Statements, StatementsWith
<1> QED BY <1>2, <1>3, ShortPrograms, RowLocksAssumption DEF Program

\* The sessions that hold a connection, and the pool they leave.
OpenSessions == {s \in Sessions : session[s].at = "open"}

LEMMA FiniteSessions == IsFiniteSet(Sessions)
<1>1. IsFiniteSet({"outer", "refund"})
  BY FS_EmptySet, FS_AddElement, {"outer", "refund"} = ({} \cup {"outer"}) \cup {"refund"}
<1> QED BY <1>1, FS_Product, RowLocksAssumption DEF Sessions

LEMMA FewerOpen ==
  ASSUME PoolKept, OpenSessions' \subseteq OpenSessions
  PROVE  PoolKept'
<1>1. IsFiniteSet(OpenSessions)
  BY FiniteSessions, FS_Subset DEF OpenSessions
<1>2. Cardinality(OpenSessions') =< Cardinality(OpenSessions)
  BY <1>1, FS_Subset
<1>3. Cardinality(OpenSessions') \in Nat /\ Cardinality(OpenSessions) \in Nat
  BY <1>1, FS_Subset, FS_CardinalityType
<1> QED BY <1>2, <1>3, RowLocksAssumption DEF PoolKept, FreeConnections, OpenSessions

-----------------------------------------------------------------------------
(* What a step does to sessions and locks. *)

\* COMMIT, ROLLBACK or an error ends sessions of one request that has come.
LEMMA CloseKeeps ==
  ASSUME LocksInv, NEW r \in Requests, job[r] # NotStarted, NEW ended,
         \A s \in ended : s[1] = r,
         Close(ended), UNCHANGED job, escrow' \in [Bookings -> {"none", "held", "released"}]
  PROVE  LocksInv'
<1>1. TypesOK'
  BY DEF LocksInv, TypesOK, Close, Over, Place
<1>2. OwnersRun'
  <2> SUFFICES ASSUME NEW row \in Rows, owner'[row] # Nobody
               PROVE  session'[owner'[row]].at = "open"
    BY DEF OwnersRun
  <2>1. owner'[row] = owner[row] /\ owner[row] \notin ended /\ owner[row] \in Sessions
    BY DEF LocksInv, TypesOK, Close
  <2> QED BY <2>1 DEF LocksInv, OwnersRun, Close
<1>3. Quiet'
  BY DEF LocksInv, Quiet, Close
<1>4. OpenSessions' \subseteq OpenSessions
  BY DEF OpenSessions, Close, Over
<1> QED BY <1>1, <1>2, <1>3, <1>4, FewerOpen DEF LocksInv

\* A session that holds no connection goes on to wait for one.
LEMMA WaitKeeps ==
  ASSUME LocksInv, NEW s \in Sessions, session[s].at # "open",
         NEW place \in {"reading", "queued"},
         session' = [session EXCEPT ![s].at = place],
         job' \in [Requests -> [does : Handlers, on : Bookings] \cup {NotStarted}],
         job'[s[1]] # NotStarted,
         \A q \in Requests : q # s[1] => job'[q] = job[q],
         UNCHANGED <<owner, escrow>>
  PROVE  LocksInv'
<1>1. TypesOK'
  BY DEF LocksInv, TypesOK, Place
<1>2. OwnersRun'
  BY DEF LocksInv, TypesOK, OwnersRun
<1>3. Quiet'
  BY SessionOfRequest DEF LocksInv, TypesOK, Quiet
<1>4. OpenSessions' \subseteq OpenSessions
  BY DEF OpenSessions, LocksInv, TypesOK
<1> QED BY <1>1, <1>2, <1>3, <1>4, FewerOpen DEF LocksInv

\* A queued session gets a connection only if one is free.
LEMMA ConnectKeeps ==
  ASSUME LocksInv, NEW s \in Sessions, Connect(s)
  PROVE  LocksInv'
<1>1. session' = [session EXCEPT ![s].at = "open"] /\ UNCHANGED <<job, owner, escrow>>
  BY DEF Connect
<1>2. TypesOK'
  BY <1>1 DEF LocksInv, TypesOK, Place
<1>3. OwnersRun'
  BY <1>1 DEF LocksInv, TypesOK, OwnersRun
<1>4. Quiet'
  BY <1>1 DEF LocksInv, TypesOK, Quiet, Connect, Off
<1>5. PoolKept'
  <2>1. IsFiniteSet(OpenSessions)
    BY FiniteSessions, FS_Subset DEF OpenSessions
  <2>2. OpenSessions' = OpenSessions \cup {s}
    BY <1>1 DEF OpenSessions, LocksInv, TypesOK
  <2>3. Cardinality(OpenSessions') =< Cardinality(OpenSessions) + 1
    BY <2>1, <2>2, FS_AddElement, FS_CardinalityType
  <2>4. Cardinality(OpenSessions') \in Nat /\ Cardinality(OpenSessions) \in Nat
    BY <2>1, <2>2, FS_AddElement, FS_CardinalityType
  <2>5. PoolSize - Cardinality(OpenSessions) > 0
    BY DEF Connect, FreeConnections, OpenSessions
  <2> QED BY <2>3, <2>4, <2>5, RowLocksAssumption DEF PoolKept, FreeConnections, OpenSessions
<1> QED BY <1>2, <1>3, <1>4, <1>5 DEF LocksInv

\* An UPDATE gives a row to a session that runs.
LEMMA UpdateKeeps ==
  ASSUME LocksInv, NEW s \in Sessions, Update(s)
  PROVE  LocksInv'
<1>1. /\ session' = [session EXCEPT ![s].next = @ + 1]
      /\ owner' = [owner EXCEPT ![NextRow(s)] = s]
      /\ UNCHANGED <<job, escrow>>
      /\ session[s].at = "open"
  BY DEF Update
<1>2. session[s].next + 1 \in 1 .. 5
  <2>1. Len(Program(s)) \in 0 .. 4
    BY <1>1, ProgramIsShort DEF LocksInv
  <2>2. session[s].next \in 1 .. 5
    BY DEF LocksInv, TypesOK
  <2>3. ~(session[s].next > Len(Program(s)))
    BY DEF Update, Finished
  <2>4. \A i \in 1 .. 5, m \in 0 .. 4 : ~(i > m) => i + 1 \in 1 .. 5
    OBVIOUS
  <2> QED BY <2>1, <2>2, <2>3, <2>4, Zenon
<1>3. TypesOK'
  BY <1>1, <1>2 DEF LocksInv, TypesOK
<1>4. \A t \in Sessions : session'[t].at = session[t].at
  BY <1>1 DEF LocksInv, TypesOK
<1>5. \A row \in Rows : owner'[row] \in {owner[row], s} /\ owner[row] \in Sessions \cup {Nobody}
  BY <1>1 DEF LocksInv, TypesOK
<1>6. OwnersRun'
  BY <1>1, <1>4, <1>5 DEF LocksInv, OwnersRun
<1>7. Quiet'
  BY <1>1 DEF LocksInv, TypesOK, Quiet, Off
<1>8. OpenSessions' \subseteq OpenSessions
  BY <1>4 DEF OpenSessions
<1> QED BY <1>3, <1>6, <1>7, <1>8, FewerOpen DEF LocksInv

-----------------------------------------------------------------------------
\* Whose sessions an error ends.
LEMMA FailsAlone ==
  ASSUME NEW s \in Sessions, NEW t \in FailsWith(s)
  PROVE  t[1] = s[1]
BY SessionOfRequest DEF FailsWith

\* A session that has a place to stand on belongs to a request that has come.
LEMMA HasCome ==
  ASSUME LocksInv, NEW s \in Sessions, session[s].at # "off"
  PROVE  s[1] \in Requests /\ job[s[1]] # NotStarted
BY SessionOfRequest DEF LocksInv, Quiet, Off

LEMMA SessionStepKeeps ==
  ASSUME LocksInv, NEW s \in Sessions, SessionStep(s)
  PROVE  LocksInv'
<1> USE DEF Outer
<1>1. ASSUME session[s].at # "off", Close({s}) \/ Close(FailsWith(s)), UNCHANGED job,
             escrow' \in [Bookings -> {"none", "held", "released"}]
      PROVE  LocksInv'
  <2>1. s[1] \in Requests /\ job[s[1]] # NotStarted
    BY <1>1, HasCome
  <2>2. CASE Close({s})
    BY <1>1, <2>1, <2>2, CloseKeeps
  <2>3. CASE Close(FailsWith(s))
    <3>1. \A t \in FailsWith(s) : t[1] = s[1]
      BY FailsAlone
    <3> QED BY <1>1, <2>1, <2>3, <3>1, CloseKeeps
  <2> QED BY <1>1, <2>2, <2>3
<1>2. escrow \in [Bookings -> {"none", "held", "released"}]
  BY DEF LocksInv, TypesOK
<1>3. CASE GiveUp(s) \/ EscrowExists(s) \/ WriteAlone(s) \/ Timeout(s)
  BY <1>1, <1>2, <1>3 DEF GiveUp, EscrowExists, WriteAlone, Timeout
<1>4. CASE Commit(s)
  <2>1. escrow' \in [Bookings -> {"none", "held", "released"}]
    <3>1. job[s[1]] # NotStarted
      BY <1>4, HasCome DEF Commit
    <3>2. Booking(s) \in Bookings
      BY <3>1, SessionOfRequest DEF LocksInv, TypesOK, Booking
    <3>3. EscrowAfter(s) \in {"none", "held", "released"}
      BY <1>2, <3>2 DEF EscrowAfter
    <3> QED BY <1>2, <1>4, <3>3 DEF Commit
  <2> QED BY <1>1, <1>4, <2>1 DEF Commit
<1> QED BY <1>3, <1>4, ConnectKeeps, UpdateKeeps DEF SessionStep

LEMMA StepLocks == LocksInv /\ [Next]_vars => LocksInv'
<1> SUFFICES ASSUME LocksInv, [Next]_vars PROVE LocksInv'
  OBVIOUS
<1>1. ASSUME NEW r \in Requests, NEW h \in Handlers, NEW b \in Bookings, Start(r, h, b)
      PROVE  LocksInv'
  <2>1. [does |-> h, on |-> b] # NotStarted
    BY RowLocksAssumption DEF NotStarted
  <2>2. session[Outer(r)].at # "open" /\ Outer(r) \in Sessions /\ Outer(r)[1] = r
    BY <1>1, SessionOfRequest DEF Start, LocksInv, Quiet, Off
  <2>3. /\ job' \in [Requests -> [does : Handlers, on : Bookings] \cup {NotStarted}]
        /\ job'[r] # NotStarted
        /\ \A q \in Requests : q # r => job'[q] = job[q]
    BY <1>1, <2>1 DEF Start, LocksInv, TypesOK
  <2> QED BY <1>1, <2>2, <2>3, WaitKeeps DEF Start
<1>2. ASSUME NEW r \in Requests, NEW k \in {"outer", "refund"}, SessionStep(<<r, k>>)
      PROVE  LocksInv'
  BY <1>2, SessionOfRequest, SessionStepKeeps
<1>3. ASSUME NEW r \in Requests, CallRefund(r) PROVE LocksInv'
  <2>1. job[r] # NotStarted /\ Refund(r) \in Sessions /\ Refund(r)[1] = r
    BY <1>3, SessionOfRequest, HasCome DEF CallRefund
  <2>2. job \in [Requests -> [does : Handlers, on : Bookings] \cup {NotStarted}]
    BY DEF LocksInv, TypesOK
  <2> QED BY <1>3, <2>1, <2>2, WaitKeeps DEF CallRefund
<1>4. ASSUME NEW r \in Requests, ReadEscrow(r) PROVE LocksInv'
  <2>1. job[r] # NotStarted /\ Refund(r) \in Sessions /\ Refund(r)[1] = r
    BY <1>4, SessionOfRequest, HasCome DEF ReadEscrow
  <2>2. /\ job \in [Requests -> [does : Handlers, on : Bookings] \cup {NotStarted}]
        /\ escrow \in [Bookings -> {"none", "held", "released"}]
    BY DEF LocksInv, TypesOK
  <2>3. CASE session' = [session EXCEPT ![Refund(r)].at = "queued"] /\ UNCHANGED owner
    BY <1>4, <2>1, <2>2, <2>3, WaitKeeps DEF ReadEscrow
  <2>4. CASE Close(FailsWith(Refund(r)))
    <3>1. \A t \in FailsWith(Refund(r)) : t[1] = r
      BY <2>1, FailsAlone
    <3> QED BY <1>4, <2>1, <2>2, <2>4, <3>1, CloseKeeps DEF ReadEscrow
  <2> QED BY <1>4, <2>3, <2>4 DEF ReadEscrow
<1>5. CASE AbortDeadlock
  <2>1. PICK C \in Deadlocks : \E s \in C : Close(FailsWith(s)) /\ UNCHANGED <<job, escrow>>
    BY <1>5 DEF AbortDeadlock
  <2>2. PICK s \in C : Close(FailsWith(s)) /\ UNCHANGED <<job, escrow>>
    BY <2>1
  <2>3. s \in Sessions /\ session[s].at = "open"
    BY <2>2 DEF Deadlocks, Blocked
  <2>4. s[1] \in Requests /\ job[s[1]] # NotStarted
    BY <2>3, HasCome
  <2>5. \A t \in FailsWith(s) : t[1] = s[1]
    BY <2>3, FailsAlone
  <2>6. escrow \in [Bookings -> {"none", "held", "released"}]
    BY DEF LocksInv, TypesOK
  <2> QED BY <2>2, <2>4, <2>5, <2>6, CloseKeeps
<1>6. CASE UNCHANGED vars
  BY <1>6 DEF vars, LocksInv, TypesOK, OwnersRun, Quiet, PoolKept, FreeConnections
<1> QED
  BY <1>1, <1>2, <1>3, <1>4, <1>5, <1>6 DEF Next, Server, Step

LEMMA InitLocks == Init => LocksInv
<1> SUFFICES ASSUME Init PROVE LocksInv
  OBVIOUS
<1>1. TypesOK /\ OwnersRun /\ Quiet
  BY SessionOfRequest DEF Init, TypesOK, OwnersRun, Quiet, Off, Place
<1>2. {s \in Sessions : session[s].at = "open"} = {}
  BY DEF Init, Off
<1>3. PoolKept
  <2>1. FreeConnections = PoolSize - 0
    BY <1>2, FS_EmptySet DEF FreeConnections
  <2> QED BY <2>1, RowLocksAssumption DEF PoolKept
<1> QED BY <1>1, <1>3 DEF LocksInv

\* Under every interleaving, and however requests end, every locked row is in
\* the hands of a session that still runs and the pool is never overdrawn.
THEOREM LocksAreReturned == Spec => []LocksOK
<1>1. LocksInv => LocksOK
  BY DEF LocksInv, TypesOK, OwnersRun, PoolKept, LocksOK, Place
<1> QED BY <1>1, InitLocks, StepLocks, PTL DEF Spec

-----------------------------------------------------------------------------
(* Rows and the sessions that have them: exactly those of the statements   *)
(* that the session has behind it.                                         *)

RowOf(s, i) == Row(Program(s)[i], Booking(s))
Behind(s) == 1 .. session[s].next - 1

RowsMatch ==
  /\ \A s \in Sessions : session[s].at # "open" => session[s].next = 1
  /\ \A s \in Sessions : \A i \in Behind(s) : RowOf(s, i) \in Rows /\ owner[RowOf(s, i)] = s
  /\ \A row \in Rows, s \in Sessions :
        owner[row] = s => \E i \in Behind(s) : row = RowOf(s, i)

\* What releases and refunds is about an escrow that exists, and an escrow
\* never ceases to.
EscrowKnown ==
  \A r \in Requests :
     /\ job[r].does \in {"release", "cancelPaid"} => escrow[job[r].on] # "none"
     /\ session[Refund(r)].at # "off" => job[r].does = "cancelPaid"

OrderInv == LocksInv /\ RowsMatch /\ EscrowKnown

\* A session that is not finished waits for a row there is.
LEMMA NextRowIsRow ==
  ASSUME LocksInv, NEW s \in Sessions, session[s].at = "open", ~Finished(s)
  PROVE  NextRow(s) \in Rows /\ NextRow(s) = RowOf(s, session[s].next)
<1>1. job[s[1]] # NotStarted /\ s[1] \in Requests
  BY HasCome
<1>2. job[s[1]].does \in Handlers /\ Booking(s) \in Bookings
  BY <1>1 DEF LocksInv, TypesOK, Booking
<1>3. PICK h \in DOMAIN Statements : Program(s) = Statements[h]
  <2>1. "refund" \in DOMAIN Statements
    BY DEF Statements, StatementsWith
  <2> QED BY <1>2, <2>1, RowLocksAssumption DEF Program
<1>4. session[s].next \in 1 .. Len(Statements[h])
  <2>1. Len(Statements[h]) \in 0 .. 4
    BY ShortPrograms
  <2>2. session[s].next \in 1 .. 5
    BY DEF LocksInv, TypesOK
  <2> QED BY <1>3, <2>1, <2>2 DEF Finished
<1>5. Statements[h][session[s].next] \in Tables
  BY <1>3, <1>4 DEF Statements, StatementsWith, Tables
<1> QED BY <1>2, <1>3, <1>5 DEF NextRow, RowOf, Rows

\* Sessions of one request end and give their rows back.
LEMMA CloseMatches ==
  ASSUME OrderInv, NEW r \in Requests, job[r] # NotStarted, NEW ended \in SUBSET Sessions,
         Close(ended), UNCHANGED job
  PROVE  RowsMatch'
<1>1. /\ session' = [s \in Sessions |-> IF s \in ended THEN Over ELSE session[s]]
      /\ owner' = [row \in Rows |-> IF owner[row] \in ended THEN Nobody ELSE owner[row]]
  BY DEF Close
<1>2. \A s \in Sessions : \A i : RowOf(s, i)' = RowOf(s, i)
  BY DEF RowOf, Program, Booking, Row
<1>3. \A s \in Sessions : IF s \in ended THEN session'[s] = Over ELSE session'[s] = session[s]
  BY <1>1
<1>4. \A s \in ended : Behind(s)' = {}
  BY <1>3 DEF Behind, Over
<1>5. \A s \in Sessions \ ended : Behind(s)' = Behind(s)
  BY <1>3 DEF Behind
<1>6. ASSUME NEW s \in Sessions, NEW i \in Behind(s)'
      PROVE  RowOf(s, i)' \in Rows /\ owner'[RowOf(s, i)'] = s
  <2>1. s \notin ended /\ i \in Behind(s)
    BY <1>4, <1>5, <1>6
  <2>2. RowOf(s, i) \in Rows /\ owner[RowOf(s, i)] = s
    BY <2>1 DEF OrderInv, RowsMatch
  <2> QED BY <1>1, <1>2, <2>1, <2>2
<1>7. ASSUME NEW row \in Rows, NEW s \in Sessions, owner'[row] = s
      PROVE  \E i \in Behind(s)' : row = RowOf(s, i)'
  <2>1. owner[row] = s /\ s \notin ended
    BY <1>1, <1>7, RowLocksAssumption DEF Sessions
  <2>2. PICK i \in Behind(s) : row = RowOf(s, i)
    BY <2>1 DEF OrderInv, RowsMatch
  <2> QED BY <1>2, <1>5, <2>1, <2>2
<1>8. \A s \in Sessions : session'[s].at # "open" => session'[s].next = 1
  BY <1>3 DEF OrderInv, RowsMatch, Over
<1> QED BY <1>6, <1>7, <1>8 DEF RowsMatch

\* No session moves past a statement; requests keep what they do.
LEMMA SameRows ==
  ASSUME OrderInv, UNCHANGED owner,
         \A s \in Sessions : session'[s].next = session[s].next,
         \A s \in Sessions : session'[s].at = session[s].at \/ session'[s].next = 1,
         \A s \in Sessions : job'[s[1]] = job[s[1]] \/ session[s].next = 1
  PROVE  RowsMatch'
<1>1. \A s \in Sessions : Behind(s)' = Behind(s)
  BY DEF Behind
<1>2. \A s \in Sessions : session[s].next = 1 => Behind(s) = {}
  BY DEF Behind
<1>3. \A s \in Sessions : \A i : job'[s[1]] = job[s[1]] => RowOf(s, i)' = RowOf(s, i)
  BY DEF RowOf, Program, Booking, Row
<1>4. ASSUME NEW s \in Sessions, NEW i \in Behind(s)'
      PROVE  RowOf(s, i)' \in Rows /\ owner'[RowOf(s, i)'] = s
  <2>1. i \in Behind(s) /\ job'[s[1]] = job[s[1]]
    BY <1>1, <1>2, <1>4
  <2> QED BY <1>3, <2>1 DEF OrderInv, RowsMatch
<1>5. ASSUME NEW row \in Rows, NEW s \in Sessions, owner'[row] = s
      PROVE  \E i \in Behind(s)' : row = RowOf(s, i)'
  <2>1. PICK i \in Behind(s) : row = RowOf(s, i)
    BY <1>5 DEF OrderInv, RowsMatch
  <2> QED BY <1>1, <1>2, <1>3, <2>1
<1>6. \A s \in Sessions : session'[s].at # "open" => session'[s].next = 1
  BY DEF OrderInv, RowsMatch
<1> QED BY <1>4, <1>5, <1>6 DEF RowsMatch

\* An UPDATE takes one row more, that nobody else has.
LEMMA UpdateMatches ==
  ASSUME OrderInv, NEW s \in Sessions, Update(s)
  PROVE  RowsMatch'
<1>0. PICK n \in 1 .. 5 : session[s].next = n
  BY DEF OrderInv, LocksInv, TypesOK
<1>1. /\ session' = [session EXCEPT ![s].next = @ + 1]
      /\ owner' = [owner EXCEPT ![NextRow(s)] = s]
      /\ UNCHANGED job
      /\ session[s].at = "open" /\ ~Finished(s)
      /\ owner[NextRow(s)] \in {s, Nobody}
  BY DEF Update
<1>2. NextRow(s) \in Rows /\ NextRow(s) = RowOf(s, n)
  BY <1>0, <1>1, NextRowIsRow DEF OrderInv
<1>3. session \in [Sessions -> [at : Place, next : 1 .. 5]]
  BY DEF OrderInv, LocksInv, TypesOK
<1>4. /\ \A row \in Rows : owner'[row] = IF row = NextRow(s) THEN s ELSE owner[row]
      /\ \A t \in Sessions : /\ session'[t].at = session[t].at
                             /\ session'[t].next = IF t = s THEN n + 1 ELSE session[t].next
  BY <1>0, <1>1, <1>2, <1>3 DEF OrderInv, LocksInv, TypesOK
<1>5. \A t \in Sessions : \A i : RowOf(t, i)' = RowOf(t, i)
  BY <1>1 DEF RowOf, Program, Booking, Row
<1>6. Behind(s)' = Behind(s) \cup {n} /\ \A t \in Sessions \ {s} : Behind(t)' = Behind(t)
  BY <1>0, <1>3, <1>4 DEF Behind
<1>7. ASSUME NEW t \in Sessions, NEW i \in Behind(t)'
      PROVE  RowOf(t, i)' \in Rows /\ owner'[RowOf(t, i)'] = t
  <2>1. CASE t = s /\ i = n
    BY <1>2, <1>4, <1>5, <2>1
  <2>2. CASE ~(t = s /\ i = n)
    <3>1. RowOf(t, i) \in Rows /\ owner[RowOf(t, i)] = t
      BY <1>6, <1>7, <2>2 DEF OrderInv, RowsMatch
    <3>2. t # Nobody
      BY RowLocksAssumption DEF Sessions
    <3> QED BY <1>1, <1>4, <1>5, <3>1, <3>2
  <2> QED BY <2>1, <2>2
<1>8. ASSUME NEW row \in Rows, NEW t \in Sessions, owner'[row] = t
      PROVE  \E i \in Behind(t)' : row = RowOf(t, i)'
  <2>1. CASE row = NextRow(s)
    <3>1. t = s /\ n \in Behind(t)' /\ row = RowOf(t, n)'
      BY <1>2, <1>4, <1>5, <1>6, <1>8, <2>1
    <3> QED BY <3>1
  <2>2. CASE row # NextRow(s)
    <3>1. owner[row] = t
      BY <1>4, <1>8, <2>2
    <3>2. PICK i \in Behind(t) : row = RowOf(t, i)
      BY <3>1 DEF OrderInv, RowsMatch
    <3> QED BY <1>5, <1>6, <3>2
  <2> QED BY <2>1, <2>2
<1>9. \A t \in Sessions : session'[t].at # "open" => session'[t].next = 1
  BY <1>1, <1>4 DEF OrderInv, RowsMatch
<1> QED BY <1>7, <1>8, <1>9 DEF RowsMatch
-----------------------------------------------------------------------------
(* Every step keeps rows and sessions in order. *)

LEMMA CloseOrder ==
  ASSUME OrderInv, NEW s \in Sessions, session[s].at # "off",
         Close({s}) \/ Close(FailsWith(s)), UNCHANGED job,
         \A b \in Bookings : escrow[b] # "none" => escrow'[b] # "none"
  PROVE  RowsMatch' /\ EscrowKnown'
<1>1. s[1] \in Requests /\ job[s[1]] # NotStarted
  BY HasCome DEF OrderInv
<1>2. PICK ended \in SUBSET {s, Outer(s[1])} : Close(ended)
  BY DEF FailsWith
<1>3. ended \in SUBSET Sessions
  BY <1>1, <1>2, SessionOfRequest
<1>4. RowsMatch'
  BY <1>1, <1>2, <1>3, CloseMatches
<1>5. ASSUME NEW r \in Requests, session'[Refund(r)].at # "off"
      PROVE  session[Refund(r)].at # "off"
  <2>1. Refund(r) \in Sessions /\ Refund(r) # Outer(s[1])
    BY SessionOfRequest DEF Refund, Outer
  <2> QED BY <1>2, <1>5, <2>1 DEF Close
<1>6. ASSUME NEW r \in Requests, job[r].does \in {"release", "cancelPaid"}
      PROVE  escrow'[job[r].on] # "none"
  <2>1. job[r] # NotStarted
    BY <1>6 DEF NotStarted
  <2>2. job[r].on \in Bookings
    BY <2>1 DEF OrderInv, LocksInv, TypesOK
  <2> QED BY <1>6, <2>2 DEF OrderInv, EscrowKnown
<1> QED BY <1>4, <1>5, <1>6 DEF OrderInv, EscrowKnown

LEMMA SessionStepOrder ==
  ASSUME OrderInv, NEW s \in Sessions, SessionStep(s)
  PROVE  RowsMatch' /\ EscrowKnown'
<1>1. session \in [Sessions -> [at : Place, next : 1 .. 5]]
  BY DEF OrderInv, LocksInv, TypesOK
<1>2. CASE Connect(s)
  <2>1. /\ session' = [session EXCEPT ![s].at = "open"] /\ UNCHANGED <<job, owner, escrow>>
        /\ session[s].at = "queued"
    BY <1>2 DEF Connect
  <2>2. session[s].next = 1
    BY <2>1 DEF OrderInv, RowsMatch
  <2>3. \A t \in Sessions : /\ session'[t].next = session[t].next
                            /\ t # s => session'[t].at = session[t].at
    BY <1>1, <2>1
  <2>4. RowsMatch'
    BY <2>1, <2>2, <2>3, SameRows
  <2>5. EscrowKnown'
    BY <2>1, <2>3, SessionOfRequest DEF OrderInv, EscrowKnown
  <2> QED BY <2>4, <2>5
<1>3. CASE Update(s)
  <2>1. EscrowKnown'
    <3>1. \A t \in Sessions : session'[t].at = session[t].at
      BY <1>1, <1>3 DEF Update
    <3> QED BY <1>3, <3>1, SessionOfRequest DEF OrderInv, EscrowKnown, Update
  <2> QED BY <1>3, <2>1, UpdateMatches
<1>4. CASE GiveUp(s) \/ EscrowExists(s) \/ WriteAlone(s) \/ Timeout(s)
  BY <1>4, CloseOrder DEF GiveUp, EscrowExists, WriteAlone, Timeout
<1>5. CASE Commit(s)
  <2>1. \A b \in Bookings : escrow[b] # "none" => escrow'[b] # "none"
    <3>1. escrow \in [Bookings -> {"none", "held", "released"}]
      BY DEF OrderInv, LocksInv, TypesOK
    <3>2. escrow' = [escrow EXCEPT ![Booking(s)] = EscrowAfter(s)]
      BY <1>5 DEF Commit
    <3>3. EscrowAfter(s) = escrow[Booking(s)] \/ EscrowAfter(s) # "none"
      BY DEF EscrowAfter
    <3> QED BY <3>1, <3>2, <3>3
  <2> QED BY <1>5, <2>1, CloseOrder DEF Commit
<1> QED BY <1>2, <1>3, <1>4, <1>5 DEF SessionStep

LEMMA StepOrder == OrderInv /\ [Next]_vars => OrderInv'
<1> SUFFICES ASSUME OrderInv, [Next]_vars PROVE RowsMatch' /\ EscrowKnown'
  BY StepLocks DEF OrderInv
<1>1. /\ session \in [Sessions -> [at : Place, next : 1 .. 5]]
      /\ job \in [Requests -> [does : Handlers, on : Bookings] \cup {NotStarted}]
  BY DEF OrderInv, LocksInv, TypesOK
<1>2. ASSUME NEW r \in Requests, NEW h \in Handlers, NEW b \in Bookings, Start(r, h, b)
      PROVE  RowsMatch' /\ EscrowKnown'
  <2>1. /\ job' = [job EXCEPT ![r] = [does |-> h, on |-> b]] /\ UNCHANGED <<owner, escrow>>
        /\ session' = [session EXCEPT ![Outer(r)].at = "queued"]
        /\ job[r] = NotStarted
        /\ h \in {"release", "cancelPaid"} => escrow[b] = "held"
    BY <1>2 DEF Start
  <2>2. \A s \in Sessions : s[1] = r => session[s] = Off
    BY <2>1 DEF OrderInv, LocksInv, Quiet
  <2>3. \A s \in Sessions : /\ session'[s].next = session[s].next
                            /\ s # Outer(r) => session'[s].at = session[s].at
    BY <1>1, <2>1
  <2>4. \A s \in Sessions : s[1] # r => job'[s[1]] = job[s[1]]
    BY <1>1, <2>1, SessionOfRequest
  <2>5. /\ \A s \in Sessions : session'[s].at = session[s].at \/ session'[s].next = 1
        /\ \A s \in Sessions : job'[s[1]] = job[s[1]] \/ session[s].next = 1
    BY <2>2, <2>3, <2>4, SessionOfRequest DEF Off
  <2>6. RowsMatch'
    BY <2>1, <2>3, <2>5, SameRows
  <2>7. ASSUME NEW q \in Requests
        PROVE  /\ job'[q].does \in {"release", "cancelPaid"} => escrow'[job'[q].on] # "none"
               /\ session'[Refund(q)].at # "off" => job'[q].does = "cancelPaid"
    <3>1. session'[Refund(q)].at = session[Refund(q)].at
      BY <2>3, SessionOfRequest DEF Refund, Outer
    <3>2. CASE q = r
      BY <1>1, <2>1, <2>2, <3>1, <3>2, SessionOfRequest DEF Off
    <3>3. CASE q # r
      BY <1>1, <2>1, <3>1, <3>3 DEF OrderInv, EscrowKnown
    <3> QED BY <3>2, <3>3
  <2> QED BY <2>6, <2>7 DEF EscrowKnown
<1>3. ASSUME NEW s \in Sessions, SessionStep(s)
      PROVE  RowsMatch' /\ EscrowKnown'
  BY <1>3, SessionStepOrder
<1>4. ASSUME NEW r \in Requests, NEW place \in {"reading", "queued"},
             session[Refund(r)].at \in {"off", "reading"}, job[r].does = "cancelPaid",
             session' = [session EXCEPT ![Refund(r)].at = place],
             UNCHANGED <<job, owner, escrow>>
      PROVE  RowsMatch' /\ EscrowKnown'
  <2>1. Refund(r) \in Sessions /\ session[Refund(r)].next = 1
    BY <1>4, SessionOfRequest DEF OrderInv, RowsMatch
  <2>2. \A s \in Sessions : /\ session'[s].next = session[s].next
                            /\ s # Refund(r) => session'[s].at = session[s].at
    BY <1>1, <1>4
  <2>3. RowsMatch'
    BY <1>4, <2>1, <2>2, SameRows
  <2>4. \A q \in Requests : q # r => Refund(q) # Refund(r) /\ Refund(q) \in Sessions
    BY SessionOfRequest
  <2> QED BY <1>4, <2>2, <2>3, <2>4 DEF OrderInv, EscrowKnown
<1>5. ASSUME NEW r \in Requests, CallRefund(r)
      PROVE  RowsMatch' /\ EscrowKnown'
  BY <1>4, <1>5 DEF CallRefund
<1>6. ASSUME NEW r \in Requests, ReadEscrow(r)
      PROVE  RowsMatch' /\ EscrowKnown'
  <2>1. /\ session[Refund(r)].at = "reading" /\ UNCHANGED <<job, escrow>>
        /\ \/ session' = [session EXCEPT ![Refund(r)].at = "queued"] /\ UNCHANGED owner
           \/ Close(FailsWith(Refund(r)))
    BY <1>6 DEF ReadEscrow
  <2>2. job[r].does = "cancelPaid" /\ Refund(r) \in Sessions
    BY <2>1, SessionOfRequest DEF OrderInv, EscrowKnown
  <2>3. CASE session' = [session EXCEPT ![Refund(r)].at = "queued"] /\ UNCHANGED owner
    BY <1>4, <2>1, <2>2, <2>3
  <2>4. CASE Close(FailsWith(Refund(r)))
    BY <2>1, <2>2, <2>4, CloseOrder
  <2> QED BY <2>1, <2>3, <2>4
<1>7. CASE AbortDeadlock
  <2>1. PICK C \in Deadlocks : \E s \in C : Close(FailsWith(s)) /\ UNCHANGED <<job, escrow>>
    BY <1>7 DEF AbortDeadlock
  <2>2. PICK s \in C : Close(FailsWith(s)) /\ UNCHANGED <<job, escrow>>
    BY <2>1
  <2>3. s \in Sessions /\ session[s].at = "open"
    BY <2>2 DEF Deadlocks, Blocked
  <2> QED BY <2>2, <2>3, CloseOrder
<1>8. CASE UNCHANGED vars
  <2>1. RowsMatch'
    BY <1>8, SameRows DEF vars
  <2> QED BY <1>8, <2>1 DEF vars, OrderInv, EscrowKnown
<1>9. \A r \in Requests, k \in {"outer", "refund"} : <<r, k>> \in Sessions
  BY SessionOfRequest
<1> QED
  BY <1>2, <1>3, <1>5, <1>6, <1>7, <1>8, <1>9 DEF Next, Server, Step

LEMMA InitOrder == Init => OrderInv
<1> SUFFICES ASSUME Init PROVE RowsMatch /\ EscrowKnown
  BY InitLocks DEF OrderInv
<1>1. \A s \in Sessions : session[s] = Off
  BY DEF Init
<1>2. \A s \in Sessions : Behind(s) = {}
  BY <1>1 DEF Behind, Off
<1>3. \A row \in Rows, s \in Sessions : owner[row] # s
  BY RowLocksAssumption DEF Init, Sessions
<1>4. RowsMatch
  BY <1>1, <1>2, <1>3 DEF RowsMatch, Off
<1>5. EscrowKnown
  BY <1>1, SessionOfRequest DEF Init, EscrowKnown, Off, NotStarted
<1> QED BY <1>4, <1>5
-----------------------------------------------------------------------------
(* Rings.  A handler that has a row of one table and waits for one of      *)
(* another is one of few; each step of the argument closes a way round.    *)

\* Handler h updates a row of table x before one of table y.
Before(h, x, y) ==
  \E i, j \in 1 .. Len(Statements[h]) :
     i < j /\ Statements[h][i] = x /\ Statements[h][j] = y

LEMMA Orders ==
  ASSUME NEW h \in DOMAIN Statements, NEW x, NEW y, Before(h, x, y)
  PROVE  /\ x # "vehicle"
         /\ x = "wallet" => h = "release" /\ y = "booking"
         /\ x = "booking" => y = "vehicle" \/ (h = "confirm" /\ y \in {"escrow", "wallet"})
         /\ x = "escrow" => h \in {"refund", "confirm", "release"}
                            /\ y \in {"payment", "wallet", "booking"}
         /\ x = "payment" => y \in {"wallet", "booking", "escrow"}
                             /\ (y \in {"booking", "escrow"} => h = "confirm")
<1>1. PICK i \in 1 .. Len(Statements[h]), j \in 1 .. Len(Statements[h]) :
         i < j /\ Statements[h][i] = x /\ Statements[h][j] = y
  BY DEF Before
<1>2. h \in {"create", "cancelUnpaid", "cancelPaid", "refund", "confirm", "release",
            "withdraw", "failPayment", "start"}
  BY DEF Statements, StatementsWith
<1>3. CASE h \in {"create", "withdraw", "failPayment", "start"}
  <2>1. Len(Statements[h]) = 1
    BY <1>3 DEF Statements, StatementsWith
  <2> QED BY <1>1, <2>1
<1>4. CASE h \in {"cancelUnpaid", "cancelPaid"}
  <2>1. Statements[h] = <<"booking", "vehicle">>
    BY <1>4 DEF Statements, StatementsWith
  <2>2. i = 1 /\ j = 2
    BY <1>1, <2>1
  <2> QED BY <1>1, <2>1, <2>2
<1>5. CASE h = "refund"
  <2>1. Statements[h] = <<"escrow", "payment", "wallet">>
    BY <1>5 DEF Statements, StatementsWith
  <2>2. <<i, j>> \in {<<1, 2>>, <<1, 3>>, <<2, 3>>}
    BY <1>1, <2>1
  <2> QED BY <1>1, <1>5, <2>1, <2>2
<1>6. CASE h = "release"
  <2>1. Statements[h] = <<"escrow", "wallet", "booking">>
    BY <1>6 DEF Statements, StatementsWith
  <2>2. <<i, j>> \in {<<1, 2>>, <<1, 3>>, <<2, 3>>}
    BY <1>1, <2>1
  <2> QED BY <1>1, <1>6, <2>1, <2>2
<1>7. CASE h = "confirm"
  <2>1. Statements[h] = <<"payment", "booking", "escrow", "wallet">>
    BY <1>7 DEF Statements, StatementsWith
  <2>2. <<i, j>> \in {<<1, 2>>, <<1, 3>>, <<1, 4>>, <<2, 3>>, <<2, 4>>, <<3, 4>>}
    BY <1>1, <2>1
  <2> QED BY <1>1, <1>7, <2>1, <2>2
<1> QED BY <1>2, <1>3, <1>4, <1>5, <1>6, <1>7

\* What session s runs, and the table of the row it waits for.
Runs(s) == IF s[2] = "refund" THEN "refund" ELSE job[s[1]].does
WaitsFor(s) == Program(s)[session[s].next]

\* One row of these tables belongs to one booking.
Own == {"booking", "escrow", "payment"}

\* Everybody in a ring waits for a row of somebody in it, who waits in turn
\* for a row he takes later.
LEMMA RingEdge ==
  ASSUME OrderInv, NEW C \in Deadlocks, NEW s \in C
  PROVE  \E t \in C : /\ t # s
                      /\ Runs(t) \in DOMAIN Statements
                      /\ Before(Runs(t), WaitsFor(s), WaitsFor(t))
                      /\ WaitsFor(s) \in Own => Booking(t) = Booking(s)
<1>1. /\ C \subseteq Sessions /\ s \in Sessions
      /\ \A u \in C : Blocked(u)
      /\ owner[NextRow(s)] \in C
  BY DEF Deadlocks
<1>2. PICK t \in C : t = owner[NextRow(s)]
  BY <1>1
<1>3. t # s /\ t \in Sessions
  BY <1>1, <1>2 DEF Blocked
<1>4. NextRow(s) \in Rows /\ session[t].at = "open" /\ ~Finished(t)
  BY <1>1, NextRowIsRow DEF Blocked, OrderInv
<1>5. PICK i \in Behind(t) : NextRow(s) = RowOf(t, i)
  BY <1>2, <1>3, <1>4 DEF OrderInv, RowsMatch
<1>6. Runs(t) \in DOMAIN Statements /\ Program(t) = Statements[Runs(t)]
  <2>1. job[t[1]] # NotStarted /\ t[1] \in Requests
    BY <1>3, <1>4, HasCome DEF OrderInv
  <2>2. job[t[1]].does \in Handlers
    BY <2>1 DEF OrderInv, LocksInv, TypesOK
  <2>3. "refund" \in DOMAIN Statements
    BY DEF Statements, StatementsWith
  <2> QED BY <2>2, <2>3, RowLocksAssumption DEF Runs, Program
<1>7. Before(Runs(t), Program(t)[i], WaitsFor(t))
  <2>1. Len(Program(t)) \in 0 .. 4 /\ session[t].next \in 1 .. 5
    BY <1>6, ShortPrograms, <1>3 DEF OrderInv, LocksInv, TypesOK
  <2>2. i \in 1 .. Len(Program(t)) /\ session[t].next \in 1 .. Len(Program(t)) /\ i < session[t].next
    BY <1>4, <1>5, <2>1 DEF Behind, Finished
  <2> QED BY <1>6, <2>2 DEF Before, WaitsFor
<1>8. Program(t)[i] = WaitsFor(s) /\ (WaitsFor(s) \in Own => Booking(t) = Booking(s))
  BY <1>5 DEF NextRow, RowOf, WaitsFor, Row, Own
<1> QED BY <1>3, <1>6, <1>7, <1>8

LEMMA NoRing == OrderInv => DeadlocksOnlyOnRepeat
<1> SUFFICES ASSUME OrderInv, NEW C \in Deadlocks,
                    \A s \in C : job[s[1]].does = "confirm" => escrow[Booking(s)] = "none"
             PROVE  FALSE
  BY DEF DeadlocksOnlyOnRepeat
<1>1. C # {} /\ C \subseteq Sessions /\ \A s \in C : Blocked(s)
  BY DEF Deadlocks
<1>2. \A s \in C : Runs(s) = "confirm" => escrow[Booking(s)] = "none"
  BY DEF Runs
\* What is released or refunded has an escrow.
<1>3. ASSUME NEW s \in C, Runs(s) \in {"release", "refund"}
      PROVE  escrow[Booking(s)] # "none"
  <2>1. s[1] \in Requests /\ s \in Sessions /\ session[s].at = "open"
    BY <1>1, SessionOfRequest DEF Blocked
  <2>2. s[2] = "refund" => s = Refund(s[1])
    BY <2>1 DEF Sessions, Refund
  <2>3. job[s[1]].does \in {"release", "cancelPaid"}
    <3>1. CASE s[2] = "refund"
      BY <2>1, <2>2, <3>1 DEF OrderInv, EscrowKnown
    <3>2. CASE s[2] # "refund"
      <4>1. job[s[1]].does # "refund"
        <5>1. job[s[1]] # NotStarted
          BY <2>1, HasCome DEF OrderInv
        <5>2. job[s[1]].does \in Handlers
          BY <2>1, <5>1 DEF OrderInv, LocksInv, TypesOK
        <5> QED BY <5>2, RowLocksAssumption
      <4> QED BY <1>3, <3>2, <4>1 DEF Runs
    <3> QED BY <3>1, <3>2
  <2> QED BY <2>1, <2>3 DEF OrderInv, EscrowKnown, Booking
\* The vehicle comes last: who has it waits for nothing.
<1>4. \A s \in C : WaitsFor(s) # "vehicle"
  BY RingEdge, Orders
\* Who has a wallet and waits is a release; it waits for its booking ...
<1>5. ASSUME NEW s \in C, WaitsFor(s) = "wallet"
      PROVE  \E t \in C : Runs(t) = "release" /\ WaitsFor(t) = "booking"
  BY <1>5, RingEdge, Orders
\* ... which a confirmation has that waits for its escrow or the wallet.
<1>6. ASSUME NEW s \in C, WaitsFor(s) = "booking"
      PROVE  \E t \in C : /\ Runs(t) = "confirm" /\ WaitsFor(t) \in {"escrow", "wallet"}
                          /\ Booking(t) = Booking(s)
  BY <1>4, <1>6, RingEdge, Orders DEF Own
\* That confirmation is not the first of its booking.
<1>7. \A s \in C : WaitsFor(s) # "wallet"
  BY <1>2, <1>3, <1>5, <1>6
\* Nobody else has the escrow row of a first confirmation.
<1>8. ASSUME NEW s \in C, Runs(s) = "confirm", WaitsFor(s) = "escrow" PROVE FALSE
  <2>1. PICK t \in C : /\ t # s /\ Runs(t) \in {"refund", "confirm", "release"}
                       /\ Booking(t) = Booking(s)
                       /\ Before(Runs(t), "escrow", WaitsFor(t))
    BY <1>8, RingEdge, Orders DEF Own
  <2>2. Runs(t) = "confirm"
    BY <1>2, <1>3, <1>8, <2>1
  <2>3. WaitsFor(t) = "wallet"
    BY <2>1, <2>2 DEF Before, Statements, StatementsWith
  <2> QED BY <1>7, <2>3
<1>9. \A s \in C : WaitsFor(s) # "booking"
  BY <1>6, <1>7, <1>8
<1>10. \A s \in C : WaitsFor(s) \in {"escrow", "payment"}
  <2>1. ASSUME NEW s \in C PROVE WaitsFor(s) \in Tables
    <3>1. NextRow(s) \in Rows /\ ~Finished(s)
      BY <1>1, NextRowIsRow DEF Blocked, OrderInv
    <3> QED BY <3>1 DEF Rows, NextRow, WaitsFor, Row, Tables
  <2> QED BY <1>4, <1>7, <1>9, <2>1 DEF Tables
\* Only a confirmation has a payment and waits for an escrow.
<1>11. \A s \in C : WaitsFor(s) # "payment"
  BY <1>7, <1>8, <1>9, RingEdge, Orders
<1>12. \A s \in C : WaitsFor(s) # "escrow"
  BY <1>7, <1>9, <1>11, RingEdge, Orders
<1> QED BY <1>1, <1>10, <1>11, <1>12

\* However many requests there are and whatever they do, PostgreSQL finds a
\* deadlock only around a repeated confirmation.
THEOREM OnlyRepeatsDeadlock == Spec => []DeadlocksOnlyOnRepeat
BY NoRing, InitOrder, StepOrder, PTL DEF Spec
=============================================================================
