------------------------ MODULE Withdrawals_proofs --------------------------
(***************************************************************************)
(* Proofs about Withdrawals, for every number of drivers, withdrawals and  *)
(* concurrent requests and every behaviour of the operator.                *)
(***************************************************************************)
EXTENDS Withdrawals, Sums_proofs

Busy == {"create", "PROCESSING", "COMPLETED", "FAILED"}

\* An update by an integer keeps the wallets well formed and moves both columns.
LEMMA CreditWallet ==
  ASSUME TypeOK, NEW w \in Withdrawals, NEW n \in Int, Credit(w, n)
  PROVE  /\ wallet' \in [Drivers -> [balance : Int, withdrawable : Int]]
         /\ PendingUntouched => PendingUntouched'
BY WithdrawalsAssumption DEF Credit, TypeOK, PendingUntouched

\* A request that begins or ends is well formed.
LEMMA RequestType ==
  ASSUME TypeOK, NEW r \in Requests, NEW w \in Withdrawals, NEW place \in Busy,
         req' = [req EXCEPT ![r] = [at |-> place, of |-> w]] \/ End(r)
  PROVE  req' \in [Requests -> {Idle} \cup [at : Busy, of : Withdrawals]]
BY DEF TypeOK, End, Busy

LEMMA StepType ==
  TypeOK /\ [Next]_vars => TypeOK' /\ (PendingUntouched => PendingUntouched')
<1> SUFFICES ASSUME TypeOK, [Next]_vars
             PROVE  TypeOK' /\ (PendingUntouched => PendingUntouched')
  OBVIOUS
<1>1. ASSUME NEW r \in Requests, NEW w \in Withdrawals, NEW place \in Busy, Begin(r, place, w)
      PROVE  TypeOK' /\ (PendingUntouched => PendingUntouched')
  BY <1>1, RequestType DEF Begin, TypeOK, PendingUntouched, Busy
<1>2. ASSUME NEW r \in Requests, NEW w \in Withdrawals, End(r),
             UNCHANGED wallet \/ Credit(w, Amount[w]) \/ Credit(w, -Amount[w]),
             UNCHANGED withdrawal
             \/ \E s \in {"PROCESSING", "COMPLETED", "FAILED"} : SetStatut(w, s)
      PROVE  TypeOK' /\ (PendingUntouched => PendingUntouched')
  <2>1. Amount[w] \in Int /\ -Amount[w] \in Int
    BY WithdrawalsAssumption
  <2>2. wallet' \in [Drivers -> [balance : Int, withdrawable : Int]]
       /\ (PendingUntouched => PendingUntouched')
    BY <1>2, <2>1, CreditWallet DEF TypeOK, PendingUntouched
  <2>3. withdrawal' \in [Withdrawals -> {"none", "PROCESSING", "COMPLETED", "FAILED"}]
    BY <1>2 DEF TypeOK, SetStatut
  <2>4. req' \in [Requests -> {Idle} \cup [at : Busy, of : Withdrawals]]
    BY <1>2, RequestType DEF Busy
  <2> QED BY <2>2, <2>3, <2>4 DEF TypeOK, Busy
<1>3. ASSUME NEW r \in Requests, NEW w \in Withdrawals, CreateRead(r, w) \/ ReceiveCallback(r, w)
      PROVE  TypeOK' /\ (PendingUntouched => PendingUntouched')
  BY <1>1, <1>3, WithdrawalsAssumption DEF CreateRead, ReceiveCallback, Busy
<1>4. ASSUME NEW r \in Requests, NEW w \in Withdrawals,
             \/ CreateCommit(r, w) \/ MarkProcessing(r, w)
             \/ CompleteWithdrawal(r, w) \/ FailWithdrawal(r, w)
      PROVE  TypeOK' /\ (PendingUntouched => PendingUntouched')
  BY <1>2, <1>4 DEF CreateCommit, MarkProcessing, CompleteWithdrawal, FailWithdrawal
<1>5. ASSUME NEW r \in Requests, Abort(r)
      PROVE  TypeOK' /\ (PendingUntouched => PendingUntouched')
  BY <1>5 DEF Abort, End, TypeOK, PendingUntouched
<1>6. CASE UNCHANGED vars
  BY <1>6 DEF vars, TypeOK, PendingUntouched
<1> QED
  BY <1>3, <1>4, <1>5, <1>6 DEF Next

\* Withdrawals never disturb the part of a balance that is still in escrow.
THEOREM PendingSafe == Spec => [](TypeOK /\ PendingUntouched)
<1>1. Init => TypeOK /\ PendingUntouched
  BY WithdrawalsAssumption DEF Init, TypeOK, PendingUntouched
<1> QED
  BY <1>1, StepType, PTL DEF Spec

\* The rows and the requests are well formed in every reachable state.
THEOREM WithdrawalsTypeCorrect == Spec => []TypeOK
BY PendingSafe, PTL

-----------------------------------------------------------------------------
(* One request at a time, the balance that create checked is still there   *)
(* when its transaction takes the money.                                   *)

CreateBacked ==
  \A r \in Requests, w \in Withdrawals :
     Suspended(r, "create", w) => wallet[OwnerOf[w]].withdrawable >= Amount[w]

Backed == NoOverdraft /\ CreateBacked

LEMMA StepBacked ==
  ASSUME OneRequestAtATime, TypeOK, Backed, [Next]_vars
  PROVE  Backed'
<1>1. /\ wallet \in [Drivers -> [balance : Int, withdrawable : Int]]
      /\ \A w \in Withdrawals : OwnerOf[w] \in Drivers /\ Amount[w] \in Nat \ {0}
  BY WithdrawalsAssumption DEF TypeOK
<1>2. ASSUME NEW r \in Requests, End(r) PROVE CreateBacked'
  BY <1>2 DEF OneRequestAtATime, End, Idle, CreateBacked, Suspended, TypeOK
<1>3. ASSUME NEW r \in Requests, NEW w \in Withdrawals, CreateRead(r, w) PROVE Backed'
  <2>1. \A s \in Requests : s = r /\ req'[s] = [at |-> "create", of |-> w]
    BY <1>3 DEF OneRequestAtATime, CreateRead, Begin, TypeOK
  <2> QED
    BY <1>3, <2>1 DEF CreateRead, Begin, Backed, NoOverdraft, CreateBacked, Suspended
<1>4. ASSUME NEW r \in Requests, NEW w \in Withdrawals, ReceiveCallback(r, w) PROVE Backed'
  <2>1. PICK s \in {"PROCESSING", "COMPLETED", "FAILED"} : Begin(r, s, w)
    BY <1>4, WithdrawalsAssumption DEF ReceiveCallback
  <2>2. \A q \in Requests : q = r /\ req'[q] = [at |-> s, of |-> w]
    BY <2>1 DEF OneRequestAtATime, Begin, TypeOK
  <2> QED
    BY <2>1, <2>2 DEF Begin, Backed, NoOverdraft, CreateBacked, Suspended
<1>5. ASSUME NEW r \in Requests, NEW w \in Withdrawals, CreateCommit(r, w) PROVE Backed'
  <2>1. NoOverdraft'
    BY <1>1, <1>5 DEF CreateCommit, Credit, Backed, NoOverdraft, CreateBacked
  <2> QED BY <1>2, <1>5, <2>1 DEF CreateCommit, Backed
<1>6. ASSUME NEW r \in Requests, NEW w \in Withdrawals, FailWithdrawal(r, w) PROVE Backed'
  <2>1. NoOverdraft'
    BY <1>1, <1>6 DEF FailWithdrawal, Credit, Backed, NoOverdraft
  <2> QED BY <1>2, <1>6, <2>1 DEF FailWithdrawal, Backed
<1>7. ASSUME NEW r \in Requests, End(r), UNCHANGED wallet PROVE Backed'
  BY <1>2, <1>7 DEF Backed, NoOverdraft
<1>8. CASE UNCHANGED vars
  BY <1>8 DEF vars, Backed, NoOverdraft, CreateBacked, Suspended
<1> QED
  BY <1>3, <1>4, <1>5, <1>6, <1>7, <1>8
     DEF Next, MarkProcessing, CompleteWithdrawal, Abort

\* With one request at a time, no wallet is ever overdrawn, whatever the
\* operator answers and wherever a request may die.
THEOREM NeverOverdrawn == ASSUME OneRequestAtATime PROVE Spec => []NoOverdraft
<1>1. Init => Backed
  BY WithdrawalsAssumption DEF Init, Backed, NoOverdraft, CreateBacked, Suspended, Idle
<1>2. TypeOK /\ Backed /\ [Next]_vars => Backed'
  BY StepBacked
<1>3. Backed => NoOverdraft
  BY DEF Backed
<1> QED
  BY <1>1, <1>2, <1>3, PendingSafe, PTL DEF Spec
-----------------------------------------------------------------------------
(* What a driver asked for, counted withdrawal by withdrawal.              *)

\* Writing one row's statut moves the amount that is leaving by that row's
\* amount at most, and for its owner only.
LEMMA LeavingStep ==
  ASSUME TypeOK, NEW w \in Withdrawals, NEW s, SetStatut(w, s), NEW d \in Drivers
  PROVE  LET before == withdrawal[w] \in {"PROCESSING", "COMPLETED"}
             after == s \in {"PROCESSING", "COMPLETED"} IN
         /\ Leaving(d) \in Nat /\ Leaving(d)' \in Nat
         /\ OwnerOf[w] # d => Leaving(d)' = Leaving(d)
         /\ OwnerOf[w] = d =>
               /\ before /\ after => Leaving(d)' = Leaving(d)
               /\ before /\ ~after => Leaving(d)' = Leaving(d) - Amount[w]
               /\ ~before /\ after => Leaving(d)' = Leaving(d) + Amount[w]
               /\ ~before /\ ~after => Leaving(d)' = Leaving(d)
<1> DEFINE S == Of(d, {"PROCESSING", "COMPLETED"})
           T == {v \in Withdrawals : OwnerOf[v] = d /\ withdrawal'[v] \in {"PROCESSING", "COMPLETED"}}
<1>1. Leaving(d) = SumOver(Amount, S) /\ Leaving(d)' = SumOver(Amount, T)
  BY DEF Leaving, Total, Of
<1>2. S \in SUBSET Withdrawals /\ T \in SUBSET Withdrawals
  BY DEF Of
<1>3. withdrawal'[w] = s /\ \A v \in Withdrawals \ {w} : withdrawal'[v] = withdrawal[v]
  BY DEF TypeOK, SetStatut
<1>4. \A v \in Withdrawals \ {w} : v \in S <=> v \in T
  BY <1>3 DEF Of
<1>5. /\ w \in S <=> OwnerOf[w] = d /\ withdrawal[w] \in {"PROCESSING", "COMPLETED"}
      /\ w \in T <=> OwnerOf[w] = d /\ s \in {"PROCESSING", "COMPLETED"}
  BY <1>3 DEF Of
<1>6. IsFiniteSet(Withdrawals) /\ \A v \in Withdrawals : Amount[v] \in Nat
  BY WithdrawalsAssumption
<1> HIDE DEF S, T
<1>7. /\ SumOver(Amount, S) \in Nat /\ SumOver(Amount, T) \in Nat
      /\ w \in S /\ w \in T => SumOver(Amount, T) = SumOver(Amount, S)
      /\ w \in S /\ w \notin T => SumOver(Amount, T) = SumOver(Amount, S) - Amount[w]
      /\ w \notin S /\ w \in T => SumOver(Amount, T) = SumOver(Amount, S) + Amount[w]
      /\ w \notin S /\ w \notin T => SumOver(Amount, T) = SumOver(Amount, S)
  BY <1>2, <1>4, <1>6, SumChange
<1> QED
  BY <1>1, <1>5, <1>7

\* The amount is a number, and rows that are not written leave it as it is.
LEMMA LeavingType == \A d \in Drivers : Leaving(d) \in Nat
<1> SUFFICES ASSUME NEW d \in Drivers PROVE Leaving(d) \in Nat
  OBVIOUS
<1>1. Of(d, {"PROCESSING", "COMPLETED"}) \in SUBSET Withdrawals
  BY DEF Of
<1> QED
  BY <1>1, WithdrawalsAssumption, FS_Subset, SumType DEF Leaving, Total

LEMMA LeavingSame ==
  ASSUME UNCHANGED withdrawal, NEW d \in Drivers
  PROVE  Leaving(d) \in Nat /\ Leaving(d)' = Leaving(d)
BY LeavingType DEF Leaving, Total, Of

\* Before any withdrawal, nothing is leaving.
LEMMA LeavingInit == ASSUME Init, NEW d \in Drivers PROVE Leaving(d) = 0
<1>1. Of(d, {"PROCESSING", "COMPLETED"}) = {}
  BY DEF Init, Of
<1> QED BY <1>1, SumEmpty DEF Leaving, Total

\* A wallet update moves the withdrawable part of the owner alone.
LEMMA CreditStep ==
  ASSUME TypeOK, NEW w \in Withdrawals, NEW n \in Int, Credit(w, n), NEW d \in Drivers
  PROVE  wallet'[d].withdrawable = IF OwnerOf[w] = d THEN wallet[d].withdrawable + n
                                                     ELSE wallet[d].withdrawable
BY WithdrawalsAssumption DEF Credit, TypeOK

-----------------------------------------------------------------------------
(* Nothing is lost, for every interleaving.  NothingLost is not inductive: *)
(* create would take the amount again if its row were there already; what  *)
(* every schedule keeps is that a row is inserted once, before the         *)
(* operator can say anything about it.                                     *)

InsertedOnce ==
  /\ \A r \in Requests, w \in Withdrawals :
        /\ Suspended(r, "create", w) => withdrawal[w] = "none"
        /\ \A s \in {"PROCESSING", "COMPLETED", "FAILED"} :
              Suspended(r, s, w) => withdrawal[w] # "none"
  /\ \A r, q \in Requests, w \in Withdrawals :
        Suspended(r, "create", w) /\ Suspended(q, "create", w) => r = q

LEMMA StepInsertedOnce == TypeOK /\ InsertedOnce /\ [Next]_vars => InsertedOnce'
<1> SUFFICES ASSUME TypeOK, InsertedOnce, [Next]_vars PROVE InsertedOnce'
  OBVIOUS
<1>1. req \in [Requests -> {Idle} \cup [at : Busy, of : Withdrawals]]
  BY DEF TypeOK, Busy
<1>2. ASSUME NEW r \in Requests, NEW w \in Withdrawals, CreateRead(r, w) PROVE InsertedOnce'
  <2>1. /\ req'[r] = [at |-> "create", of |-> w]
        /\ \A q \in Requests \ {r} : req'[q] = req[q]
        /\ UNCHANGED withdrawal
    BY <1>1, <1>2 DEF CreateRead, Begin
  <2>2. withdrawal[w] = "none" /\ \A q \in Requests : ~Suspended(q, "create", w)
    BY <1>2 DEF CreateRead, Suspended
  <2> QED BY <2>1, <2>2 DEF InsertedOnce, Suspended
<1>3. ASSUME NEW r \in Requests, NEW w \in Withdrawals, ReceiveCallback(r, w)
      PROVE  InsertedOnce'
  <2>1. PICK s \in {"PROCESSING", "COMPLETED", "FAILED"} : Begin(r, s, w)
    BY <1>3, WithdrawalsAssumption DEF ReceiveCallback
  <2>2. /\ req'[r] = [at |-> s, of |-> w]
        /\ \A q \in Requests \ {r} : req'[q] = req[q]
        /\ UNCHANGED withdrawal
    BY <1>1, <2>1 DEF Begin
  <2> QED BY <1>3, <2>1, <2>2 DEF ReceiveCallback, InsertedOnce, Suspended
<1>4. ASSUME NEW r \in Requests, End(r),
             \/ UNCHANGED withdrawal
             \/ \E w \in Withdrawals, s \in {"PROCESSING", "COMPLETED", "FAILED"} :
                   /\ SetStatut(w, s)
                   /\ \A q \in Requests \ {r} : ~Suspended(q, "create", w)
      PROVE  InsertedOnce'
  <2>1. req'[r] = Idle /\ \A q \in Requests \ {r} : req'[q] = req[q]
    BY <1>1, <1>4 DEF End
  <2>2. ASSUME NEW q \in Requests, NEW v \in Withdrawals, NEW place \in Busy,
               Suspended(q, place, v)'
        PROVE  q # r /\ Suspended(q, place, v)
    BY <2>1, <2>2 DEF Suspended, Idle, Busy
  <2>3. ASSUME NEW v \in Withdrawals
        PROVE  \/ withdrawal'[v] = withdrawal[v]
               \/ /\ withdrawal'[v] # "none"
                  /\ \A q \in Requests \ {r} : ~Suspended(q, "create", v)
    BY <1>4 DEF SetStatut, TypeOK
  <2> QED BY <2>2, <2>3 DEF InsertedOnce, Busy
<1>5. ASSUME NEW r \in Requests, NEW w \in Withdrawals, CreateCommit(r, w) PROVE InsertedOnce'
  <2>1. \A q \in Requests \ {r} : ~Suspended(q, "create", w)
    BY <1>5 DEF CreateCommit, InsertedOnce
  <2> QED BY <1>4, <1>5, <2>1 DEF CreateCommit
<1>6. ASSUME NEW r \in Requests, NEW w \in Withdrawals,
             MarkProcessing(r, w) \/ CompleteWithdrawal(r, w) \/ FailWithdrawal(r, w)
      PROVE  InsertedOnce'
  <2>1. \A q \in Requests : ~Suspended(q, "create", w)
    BY <1>6 DEF MarkProcessing, CompleteWithdrawal, FailWithdrawal, InsertedOnce
  <2> QED BY <1>4, <1>6, <2>1 DEF MarkProcessing, CompleteWithdrawal, FailWithdrawal
<1>7. ASSUME NEW r \in Requests, Abort(r) PROVE InsertedOnce'
  BY <1>4, <1>7 DEF Abort
<1>8. CASE UNCHANGED vars
  BY <1>8 DEF vars, InsertedOnce, Suspended
<1> QED BY <1>2, <1>3, <1>5, <1>6, <1>7, <1>8 DEF Next

\* Whatever the operator says and wherever requests die, what a driver earned
\* is withdrawable, on its way or sent: no schedule loses any of it.
LEMMA StepNothingLost ==
  ASSUME TypeOK, InsertedOnce, NothingLost, [Next]_vars
  PROVE  NothingLost'
<1> SUFFICES ASSUME NEW d \in Drivers
             PROVE  wallet'[d].withdrawable + Leaving(d)' >= Earned[d]
  BY DEF NothingLost
<1>1. /\ wallet[d].withdrawable \in Int /\ Earned[d] \in Nat
      /\ \A w \in Withdrawals : Amount[w] \in Nat
      /\ wallet[d].withdrawable + Leaving(d) >= Earned[d]
  BY WithdrawalsAssumption DEF TypeOK, NothingLost
<1>2. CASE UNCHANGED <<wallet, withdrawal>>
  BY <1>1, <1>2, LeavingSame
<1>3. ASSUME NEW r \in Requests, NEW w \in Withdrawals, CreateCommit(r, w)
      PROVE  wallet'[d].withdrawable + Leaving(d)' >= Earned[d]
  <2>1. withdrawal[w] = "none"
    BY <1>3 DEF CreateCommit, InsertedOnce
  <2>2. wallet'[d].withdrawable = IF OwnerOf[w] = d THEN wallet[d].withdrawable + (-Amount[w])
                                                    ELSE wallet[d].withdrawable
    BY <1>1, <1>3, CreditStep DEF CreateCommit
  <2> QED BY <1>1, <1>3, <2>1, <2>2, LeavingStep DEF CreateCommit
<1>4. ASSUME NEW r \in Requests, NEW w \in Withdrawals,
             MarkProcessing(r, w) \/ CompleteWithdrawal(r, w)
      PROVE  wallet'[d].withdrawable + Leaving(d)' >= Earned[d]
  BY <1>1, <1>4, LeavingStep DEF MarkProcessing, CompleteWithdrawal
<1>5. ASSUME NEW r \in Requests, NEW w \in Withdrawals, FailWithdrawal(r, w)
      PROVE  wallet'[d].withdrawable + Leaving(d)' >= Earned[d]
  <2>1. wallet'[d].withdrawable = IF OwnerOf[w] = d THEN wallet[d].withdrawable + Amount[w]
                                                    ELSE wallet[d].withdrawable
    BY <1>1, <1>5, CreditStep DEF FailWithdrawal
  <2> QED BY <1>1, <1>5, <2>1, LeavingStep DEF FailWithdrawal
<1> QED
  BY <1>2, <1>3, <1>4, <1>5 DEF Next, CreateRead, ReceiveCallback, Begin, Abort, vars

\* Whatever the operator sends, in any order, and wherever requests die, what a
\* driver earned is withdrawable, on its way or sent: nothing of it is lost.
THEOREM NothingIsLost == Spec => []NothingLost
<1>1. Init => InsertedOnce /\ NothingLost
  <2> SUFFICES ASSUME Init PROVE InsertedOnce /\ NothingLost
    OBVIOUS
  <2>1. InsertedOnce
    BY DEF Init, InsertedOnce, Suspended, Idle
  <2>2. NothingLost
    BY LeavingInit, WithdrawalsAssumption DEF Init, NothingLost
  <2> QED BY <2>1, <2>2
<1> QED
  BY <1>1, StepInsertedOnce, StepNothingLost, PendingSafe, PTL DEF Spec

-----------------------------------------------------------------------------
(* One request at a time, and for an operator whose refusal is final, what *)
(* leaves a wallet comes back to it once: a callback is only acted upon    *)
(* while the money is away.                                                *)

ActsOnLeaving ==
  /\ \A r \in Requests, w \in Withdrawals, s \in {"PROCESSING", "COMPLETED", "FAILED"} :
        Suspended(r, s, w) => s \in Callbacks[w] /\ withdrawal[w] \in {"PROCESSING", "COMPLETED"}
  /\ \A w \in Withdrawals : withdrawal[w] = "FAILED" => Callbacks[w] = {"FAILED"}

LEMMA StepActsOnLeaving ==
  ASSUME OneRequestAtATime, RefusalIsFinal, TypeOK, ActsOnLeaving, [Next]_vars
  PROVE  ActsOnLeaving'
<1>1. req \in [Requests -> {Idle} \cup [at : Busy, of : Withdrawals]]
  BY DEF TypeOK, Busy
<1>2. ASSUME NEW r \in Requests, NEW w \in Withdrawals, CreateRead(r, w) PROVE ActsOnLeaving'
  <2>1. \A q \in Requests : req'[q] = [at |-> "create", of |-> w]
    BY <1>1, <1>2 DEF OneRequestAtATime, CreateRead, Begin
  <2> QED BY <1>2, <2>1 DEF CreateRead, Begin, ActsOnLeaving, Suspended
<1>3. ASSUME NEW r \in Requests, NEW w \in Withdrawals, ReceiveCallback(r, w)
      PROVE  ActsOnLeaving'
  <2>1. PICK s \in Callbacks[w] : s # withdrawal[w] /\ Begin(r, s, w)
    BY <1>3 DEF ReceiveCallback
  <2>2. \A q \in Requests : req'[q] = [at |-> s, of |-> w]
    BY <1>1, <2>1 DEF OneRequestAtATime, Begin
  <2>3. withdrawal[w] \in {"PROCESSING", "COMPLETED"}
    BY <1>3, <2>1 DEF ReceiveCallback, TypeOK, ActsOnLeaving
  <2>4. UNCHANGED withdrawal
    BY <2>1 DEF Begin
  <2> QED BY <2>2, <2>3, <2>4 DEF ActsOnLeaving, Suspended
<1>4. ASSUME NEW r \in Requests, End(r),
             \A w \in Withdrawals : withdrawal'[w] = "FAILED" => Callbacks[w] = {"FAILED"}
      PROVE  ActsOnLeaving'
  <2>1. \A q \in Requests : req'[q] = Idle
    BY <1>1, <1>4 DEF OneRequestAtATime, End
  <2> QED BY <1>4, <2>1 DEF ActsOnLeaving, Suspended, Idle
<1>5. ASSUME NEW r \in Requests, NEW w \in Withdrawals,
             CreateCommit(r, w) \/ MarkProcessing(r, w) \/ CompleteWithdrawal(r, w)
      PROVE  ActsOnLeaving'
  BY <1>4, <1>5
     DEF CreateCommit, MarkProcessing, CompleteWithdrawal, SetStatut, TypeOK, ActsOnLeaving
<1>6. ASSUME NEW r \in Requests, NEW w \in Withdrawals, FailWithdrawal(r, w)
      PROVE  ActsOnLeaving'
  <2>1. Callbacks[w] = {"FAILED"}
    BY <1>6 DEF FailWithdrawal, ActsOnLeaving, RefusalIsFinal
  <2> QED BY <1>4, <1>6, <2>1 DEF FailWithdrawal, SetStatut, TypeOK, ActsOnLeaving
<1>7. ASSUME NEW r \in Requests, Abort(r) PROVE ActsOnLeaving'
  BY <1>4, <1>7 DEF Abort, ActsOnLeaving
<1>8. CASE UNCHANGED vars
  BY <1>8 DEF vars, ActsOnLeaving, Suspended
<1> QED BY <1>2, <1>3, <1>5, <1>6, <1>7, <1>8 DEF Next

\* What is withdrawable and what is leaving add up to the same.
LEMMA StepBalance ==
  ASSUME TypeOK, InsertedOnce, ActsOnLeaving, [Next]_vars, NEW d \in Drivers
  PROVE  wallet'[d].withdrawable + Leaving(d)' = wallet[d].withdrawable + Leaving(d)
<1>1. wallet[d].withdrawable \in Int /\ \A w \in Withdrawals : Amount[w] \in Nat
  BY WithdrawalsAssumption DEF TypeOK
<1>2. CASE UNCHANGED <<wallet, withdrawal>>
  BY <1>1, <1>2, LeavingSame
<1>3. ASSUME NEW r \in Requests, NEW w \in Withdrawals, CreateCommit(r, w)
      PROVE  wallet'[d].withdrawable + Leaving(d)' = wallet[d].withdrawable + Leaving(d)
  <2>1. withdrawal[w] = "none"
    BY <1>3 DEF CreateCommit, InsertedOnce
  <2>2. wallet'[d].withdrawable = IF OwnerOf[w] = d THEN wallet[d].withdrawable + (-Amount[w])
                                                    ELSE wallet[d].withdrawable
    BY <1>1, <1>3, CreditStep DEF CreateCommit
  <2> QED BY <1>1, <1>3, <2>1, <2>2, LeavingStep DEF CreateCommit
<1>4. ASSUME NEW r \in Requests, NEW w \in Withdrawals,
             MarkProcessing(r, w) \/ CompleteWithdrawal(r, w)
      PROVE  wallet'[d].withdrawable + Leaving(d)' = wallet[d].withdrawable + Leaving(d)
  <2>1. withdrawal[w] \in {"PROCESSING", "COMPLETED"}
    BY <1>4 DEF MarkProcessing, CompleteWithdrawal, ActsOnLeaving
  <2> QED BY <1>1, <1>4, <2>1, LeavingStep DEF MarkProcessing, CompleteWithdrawal
<1>5. ASSUME NEW r \in Requests, NEW w \in Withdrawals, FailWithdrawal(r, w)
      PROVE  wallet'[d].withdrawable + Leaving(d)' = wallet[d].withdrawable + Leaving(d)
  <2>1. withdrawal[w] \in {"PROCESSING", "COMPLETED"}
    BY <1>5 DEF FailWithdrawal, ActsOnLeaving
  <2>2. wallet'[d].withdrawable = IF OwnerOf[w] = d THEN wallet[d].withdrawable + Amount[w]
                                                    ELSE wallet[d].withdrawable
    BY <1>1, <1>5, CreditStep DEF FailWithdrawal
  <2> QED BY <1>1, <1>5, <2>1, <2>2, LeavingStep DEF FailWithdrawal
<1> QED
  BY <1>2, <1>3, <1>4, <1>5 DEF Next, CreateRead, ReceiveCallback, Begin, Abort, vars

\* One request at a time, and for an operator whose refusal is final, a
\* driver has exactly what he earned: withdrawable, on its way or sent.
THEOREM MoneyIsConserved ==
  ASSUME OneRequestAtATime, RefusalIsFinal PROVE Spec => []MoneyConserved
<1>1. Init => InsertedOnce /\ ActsOnLeaving /\ MoneyConserved
  <2> SUFFICES ASSUME Init PROVE InsertedOnce /\ ActsOnLeaving /\ MoneyConserved
    OBVIOUS
  <2>1. InsertedOnce /\ ActsOnLeaving
    BY DEF Init, InsertedOnce, ActsOnLeaving, Suspended, Idle
  <2>2. MoneyConserved
    BY LeavingInit, WithdrawalsAssumption DEF Init, MoneyConserved
  <2> QED BY <2>1, <2>2
<1>2. TypeOK /\ ActsOnLeaving /\ [Next]_vars => ActsOnLeaving'
  BY StepActsOnLeaving
<1>3. TypeOK /\ InsertedOnce /\ ActsOnLeaving /\ MoneyConserved /\ [Next]_vars => MoneyConserved'
  BY StepBalance DEF MoneyConserved
<1> QED
  BY <1>1, <1>2, <1>3, StepInsertedOnce, PendingSafe, PTL DEF Spec
=============================================================================
