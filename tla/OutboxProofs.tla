----------------------------- MODULE OutboxProofs -----------------------------
(* Theorems about Outbox, for every value of its constants.                *)
EXTENDS Outbox, TLAPS

\* What the constants contribute to arithmetic.
LEMMA Constants ==
    /\ BatchSize \in Nat /\ MaxAttempts \in Nat /\ MaxAttempts > 0
    /\ BackoffCap \in Nat /\ StalledAfter \in Nat /\ StalledAfter > 0
    /\ MaxFaults \in Nat /\ MaxOverdue \in Nat
    /\ MaxHistory \in Nat /\ MaxHistory > MaxAttempts
    /\ Prompt \in BOOLEAN
BY OutboxAssumption

\* A retry delay is a wait the table can hold (Backoff clamps to 0..cap).
LEMMA RetryAfterWait ==
    ASSUME NEW e, NEW d \in RetryAfter(e)
    PROVE  d \in 0 .. BackoffCap /\ d \in Waits
BY Constants DEF RetryAfter, RetryDelays, Waits

\* Charge keeps an entity well formed as long as it had budget left, and a
\* charged entity that is pending still has budget.
LEMMA ChargeType ==
    ASSUME NEW e \in Entity, e.attempts < MaxAttempts,
           NEW d \in Waits, NEW reason \in Reasons
    PROVE  LET c == Charge(e, d, reason) IN
           /\ c \in Entity
           /\ c.attempts = e.attempts + 1
           /\ c.status \in {"pending", "dead"}
           /\ c.status = "pending" => c.attempts < MaxAttempts
           /\ c.status = "dead" => c.attempts = MaxAttempts
           /\ c.lastError = reason
<1>1. CASE e.attempts + 1 >= MaxAttempts
  <2>1. Charge(e, d, reason)
          = [status |-> "dead", attempts |-> e.attempts + 1,
             wait |-> e.wait, lastError |-> reason]
    BY <1>1 DEF Charge, Entity
  <2> QED BY <2>1, <1>1, Constants DEF Entity, Statuses
<1>2. CASE ~(e.attempts + 1 >= MaxAttempts)
  <2>1. Charge(e, d, reason)
          = [status |-> "pending", attempts |-> e.attempts + 1,
             wait |-> d, lastError |-> reason]
    BY <1>2 DEF Charge, Entity
  <2> QED BY <2>1, <1>2, Constants DEF Entity, Statuses
<1> QED BY <1>1, <1>2

\* The rows a claim returns are entities.
LEMMA ClaimedType ==
    ASSUME NEW r \in Row
    PROVE  /\ Claimed(r) \in Entity
           /\ Claimed(r).status = "sending"
           /\ Claimed(r).attempts = r.attempts
BY DEF Claimed, Row, Entity, Statuses

\* A claim of either kind stamps a row and keeps it a row.
LEMMA RestampedType ==
    ASSUME NEW r \in Row
    PROVE  /\ [r EXCEPT !.status = "sending", !.age = 0] \in Row
           /\ [r EXCEPT !.age = 0] \in Row
<1>1. 0 \in Ages
  BY Constants DEF Ages, NotClaimed
<1> QED BY <1>1 DEF Row, Statuses

\* The empty entity, the empty row and a new notification are well formed.
LEMMA NothingType == NoEntity \in Entity /\ NoRow \in Row /\ NewNotification \in Row
BY Constants DEF NoEntity, NoRow, NewNotification, Entity, Row, Statuses,
   Reasons, Waits, Ages, NotClaimed

BaseInv == TypeOK /\ BudgetLeft

\* The empty table holds nothing to charge.
LEMMA BaseInit == Init => BaseInv
BY Constants, NothingType DEF Init, BaseInv, TypeOK, BudgetLeft, NoEntity, NoRow

\* A step that rewrites one copy: it is enough to know the new entity.
LEMMA OneCopy ==
    ASSUME BaseInv, NEW p \in Procs, NEW n \in Notifications, NEW e \in Entity,
           e.status \in {"pending", "sending"} => e.attempts < MaxAttempts,
           copy' = [copy EXCEPT ![p][n] = e], row' = row,
           sends' \in [Notifications -> 0 .. MaxHistory],
           acked' \in [Notifications -> 0 .. MaxHistory],
           lost' \in [Notifications -> 0 .. MaxHistory],
           faults' \in 0 .. MaxFaults
    PROVE  BaseInv'
<1>1. TypeOK'
  BY DEF BaseInv, TypeOK
<1>2. BudgetLeft'
  BY DEF BaseInv, TypeOK, BudgetLeft
<1> QED BY <1>1, <1>2 DEF BaseInv

\* A history counter stays within its bound.
LEMMA BumpType ==
    ASSUME NEW f \in [Notifications -> 0 .. MaxHistory], NEW n \in Notifications
    PROVE  /\ Bump(f[n]) \in 0 .. MaxHistory
           /\ [f EXCEPT ![n] = Bump(@)] \in [Notifications -> 0 .. MaxHistory]
BY Constants DEF Bump

\* Enqueue adds a row with its whole budget.
LEMMA EnqueueBase ==
    ASSUME BaseInv, NEW n \in Notifications, Enqueue(n)
    PROVE  BaseInv'
<1>1. TypeOK'
  BY NothingType DEF BaseInv, TypeOK, Enqueue
<1>2. BudgetLeft'
  BY Constants DEF BaseInv, TypeOK, BudgetLeft, Enqueue, NewNotification, NoRow
<1> QED BY <1>1, <1>2 DEF BaseInv

\* ClaimBatch copies rows as they are: their budget is that of the table.
LEMMA ClaimBase ==
    ASSUME BaseInv, NEW w \in Workers, ClaimBatch(w)
    PROVE  BaseInv'
<1>1. PICK S \in SUBSET Due :
        /\ row' = [n \in Notifications |->
                     IF n \in S
                     THEN [row[n] EXCEPT !.status = "sending", !.age = 0]
                     ELSE row[n]]
        /\ copy' = [copy EXCEPT ![w] =
                     [n \in Notifications |->
                        IF n \in S THEN Claimed(row[n]) ELSE NoEntity]]
        /\ UNCHANGED <<sends, acked, lost, faults>>
  BY DEF ClaimBatch
<1>2. w \in Procs
  BY DEF Procs
<1>3. \A n \in S : n \in Notifications /\ row[n].status = "pending"
  BY DEF Due
<1>4. TypeOK'
  <2>1. row' \in [Notifications -> Row]
    <3>1. \A n \in Notifications :
             [row[n] EXCEPT !.status = "sending", !.age = 0] \in Row
      BY RestampedType DEF BaseInv, TypeOK
    <3> QED BY <1>1, <3>1 DEF BaseInv, TypeOK
  <2>2. copy' \in [Procs -> [Notifications -> Entity]]
    BY <1>1, <1>2, ClaimedType, NothingType DEF BaseInv, TypeOK
  <2> QED BY <1>1, <2>1, <2>2 DEF BaseInv, TypeOK
<1>5. BudgetLeft'
  <2> SUFFICES ASSUME NEW n \in Notifications
               PROVE  /\ row'[n].status \in {"pending", "sending"} =>
                            row'[n].attempts < MaxAttempts
                      /\ \A p \in Procs :
                            copy'[p][n].status \in {"pending", "sending"} =>
                                copy'[p][n].attempts < MaxAttempts
    BY DEF BudgetLeft
  <2>1. row[n] \in Row
    BY DEF BaseInv, TypeOK
  <2>2. row'[n].status \in {"pending", "sending"} =>
          row'[n].attempts < MaxAttempts
    BY <1>1, <1>3, <2>1 DEF BaseInv, BudgetLeft, Row
  <2>3. copy'[w][n].status \in {"pending", "sending"} =>
          copy'[w][n].attempts < MaxAttempts
    BY <1>1, <1>2, <1>3, <2>1, ClaimedType
       DEF BaseInv, TypeOK, BudgetLeft, NoEntity
  <2>4. \A p \in Procs \ {w} : copy'[p] = copy[p]
    BY <1>1 DEF BaseInv, TypeOK
  <2> QED BY <2>2, <2>3, <2>4 DEF BaseInv, BudgetLeft
<1> QED BY <1>4, <1>5 DEF BaseInv

\* settle charges a failed attempt and leaves it pending only below the budget.
LEMMA DeliverBase ==
    ASSUME BaseInv, NEW w \in Workers, NEW n \in Notifications, WorkerStep(w, n)
    PROVE  BaseInv'
<1>1. w \in Procs /\ copy[w][n] \in Entity /\ copy[w][n].status = "sending"
  BY DEF Procs, BaseInv, TypeOK, WorkerStep, DeliverOk, DeliverPermanent,
     DeliverRetryable, Delivering
<1>2. copy[w][n].attempts < MaxAttempts
  BY <1>1 DEF BaseInv, BudgetLeft
<1>3. /\ row' = row /\ lost' = lost /\ faults' = faults
      /\ sends' \in [Notifications -> 0 .. MaxHistory]
  BY BumpType DEF WorkerStep, DeliverOk, DeliverPermanent, DeliverRetryable,
     Delivering, BaseInv, TypeOK
<1>4. acked' \in [Notifications -> 0 .. MaxHistory]
  BY BumpType DEF WorkerStep, DeliverOk, DeliverPermanent, DeliverRetryable,
     BaseInv, TypeOK
<1>5. lost' \in [Notifications -> 0 .. MaxHistory] /\ faults' \in 0 .. MaxFaults
  BY <1>3 DEF BaseInv, TypeOK
<1>6. CASE DeliverOk(w, n)
  <2>1. MarkSent(copy[w][n]) \in Entity /\ MarkSent(copy[w][n]).status = "sent"
    BY <1>1 DEF MarkSent, Entity, Statuses, Reasons
  <2>2. copy' = [copy EXCEPT ![w][n] = MarkSent(copy[w][n])]
    BY <1>6 DEF DeliverOk
  <2> QED BY <1>1, <1>3, <1>4, <1>5, <2>1, <2>2, OneCopy
<1>7. CASE DeliverPermanent(w, n)
  <2>1. MarkDead(copy[w][n]) \in Entity /\ MarkDead(copy[w][n]).status = "dead"
    BY <1>1 DEF MarkDead, Entity, Statuses, Reasons
  <2>2. copy' = [copy EXCEPT ![w][n] = MarkDead(copy[w][n])]
    BY <1>7 DEF DeliverPermanent
  <2> QED BY <1>1, <1>3, <1>4, <1>5, <2>1, <2>2, OneCopy
<1>8. CASE DeliverRetryable(w, n)
  <2>1. PICK d \in RetryAfter(copy[w][n]) :
          copy' = [copy EXCEPT ![w][n] = RecordFailure(copy[w][n], d)]
    BY <1>8 DEF DeliverRetryable
  <2>2. d \in Waits
    BY RetryAfterWait
  <2> DEFINE c == RecordFailure(copy[w][n], d)
  <2>3. c \in Entity /\ (c.status \in {"pending", "sending"} => c.attempts < MaxAttempts)
    BY <1>1, <1>2, <2>2, ChargeType DEF RecordFailure, Reasons
  <2>4. copy' = [copy EXCEPT ![w][n] = c]
    BY <2>1
  <2> HIDE DEF c
  <2> QED BY <1>1, <1>3, <1>4, <1>5, <2>3, <2>4, OneCopy
<1> QED BY <1>6, <1>7, <1>8 DEF WorkerStep

\* Save stores a copy that has budget left if it is pending.
LEMMA SaveBase ==
    ASSUME BaseInv, NEW p \in Procs, NEW n \in Notifications, Save(p, n)
    PROVE  BaseInv'
<1>1. copy[p][n] \in Entity /\ row[n] \in Row
  BY DEF BaseInv, TypeOK
<1>2. Saved(row[n], copy[p][n])
        = [status |-> copy[p][n].status, attempts |-> copy[p][n].attempts,
           wait |-> copy[p][n].wait, age |-> row[n].age,
           lastError |-> copy[p][n].lastError]
  BY DEF Saved
<1>3. Saved(row[n], copy[p][n]) \in Row
  BY <1>1, <1>2 DEF Row, Entity
<1>4. TypeOK'
  BY <1>3, NothingType DEF BaseInv, TypeOK, Save
<1>5. BudgetLeft'
  <2>1. ASSUME NEW m \in Notifications
        PROVE  row'[m].status \in {"pending", "sending"} =>
                 row'[m].attempts < MaxAttempts
    BY <1>2 DEF BaseInv, TypeOK, BudgetLeft, Save
  <2>2. ASSUME NEW m \in Notifications, NEW q \in Procs
        PROVE  copy'[q][m].status \in {"pending", "sending"} =>
                 copy'[q][m].attempts < MaxAttempts
    BY DEF BaseInv, TypeOK, BudgetLeft, Save, NoEntity
  <2> QED BY <2>1, <2>2 DEF BudgetLeft
<1> QED BY <1>4, <1>5 DEF BaseInv

\* A failed Save, or a recovered panic, only forgets a copy.
LEMMA SaveFailsBase ==
    ASSUME BaseInv, NEW p \in Procs, NEW n \in Notifications, SaveFails(p, n)
    PROVE  BaseInv'
<1>1. lost' \in [Notifications -> 0 .. MaxHistory]
  BY Constants DEF BaseInv, TypeOK, SaveFails, Bump
<1>2. faults' \in 0 .. MaxFaults
  BY Constants DEF BaseInv, TypeOK, SaveFails, Fault
<1>3. NoEntity.status = "absent"
  BY DEF NoEntity
<1>4. /\ copy' = [copy EXCEPT ![p][n] = NoEntity] /\ row' = row
      /\ sends' \in [Notifications -> 0 .. MaxHistory]
      /\ acked' \in [Notifications -> 0 .. MaxHistory]
  BY DEF BaseInv, TypeOK, SaveFails
<1> QED BY <1>1, <1>2, <1>3, <1>4, NothingType, OneCopy

\* A crash only forgets copies.
LEMMA CrashBase ==
    ASSUME BaseInv, NEW p \in Procs, Crash(p)
    PROVE  BaseInv'
<1>1. lost' \in [Notifications -> 0 .. MaxHistory]
  BY BumpType DEF BaseInv, TypeOK, Crash
<1>2. faults' \in 0 .. MaxFaults
  BY Constants DEF BaseInv, TypeOK, Crash, Fault
<1>3. TypeOK'
  BY <1>1, <1>2, NothingType DEF BaseInv, TypeOK, Crash
<1>4. BudgetLeft'
  BY DEF BaseInv, TypeOK, BudgetLeft, Crash, NoEntity
<1> QED BY <1>3, <1>4 DEF BaseInv

\* Sweep charges every stalled row it takes, in memory.
LEMMA SweepBase ==
    ASSUME BaseInv, NEW s \in Sweepers, Sweep(s)
    PROVE  BaseInv'
<1>1. PICK S \in SUBSET Stalled, delay \in [Notifications -> 0 .. BackoffCap] :
        /\ \A n \in S : delay[n] \in RetryAfter(row[n])
        /\ row' = [n \in Notifications |->
                     IF n \in S THEN [row[n] EXCEPT !.age = 0] ELSE row[n]]
        /\ copy' = [copy EXCEPT ![s] =
                     [n \in Notifications |->
                        IF n \in S
                        THEN RecoverStalled(Claimed(row[n]), delay[n])
                        ELSE NoEntity]]
        /\ UNCHANGED <<sends, acked, lost, faults>>
  BY DEF Sweep
<1>2. s \in Procs
  BY DEF Procs
<1>3. \A n \in S : n \in Notifications /\ row[n].status = "sending"
  BY DEF Stalled
<1>4. \A n \in S : LET c == RecoverStalled(Claimed(row[n]), delay[n]) IN
        /\ c \in Entity
        /\ c.status \in {"pending", "sending"} => c.attempts < MaxAttempts
  <2> SUFFICES ASSUME NEW n \in S
               PROVE  LET c == RecoverStalled(Claimed(row[n]), delay[n]) IN
                      /\ c \in Entity
                      /\ c.status \in {"pending", "sending"} =>
                            c.attempts < MaxAttempts
    OBVIOUS
  <2>1. row[n] \in Row /\ row[n].attempts < MaxAttempts
    BY <1>3 DEF BaseInv, TypeOK, BudgetLeft
  <2>2. delay[n] \in Waits
    BY <1>1, <1>3, Constants DEF Waits
  <2> QED BY <2>1, <2>2, ClaimedType, ChargeType DEF RecoverStalled, Reasons
<1>5. TypeOK'
  <2>1. row' \in [Notifications -> Row]
    BY <1>1, RestampedType DEF BaseInv, TypeOK
  <2>2. copy' \in [Procs -> [Notifications -> Entity]]
    BY <1>1, <1>2, <1>4, NothingType DEF BaseInv, TypeOK
  <2> QED BY <1>1, <2>1, <2>2 DEF BaseInv, TypeOK
<1>6. BudgetLeft'
  <2> SUFFICES ASSUME NEW n \in Notifications
               PROVE  /\ row'[n].status \in {"pending", "sending"} =>
                            row'[n].attempts < MaxAttempts
                      /\ \A p \in Procs :
                            copy'[p][n].status \in {"pending", "sending"} =>
                                copy'[p][n].attempts < MaxAttempts
    BY DEF BudgetLeft
  <2>1. row[n] \in Row
    BY DEF BaseInv, TypeOK
  <2>2. row'[n].status \in {"pending", "sending"} =>
          row'[n].attempts < MaxAttempts
    BY <1>1, <2>1 DEF BaseInv, BudgetLeft, Row
  <2>3. copy'[s][n].status \in {"pending", "sending"} =>
          copy'[s][n].attempts < MaxAttempts
    BY <1>1, <1>2, <1>4 DEF BaseInv, TypeOK, NoEntity
  <2>4. \A p \in Procs \ {s} : copy'[p] = copy[p]
    BY <1>1 DEF BaseInv, TypeOK
  <2> QED BY <2>2, <2>3, <2>4 DEF BaseInv, BudgetLeft
<1> QED BY <1>5, <1>6 DEF BaseInv

\* The clock moves waits and ages and nothing else.
LEMMA TickKeeps ==
    ASSUME TypeOK, Tick
    PROVE  /\ \A n \in Notifications :
                /\ row'[n].status = row[n].status
                /\ row'[n].attempts = row[n].attempts
                /\ row'[n].age = row[n].age \/ row'[n].age = Older(row[n].age)
           /\ \A p \in Procs, n \in Notifications :
                /\ copy'[p][n].status = copy[p][n].status
                /\ copy'[p][n].attempts = copy[p][n].attempts
<1>1. ASSUME NEW n \in Notifications
      PROVE  /\ row'[n].status = row[n].status
             /\ row'[n].attempts = row[n].attempts
             /\ row'[n].age = row[n].age \/ row'[n].age = Older(row[n].age)
  BY DEF TypeOK, Tick, Row
<1>2. ASSUME NEW p \in Procs, NEW n \in Notifications
      PROVE  /\ copy'[p][n].status = copy[p][n].status
             /\ copy'[p][n].attempts = copy[p][n].attempts
  <2>1. copy[p][n] \in Entity
    BY DEF TypeOK
  <2>2. copy'[p][n] = IF Holds(p, n)
                      THEN [copy[p][n] EXCEPT !.wait = Earlier(@)]
                      ELSE copy[p][n]
    BY DEF Tick
  <2> QED BY <2>1, <2>2 DEF Entity
<1> QED BY <1>1, <1>2

\* The clock touches no status and no attempts.
LEMMA TickBase ==
    ASSUME BaseInv, Tick
    PROVE  BaseInv'
<1>1. \A x \in Waits : Earlier(x) \in Waits
  BY Constants DEF Waits, Earlier
<1>2. \A x \in Ages : Older(x) \in Ages
  BY Constants DEF Ages, Older, NotClaimed
<1>3. TypeOK'
  <2>1. row' \in [Notifications -> Row]
    BY <1>1, <1>2 DEF BaseInv, TypeOK, Tick, Row
  <2>2. \A e \in Entity : [e EXCEPT !.wait = Earlier(@)] \in Entity
    BY <1>1 DEF Entity
  <2>3. copy' \in [Procs -> [Notifications -> Entity]]
    BY <2>2 DEF BaseInv, TypeOK, Tick
  <2> QED BY <2>1, <2>3 DEF BaseInv, TypeOK, Tick
<1>4. BudgetLeft'
  BY TickKeeps DEF BaseInv, BudgetLeft
<1> QED BY <1>3, <1>4 DEF BaseInv

\* Every step keeps types and budgets.
LEMMA BaseStep == BaseInv /\ [Next]_vars => BaseInv'
<1> SUFFICES ASSUME BaseInv, [Next]_vars
             PROVE  BaseInv'
  OBVIOUS
<1>1. CASE UNCHANGED vars
  BY <1>1 DEF vars, BaseInv, TypeOK, BudgetLeft
<1>2. CASE Next
  BY <1>2, EnqueueBase, ClaimBase, DeliverBase, SaveBase, SaveFailsBase,
     CrashBase, SweepBase, TickBase DEF Next
<1> QED BY <1>1, <1>2

\* So types and budgets hold in every behaviour.
LEMMA BaseCorrect == Spec => []BaseInv
BY BaseInit, BaseStep, PTL DEF Spec

\* Type correctness of the outbox: in particular no row and no in-memory copy
\* ever carries more attempts than the budget, whatever stale saves, crashes
\* and sweeps interleave, and with no timing assumption.
THEOREM TypeCorrect == Spec => []TypeOK
<1>1. BaseInv => TypeOK
  BY DEF BaseInv
<1> QED BY <1>1, BaseCorrect, PTL

------------------------------------------------------------------------------
(* OutcomeIsTrue says what the table records; a Save writes what a copy     *)
(* says, so the invariant has to speak of the copies as well.               *)

\* What a status may claim: sent only of a notification some sender accepted,
\* dead only with a permanent failure or the whole budget spent.
TrueOf(e, acks) ==
    /\ e.status = "sent" => acks > 0
    /\ e.status = "dead" => \/ e.lastError = "permanent"
                            \/ e.attempts = MaxAttempts

\* The table and every in-memory copy tell the truth.
TruthInv ==
    \A n \in Notifications :
        /\ TrueOf(row[n], acked[n])
        /\ \A p \in Procs : TrueOf(copy[p][n], acked[n])

\* Whatever is neither sent nor dead claims nothing.
LEMMA OpenIsTrue ==
    ASSUME NEW e, NEW acks, e.status # "sent", e.status # "dead"
    PROVE  TrueOf(e, acks)
BY DEF TrueOf

\* The empty row, the empty entity and a new notification claim nothing.
LEMMA NothingClaims ==
    ASSUME NEW acks
    PROVE  /\ TrueOf(NoRow, acks) /\ TrueOf(NoEntity, acks)
           /\ TrueOf(NewNotification, acks)
BY DEF TrueOf, NoRow, NoEntity, NewNotification

\* What a charge leaves is true: it is dead only at the end of the budget.
LEMMA ChargeIsTrue ==
    ASSUME NEW e \in Entity, e.attempts < MaxAttempts,
           NEW d \in Waits, NEW reason \in Reasons, NEW acks
    PROVE  TrueOf(Charge(e, d, reason), acks)
BY ChargeType DEF TrueOf

\* An entity that was true stays true when more deliveries are accepted.
LEMMA MoreAcks ==
    ASSUME NEW e, NEW a \in 0 .. MaxHistory, TrueOf(e, a)
    PROVE  TrueOf(e, Bump(a)) /\ Bump(a) > 0
BY Constants DEF TrueOf, Bump

\* The empty table claims nothing.
LEMMA TruthInit == Init => TruthInv
BY NothingClaims DEF Init, TruthInv

\* A new row is pending.
LEMMA EnqueueTruth ==
    ASSUME BaseInv, TruthInv, NEW n \in Notifications, Enqueue(n)
    PROVE  TruthInv'
BY NothingClaims DEF BaseInv, TypeOK, TruthInv, Enqueue

\* Claimed rows and their copies are sending.
LEMMA ClaimTruth ==
    ASSUME BaseInv, TruthInv, NEW w \in Workers, ClaimBatch(w)
    PROVE  TruthInv'
<1>1. PICK S \in SUBSET Due :
        /\ row' = [n \in Notifications |->
                     IF n \in S
                     THEN [row[n] EXCEPT !.status = "sending", !.age = 0]
                     ELSE row[n]]
        /\ copy' = [copy EXCEPT ![w] =
                     [n \in Notifications |->
                        IF n \in S THEN Claimed(row[n]) ELSE NoEntity]]
        /\ UNCHANGED acked
  BY DEF ClaimBatch
<1>2. w \in Procs
  BY DEF Procs
<1> SUFFICES ASSUME NEW n \in Notifications
             PROVE  /\ TrueOf(row'[n], acked[n])
                    /\ \A p \in Procs : TrueOf(copy'[p][n], acked[n])
  BY <1>1 DEF TruthInv
<1>3. row[n] \in Row
  BY DEF BaseInv, TypeOK
<1>4. TrueOf([row[n] EXCEPT !.status = "sending", !.age = 0], acked[n])
  BY <1>3 DEF TrueOf, Row
<1>5. TrueOf(row'[n], acked[n])
  BY <1>1, <1>4 DEF TruthInv
<1>6. TrueOf(Claimed(row[n]), acked[n])
  BY <1>3, ClaimedType, OpenIsTrue
<1>7. TrueOf(copy'[w][n], acked[n])
  BY <1>1, <1>2, <1>6, NothingClaims DEF BaseInv, TypeOK
<1>8. \A p \in Procs \ {w} : copy'[p] = copy[p]
  BY <1>1 DEF BaseInv, TypeOK
<1> QED BY <1>5, <1>7, <1>8 DEF TruthInv

\* A step that rewrites one copy and nothing else: the new entity decides.
LEMMA OneCopyTruth ==
    ASSUME BaseInv, TruthInv, NEW p \in Procs, NEW n \in Notifications, NEW e,
           TrueOf(e, acked[n]), row' = row, acked' = acked,
           copy' = [copy EXCEPT ![p][n] = e]
    PROVE  TruthInv'
BY DEF BaseInv, TypeOK, TruthInv

\* settle marks sent with the acknowledgement in hand, and dead with a reason.
LEMMA DeliverTruth ==
    ASSUME BaseInv, TruthInv, NEW w \in Workers, NEW n \in Notifications,
           WorkerStep(w, n)
    PROVE  TruthInv'
<1>1. /\ w \in Procs /\ copy[w][n] \in Entity /\ copy[w][n].status = "sending"
      /\ row' = row
  BY DEF Procs, BaseInv, TypeOK, WorkerStep, DeliverOk, DeliverPermanent,
     DeliverRetryable, Delivering
<1>2. copy[w][n].attempts < MaxAttempts
  BY <1>1 DEF BaseInv, BudgetLeft
<1>3. CASE DeliverOk(w, n)
  <2>1. /\ copy' = [copy EXCEPT ![w][n] = MarkSent(copy[w][n])]
        /\ acked' = [acked EXCEPT ![n] = Bump(acked[n])]
    BY <1>3 DEF DeliverOk
  <2>2. MarkSent(copy[w][n]).status = "sent"
    BY <1>1 DEF MarkSent, Entity
  <2>3. \A m \in Notifications : acked[m] \in 0 .. MaxHistory
    BY DEF BaseInv, TypeOK
  <2>4. Bump(acked[n]) > 0
    BY <2>3, MoreAcks DEF TruthInv
  <2>5. TrueOf(MarkSent(copy[w][n]), Bump(acked[n]))
    BY <2>2, <2>4 DEF TrueOf
  <2>6. ASSUME NEW m \in Notifications
        PROVE  TrueOf(row[m], acked'[m])
    BY <2>1, <2>3, MoreAcks DEF TruthInv, BaseInv, TypeOK
  <2>7. ASSUME NEW m \in Notifications, NEW p \in Procs
        PROVE  TrueOf(copy[p][m], acked'[m])
    BY <2>1, <2>3, MoreAcks DEF TruthInv, BaseInv, TypeOK
  <2>8. ASSUME NEW m \in Notifications, NEW p \in Procs
        PROVE  TrueOf(copy'[p][m], acked'[m])
    <3>1. CASE p = w /\ m = n
      <4>1. copy'[p][m] = MarkSent(copy[w][n]) /\ acked'[m] = Bump(acked[n])
        BY <3>1, <1>1, <2>1 DEF BaseInv, TypeOK
      <4> QED BY <4>1, <2>5
    <3>2. CASE ~(p = w /\ m = n)
      <4>1. copy'[p][m] = copy[p][m]
        BY <3>2, <2>1 DEF BaseInv, TypeOK
      <4> QED BY <4>1, <2>7
    <3> QED BY <3>1, <3>2
  <2> QED BY <1>1, <2>6, <2>8 DEF TruthInv
<1>4. CASE DeliverPermanent(w, n)
  <2>1. /\ copy' = [copy EXCEPT ![w][n] = MarkDead(copy[w][n])]
        /\ acked' = acked
    BY <1>4 DEF DeliverPermanent
  <2>2. TrueOf(MarkDead(copy[w][n]), acked[n])
    BY <1>1 DEF TrueOf, MarkDead, Entity
  <2> QED BY <1>1, <2>1, <2>2, OneCopyTruth
<1>5. CASE DeliverRetryable(w, n)
  <2>1. PICK d \in RetryAfter(copy[w][n]) :
          copy' = [copy EXCEPT ![w][n] = RecordFailure(copy[w][n], d)]
    BY <1>5 DEF DeliverRetryable
  <2>2. d \in Waits /\ acked' = acked
    BY <1>5, RetryAfterWait DEF DeliverRetryable
  <2>3. TrueOf(RecordFailure(copy[w][n], d), acked[n])
    BY <1>1, <1>2, <2>2, ChargeIsTrue DEF RecordFailure, Reasons
  <2> QED BY <1>1, <2>1, <2>2, <2>3, OneCopyTruth
<1> QED BY <1>3, <1>4, <1>5 DEF WorkerStep

\* Save writes the copy's word into the table, over whatever is there.
LEMMA SaveTruth ==
    ASSUME BaseInv, TruthInv, NEW p \in Procs, NEW n \in Notifications,
           Save(p, n)
    PROVE  TruthInv'
<1>1. TrueOf(Saved(row[n], copy[p][n]), acked[n])
  BY DEF TruthInv, TrueOf, Saved
<1>2. \A m \in Notifications : TrueOf(row'[m], acked[m])
  BY <1>1 DEF TruthInv, BaseInv, TypeOK, Save
<1>3. \A m \in Notifications, q \in Procs : TrueOf(copy'[q][m], acked[m])
  BY NothingClaims DEF TruthInv, BaseInv, TypeOK, Save
<1> QED BY <1>2, <1>3 DEF TruthInv, Save

\* A failed Save and a crash only forget copies.
LEMMA ForgetTruth ==
    ASSUME BaseInv, TruthInv, NEW p \in Procs,
           Crash(p) \/ \E n \in Notifications : SaveFails(p, n)
    PROVE  TruthInv'
<1>1. CASE Crash(p)
  BY <1>1, NothingClaims DEF TruthInv, BaseInv, TypeOK, Crash
<1>2. ASSUME NEW n \in Notifications, SaveFails(p, n)
      PROVE  TruthInv'
  BY <1>2, NothingClaims, OneCopyTruth DEF SaveFails
<1> QED BY <1>1, <1>2

\* Sweep re-stamps stored rows and charges their copies.
LEMMA SweepTruth ==
    ASSUME BaseInv, TruthInv, NEW s \in Sweepers, Sweep(s)
    PROVE  TruthInv'
<1>1. PICK S \in SUBSET Stalled, delay \in [Notifications -> 0 .. BackoffCap] :
        /\ row' = [n \in Notifications |->
                     IF n \in S THEN [row[n] EXCEPT !.age = 0] ELSE row[n]]
        /\ copy' = [copy EXCEPT ![s] =
                     [n \in Notifications |->
                        IF n \in S
                        THEN RecoverStalled(Claimed(row[n]), delay[n])
                        ELSE NoEntity]]
        /\ UNCHANGED acked
  BY DEF Sweep
<1>2. s \in Procs
  BY DEF Procs
<1> SUFFICES ASSUME NEW n \in Notifications
             PROVE  /\ TrueOf(row'[n], acked[n])
                    /\ \A p \in Procs : TrueOf(copy'[p][n], acked[n])
  BY <1>1 DEF TruthInv
<1>3. row[n] \in Row
  BY DEF BaseInv, TypeOK
<1>4. TrueOf([row[n] EXCEPT !.age = 0], acked[n])
  BY <1>3 DEF TruthInv, TrueOf, Row
<1>5. TrueOf(row'[n], acked[n])
  BY <1>1, <1>4 DEF TruthInv
<1>6. n \in S => TrueOf(RecoverStalled(Claimed(row[n]), delay[n]), acked[n])
  <2>1. n \in S => row[n].attempts < MaxAttempts
    BY DEF Stalled, BaseInv, BudgetLeft
  <2>2. delay[n] \in Waits
    BY Constants DEF Waits
  <2> QED BY <2>1, <2>2, <1>3, ClaimedType, ChargeIsTrue
          DEF RecoverStalled, Reasons
<1>7. TrueOf(copy'[s][n], acked[n])
  BY <1>1, <1>2, <1>6, NothingClaims DEF BaseInv, TypeOK
<1>8. \A p \in Procs \ {s} : copy'[p] = copy[p]
  BY <1>1 DEF BaseInv, TypeOK
<1> QED BY <1>5, <1>7, <1>8 DEF TruthInv

\* The clock moves no status, no count and no reason.
LEMMA TickTruth ==
    ASSUME BaseInv, TruthInv, Tick
    PROVE  TruthInv'
<1>1. ASSUME NEW n \in Notifications
      PROVE  /\ row'[n].status = row[n].status
             /\ row'[n].attempts = row[n].attempts
             /\ row'[n].lastError = row[n].lastError
  BY DEF BaseInv, TypeOK, Tick, Row
<1>2. ASSUME NEW p \in Procs, NEW n \in Notifications
      PROVE  /\ copy'[p][n].status = copy[p][n].status
             /\ copy'[p][n].attempts = copy[p][n].attempts
             /\ copy'[p][n].lastError = copy[p][n].lastError
  <2>1. copy[p][n] \in Entity
    BY DEF BaseInv, TypeOK
  <2>2. copy'[p][n] = IF Holds(p, n)
                      THEN [copy[p][n] EXCEPT !.wait = Earlier(@)]
                      ELSE copy[p][n]
    BY DEF Tick
  <2> QED BY <2>1, <2>2 DEF Entity
<1>3. acked' = acked
  BY DEF Tick
<1> QED BY <1>1, <1>2, <1>3 DEF TruthInv, TrueOf

\* Every step keeps the table and the copies true.
LEMMA TruthStep == BaseInv /\ TruthInv /\ [Next]_vars => TruthInv'
<1> SUFFICES ASSUME BaseInv, TruthInv, [Next]_vars
             PROVE  TruthInv'
  OBVIOUS
<1>1. CASE UNCHANGED vars
  BY <1>1 DEF vars, TruthInv
<1>2. CASE Next
  BY <1>2, EnqueueTruth, ClaimTruth, DeliverTruth, SaveTruth, ForgetTruth,
     SweepTruth, TickTruth DEF Next
<1> QED BY <1>1, <1>2

\* A row stored as sent was accepted by its sender and a dead row says why it
\* died, with no timing assumption: two holders of one row may overwrite each
\* other's outcome (Save has no guard on what is stored), and either outcome
\* is still one that happened.
THEOREM TrueOutcomes == Spec => []OutcomeIsTrue
<1>1. TruthInv => OutcomeIsTrue
  BY DEF TruthInv, TrueOf, OutcomeIsTrue
<1> QED BY <1>1, TruthInit, TruthStep, BaseCorrect, PTL DEF Spec
==============================================================================
