-------------------------------- MODULE Outbox --------------------------------
(***************************************************************************)
(* The notification outbox: the rows of the notifications table, the       *)
(* dispatch workers that claim, send and settle them, and the sweepers     *)
(* that recover rows nobody settled.                                       *)
(*                                                                         *)
(* Instants are kept as offsets from the clock: a row's wait is its        *)
(* next_attempt_at minus now, its age is now minus its claimed_at.  Tick   *)
(* moves every offset; both saturate once no comparison of the code can    *)
(* tell larger values apart (wait: only the ORDER BY reads it below 0).    *)
(*                                                                         *)
(* A process holds the notifications it claimed as in-memory copies.       *)
(* Workers and sweepers may belong to one server process or to several;    *)
(* the crash of a process is the crash of its workers and its sweeper one  *)
(* after the other.                                                        *)
(***************************************************************************)
EXTENDS Integers, FiniteSets, Backoff

CONSTANTS
    Notifications,   \* the ids that may be enqueued
    Workers,         \* dispatch goroutines, of any number of processes
    Sweepers,        \* sweep goroutines, one per process
    BatchSize,       \* rows one claim takes
    MaxAttempts,     \* the retry budget
    BackoffBase, BackoffCap,
    StalledAfter,    \* how long a row may be sending before a sweep takes it
    Prompt,          \* TRUE: every holder settles within StalledAfter
    MaxFaults,       \* bound: crashes and failed saves in a behaviour
    MaxOverdue,      \* bound: how far below 0 a wait is told apart
    MaxHistory       \* bound: where the history counters saturate

Procs == Workers \cup Sweepers

ASSUME OutboxAssumption ==
    /\ Workers \cap Sweepers = {}
    /\ IsFiniteSet(Notifications)
    /\ BatchSize \in Nat \ {0}
    /\ MaxAttempts \in Nat \ {0}
    /\ BackoffBase \in Nat \ {0}
    /\ BackoffCap \in Nat \ {0}
    /\ StalledAfter \in Nat \ {0}
    /\ Prompt \in BOOLEAN
    /\ MaxFaults \in Nat
    /\ MaxOverdue \in Nat
    /\ MaxHistory \in Nat /\ MaxHistory > MaxAttempts

VARIABLES
    row,      \* the notifications table
    copy,     \* copy[p][n]: process p's in-memory entity for n
    \* History, read by no action.
    sends,    \* attemptDelivery calls made for a notification
    acked,    \* those the sender reported as delivered
    lost,     \* delivered ones whose outcome was never saved
    faults    \* crashes and failed saves so far

vars == <<row, copy, sends, acked, lost, faults>>

------------------------------------------------------------------------------
(* The entity.  "absent" is a row not enqueued, or a copy nobody holds.    *)
(* The code's "failed" exists only inside RecordFailure, which always      *)
(* leaves it before it returns, so no row and no copy is seen in it.       *)

Statuses == {"absent", "pending", "sending", "sent", "dead"}
Outcomes == {"sent", "pending", "dead"}   \* what a settled copy can be
Terminal == {"sent", "dead"}
Reasons == {"none", "failure", "permanent", "stalled"}   \* last_error

NotClaimed == -1   \* claimed_at IS NULL

Waits == -MaxOverdue .. BackoffCap
Ages == NotClaimed .. StalledAfter + 1

Row == [status : Statuses, attempts : 0 .. MaxAttempts, wait : Waits,
        age : Ages, lastError : Reasons]
Entity == [status : Statuses, attempts : 0 .. MaxAttempts, wait : Waits,
           lastError : Reasons]

NoEntity == [status |-> "absent", attempts |-> 0, wait |-> 0,
             lastError |-> "none"]
NoRow == [status |-> "absent", attempts |-> 0, wait |-> 0,
          age |-> NotClaimed, lastError |-> "none"]

\* NewNotification: pending, no attempts, claimable at once.
NewNotification == [NoRow EXCEPT !.status = "pending"]

\* What a claim returns of a row: the entity, already sending.
Claimed(r) == [status |-> "sending", attempts |-> r.attempts,
               wait |-> r.wait, lastError |-> r.lastError]

MarkSent(e) == [e EXCEPT !.status = "sent", !.lastError = "none"]

\* Mutant: the reason of a permanent failure is not recorded.
MarkDeadSilent(e) == [e EXCEPT !.status = "dead"]

MarkDead(e) == [e EXCEPT !.status = "dead", !.lastError = "permanent"]

\* Mutant: the budget is compared before the failed attempt is counted.
ChargeLate(e, retryAfter, reason) ==
    IF e.attempts >= MaxAttempts
    THEN [e EXCEPT !.status = "dead", !.attempts = @ + 1,
                   !.lastError = reason]
    ELSE [e EXCEPT !.status = "pending", !.attempts = @ + 1,
                   !.lastError = reason, !.wait = retryAfter]

\* A failed attempt is charged; the budget decides between dead and pending.
Charge(e, retryAfter, reason) ==
    IF e.attempts + 1 >= MaxAttempts
    THEN [e EXCEPT !.status = "dead", !.attempts = @ + 1,
                   !.lastError = reason]
    ELSE [e EXCEPT !.status = "pending", !.attempts = @ + 1,
                   !.lastError = reason, !.wait = retryAfter]

\* sending -> failed -> pending or dead, in one in-memory step.
RecordFailure(e, retryAfter) == Charge(e, retryAfter, "failure")

\* Mutant: a recovered claim costs no attempt.
RecoverStalledFree(e, retryAfter) ==
    [e EXCEPT !.status = "pending", !.lastError = "stalled",
              !.wait = retryAfter]

\* Mutant: the recovered claim is charged and left sending.
RecoverStalledInPlace(e, retryAfter) ==
    [Charge(e, retryAfter, "stalled") EXCEPT !.status = "sending"]

\* sending -> pending or dead, for a claim nobody settled.
RecoverStalled(e, retryAfter) == Charge(e, retryAfter, "stalled")

\* Computed from the attempts recorded before this failure.
RetryAfter(e) == RetryDelays(e.attempts, BackoffBase, BackoffCap)

------------------------------------------------------------------------------
(* What a process holds.                                                   *)

Holds(p, n) == copy[p][n].status # "absent"
Idle(p) == \A n \in Notifications : ~Holds(p, n)
Unsaved(p, n) == copy[p][n].status \in Outcomes

Bump(count) == IF count < MaxHistory THEN count + 1 ELSE count

Init ==
    /\ row = [n \in Notifications |-> NoRow]
    /\ copy = [p \in Procs |-> [n \in Notifications |-> NoEntity]]
    /\ sends = [n \in Notifications |-> 0]
    /\ acked = [n \in Notifications |-> 0]
    /\ lost = [n \in Notifications |-> 0]
    /\ faults = 0

------------------------------------------------------------------------------
(* Actions.                                                                *)

\* NotificationRepo.Enqueue of a new row, committed with the producer's
\* transaction.
Enqueue(n) ==
    /\ row[n].status = "absent"
    /\ row' = [row EXCEPT ![n] = NewNotification]
    /\ UNCHANGED <<copy, sends, acked, lost, faults>>

\* S is what ORDER BY key LIMIT BatchSize takes of the candidate rows.
FirstBatch(S, candidates, key) ==
    /\ S # {}
    /\ S \subseteq candidates
    /\ Cardinality(S) <= BatchSize
    /\ Cardinality(S) < BatchSize => S = candidates
    /\ \A n \in S, m \in candidates \ S : key[n] <= key[m]

\* Mutant: rows already being sent are claimed again.
DueOrSending ==
    {n \in Notifications : /\ row[n].status \in {"pending", "sending"}
                           /\ row[n].wait <= 0}

Due == {n \in Notifications : row[n].status = "pending" /\ row[n].wait <= 0}

\* ClaimBatch: one statement selects the oldest due rows, marks them sending,
\* stamps claimed_at and returns them.  A worker claims again only when every
\* row of its last batch went through settle.
ClaimBatch(w) ==
    /\ Idle(w)
    /\ \E S \in SUBSET Due :
        /\ FirstBatch(S, Due, [n \in Notifications |-> row[n].wait])
        /\ row' = [n \in Notifications |->
                     IF n \in S
                     THEN [row[n] EXCEPT !.status = "sending", !.age = 0]
                     ELSE row[n]]
        /\ copy' = [copy EXCEPT ![w] =
                     [n \in Notifications |->
                        IF n \in S THEN Claimed(row[n]) ELSE NoEntity]]
    /\ UNCHANGED <<sends, acked, lost, faults>>

\* The batch is worked through one row at a time: the next delivery starts
\* when the last outcome has been saved, or its save has failed.
Delivering(w, n) ==
    /\ copy[w][n].status = "sending"
    /\ \A m \in Notifications : ~Unsaved(w, m)
    /\ sends' = [sends EXCEPT ![n] = Bump(@)]
    /\ UNCHANGED <<row, lost, faults>>

\* settle, the sender accepted the message.
DeliverOk(w, n) ==
    /\ Delivering(w, n)
    /\ copy' = [copy EXCEPT ![w][n] = MarkSent(@)]
    /\ acked' = [acked EXCEPT ![n] = Bump(@)]

\* Mutant: a non-retryable error is settled as a success.
DeliverPermanentAsSent(w, n) ==
    /\ Delivering(w, n)
    /\ copy' = [copy EXCEPT ![w][n] = MarkSent(@)]
    /\ UNCHANGED acked

\* settle, no sender, a render error or a non-retryable send error.
DeliverPermanent(w, n) ==
    /\ Delivering(w, n)
    /\ copy' = [copy EXCEPT ![w][n] = MarkDead(@)]
    /\ UNCHANGED acked

\* settle, a retryable send error or a panicking sender.
DeliverRetryable(w, n) ==
    /\ Delivering(w, n)
    /\ \E d \in RetryAfter(copy[w][n]) :
         copy' = [copy EXCEPT ![w][n] = RecordFailure(@, d)]
    /\ UNCHANGED acked

\* Save: the columns a delivery owns, WHERE id = ? and nothing else; sent_at,
\* the fifth, is set exactly when the status is sent.  claimed_at stays.
Saved(r, e) == [status |-> e.status, attempts |-> e.attempts,
                wait |-> e.wait, age |-> r.age, lastError |-> e.lastError]

Save(p, n) ==
    /\ Unsaved(p, n)
    /\ row' = [row EXCEPT ![n] = Saved(@, copy[p][n])]
    /\ copy' = [copy EXCEPT ![p][n] = NoEntity]
    /\ UNCHANGED <<sends, acked, lost, faults>>

Fault ==
    /\ faults < MaxFaults
    /\ faults' = faults + 1

\* Save returns an error, or settleSafely recovers a panic: the row keeps its
\* stored state and the loop goes on to the next row of the batch.
SaveFails(p, n) ==
    /\ Unsaved(p, n)
    /\ Fault
    /\ lost' = [lost EXCEPT ![n] =
                  IF copy[p][n].status = "sent" THEN Bump(@) ELSE @]
    /\ copy' = [copy EXCEPT ![p][n] = NoEntity]
    /\ UNCHANGED <<row, sends, acked>>

\* The process is killed: everything it held in memory is gone.
Crash(p) ==
    /\ ~Idle(p)
    /\ Fault
    /\ lost' = [n \in Notifications |->
                  IF copy[p][n].status = "sent" THEN Bump(lost[n])
                                                ELSE lost[n]]
    /\ copy' = [copy EXCEPT ![p] = [n \in Notifications |-> NoEntity]]
    /\ UNCHANGED <<row, sends, acked>>

\* Mutant: a claim is stalled one unit too early.
StalledEarly == {n \in Notifications : /\ row[n].status = "sending"
                                       /\ row[n].age # NotClaimed
                                       /\ row[n].age >= StalledAfter}

\* Mutant: the sweep looks at claimed_at and not at the status.
StalledAnyStatus == {n \in Notifications : /\ row[n].age # NotClaimed
                                           /\ row[n].age > StalledAfter}

\* Mutant: the sweep looks for failed rows, a status that is never stored.
StalledFailed == {n \in Notifications : /\ row[n].status = "failed"
                                        /\ row[n].age # NotClaimed
                                        /\ row[n].age > StalledAfter}

Stalled == {n \in Notifications : /\ row[n].status = "sending"
                                  /\ row[n].age # NotClaimed
                                  /\ row[n].age > StalledAfter}

\* Sweep up to its saves: ClaimStalled re-stamps claimed_at and leaves the
\* status alone; RecoverStalled is applied in memory to each row returned.
Sweep(s) ==
    /\ Idle(s)
    /\ \E S \in SUBSET Stalled, delay \in [Notifications -> 0 .. BackoffCap] :
        /\ FirstBatch(S, Stalled, [n \in Notifications |-> -row[n].age])
        /\ \A n \in S : delay[n] \in RetryAfter(row[n])
        /\ \A n \in Notifications \ S : delay[n] = 0
        /\ row' = [n \in Notifications |->
                     IF n \in S THEN [row[n] EXCEPT !.age = 0] ELSE row[n]]
        /\ copy' = [copy EXCEPT ![s] =
                     [n \in Notifications |->
                        IF n \in S
                        THEN RecoverStalled(Claimed(row[n]), delay[n])
                        ELSE NoEntity]]
    /\ UNCHANGED <<sends, acked, lost, faults>>

\* The clock.  Prompt is the deployment's timing assumption, which no code
\* enforces: a claimed row is settled before its claim is StalledAfter old.
Earlier(wait) == IF wait > -MaxOverdue THEN wait - 1 ELSE wait
Older(age) ==
    IF age # NotClaimed /\ age <= StalledAfter THEN age + 1 ELSE age

Tick ==
    /\ Prompt => \A p \in Procs, n \in Notifications :
                    Holds(p, n) => row[n].age < StalledAfter
    /\ row' = [n \in Notifications |->
                 IF row[n].status = "absent" THEN row[n]
                 ELSE [row[n] EXCEPT !.wait = Earlier(@), !.age = Older(@)]]
    /\ copy' = [p \in Procs |-> [n \in Notifications |->
                 IF Holds(p, n) THEN [copy[p][n] EXCEPT !.wait = Earlier(@)]
                 ELSE copy[p][n]]]
    /\ UNCHANGED <<sends, acked, lost, faults>>

------------------------------------------------------------------------------
WorkerStep(w, n) ==
    \/ DeliverOk(w, n)
    \/ DeliverPermanent(w, n)
    \/ DeliverRetryable(w, n)

Next ==
    \/ \E n \in Notifications : Enqueue(n)
    \/ \E w \in Workers : ClaimBatch(w)
    \/ \E w \in Workers, n \in Notifications : WorkerStep(w, n)
    \/ \E p \in Procs, n \in Notifications : Save(p, n)
    \/ \E p \in Procs, n \in Notifications : SaveFails(p, n)
    \/ \E p \in Procs : Crash(p)
    \/ \E s \in Sweepers : Sweep(s)
    \/ Tick

Spec == Init /\ [][Next]_vars

\* The tickers of a running dispatcher fire for ever, a sender returns within
\* its timeout, and once the faults are spent the database answers.
Fairness ==
    /\ \A w \in Workers :
        /\ WF_vars(ClaimBatch(w))
        /\ \A n \in Notifications : WF_vars(WorkerStep(w, n))
    /\ \A p \in Procs, n \in Notifications : WF_vars(Save(p, n))
    /\ \A s \in Sweepers : WF_vars(Sweep(s))
    /\ WF_vars(Tick)

FairSpec == Spec /\ Fairness

------------------------------------------------------------------------------
(* Properties.                                                             *)

\* Type invariant: every row and every in-memory copy is a well-formed
\* notification whose attempts lie within the retry budget.
TypeOK ==
    /\ row \in [Notifications -> Row]
    /\ copy \in [Procs -> [Notifications -> Entity]]
    /\ sends \in [Notifications -> 0 .. MaxHistory]
    /\ acked \in [Notifications -> 0 .. MaxHistory]
    /\ lost \in [Notifications -> 0 .. MaxHistory]
    /\ faults \in 0 .. MaxFaults

\* FOR UPDATE SKIP LOCKED plus the stall window give every claimed row one
\* owner: no two workers or sweepers hold the same notification, and a held
\* notification is stored as sending.
SingleOwner ==
    \A n \in Notifications, p \in Procs :
        Holds(p, n) =>
            /\ row[n].status = "sending"
            /\ \A q \in Procs \ {p} : ~Holds(q, n)

\* The retry budget bounds what a recipient can see: attemptDelivery runs at
\* most MaxAttempts times for a notification, whatever crashes, failed saves
\* and sweeps come between (a recovered row costs an attempt).
DeliveryBudget == \A n \in Notifications : sends[n] <= MaxAttempts

\* At-least-once, with a reason for every duplicate: a notification is
\* delivered again only after the outcome of a delivery was lost between the
\* send and the Save.
DuplicatesAreLostOutcomes ==
    \A n \in Notifications : acked[n] <= 1 + lost[n]

\* Nothing is lost silently: a row stored as sent was accepted by its sender,
\* and a dead row says why it died: a non-retryable failure, or a budget
\* spent down to the last attempt.
OutcomeIsTrue ==
    \A n \in Notifications :
        /\ row[n].status = "sent" => acked[n] > 0
        /\ row[n].status = "dead" =>
              row[n].lastError = "permanent" \/ row[n].attempts = MaxAttempts

\* allowedTransitions has no move out of sent or dead: a settled row stays
\* settled in the table.
TerminalIsFinal ==
    [][\A n \in Notifications :
         row[n].status \in Terminal => row'[n].status = row[n].status]_vars

\* Attempts are never refunded: no Save writes a smaller count over a larger
\* one.
AttemptsNeverFall ==
    [][\A n \in Notifications : row'[n].attempts >= row[n].attempts]_vars

\* Every notification that was enqueued is eventually settled for good, sent
\* or dead, once crashes and failed saves stop.
EventuallySettled ==
    \A n \in Notifications :
        row[n].status # "absent" ~> [](row[n].status \in Terminal)

\* The table as its producer sees it: pending and sending are both "owed".
Phase(n) ==
    IF row[n].status \in {"pending", "sending"} THEN "owed"
                                                ELSE row[n].status

Contract == INSTANCE DeliveryContract WITH
    phase <- [n \in Notifications |-> Phase(n)],
    tries <- sends,
    accepted <- {n \in Notifications : acked[n] > 0}

\* The outbox implements the delivery contract: claims, saves, crashes, sweeps
\* and ticks are invisible to the producer or are exactly one contract step.
ImplementsContract == Contract!Spec

\* And it keeps the contract's promise of progress: what is owed is settled.
ImplementsFairContract == Contract!FairSpec

------------------------------------------------------------------------------
(* The inductive strengthening behind the theorems of OutboxProofs.        *)

\* Whatever can still be delivered has budget left, in the table and in
\* memory; this half needs no timing assumption.
BudgetLeft ==
    \A n \in Notifications :
        /\ row[n].status \in {"pending", "sending"} =>
              row[n].attempts < MaxAttempts
        /\ \A p \in Procs :
              copy[p][n].status \in {"pending", "sending"} =>
                  copy[p][n].attempts < MaxAttempts

\* Under Prompt, a holder is alone and its claim is not stalled.
Ownership ==
    \A n \in Notifications, p \in Procs :
        Holds(p, n) =>
            /\ row[n].status = "sending"
            /\ 0 <= row[n].age /\ row[n].age <= StalledAfter
            /\ copy[p][n].attempts >= row[n].attempts
            /\ \A q \in Procs \ {p} : ~Holds(q, n)

\* Every delivery tried is charged to an attempt, or is the one still open.
SendsCharged ==
    \A n \in Notifications :
        /\ row[n].status = "absent" => sends[n] = 0 /\ row[n].attempts = 0
        /\ row[n].status = "pending" => sends[n] <= row[n].attempts
        /\ row[n].status = "sending" => sends[n] <= row[n].attempts + 1
        /\ row[n].status \in Terminal => sends[n] <= MaxAttempts
        /\ \A p \in Procs :
            /\ copy[p][n].status = "sending" =>
                  copy[p][n].attempts = row[n].attempts
            /\ copy[p][n].status \in {"sending", "pending"} =>
                  sends[n] <= copy[p][n].attempts

\* A delivery whose outcome is stored as sent, or waits to be saved as sent.
SuccessInHand(n) ==
    row[n].status = "sent" \/ \E p \in Procs : copy[p][n].status = "sent"

\* Every accepted delivery is in hand or was lost.
AcksAccounted ==
    \A n \in Notifications :
        /\ acked[n] <= sends[n]
        /\ SuccessInHand(n) => acked[n] = lost[n] + 1
        /\ ~SuccessInHand(n) => acked[n] = lost[n]

PromptInv == Ownership /\ SendsCharged /\ AcksAccounted
==============================================================================
