--------------------------- MODULE OutboxOwnership ---------------------------
(***************************************************************************)
(* What holds of the outbox when every holder settles within StalledAfter  *)
(* (Prompt): one owner per claimed row, the delivery budget, the account   *)
(* of duplicates, final outcomes, and the delivery contract.               *)
(***************************************************************************)
EXTENDS OutboxProofs

\* An entity nobody holds.
LEMMA NoEntityAbsent == NoEntity.status = "absent"
BY DEF NoEntity

\* The counters of a well-typed state are numbers.
LEMMA AttemptsNat ==
    ASSUME BaseInv
    PROVE  /\ \A n \in Notifications :
                /\ row[n].attempts \in Nat /\ sends[n] \in Nat
                /\ acked[n] \in Nat /\ lost[n] \in Nat
           /\ \A p \in Procs, n \in Notifications :
                copy[p][n].attempts \in Nat
<1>1. ASSUME NEW n \in Notifications
      PROVE  /\ row[n].attempts \in Nat /\ sends[n] \in Nat
             /\ acked[n] \in Nat /\ lost[n] \in Nat
  <2>1. row[n].attempts \in 0 .. MaxAttempts
    BY DEF BaseInv, TypeOK, Row
  <2> QED BY <2>1, Constants DEF BaseInv, TypeOK
<1>2. ASSUME NEW p \in Procs, NEW n \in Notifications
      PROVE  copy[p][n].attempts \in Nat
  <2>1. copy[p][n].attempts \in 0 .. MaxAttempts
    BY DEF BaseInv, TypeOK, Entity
  <2> QED BY <2>1, Constants
<1> QED BY <1>1, <1>2

\* Nobody holds anything at the start.
LEMMA PromptInit == Init => PromptInv
<1> SUFFICES ASSUME Init PROVE PromptInv
  OBVIOUS
<1>1. Ownership
  BY NoEntityAbsent DEF Init, Ownership, Holds
<1>2. SendsCharged
  BY NoEntityAbsent DEF Init, SendsCharged, NoRow, Terminal
<1>3. AcksAccounted
  BY NoEntityAbsent DEF Init, AcksAccounted, SuccessInHand, NoRow
<1> QED BY <1>1, <1>2, <1>3 DEF PromptInv

\* Enqueue touches a row nobody can hold, since held rows are sending.
LEMMA EnqueuePrompt ==
    ASSUME BaseInv, PromptInv, NEW n \in Notifications, Enqueue(n)
    PROVE  PromptInv'
<1>1. \A p \in Procs : copy[p][n].status = "absent"
  BY DEF Enqueue, PromptInv, Ownership, Holds
<1>2. /\ row'[n].status = "pending" /\ row'[n].attempts = 0
      /\ \A m \in Notifications \ {n} : row'[m] = row[m]
      /\ copy' = copy /\ sends' = sends /\ acked' = acked /\ lost' = lost
  BY DEF Enqueue, NewNotification, NoRow, BaseInv, TypeOK
<1>3. Ownership'
  BY <1>1, <1>2 DEF PromptInv, Ownership, Holds
<1>4. SendsCharged'
  BY <1>1, <1>2 DEF PromptInv, SendsCharged, Enqueue, Terminal
<1>5. \A m \in Notifications : SuccessInHand(m)' <=> SuccessInHand(m)
  BY <1>1, <1>2 DEF SuccessInHand, Enqueue
<1>6. AcksAccounted'
  BY <1>2, <1>5 DEF PromptInv, AcksAccounted
<1> QED BY <1>3, <1>4, <1>6 DEF PromptInv

\* ClaimBatch takes pending rows only, and those have no holder.
LEMMA ClaimPrompt ==
    ASSUME BaseInv, PromptInv, NEW w \in Workers, ClaimBatch(w)
    PROVE  PromptInv'
<1>1. PICK S \in SUBSET Due :
        /\ row' = [n \in Notifications |->
                     IF n \in S
                     THEN [row[n] EXCEPT !.status = "sending", !.age = 0]
                     ELSE row[n]]
        /\ copy' = [copy EXCEPT ![w] =
                     [n \in Notifications |->
                        IF n \in S THEN Claimed(row[n]) ELSE NoEntity]]
        /\ UNCHANGED <<sends, acked, lost, faults>>
  BY DEF ClaimBatch
<1>2. w \in Procs /\ \A n \in Notifications : copy[w][n].status = "absent"
  BY DEF Procs, ClaimBatch, Idle, Holds
<1>3. \A n \in S : /\ n \in Notifications /\ row[n].status = "pending"
                   /\ \A p \in Procs : copy[p][n].status = "absent"
  BY DEF Due, PromptInv, Ownership, Holds
<1>4. \A n \in Notifications : row[n] \in Row
  BY DEF BaseInv, TypeOK
<1>5. \A n \in S : /\ row'[n].status = "sending" /\ row'[n].age = 0
                   /\ row'[n].attempts = row[n].attempts
                   /\ copy'[w][n].status = "sending"
                   /\ copy'[w][n].attempts = row[n].attempts
  BY <1>1, <1>2, <1>3, <1>4, ClaimedType DEF BaseInv, TypeOK, Row
<1>6. \A n \in Notifications \ S : /\ row'[n] = row[n]
                                   /\ copy'[w][n].status = "absent"
  BY <1>1, <1>2, NoEntityAbsent DEF BaseInv, TypeOK
<1>7. \A p \in Procs \ {w} : copy'[p] = copy[p]
  BY <1>1 DEF BaseInv, TypeOK
<1>8. /\ \A n \in Notifications : row[n].attempts \in Nat
      /\ sends' = sends /\ acked' = acked /\ lost' = lost
  BY <1>1, AttemptsNat
<1>9. Ownership'
  <2> SUFFICES ASSUME NEW n \in Notifications, NEW p \in Procs,
                      copy'[p][n].status # "absent"
               PROVE  /\ row'[n].status = "sending"
                      /\ 0 <= row'[n].age /\ row'[n].age <= StalledAfter
                      /\ copy'[p][n].attempts >= row'[n].attempts
                      /\ \A q \in Procs \ {p} : copy'[q][n].status = "absent"
    BY DEF Ownership, Holds
  <2>1. CASE n \in S
    BY <2>1, <1>2, <1>3, <1>5, <1>7, <1>8, Constants
  <2>2. CASE n \notin S
    BY <2>2, <1>2, <1>6, <1>7 DEF PromptInv, Ownership, Holds
  <2> QED BY <2>1, <2>2
<1>10. SendsCharged'
  <2> SUFFICES ASSUME NEW n \in Notifications
               PROVE  /\ row'[n].status = "absent" =>
                            sends'[n] = 0 /\ row'[n].attempts = 0
                      /\ row'[n].status = "pending" =>
                            sends'[n] <= row'[n].attempts
                      /\ row'[n].status = "sending" =>
                            sends'[n] <= row'[n].attempts + 1
                      /\ row'[n].status \in Terminal => sends'[n] <= MaxAttempts
                      /\ \A p \in Procs :
                          /\ copy'[p][n].status = "sending" =>
                                copy'[p][n].attempts = row'[n].attempts
                          /\ copy'[p][n].status \in {"sending", "pending"} =>
                                sends'[n] <= copy'[p][n].attempts
    BY DEF SendsCharged
  <2>1. CASE n \in S
    <3>1. sends[n] <= row[n].attempts /\ sends[n] \in Nat
      BY <2>1, <1>3, Constants DEF PromptInv, SendsCharged, BaseInv, TypeOK
    <3> QED BY <3>1, <2>1, <1>3, <1>5, <1>7, <1>8 DEF Terminal
  <2>2. CASE n \notin S
    BY <2>2, <1>2, <1>6, <1>7, <1>8 DEF PromptInv, SendsCharged
  <2> QED BY <2>1, <2>2
<1>11. \A n \in Notifications : SuccessInHand(n)' <=> SuccessInHand(n)
  <2>1. \A n \in Notifications : row'[n].status = "sent" <=> row[n].status = "sent"
    BY <1>3, <1>5, <1>6
  <2>2. \A n \in Notifications, p \in Procs :
          copy'[p][n].status = "sent" <=> copy[p][n].status = "sent"
    BY <1>2, <1>5, <1>6, <1>7
  <2> QED BY <2>1, <2>2 DEF SuccessInHand
<1>12. AcksAccounted'
  BY <1>8, <1>11 DEF PromptInv, AcksAccounted
<1> QED BY <1>9, <1>10, <1>12 DEF PromptInv

\* settle of a delivery: one more send, charged unless it ends the row.
LEMMA DeliverPrompt ==
    ASSUME BaseInv, PromptInv, NEW w \in Workers, NEW n \in Notifications,
           WorkerStep(w, n)
    PROVE  PromptInv'
<1>1. /\ w \in Procs /\ copy[w][n] \in Entity /\ copy[w][n].status = "sending"
      /\ row' = row /\ lost' = lost
      /\ sends' = [sends EXCEPT ![n] = Bump(sends[n])]
  BY DEF Procs, BaseInv, TypeOK, WorkerStep, DeliverOk, DeliverPermanent,
     DeliverRetryable, Delivering
<1>2. /\ row[n].status = "sending" /\ copy[w][n].attempts = row[n].attempts
      /\ sends[n] <= copy[w][n].attempts /\ copy[w][n].attempts < MaxAttempts
      /\ 0 <= row[n].age /\ row[n].age <= StalledAfter
      /\ \A q \in Procs \ {w} : copy[q][n].status = "absent"
  BY <1>1 DEF PromptInv, Ownership, SendsCharged, Holds, BaseInv, BudgetLeft
<1>3. /\ sends'[n] = sends[n] + 1 /\ sends[n] \in Nat
      /\ copy[w][n].attempts \in Nat /\ row[n].attempts \in Nat
      /\ \A m \in Notifications \ {n} : sends'[m] = sends[m]
  BY <1>1, <1>2, AttemptsNat, Constants DEF Bump, BaseInv, TypeOK
<1>4. PICK e : /\ copy' = [copy EXCEPT ![w][n] = e]
               /\ e.status \in {"sent", "dead", "pending"}
               /\ e.attempts \in Nat /\ e.attempts >= copy[w][n].attempts
               /\ e.status = "pending" => e.attempts = copy[w][n].attempts + 1
               /\ e.status = "sent" =>
                     acked' = [acked EXCEPT ![n] = Bump(acked[n])]
               /\ e.status # "sent" => acked' = acked
  <2>1. CASE DeliverOk(w, n)
    <3>1. MarkSent(copy[w][n]).status = "sent"
          /\ MarkSent(copy[w][n]).attempts = copy[w][n].attempts
      BY <1>1 DEF MarkSent, Entity
    <3>2. /\ copy' = [copy EXCEPT ![w][n] = MarkSent(copy[w][n])]
          /\ acked' = [acked EXCEPT ![n] = Bump(acked[n])]
      BY <2>1 DEF DeliverOk
    <3> WITNESS MarkSent(copy[w][n])
    <3> QED BY <3>1, <3>2, <1>3
  <2>2. CASE DeliverPermanent(w, n)
    <3>1. MarkDead(copy[w][n]).status = "dead"
          /\ MarkDead(copy[w][n]).attempts = copy[w][n].attempts
      BY <1>1 DEF MarkDead, Entity
    <3>2. /\ copy' = [copy EXCEPT ![w][n] = MarkDead(copy[w][n])]
          /\ acked' = acked
      BY <2>2 DEF DeliverPermanent
    <3> WITNESS MarkDead(copy[w][n])
    <3> QED BY <3>1, <3>2, <1>3
  <2>3. CASE DeliverRetryable(w, n)
    <3>1. PICK d \in RetryAfter(copy[w][n]) :
            copy' = [copy EXCEPT ![w][n] = RecordFailure(copy[w][n], d)]
      BY <2>3 DEF DeliverRetryable
    <3>2. d \in Waits
      BY RetryAfterWait
    <3>3. /\ RecordFailure(copy[w][n], d).attempts = copy[w][n].attempts + 1
          /\ RecordFailure(copy[w][n], d).status \in {"pending", "dead"}
      BY <1>1, <1>2, <3>2, ChargeType DEF RecordFailure, Reasons
    <3>4. acked' = acked
      BY <2>3 DEF DeliverRetryable
    <3> WITNESS RecordFailure(copy[w][n], d)
    <3> QED BY <3>1, <3>3, <3>4, <1>3
  <2> QED BY <2>1, <2>2, <2>3 DEF WorkerStep
<1>5. /\ copy'[w][n] = e
      /\ \A m \in Notifications \ {n} : copy'[w][m] = copy[w][m]
      /\ \A q \in Procs \ {w} : copy'[q] = copy[q]
  BY <1>1, <1>4 DEF BaseInv, TypeOK
<1>6. Ownership'
  BY <1>1, <1>2, <1>3, <1>4, <1>5 DEF PromptInv, Ownership, Holds
<1>7. SendsCharged'
  <2> SUFFICES ASSUME NEW m \in Notifications
               PROVE  /\ row[m].status = "absent" =>
                            sends'[m] = 0 /\ row[m].attempts = 0
                      /\ row[m].status = "pending" =>
                            sends'[m] <= row[m].attempts
                      /\ row[m].status = "sending" =>
                            sends'[m] <= row[m].attempts + 1
                      /\ row[m].status \in Terminal => sends'[m] <= MaxAttempts
                      /\ \A p \in Procs :
                          /\ copy'[p][m].status = "sending" =>
                                copy'[p][m].attempts = row[m].attempts
                          /\ copy'[p][m].status \in {"sending", "pending"} =>
                                sends'[m] <= copy'[p][m].attempts
    BY <1>1 DEF SendsCharged
  <2>1. CASE m = n
    BY <2>1, <1>1, <1>2, <1>3, <1>4, <1>5 DEF Terminal
  <2>2. CASE m # n
    BY <2>2, <1>1, <1>3, <1>5 DEF PromptInv, SendsCharged
  <2> QED BY <2>1, <2>2
<1>8. ~SuccessInHand(n) /\ acked[n] = lost[n] /\ acked[n] <= sends[n]
  BY <1>1, <1>2 DEF SuccessInHand, PromptInv, AcksAccounted
<1>9. SuccessInHand(n)' <=> e.status = "sent"
  BY <1>1, <1>2, <1>4, <1>5 DEF SuccessInHand
<1>10. \A m \in Notifications \ {n} : SuccessInHand(m)' <=> SuccessInHand(m)
  BY <1>1, <1>5 DEF SuccessInHand
<1>11. /\ e.status = "sent" => acked'[n] = acked[n] + 1
       /\ e.status # "sent" => acked'[n] = acked[n]
       /\ \A m \in Notifications \ {n} : acked'[m] = acked[m]
  BY <1>2, <1>3, <1>4, <1>8, AttemptsNat, Constants DEF Bump, BaseInv, TypeOK
<1>12. AcksAccounted'
  <2> SUFFICES ASSUME NEW m \in Notifications
               PROVE  /\ acked'[m] <= sends'[m]
                      /\ SuccessInHand(m)' => acked'[m] = lost[m] + 1
                      /\ ~SuccessInHand(m)' => acked'[m] = lost[m]
    BY <1>1 DEF AcksAccounted
  <2>1. CASE m = n
    BY <2>1, <1>3, <1>8, <1>9, <1>11, AttemptsNat
  <2>2. CASE m # n
    BY <2>2, <1>3, <1>10, <1>11 DEF PromptInv, AcksAccounted
  <2> QED BY <2>1, <2>2
<1> QED BY <1>6, <1>7, <1>12 DEF PromptInv

\* Save by the one owner: the outcome in hand becomes the outcome stored.
LEMMA SavePrompt ==
    ASSUME BaseInv, PromptInv, NEW p \in Procs, NEW n \in Notifications,
           Save(p, n)
    PROVE  PromptInv'
<1>1. /\ copy[p][n].status \in {"sent", "pending", "dead"}
      /\ row[n].status = "sending"
      /\ \A q \in Procs \ {p} : copy[q][n].status = "absent"
  BY DEF Save, Unsaved, Outcomes, PromptInv, Ownership, Holds
<1>2. /\ row'[n].status = copy[p][n].status
      /\ row'[n].attempts = copy[p][n].attempts
      /\ \A m \in Notifications \ {n} : row'[m] = row[m]
      /\ sends' = sends /\ acked' = acked /\ lost' = lost
  BY DEF Save, Saved, BaseInv, TypeOK
<1>3. /\ copy'[p][n].status = "absent"
      /\ \A m \in Notifications \ {n} : copy'[p][m] = copy[p][m]
      /\ \A q \in Procs \ {p} : copy'[q] = copy[q]
  BY NoEntityAbsent DEF Save, BaseInv, TypeOK
<1>4. Ownership'
  BY <1>1, <1>2, <1>3 DEF PromptInv, Ownership, Holds
<1>5. sends[n] <= row[n].attempts + 1 /\ row[n].attempts < MaxAttempts
  BY <1>1 DEF PromptInv, SendsCharged, BaseInv, BudgetLeft
<1>6. SendsCharged'
  BY <1>1, <1>2, <1>3, <1>5, AttemptsNat, Constants
     DEF PromptInv, SendsCharged, Terminal
<1>7. \A m \in Notifications : SuccessInHand(m)' <=> SuccessInHand(m)
  BY <1>1, <1>2, <1>3 DEF SuccessInHand
<1>8. AcksAccounted'
  BY <1>2, <1>7 DEF PromptInv, AcksAccounted
<1> QED BY <1>4, <1>6, <1>8 DEF PromptInv

\* A holder forgets some of its copies, by a failed save or by a crash: the
\* rows stay sending, and a success in hand becomes a lost one.
LEMMA ForgetPrompt ==
    ASSUME BaseInv, PromptInv, NEW p \in Procs, NEW F \in SUBSET Notifications,
           row' = row, sends' = sends, acked' = acked,
           \A q \in Procs \ {p} : copy'[q] = copy[q],
           \A n \in Notifications \ F : copy'[p][n] = copy[p][n],
           \A n \in F : copy'[p][n].status = "absent",
           \A n \in Notifications :
              lost'[n] = IF n \in F /\ copy[p][n].status = "sent"
                         THEN Bump(lost[n]) ELSE lost[n]
    PROVE  PromptInv'
<1>1. Ownership'
  BY DEF PromptInv, Ownership, Holds
<1>2. SendsCharged'
  BY DEF PromptInv, SendsCharged
<1>3. AcksAccounted'
  <2> SUFFICES ASSUME NEW n \in Notifications
               PROVE  /\ acked[n] <= sends[n]
                      /\ SuccessInHand(n)' => acked[n] = lost'[n] + 1
                      /\ ~SuccessInHand(n)' => acked[n] = lost'[n]
    BY DEF AcksAccounted
  <2>1. CASE n \in F /\ copy[p][n].status = "sent"
    <3>1. /\ row[n].status = "sending"
          /\ \A q \in Procs \ {p} : copy[q][n].status = "absent"
      BY <2>1 DEF PromptInv, Ownership, Holds
    <3>2. SuccessInHand(n) /\ ~SuccessInHand(n)'
      BY <2>1, <3>1 DEF SuccessInHand
    <3>3. /\ acked[n] = lost[n] + 1 /\ acked[n] <= sends[n]
          /\ sends[n] <= row[n].attempts + 1 /\ row[n].attempts < MaxAttempts
      BY <3>1, <3>2
         DEF PromptInv, AcksAccounted, SendsCharged, BaseInv, BudgetLeft
    <3> QED BY <2>1, <3>2, <3>3, AttemptsNat, Constants DEF Bump
  <2>2. CASE ~(n \in F /\ copy[p][n].status = "sent")
    <3>1. SuccessInHand(n)' <=> SuccessInHand(n)
      BY <2>2 DEF SuccessInHand
    <3> QED BY <2>2, <3>1 DEF PromptInv, AcksAccounted
  <2> QED BY <2>1, <2>2
<1> QED BY <1>1, <1>2, <1>3 DEF PromptInv

\* A failed Save forgets one copy of an outcome.
LEMMA SaveFailsPrompt ==
    ASSUME BaseInv, PromptInv, NEW p \in Procs, NEW n \in Notifications,
           SaveFails(p, n)
    PROVE  PromptInv'
<1>1. /\ {n} \in SUBSET Notifications
      /\ row' = row /\ sends' = sends /\ acked' = acked
      /\ \A q \in Procs \ {p} : copy'[q] = copy[q]
      /\ \A m \in Notifications \ {n} : copy'[p][m] = copy[p][m]
      /\ \A m \in {n} : copy'[p][m].status = "absent"
  BY NoEntityAbsent DEF SaveFails, BaseInv, TypeOK
<1>2. \A m \in Notifications :
        lost'[m] = IF m \in {n} /\ copy[p][m].status = "sent"
                   THEN Bump(lost[m]) ELSE lost[m]
  BY DEF SaveFails, BaseInv, TypeOK
<1> QED BY <1>1, <1>2, ForgetPrompt

\* A crash forgets every copy of one process.
LEMMA CrashPrompt ==
    ASSUME BaseInv, PromptInv, NEW p \in Procs, Crash(p)
    PROVE  PromptInv'
<1>1. /\ row' = row /\ sends' = sends /\ acked' = acked
      /\ \A q \in Procs \ {p} : copy'[q] = copy[q]
      /\ \A m \in Notifications : copy'[p][m].status = "absent"
      /\ \A m \in Notifications :
           lost'[m] = IF m \in Notifications /\ copy[p][m].status = "sent"
                      THEN Bump(lost[m]) ELSE lost[m]
  BY NoEntityAbsent DEF Crash, BaseInv, TypeOK
<1>2. \A m \in Notifications \ Notifications : copy'[p][m] = copy[p][m]
  OBVIOUS
<1> QED BY <1>1, <1>2, ForgetPrompt

\* A sweep takes only rows nobody holds any more.
LEMMA SweepPrompt ==
    ASSUME BaseInv, PromptInv, NEW s \in Sweepers, Sweep(s)
    PROVE  PromptInv'
<1>1. PICK S \in SUBSET Stalled, delay \in [Notifications -> 0 .. BackoffCap] :
        /\ \A n \in S : delay[n] \in RetryAfter(row[n])
        /\ row' = [n \in Notifications |->
                     IF n \in S THEN [row[n] EXCEPT !.age = 0] ELSE row[n]]
        /\ copy' = [copy EXCEPT ![s] =
                     [n \in Notifications |->
                        IF n \in S
                        THEN RecoverStalled(Claimed(row[n]), delay[n])
                        ELSE NoEntity]]
        /\ UNCHANGED <<sends, acked, lost, faults>>
  BY DEF Sweep
<1>2. s \in Procs /\ \A n \in Notifications : copy[s][n].status = "absent"
  BY DEF Procs, Sweep, Idle, Holds
<1>3. \A n \in S : n \in Notifications /\ row[n].status = "sending"
  BY DEF Stalled
<1>4. \A n \in S, p \in Procs : copy[p][n].status = "absent"
  <2> SUFFICES ASSUME NEW n \in S, NEW p \in Procs,
                      copy[p][n].status # "absent"
               PROVE  FALSE
    OBVIOUS
  <2>1. row[n].age <= StalledAfter
    BY <1>3 DEF PromptInv, Ownership, Holds
  <2>2. row[n].age > StalledAfter
    BY DEF Stalled
  <2>3. row[n].age \in Int
    BY <1>3, Constants DEF BaseInv, TypeOK, Row, Ages, NotClaimed
  <2> QED BY <2>1, <2>2, <2>3, Constants
<1>5. \A n \in S : /\ row'[n].status = "sending" /\ row'[n].age = 0
                   /\ row'[n].attempts = row[n].attempts
                   /\ copy'[s][n].status \in {"pending", "dead"}
                   /\ copy'[s][n].attempts = row[n].attempts + 1
  <2> SUFFICES ASSUME NEW n \in S
               PROVE  /\ row'[n].status = "sending" /\ row'[n].age = 0
                      /\ row'[n].attempts = row[n].attempts
                      /\ copy'[s][n].status \in {"pending", "dead"}
                      /\ copy'[s][n].attempts = row[n].attempts + 1
    OBVIOUS
  <2>1. row[n] \in Row /\ row[n].attempts < MaxAttempts
    BY <1>3 DEF BaseInv, TypeOK, BudgetLeft
  <2>2. delay[n] \in Waits
    BY <1>3, Constants DEF Waits
  <2>3. copy'[s][n] = RecoverStalled(Claimed(row[n]), delay[n])
    BY <1>1, <1>2, <1>3 DEF BaseInv, TypeOK
  <2>4. /\ copy'[s][n].status \in {"pending", "dead"}
        /\ copy'[s][n].attempts = row[n].attempts + 1
    BY <2>1, <2>2, <2>3, ClaimedType, ChargeType DEF RecoverStalled, Reasons
  <2> QED BY <1>1, <1>3, <2>1, <2>4 DEF Row
<1>6. \A n \in Notifications \ S : /\ row'[n] = row[n]
                                   /\ copy'[s][n].status = "absent"
  BY <1>1, <1>2, NoEntityAbsent DEF BaseInv, TypeOK
<1>7. \A p \in Procs \ {s} : copy'[p] = copy[p]
  BY <1>1 DEF BaseInv, TypeOK
<1>8. /\ \A n \in Notifications : row[n].attempts \in Nat
      /\ sends' = sends /\ acked' = acked /\ lost' = lost
  BY <1>1, AttemptsNat
<1>9. Ownership'
  <2> SUFFICES ASSUME NEW n \in Notifications, NEW p \in Procs,
                      copy'[p][n].status # "absent"
               PROVE  /\ row'[n].status = "sending"
                      /\ 0 <= row'[n].age /\ row'[n].age <= StalledAfter
                      /\ copy'[p][n].attempts >= row'[n].attempts
                      /\ \A q \in Procs \ {p} : copy'[q][n].status = "absent"
    BY DEF Ownership, Holds
  <2>1. CASE n \in S
    BY <2>1, <1>2, <1>4, <1>5, <1>7, <1>8, Constants
  <2>2. CASE n \notin S
    BY <2>2, <1>2, <1>6, <1>7 DEF PromptInv, Ownership, Holds
  <2> QED BY <2>1, <2>2
<1>10. SendsCharged'
  <2> SUFFICES ASSUME NEW n \in Notifications
               PROVE  /\ row'[n].status = "absent" =>
                            sends'[n] = 0 /\ row'[n].attempts = 0
                      /\ row'[n].status = "pending" =>
                            sends'[n] <= row'[n].attempts
                      /\ row'[n].status = "sending" =>
                            sends'[n] <= row'[n].attempts + 1
                      /\ row'[n].status \in Terminal => sends'[n] <= MaxAttempts
                      /\ \A p \in Procs :
                          /\ copy'[p][n].status = "sending" =>
                                copy'[p][n].attempts = row'[n].attempts
                          /\ copy'[p][n].status \in {"sending", "pending"} =>
                                sends'[n] <= copy'[p][n].attempts
    BY DEF SendsCharged
  <2>1. CASE n \in S
    <3>1. sends[n] <= row[n].attempts + 1
      BY <2>1, <1>3 DEF PromptInv, SendsCharged
    <3> QED BY <3>1, <2>1, <1>4, <1>5, <1>7, <1>8 DEF Terminal
  <2>2. CASE n \notin S
    BY <2>2, <1>2, <1>6, <1>7, <1>8 DEF PromptInv, SendsCharged
  <2> QED BY <2>1, <2>2
<1>11. \A n \in Notifications : SuccessInHand(n)' <=> SuccessInHand(n)
  <2>1. \A n \in Notifications : row'[n].status = "sent" <=> row[n].status = "sent"
    BY <1>3, <1>5, <1>6
  <2>2. \A n \in Notifications, p \in Procs :
          copy'[p][n].status = "sent" <=> copy[p][n].status = "sent"
    BY <1>2, <1>4, <1>5, <1>6, <1>7
  <2> QED BY <2>1, <2>2 DEF SuccessInHand
<1>12. AcksAccounted'
  BY <1>8, <1>11 DEF PromptInv, AcksAccounted
<1> QED BY <1>9, <1>10, <1>12 DEF PromptInv

\* The only use of the timing assumption: a held claim does not outlive its
\* stall window.
LEMMA TickPrompt ==
    ASSUME Prompt, BaseInv, PromptInv, Tick
    PROVE  PromptInv'
<1>1. \A n \in Notifications : row[n].age \in Int
  BY Constants DEF BaseInv, TypeOK, Row, Ages, NotClaimed
<1>2. sends' = sends /\ acked' = acked /\ lost' = lost
  BY DEF Tick
<1>3. Ownership'
  <2> SUFFICES ASSUME NEW n \in Notifications, NEW p \in Procs,
                      copy'[p][n].status # "absent"
               PROVE  /\ row'[n].status = "sending"
                      /\ 0 <= row'[n].age /\ row'[n].age <= StalledAfter
                      /\ copy'[p][n].attempts >= row'[n].attempts
                      /\ \A q \in Procs \ {p} : copy'[q][n].status = "absent"
    BY DEF Ownership, Holds
  <2>1. Holds(p, n) /\ row[n].age < StalledAfter
    BY TickKeeps DEF Tick, Holds, BaseInv
  <2>2. 0 <= row[n].age
    BY <2>1 DEF PromptInv, Ownership
  <2>3. 0 <= row'[n].age /\ row'[n].age <= StalledAfter
    BY <1>1, <2>1, <2>2, TickKeeps, Constants DEF Older, BaseInv
  <2> QED BY <2>1, <2>3, TickKeeps DEF PromptInv, Ownership, Holds, BaseInv
<1>4. SendsCharged'
  BY <1>2, TickKeeps DEF PromptInv, SendsCharged, BaseInv
<1>5. \A n \in Notifications : SuccessInHand(n)' <=> SuccessInHand(n)
  BY TickKeeps DEF SuccessInHand, BaseInv
<1>6. AcksAccounted'
  BY <1>2, <1>5 DEF PromptInv, AcksAccounted
<1> QED BY <1>3, <1>4, <1>6 DEF PromptInv

\* Every step of a prompt outbox keeps the strengthening.
LEMMA PromptStep == Prompt /\ BaseInv /\ PromptInv /\ [Next]_vars => PromptInv'
<1> SUFFICES ASSUME Prompt, BaseInv, PromptInv, [Next]_vars
             PROVE  PromptInv'
  OBVIOUS
<1>1. CASE UNCHANGED vars
  BY <1>1 DEF vars, PromptInv, Ownership, Holds, SendsCharged, AcksAccounted,
     SuccessInHand
<1>2. CASE Next
  BY <1>2, EnqueuePrompt, ClaimPrompt, DeliverPrompt, SavePrompt,
     SaveFailsPrompt, CrashPrompt, SweepPrompt, TickPrompt DEF Next
<1> QED BY <1>1, <1>2

\* So the strengthening holds in every behaviour of a prompt outbox.
LEMMA PromptCorrect ==
    ASSUME Prompt
    PROVE  Spec => [](BaseInv /\ PromptInv)
<1>1. Init => BaseInv /\ PromptInv
  BY BaseInit, PromptInit
<1>2. BaseInv /\ PromptInv /\ [Next]_vars => (BaseInv /\ PromptInv)'
  BY BaseStep, PromptStep
<1> QED BY <1>1, <1>2, PTL DEF Spec

\* One owner per claimed row, for any number of workers, sweepers and
\* notifications and any pattern of crashes and failed saves: ClaimBatch and
\* ClaimStalled never hand a row to two holders as long as holders are prompt.
THEOREM Exclusive ==
    ASSUME Prompt
    PROVE  Spec => []SingleOwner
<1>1. BaseInv /\ PromptInv => SingleOwner
  BY DEF PromptInv, Ownership, SingleOwner
<1> QED BY <1>1, PromptCorrect, PTL

\* attemptDelivery runs at most MaxAttempts times per notification.
THEOREM BudgetHolds ==
    ASSUME Prompt
    PROVE  Spec => []DeliveryBudget
<1>1. BaseInv /\ PromptInv => DeliveryBudget
  <2> SUFFICES ASSUME BaseInv, PromptInv, NEW n \in Notifications
               PROVE  sends[n] <= MaxAttempts
    BY DEF DeliveryBudget
  <2>1. row[n].status \in Statuses
    BY DEF BaseInv, TypeOK, Row
  <2>2. CASE row[n].status \in {"pending", "sending"}
    <3>1. row[n].attempts < MaxAttempts /\ sends[n] <= row[n].attempts + 1
      BY <2>2, AttemptsNat DEF BaseInv, BudgetLeft, PromptInv, SendsCharged
    <3> QED BY <3>1, AttemptsNat, Constants
  <2>3. CASE row[n].status \in {"absent", "sent", "dead"}
    BY <2>3, Constants DEF PromptInv, SendsCharged, Terminal
  <2> QED BY <2>1, <2>2, <2>3 DEF Statuses
<1> QED BY <1>1, PromptCorrect, PTL

\* A duplicate delivery always has a lost outcome behind it.
THEOREM DuplicatesExplained ==
    ASSUME Prompt
    PROVE  Spec => []DuplicatesAreLostOutcomes
<1>1. BaseInv /\ PromptInv => DuplicatesAreLostOutcomes
  BY AttemptsNat DEF PromptInv, AcksAccounted, DuplicatesAreLostOutcomes
<1> QED BY <1>1, PromptCorrect, PTL

\* What one step does to a row of the table, once rows have one owner: only a
\* Save moves a row to an outcome, and it finds the row sending.
LEMMA RowStep ==
    ASSUME BaseInv, PromptInv, Next, NEW n \in Notifications
    PROVE  /\ row[n].status \in Terminal => row'[n].status = row[n].status
           /\ row'[n].attempts >= row[n].attempts
<1>1. row[n] \in Row /\ row[n].attempts \in Nat
  BY AttemptsNat DEF BaseInv, TypeOK
<1>2. ASSUME NEW m \in Notifications, Enqueue(m)
      PROVE  /\ row[n].status \in Terminal => row'[n].status = row[n].status
             /\ m # n => row'[n].attempts >= row[n].attempts
  BY <1>1, <1>2 DEF Enqueue, Terminal, BaseInv, TypeOK
<1>3. ASSUME NEW w \in Workers, ClaimBatch(w)
      PROVE  /\ row[n].status \in Terminal => row'[n].status = row[n].status
             /\ row'[n].attempts >= row[n].attempts
  <2>1. PICK S \in SUBSET Due :
          row' = [k \in Notifications |->
                    IF k \in S
                    THEN [row[k] EXCEPT !.status = "sending", !.age = 0]
                    ELSE row[k]]
    BY <1>3 DEF ClaimBatch
  <2>2. CASE n \in S
    <3>1. row[n].status = "pending"
      BY <2>2 DEF Due
    <3>2. row'[n] = [row[n] EXCEPT !.status = "sending", !.age = 0]
      BY <2>1, <2>2
    <3> QED BY <1>1, <3>1, <3>2 DEF Terminal, Row
  <2>3. CASE n \notin S
    <3>1. row'[n] = row[n]
      BY <2>1, <2>3
    <3> QED BY <1>1, <3>1
  <2> QED BY <2>2, <2>3
<1>4. ASSUME NEW w \in Workers, NEW m \in Notifications, WorkerStep(w, m)
      PROVE  row'[n] = row[n]
  BY <1>4 DEF WorkerStep, DeliverOk, DeliverPermanent, DeliverRetryable,
     Delivering
<1>5. ASSUME NEW p \in Procs, NEW m \in Notifications, Save(p, m)
      PROVE  /\ row[n].status \in Terminal => row'[n].status = row[n].status
             /\ row'[n].attempts >= row[n].attempts
  <2>1. /\ row[m].status = "sending"
        /\ copy[p][m].attempts >= row[m].attempts
    BY <1>5 DEF Save, Unsaved, Outcomes, PromptInv, Ownership, Holds
  <2> QED BY <1>1, <1>5, <2>1 DEF Save, Saved, Terminal, BaseInv, TypeOK
<1>6. ASSUME NEW p \in Procs, NEW m \in Notifications, SaveFails(p, m)
      PROVE  row'[n] = row[n]
  BY <1>6 DEF SaveFails
<1>7. ASSUME NEW p \in Procs, Crash(p)
      PROVE  row'[n] = row[n]
  BY <1>7 DEF Crash
<1>8. ASSUME NEW s \in Sweepers, Sweep(s)
      PROVE  row'[n].status = row[n].status /\ row'[n].attempts = row[n].attempts
  <2>1. PICK S \in SUBSET Stalled :
          row' = [k \in Notifications |->
                    IF k \in S THEN [row[k] EXCEPT !.age = 0] ELSE row[k]]
    BY <1>8 DEF Sweep
  <2> QED BY <1>1, <2>1 DEF Row
<1>9. ASSUME Tick
      PROVE  row'[n].status = row[n].status /\ row'[n].attempts = row[n].attempts
  BY <1>9, TickKeeps DEF BaseInv
<1>10. ASSUME Enqueue(n)
       PROVE  row'[n].attempts >= row[n].attempts
  BY <1>1, <1>10 DEF Enqueue, NewNotification, NoRow, PromptInv, SendsCharged,
     BaseInv, TypeOK
<1> QED BY <1>1, <1>2, <1>3, <1>4, <1>5, <1>6, <1>7, <1>8, <1>9, <1>10 DEF Next

\* A settled row stays settled: no Save, however late, moves a row out of
\* sent or dead.
THEOREM SettledForGood ==
    ASSUME Prompt
    PROVE  Spec => TerminalIsFinal
<1>1. BaseInv /\ PromptInv /\ [Next]_vars =>
        [\A n \in Notifications :
           row[n].status \in Terminal => row'[n].status = row[n].status]_vars
  BY RowStep
<1> QED BY <1>1, PromptCorrect, PTL DEF Spec, TerminalIsFinal

\* No Save refunds an attempt.
THEOREM AttemptsMonotone ==
    ASSUME Prompt
    PROVE  Spec => AttemptsNeverFall
<1>1. BaseInv /\ PromptInv /\ [Next]_vars =>
        [\A n \in Notifications : row'[n].attempts >= row[n].attempts]_vars
  BY RowStep
<1> QED BY <1>1, PromptCorrect, PTL DEF Spec, AttemptsNeverFall

------------------------------------------------------------------------------
(* The delivery contract.                                                  *)

\* The contract's variables after a step that leaves phases, tries and
\* acceptances alone.
LEMMA ContractStutter ==
    ASSUME \A n \in Notifications : row'[n].status = row[n].status
              \/ {row'[n].status, row[n].status} = {"pending", "sending"},
           sends' = sends, acked' = acked
    PROVE  UNCHANGED Contract!vars
<1>1. \A n \in Notifications : Phase(n)' = Phase(n)
  BY DEF Phase
<1> QED BY <1>1 DEF Contract!vars

\* An empty table is a contract with nothing accepted.
LEMMA ContractInit == Init => Contract!Init
BY DEF Init, Contract!Init, Phase, NoRow

\* A step that changes one row's status and no history moves one phase.
LEMMA PhaseUpdate ==
    ASSUME NEW n \in Notifications, NEW st,
           row'[n].status = st, st \notin {"pending", "sending"},
           \A m \in Notifications \ {n} : row'[m] = row[m]
    PROVE  [m \in Notifications |-> Phase(m)]'
             = [[m \in Notifications |-> Phase(m)] EXCEPT ![n] = st]
BY DEF Phase

\* Enqueue accepts the notification.
LEMMA EnqueueContract ==
    ASSUME BaseInv, NEW n \in Notifications, Enqueue(n)
    PROVE  Contract!Accept(n)
<1>1. /\ row[n].status = "absent" /\ row'[n].status = "pending"
      /\ \A m \in Notifications \ {n} : row'[m] = row[m]
      /\ sends' = sends /\ acked' = acked
  BY DEF Enqueue, NewNotification, NoRow, BaseInv, TypeOK
<1>2. Phase(n) = "absent" /\ Phase(n)' = "owed"
  BY <1>1 DEF Phase
<1>3. \A m \in Notifications \ {n} : Phase(m)' = Phase(m)
  BY <1>1 DEF Phase
<1> QED BY <1>1, <1>2, <1>3 DEF Contract!Accept

\* A delivery is one try of an owed notification.
LEMMA DeliverContract ==
    ASSUME BaseInv, PromptInv, NEW w \in Workers, NEW n \in Notifications,
           WorkerStep(w, n)
    PROVE  Contract!Try(n)
<1>1. /\ w \in Procs /\ copy[w][n].status = "sending" /\ row' = row
      /\ sends' = [sends EXCEPT ![n] = Bump(sends[n])]
      /\ acked' = acked \/ acked' = [acked EXCEPT ![n] = Bump(acked[n])]
  BY DEF Procs, WorkerStep, DeliverOk, DeliverPermanent, DeliverRetryable,
     Delivering
<1>2. /\ row[n].status = "sending" /\ sends[n] <= copy[w][n].attempts
      /\ copy[w][n].attempts < MaxAttempts
  BY <1>1 DEF PromptInv, Ownership, SendsCharged, Holds, BaseInv, BudgetLeft
<1>3. sends[n] < MaxAttempts /\ Bump(sends[n]) = sends[n] + 1
  BY <1>1, <1>2, AttemptsNat, Constants DEF Bump
<1>4. Phase(n) = "owed" /\ \A m \in Notifications : Phase(m)' = Phase(m)
  BY <1>1, <1>2 DEF Phase
<1>5. {m \in Notifications : acked[m] > 0}'
        \in {{m \in Notifications : acked[m] > 0},
             {m \in Notifications : acked[m] > 0} \cup {n}}
  <2>1. CASE acked' = acked
    BY <2>1
  <2>2. CASE acked' = [acked EXCEPT ![n] = Bump(acked[n])]
    <3>1. acked'[n] > 0 /\ \A m \in Notifications \ {n} : acked'[m] = acked[m]
      BY <2>2, AttemptsNat, Constants DEF Bump, BaseInv, TypeOK
    <3> QED BY <3>1
  <2> QED BY <1>1, <2>1, <2>2
<1>6. sends' = [sends EXCEPT ![n] = @ + 1]
  BY <1>1, <1>3
<1> QED BY <1>3, <1>4, <1>5, <1>6 DEF Contract!Try

\* A Save settles the notification, or reschedules it unseen.
LEMMA SaveContract ==
    ASSUME BaseInv, PromptInv, NEW p \in Procs, NEW n \in Notifications,
           Save(p, n)
    PROVE  Contract!Settle(n) \/ UNCHANGED Contract!vars
<1>1. /\ row[n].status = "sending"
      /\ copy[p][n].status \in {"sent", "pending", "dead"}
      /\ row'[n].status = copy[p][n].status
      /\ \A m \in Notifications \ {n} : row'[m] = row[m]
      /\ sends' = sends /\ acked' = acked
  BY DEF Save, Saved, Unsaved, Outcomes, PromptInv, Ownership, Holds, BaseInv,
     TypeOK
<1>2. Phase(n) = "owed"
  BY <1>1 DEF Phase
<1>3. CASE copy[p][n].status = "pending"
  <2>1. \A m \in Notifications : row'[m].status = row[m].status
          \/ {row'[m].status, row[m].status} = {"pending", "sending"}
    BY <1>1, <1>3
  <2> QED BY <1>1, <2>1, ContractStutter
<1>4. CASE copy[p][n].status = "dead"
  <2>1. [m \in Notifications |-> Phase(m)]'
          = [[m \in Notifications |-> Phase(m)] EXCEPT ![n] = "dead"]
    BY <1>1, <1>4, PhaseUpdate
  <2> QED BY <1>1, <1>2, <2>1 DEF Contract!Settle
<1>5. CASE copy[p][n].status = "sent"
  <2>1. [m \in Notifications |-> Phase(m)]'
          = [[m \in Notifications |-> Phase(m)] EXCEPT ![n] = "sent"]
    BY <1>1, <1>5, PhaseUpdate
  <2>2. acked[n] = lost[n] + 1
    BY <1>5 DEF PromptInv, AcksAccounted, SuccessInHand
  <2>3. acked[n] > 0
    BY <2>2, AttemptsNat
  <2> QED BY <1>1, <1>2, <2>1, <2>3 DEF Contract!Settle
<1> QED BY <1>1, <1>3, <1>4, <1>5

\* Every step of a prompt outbox is one contract step, or invisible.
LEMMA ContractStep ==
    BaseInv /\ PromptInv /\ [Next]_vars => [Contract!Next]_(Contract!vars)
<1> SUFFICES ASSUME BaseInv, PromptInv, [Next]_vars
             PROVE  Contract!Next \/ UNCHANGED Contract!vars
  OBVIOUS
<1>1. CASE UNCHANGED vars
  BY <1>1, ContractStutter DEF vars
<1>2. ASSUME NEW n \in Notifications, Enqueue(n)
      PROVE  Contract!Next
  BY <1>2, EnqueueContract DEF Contract!Next
<1>3. ASSUME NEW w \in Workers, ClaimBatch(w)
      PROVE  UNCHANGED Contract!vars
  <2>1. PICK S \in SUBSET Due :
          /\ row' = [k \in Notifications |->
                       IF k \in S
                       THEN [row[k] EXCEPT !.status = "sending", !.age = 0]
                       ELSE row[k]]
          /\ sends' = sends /\ acked' = acked
    BY <1>3 DEF ClaimBatch
  <2>2. ASSUME NEW n \in Notifications
        PROVE  row'[n].status = row[n].status
                 \/ {row'[n].status, row[n].status} = {"pending", "sending"}
    <3>1. CASE n \in S
      <4>1. row[n].status = "pending" /\ row[n] \in Row
        BY <3>1 DEF Due, BaseInv, TypeOK
      <4>2. row'[n] = [row[n] EXCEPT !.status = "sending", !.age = 0]
        BY <2>1, <3>1
      <4> QED BY <4>1, <4>2 DEF Row
    <3>2. CASE n \notin S
      BY <2>1, <3>2
    <3> QED BY <3>1, <3>2
  <2> QED BY <2>1, <2>2, ContractStutter
<1>4. ASSUME NEW w \in Workers, NEW n \in Notifications, WorkerStep(w, n)
      PROVE  Contract!Next
  BY <1>4, DeliverContract DEF Contract!Next
<1>5. ASSUME NEW p \in Procs, NEW n \in Notifications, Save(p, n)
      PROVE  Contract!Next \/ UNCHANGED Contract!vars
  BY <1>5, SaveContract DEF Contract!Next
<1>6. ASSUME NEW p \in Procs, NEW n \in Notifications, SaveFails(p, n)
      PROVE  UNCHANGED Contract!vars
  BY <1>6, ContractStutter DEF SaveFails
<1>7. ASSUME NEW p \in Procs, Crash(p)
      PROVE  UNCHANGED Contract!vars
  BY <1>7, ContractStutter DEF Crash
<1>8. ASSUME NEW s \in Sweepers, Sweep(s)
      PROVE  UNCHANGED Contract!vars
  <2>1. PICK S \in SUBSET Stalled :
          /\ row' = [k \in Notifications |->
                       IF k \in S THEN [row[k] EXCEPT !.age = 0] ELSE row[k]]
          /\ sends' = sends /\ acked' = acked
    BY <1>8 DEF Sweep
  <2>2. \A n \in Notifications : row'[n].status = row[n].status
    BY <2>1 DEF BaseInv, TypeOK, Row
  <2> QED BY <2>1, <2>2, ContractStutter
<1>9. ASSUME Tick
      PROVE  UNCHANGED Contract!vars
  <2>1. sends' = sends /\ acked' = acked
    BY <1>9 DEF Tick
  <2> QED BY <1>9, <2>1, TickKeeps, ContractStutter DEF BaseInv
<1> QED BY <1>1, <1>2, <1>3, <1>4, <1>5, <1>6, <1>7, <1>8, <1>9 DEF Next

\* The outbox with its workers, sweepers, crashes and clock implements the
\* delivery contract its producers rely on.
THEOREM OutboxImplementsContract ==
    ASSUME Prompt
    PROVE  Spec => ImplementsContract
<1>1. Spec => []([Contract!Next]_(Contract!vars))
  BY ContractStep, PromptCorrect, PTL DEF Spec
<1>2. Spec => Contract!Init
  BY ContractInit DEF Spec
<1> QED BY <1>1, <1>2, PTL DEF ImplementsContract, Contract!Spec
==============================================================================
