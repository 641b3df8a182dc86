---------------------------- MODULE DeliveryProofs ----------------------------
(***************************************************************************)
(* Theorems about Delivery and the schedule of Backoff, for every word     *)
(* width, base, cap, jitter draw and attempt budget.                       *)
(***************************************************************************)
EXTENDS Delivery, NaturalsInduction, WellFoundedInduction, TLAPS

------------------------------------------------------------------------------
(* Induction over the naturals, for a set of naturals.                     *)

\* A non-empty set of naturals has a least element.
LEMMA LeastElement ==
    ASSUME NEW T \in SUBSET Nat, T # {}
    PROVE  \E x \in T : \A y \in T : ~(y < x)
<1> DEFINE R == {ss \in Nat \X Nat : ss[1] < ss[2]}
<1>1. IsWellFoundedOn(R, Nat)
  BY NatLessThanWellFounded DEF OpToRel
<1> HIDE DEF R
<1>2. \E x \in T : \A y \in T : ~(<<y, x>> \in R)
  BY <1>1, WFMin
<1> QED BY <1>2 DEF R

\* A set that has 0 and is closed under successor has every natural.
LEMMA Induction ==
    ASSUME NEW P \in SUBSET Nat, 0 \in P, \A n \in P : n + 1 \in P
    PROVE  P = Nat
<1>1. SUFFICES ASSUME P # Nat PROVE FALSE
  OBVIOUS
<1>2. PICK x \in Nat \ P : \A y \in Nat \ P : ~(y < x)
  BY LeastElement, <1>1
<1>3. x # 0 /\ x - 1 \in Nat
  BY <1>2
<1>4. x - 1 \in P
  BY <1>2, <1>3
<1> QED BY <1>2, <1>3, <1>4

------------------------------------------------------------------------------
(* Pow2 is what its recursive definition says.                             *)

\* The first n + 1 powers, as a table.
Table(g, n) ==
    /\ g \in [0 .. n -> Nat]
    /\ g[0] = 1
    /\ \A i \in 1 .. n : g[i] = 2 * g[i - 1]

\* Every prefix of the powers has a table.
LEMMA TableExists ==
    \A n \in Nat : \E g : Table(g, n)
<1> DEFINE P == {n \in Nat : \E g : Table(g, n)}
<1>1. 0 \in P
  <2>1. Table([i \in 0 .. 0 |-> 1], 0)
    BY DEF Table
  <2> QED BY <2>1
<1>2. ASSUME NEW n \in P PROVE n + 1 \in P
  <2>1. PICK g : Table(g, n)
    OBVIOUS
  <2> DEFINE h == [i \in 0 .. n + 1 |-> IF i = n + 1 THEN 2 * g[n] ELSE g[i]]
  <2>2. h \in [0 .. n + 1 -> Nat]
    BY <2>1 DEF Table
  <2>3. h[0] = 1
    BY <2>1 DEF Table
  <2>4. ASSUME NEW i \in 1 .. n + 1 PROVE h[i] = 2 * h[i - 1]
    <3>1. CASE i = n + 1
      BY <2>1, <3>1 DEF Table
    <3>2. CASE i \in 1 .. n
      BY <2>1, <3>2 DEF Table
    <3> QED BY <3>1, <3>2
  <2>5. Table(h, n + 1)
    BY <2>2, <2>3, <2>4 DEF Table
  <2> QED BY <2>5
<1>3. P = Nat
  BY <1>1, <1>2, Induction
<1> QED BY <1>3

\* Two tables agree where both are defined.
LEMMA TablesAgree ==
    ASSUME NEW m \in Nat, NEW n \in Nat, NEW f, NEW g,
           Table(f, m), Table(g, n)
    PROVE  \A i \in Nat : i <= m /\ i <= n => f[i] = g[i]
<1> DEFINE P == {i \in Nat : i <= m /\ i <= n => f[i] = g[i]}
<1>1. 0 \in P
  BY DEF Table
<1>2. ASSUME NEW i \in P PROVE i + 1 \in P
  <2>1. CASE i + 1 <= m /\ i + 1 <= n
    <3>1. f[i] = g[i]
      BY <2>1
    <3>2. f[i + 1] = 2 * f[(i + 1) - 1] /\ g[i + 1] = 2 * g[(i + 1) - 1]
      BY <2>1 DEF Table
    <3> QED BY <3>1, <3>2
  <2> QED BY <2>1
<1> HIDE DEF P
<1>3. P = Nat
  BY <1>1, <1>2, Induction DEF P
<1> QED BY <1>3 DEF P

\* The recursive equation of Pow2 has a solution, so Pow2 is one.
LEMMA Pow2Def ==
    Pow2 = [n \in Nat |-> IF n = 0 THEN 1 ELSE 2 * Pow2[n - 1]]
<1> DEFINE T(n) == CHOOSE g : Table(g, n)
           F == [n \in Nat |-> T(n)[n]]
<1>1. ASSUME NEW n \in Nat PROVE Table(T(n), n)
  BY TableExists
<1> HIDE DEF T
<1>2. F[0] = 1
  BY <1>1 DEF Table
<1>3. ASSUME NEW n \in Nat, n # 0 PROVE F[n] = 2 * F[n - 1]
  <2>1. n - 1 \in Nat
    BY <1>3
  <2>2. T(n)[n] = 2 * T(n)[n - 1]
    BY <1>1, <1>3 DEF Table
  <2>3. T(n)[n - 1] = T(n - 1)[n - 1]
    BY <1>1, <2>1, TablesAgree
  <2> QED BY <2>1, <2>2, <2>3
<1>4. F = [n \in Nat |-> IF n = 0 THEN 1 ELSE 2 * F[n - 1]]
  BY <1>2, <1>3
<1> HIDE DEF F
<1> QED BY <1>4 DEF Pow2

\* The powers double, are positive and grow.
LEMMA Pow2Doubles ==
    /\ Pow2[0] = 1
    /\ \A n \in Nat : Pow2[n + 1] = 2 * Pow2[n]
BY Pow2Def

\* No power is zero.
LEMMA Pow2Positive ==
    \A n \in Nat : Pow2[n] \in Nat /\ Pow2[n] >= 1
<1> DEFINE P == {n \in Nat : Pow2[n] \in Nat /\ Pow2[n] >= 1}
<1>1. 0 \in P
  BY Pow2Doubles
<1>2. ASSUME NEW n \in P PROVE n + 1 \in P
  BY Pow2Doubles
<1>3. P = Nat
  BY <1>1, <1>2, Induction
<1> QED BY <1>3

\* A later power is no smaller.
LEMMA Pow2Grows ==
    ASSUME NEW m \in Nat, NEW n \in Nat, m <= n
    PROVE  Pow2[m] <= Pow2[n]
<1> DEFINE P == {k \in Nat : Pow2[m] <= Pow2[m + k]}
<1>1. 0 \in P
  BY Pow2Positive
<1>2. ASSUME NEW k \in P PROVE k + 1 \in P
  <2>1. Pow2[m + k + 1] = 2 * Pow2[m + k]
    BY Pow2Doubles
  <2> QED BY <2>1, Pow2Positive
<1>3. P = Nat
  BY <1>1, <1>2, Induction
<1>4. n - m \in Nat /\ m + (n - m) = n
  OBVIOUS
<1> QED BY <1>3, <1>4

------------------------------------------------------------------------------
(* The schedule.                                                           *)

\* A base the shift would push past the word.
LEMMA QuotientBounds ==
    ASSUME NEW m \in Nat, NEW p \in Nat, p >= 1, NEW b \in Nat
    PROVE  /\ b > m \div p => b * p > m
           /\ b <= m \div p => b * p <= m
<1> DEFINE q == m \div p
           r == m % p
<1>1. q \in Nat /\ r \in Nat /\ r < p /\ m = p * q + r
  OBVIOUS
<1> HIDE DEF q, r
<1>2. ASSUME b > q PROVE b * p > m
  <2>1. PICK k \in Nat : b = q + 1 + k
    BY <1>1, <1>2
  <2>2. b * p = p * q + p + k * p
    BY <1>1, <2>1
  <2>3. k * p >= 0
    OBVIOUS
  <2> QED BY <1>1, <2>2, <2>3
<1>3. ASSUME b <= q PROVE b * p <= m
  <2>1. PICK k \in Nat : q = b + k
    BY <1>1, <1>3
  <2>2. p * q = b * p + k * p
    BY <1>1, <2>1
  <2>3. k * p >= 0
    OBVIOUS
  <2> QED BY <1>1, <2>2, <2>3
<1> QED BY <1>2, <1>3 DEF q

\* A machine shift that stays within the word is the multiplication.
LEMMA ShiftInRange ==
    ASSUME NEW b \in Nat, NEW n \in Nat, b * Pow2[n] <= MaxDuration
    PROVE  ShiftLeft(b, n) = b * Pow2[n]
<1> DEFINE x == b * Pow2[n]
<1>1. x \in Nat
  BY Pow2Positive
<1>2. MaxDuration \in Nat
  BY DurationAssumption
<1> HIDE DEF x
<1>3. x < 2 * (MaxDuration + 1) /\ x <= MaxDuration
  BY <1>1, <1>2 DEF x
<1>4. x % (2 * (MaxDuration + 1)) = x
  BY <1>1, <1>2, <1>3
<1>5. ShiftLeft(b, n)
        = LET word == 2 * (MaxDuration + 1)
              bits == x % word
          IN  IF bits > MaxDuration THEN bits - word ELSE bits
  BY DEF ShiftLeft, x
<1>6. ShiftLeft(b, n) = x
  BY <1>1, <1>2, <1>3, <1>4, <1>5
<1> QED BY <1>6 DEF x

\* The saturating scale, capped, is the schedule over unbounded integers.
LEMMA BackoffIsReference ==
    ASSUME NEW n \in Nat, NEW base \in 1 .. MaxDuration,
           NEW cap \in 1 .. MaxDuration
    PROVE  BackoffDelay(n, base, cap) = Smaller(base * Pow2[n], cap)
<1> DEFINE x == base * Pow2[n]
<1>1. MaxDuration \in Nat /\ ValueBits \in Nat
      /\ MaxDuration + 1 = Pow2[ValueBits]
  BY DurationAssumption
<1>2. base \in Nat /\ cap \in Nat /\ 1 <= base /\ 1 <= cap
      /\ base <= MaxDuration /\ cap <= MaxDuration
  BY <1>1
<1>3. Pow2[n] \in Nat /\ Pow2[n] >= 1
  BY Pow2Positive
<1>4. x \in Nat /\ x >= Pow2[n] /\ x >= base
  <2>1. (base - 1) * Pow2[n] >= 0 /\ base * (Pow2[n] - 1) >= 0
    BY <1>2, <1>3
  <2> QED BY <1>2, <1>3, <2>1
<1>5. scaleBase(n, base) = x \/ (scaleBase(n, base) = MaxDuration
                                 /\ x > MaxDuration)
  <2>1. CASE n = 0
    <3>1. x = base
      BY <2>1, <1>2, Pow2Doubles
    <3>2. scaleBase(n, base) = base
      BY <2>1, <1>2 DEF scaleBase
    <3> QED BY <3>1, <3>2
  <2>2. CASE n # 0 /\ n >= ValueBits
    <3>1. scaleBase(n, base) = MaxDuration
      BY <2>2, <1>2 DEF scaleBase
    <3>2. Pow2[ValueBits] <= Pow2[n]
      BY <2>2, <1>1, Pow2Grows
    <3> QED BY <3>1, <3>2, <1>1, <1>3, <1>4
  <2>3. CASE n # 0 /\ n < ValueBits /\ base > MaxDuration \div Pow2[n]
    <3>1. scaleBase(n, base) = MaxDuration
      BY <2>3, <1>1, <1>2 DEF scaleBase
    <3>2. x > MaxDuration
      BY <2>3, <1>1, <1>2, <1>3, QuotientBounds
    <3> QED BY <3>1, <3>2
  <2>4. CASE n # 0 /\ n < ValueBits /\ ~(base > MaxDuration \div Pow2[n])
    <3>1. scaleBase(n, base) = ShiftLeft(base, n)
      BY <2>4, <1>1, <1>2 DEF scaleBase
    <3>2. MaxDuration \div Pow2[n] \in Int
      BY <1>1, <1>3
    <3>3. x <= MaxDuration
      BY <2>4, <3>2, <1>1, <1>2, <1>3, QuotientBounds
    <3> QED BY <3>1, <3>3, <1>2, ShiftInRange
  <2> QED BY <2>1, <2>2, <2>3, <2>4, <1>1
<1> HIDE DEF x
<1>6. BackoffDelay(n, base, cap) = IF x < cap THEN x ELSE cap
  BY <1>1, <1>2, <1>4, <1>5 DEF BackoffDelay
<1> QED BY <1>6 DEF Smaller, x

\* Whatever the draw, the jittered delay lies in the upper half of the plain
\* one and strictly below it.
LEMMA JitterInUpperHalf ==
    ASSUME NEW n \in Nat, NEW base, NEW cap, NEW num \in Int,
           NEW den \in Nat, den > 0,
           NEW d \in Nat, d >= 1, d = BackoffDelay(n, base, cap)
    PROVE  LET w == BackoffWithJitter(n, base, cap, num, den)
           IN  w \in Nat /\ d \div 2 <= w /\ w < d
<1> DEFINE half == d \div 2
           draw == IF num < 0 THEN 0 ELSE IF num >= den THEN den - 1 ELSE num
           rest == d - half
           q == (draw * rest) \div den
<1>1. half \in Nat /\ rest \in Nat /\ rest >= 1
  OBVIOUS
<1>2. draw \in Nat /\ draw < den
  OBVIOUS
<1>3. BackoffWithJitter(n, base, cap, num, den) = half + q
  BY DEF BackoffWithJitter
<1> HIDE DEF half, draw, rest
<1>4. draw * rest \in Nat
  BY <1>1, <1>2
<1>5. q \in Nat
  BY <1>4
<1>6. q < rest
  <2>1. (den - draw) * rest > 0
    BY <1>1, <1>2
  <2>2. draw * rest < rest * den
    BY <1>1, <1>2, <2>1
  <2>3. ~(rest <= q)
    BY <2>2, <1>1, <1>4, QuotientBounds
  <2> QED BY <2>3, <1>1, <1>5
<1> HIDE DEF q
<1>7. half + rest = d
  BY <1>1 DEF rest
<1> QED BY <1>1, <1>3, <1>5, <1>6, <1>7 DEF half

------------------------------------------------------------------------------
(* What a step can do to a notification.                                   *)

Open == status \in {"pending", "sending"}

\* An attempt ends for a reason no retry repairs.
Dies ==
    /\ Open
    /\ \E why \in Permanent : MarkDead(why)
    /\ HangUp /\ UNCHANGED <<copies, lost>>

\* A sender that cannot fail takes it.
Hands ==
    /\ Open /\ Sender(row.channel) \in {"inapp", "log"}
    /\ MarkSent
    /\ HangUp /\ UNCHANGED <<copies, lost>>

\* The SMTP sender begins.
Begins ==
    /\ status = "pending" /\ Sender(row.channel) = "smtp"
    /\ status' = "sending" /\ phase' # None /\ secure' = secure
    /\ UNCHANGED <<attempt, delay, history>>

\* The conversation goes on.
GoesOn ==
    /\ phase # None /\ phase' # None /\ secure' \in BOOLEAN
    /\ UNCHANGED <<outcome, history>>

\* An attempt fails for a reason that may pass.
Fails ==
    /\ phase # None
    /\ \E why : why \notin Permanent /\ RecordFailure(why)
    /\ HangUp
    /\ \/ UNCHANGED <<copies, lost>>
       \/ copies' = copies + 1 /\ lost' = lost + 1

\* The server takes it and says so.
Delivers ==
    /\ phase # None
    /\ MarkSent
    /\ HangUp
    /\ copies' = copies + 1 /\ lost' = lost

Effect ==
    /\ UNCHANGED <<conf, row>>
    /\ Dies \/ Hands \/ Begins \/ GoesOn \/ Fails \/ Delivers

\* The sender and the phase agree with the status, so that every failure of
\* the conversation is a failure of an open attempt.
Phased ==
    /\ conf \in Deployments /\ row \in Rows
    /\ secure \in BOOLEAN
    /\ phase # None <=> status = "sending"
    /\ status = "sending" => Sender(row.channel) = "smtp"

\* A classified command fails for good, fails for now, or goes on.
LEMMA CommandEffect ==
    ASSUME Phased, NEW from, NEW to, from # None, to # None,
           Command(from, to)
    PROVE  Effect
<1>1. Open
  BY DEF Phased, Command, Open
<1>2. CASE \E reply \in Failures : Fail(reply)
  <2>1. PICK reply \in Failures : Fail(reply)
    BY <1>2
  <2>2. CASE reply = "5xx"
    BY <2>1, <2>2, <1>1
    DEF Fail, classify, Settle, Effect, Dies, Permanent
  <2>3. CASE reply # "5xx"
    <3>1. RecordFailure(reply) /\ HangUp /\ UNCHANGED <<conf, row, copies, lost>>
      BY <2>1, <2>3 DEF Fail, classify, Settle
    <3>2. reply \notin Permanent
      BY <2>3 DEF Failures, Permanent
    <3> QED BY <3>1, <3>2 DEF Effect, Fails, Command
  <2> QED BY <2>2, <2>3
<1>3. CASE Continue(to) /\ UNCHANGED secure
  BY <1>3 DEF Continue, Effect, GoesOn, Phased, Command
<1> QED BY <1>2, <1>3 DEF Command

\* So does the end of the message, which may also deliver.
LEMMA VerdictEffect ==
    ASSUME Phased, Verdict
    PROVE  Effect
<1>1. Open /\ phase # None
  BY DEF Phased, Verdict, Open, None
<1>2. PICK reply \in Failures \cup {"ok"}, taken \in BOOLEAN, quit \in BOOLEAN :
        /\ reply = "ok" => taken
        /\ reply \in {"4xx", "5xx"} => ~taken
        /\ copies' = IF taken THEN copies + 1 ELSE copies
        /\ lost' = IF taken /\ reply = "lost" THEN lost + 1 ELSE lost
        /\ Settle(IF Delivered(reply, quit) THEN MarkSent
                  ELSE IF classify(reply) THEN MarkDead(reply)
                  ELSE RecordFailure(reply))
  BY DEF Verdict
<1>3. HangUp /\ UNCHANGED <<conf, row>>
  BY <1>2 DEF Settle
<1>4. CASE reply = "ok"
  <2>1. MarkSent /\ taken
    BY <1>2, <1>4 DEF Settle, Delivered
  <2>2. copies' = copies + 1 /\ lost' = lost
    BY <1>2, <1>4, <2>1
  <2> QED BY <1>1, <1>3, <2>1, <2>2 DEF Effect, Delivers
<1>5. CASE reply = "5xx"
  <2>1. MarkDead(reply) /\ ~taken
    BY <1>2, <1>5 DEF Settle, Delivered, classify
  <2>2. UNCHANGED <<copies, lost>>
    BY <1>2, <1>5, <2>1
  <2> QED BY <1>1, <1>3, <1>5, <2>1, <2>2 DEF Effect, Dies, Permanent
<1>6. CASE reply \in {"4xx", "lost"}
  <2>1. RecordFailure(reply) /\ reply \notin Permanent
    BY <1>2, <1>6 DEF Settle, Delivered, classify, Permanent
  <2>2. UNCHANGED <<copies, lost>> \/ (copies' = copies + 1 /\ lost' = lost + 1)
    BY <1>2, <1>6
  <2> QED BY <1>1, <1>3, <2>1, <2>2 DEF Effect, Fails
<1> QED BY <1>4, <1>5, <1>6 DEF Failures

\* Every step of the specification is one of the six.
LEMMA StepEffect ==
    ASSUME Phased, Next
    PROVE  Effect
<1>1. CASE Attempt
  <2>1. Open
    BY <1>1 DEF Attempt, Open
  <2>2. CASE /\ Sender(row.channel) = None
             /\ Settle(MarkDead("no_sender"))
             /\ UNCHANGED <<copies, lost>>
    BY <2>1, <2>2 DEF Settle, Effect, Dies, Permanent
  <2>3. CASE /\ Sender(row.channel) # None /\ ~Renders
             /\ Settle(MarkDead("unrendered"))
             /\ UNCHANGED <<copies, lost>>
    BY <2>1, <2>3 DEF Settle, Effect, Dies, Permanent
  <2>4. CASE /\ Sender(row.channel) \in {"inapp", "log"} /\ Renders
             /\ Settle(MarkSent)
             /\ UNCHANGED <<copies, lost>>
    BY <2>1, <2>4 DEF Settle, Effect, Hands
  <2>5. CASE /\ Sender(row.channel) = "smtp" /\ Renders
             /\ status' = "sending" /\ phase' = "resolve"
             /\ UNCHANGED <<conf, row, attempt, delay, secure, history>>
    BY <1>1, <2>5 DEF Attempt, Effect, Begins, None
  <2> QED BY <1>1, <2>2, <2>3, <2>4, <2>5 DEF Attempt
<1>2. CASE Panic
  BY <1>2 DEF Panic, Settle, Effect, Fails, Permanent
<1>3. CASE Resolve
  <2>1. Open /\ phase # None
    BY <1>3 DEF Resolve, Phased, Open, None
  <2>2. CASE /\ \E why \in {"no_address", "unusable_address"} :
                  Settle(MarkDead(why))
             /\ UNCHANGED <<copies, lost>>
    BY <2>1, <2>2 DEF Settle, Effect, Dies, Permanent
  <2>3. CASE Settle(RecordFailure("lookup")) /\ UNCHANGED <<copies, lost>>
    BY <2>1, <2>3 DEF Settle, Effect, Fails, Permanent
  <2>4. CASE Settle(MarkDead("no_text")) /\ UNCHANGED <<copies, lost>>
    BY <2>1, <2>4 DEF Settle, Effect, Dies, Permanent
  <2>5. CASE Continue("dial") /\ UNCHANGED secure
    BY <2>1, <2>5 DEF Continue, Effect, GoesOn, None, Phased
  <2> QED BY <1>3, <2>2, <2>3, <2>4, <2>5 DEF Resolve
<1>4. CASE Dial
  <2>1. CASE Settle(RecordFailure("unreachable")) /\ UNCHANGED <<copies, lost>>
    BY <1>4, <2>1 DEF Dial, Settle, Effect, Fails, Permanent, None
  <2>2. CASE Continue("greeting") /\ secure' = (conf.email = "implicit")
    BY <1>4, <2>2 DEF Dial, Continue, Effect, GoesOn, None
  <2> QED BY <1>4, <2>1, <2>2 DEF Dial
<1>5. CASE Greeting \/ Mail \/ Rcpt \/ Data
  BY <1>5, CommandEffect DEF Greeting, Mail, Rcpt, Data, None
<1>6. CASE StartTLS
  <2>1. CASE Continue("auth") /\ secure' \in BOOLEAN
    BY <1>6, <2>1 DEF StartTLS, Continue, Effect, GoesOn, None
  <2>2. CASE Settle(RecordFailure("starttls")) /\ UNCHANGED <<copies, lost>>
    BY <1>6, <2>2 DEF StartTLS, Settle, Effect, Fails, Permanent, None
  <2> QED BY <1>6, <2>1, <2>2 DEF StartTLS, Phased
<1>7. CASE Auth
  <2>1. CASE ~Refuses /\ Command("auth", "mail")
    BY <2>1, CommandEffect DEF None
  <2>2. CASE /\ phase = "auth" /\ Settle(RecordFailure("insecure"))
             /\ UNCHANGED <<copies, lost>>
    BY <2>2 DEF Settle, Effect, Fails, Permanent, None
  <2> QED BY <1>7, <2>1, <2>2 DEF Auth
<1>8. CASE Write
  <2>1. CASE Settle(RecordFailure("lost")) /\ UNCHANGED <<copies, lost>>
    BY <1>8, <2>1 DEF Write, Settle, Effect, Fails, Permanent, None
  <2>2. CASE Continue("verdict") /\ UNCHANGED secure
    BY <1>8, <2>2 DEF Write, Continue, Effect, GoesOn, None, Phased
  <2> QED BY <1>8, <2>1, <2>2 DEF Write
<1>9. CASE Verdict
  BY <1>9, VerdictEffect
<1> QED BY <1>1, <1>2, <1>3, <1>4, <1>5, <1>6, <1>7, <1>8, <1>9 DEF Next, SMTP

------------------------------------------------------------------------------
(* The inductive invariant.                                                *)

Counted ==
    /\ status \in {"pending", "sending", "sent", "dead"}
    /\ attempt \in 0 .. MaxAttempts
    /\ copies \in Nat /\ lost \in Nat
    /\ Open => attempt < MaxAttempts

DeliveryInv ==
    /\ Phased /\ Counted
    /\ FailureIsClassified /\ CopiesAreAccountedFor /\ ScheduleIsReference

\* A new notification has failed in no way yet.
LEMMA InitDelivery == Init => DeliveryInv
<1> SUFFICES ASSUME Init PROVE DeliveryInv
  OBVIOUS
<1>1. Phased
  BY DEF Init, Phased, None
<1>2. Counted
  BY DeliveryAssumption DEF Init, Counted, Open
<1>3. FailureIsClassified /\ CopiesAreAccountedFor /\ ScheduleIsReference
  BY DEF Init, FailureIsClassified, CopiesAreAccountedFor, ScheduleIsReference,
         Permanent, None
<1> QED BY <1>1, <1>2, <1>3 DEF DeliveryInv

\* The routing table does not move: deployment and row are fixed.
LEMMA SenderFixed ==
    ASSUME UNCHANGED <<conf, row>>
    PROVE  Sender(row.channel)' = Sender(row.channel)
BY DEF Sender

\* A conversation is open exactly while the row is sending.
LEMMA PhasedStep ==
    ASSUME Phased, Effect
    PROVE  Phased'
<1>1. UNCHANGED <<conf, row>> /\ Sender(row.channel)' = Sender(row.channel)
  BY SenderFixed DEF Effect
<1>2. secure' \in BOOLEAN
  BY DEF Effect, Dies, Hands, Begins, GoesOn, Fails, Delivers, HangUp, Phased
<1>3. (phase # None <=> status = "sending")'
  <2>1. CASE Dies
    BY <2>1 DEF Dies, MarkDead, HangUp
  <2>2. CASE Hands \/ Delivers
    BY <2>2 DEF Hands, Delivers, MarkSent, HangUp
  <2>3. CASE Begins
    BY <2>3 DEF Begins
  <2>4. CASE GoesOn
    BY <2>4 DEF GoesOn, outcome, Phased
  <2>5. CASE Fails
    BY <2>5 DEF Fails, RecordFailure, HangUp
  <2> QED BY <2>1, <2>2, <2>3, <2>4, <2>5 DEF Effect
<1>4. status' = "sending" => Sender(row.channel) = "smtp"
  BY DEF Effect, Dies, Hands, Begins, GoesOn, Fails, Delivers,
         MarkDead, MarkSent, RecordFailure, outcome, Phased
<1> QED BY <1>1, <1>2, <1>3, <1>4 DEF Phased

\* Attempts stay within the budget, and below it while the row is open.
LEMMA CountedStep ==
    ASSUME Phased, Counted, Effect
    PROVE  Counted'
<1> USE DEF Counted, Open
<1>0. MaxAttempts \in Nat
  BY DeliveryAssumption
<1>1. CASE Dies
  BY <1>0, <1>1 DEF Dies, MarkDead
<1>2. CASE Hands \/ Delivers
  BY <1>0, <1>2 DEF Hands, Delivers, MarkSent
<1>3. CASE Begins
  BY <1>0, <1>3 DEF Begins, history
<1>4. CASE GoesOn
  BY <1>0, <1>4 DEF GoesOn, outcome, history
<1>5. CASE Fails
  <2>1. attempt < MaxAttempts
    BY <1>5 DEF Fails, Phased
  <2>2. copies' \in Nat /\ lost' \in Nat
    BY <1>5 DEF Fails
  <2>3. attempt' = attempt + 1 /\ status' \in {"pending", "dead"}
        /\ (status' = "pending" => attempt + 1 < MaxAttempts)
    BY <1>0, <1>5 DEF Fails, RecordFailure
  <2> QED BY <1>0, <2>1, <2>2, <2>3
<1> QED BY <1>1, <1>2, <1>3, <1>4, <1>5 DEF Effect

\* Only a permanent reason ends a row before its budget.
LEMMA ClassifiedStep ==
    ASSUME Phased, Counted, FailureIsClassified, Effect
    PROVE  FailureIsClassified'
<1> USE DEF FailureIsClassified, Open
<1>0. MaxAttempts \in Nat
  BY DeliveryAssumption
<1>1. CASE Dies
  BY <1>1 DEF Dies, MarkDead
<1>2. CASE Hands \/ Delivers
  <2>1. status # "dead"
    BY <1>2 DEF Hands, Delivers, Phased
  <2> QED BY <1>2, <2>1 DEF Hands, Delivers, MarkSent
<1>3. CASE Begins
  BY <1>3 DEF Begins, history
<1>4. CASE GoesOn
  BY <1>4 DEF GoesOn, outcome, history
<1>5. CASE Fails
  <2>1. last' \notin Permanent
    BY <1>5 DEF Fails, RecordFailure
  <2>2. status' = "dead" => attempt' >= MaxAttempts
    BY <1>5 DEF Fails, RecordFailure
  <2>3. attempt' \in Nat
    BY <1>5, CountedStep, <1>0 DEF Counted
  <2> QED BY <1>0, <2>1, <2>2, <2>3 DEF Permanent
<1> QED BY <1>1, <1>2, <1>3, <1>4, <1>5 DEF Effect

\* The server takes a copy with a verdict or with a lost one.
LEMMA CopiesStep ==
    ASSUME Phased, Counted, CopiesAreAccountedFor, Effect
    PROVE  CopiesAreAccountedFor'
<1>0. /\ Sender(row.channel)' = Sender(row.channel)
      /\ copies \in Nat /\ lost \in Nat
  BY SenderFixed DEF Effect, Counted
<1>1. CASE Dies
  BY <1>0, <1>1 DEF Dies, MarkDead, Open, CopiesAreAccountedFor
<1>2. CASE Hands
  BY <1>0, <1>2 DEF Hands, MarkSent, Open, CopiesAreAccountedFor
<1>3. CASE Begins
  BY <1>0, <1>3 DEF Begins, history, CopiesAreAccountedFor
<1>4. CASE GoesOn
  BY <1>0, <1>4 DEF GoesOn, outcome, history, CopiesAreAccountedFor
<1>5. CASE Fails
  <2>1. copies = lost /\ status' # "sent"
    BY <1>0, <1>5 DEF Fails, RecordFailure, Phased, CopiesAreAccountedFor
  <2> QED BY <1>0, <1>5, <2>1 DEF Fails, CopiesAreAccountedFor
<1>6. CASE Delivers
  <2>1. copies = lost /\ Sender(row.channel) = "smtp"
    BY <1>0, <1>6 DEF Delivers, Phased, CopiesAreAccountedFor
  <2> QED BY <1>0, <1>6, <2>1 DEF Delivers, MarkSent, CopiesAreAccountedFor
<1> QED BY <1>1, <1>2, <1>3, <1>4, <1>5, <1>6 DEF Effect

\* The delay is set with the attempt it follows.
LEMMA ScheduleStep ==
    ASSUME Phased, Counted, ScheduleIsReference, Effect
    PROVE  ScheduleIsReference'
<1>1. CASE status' # "pending"
  BY <1>1 DEF ScheduleIsReference
<1>2. CASE status' = "pending"
  <2>1. Fails
    <3>1. ~Dies
      BY <1>2 DEF Dies, MarkDead
    <3>2. ~Hands /\ ~Delivers
      BY <1>2 DEF Hands, Delivers, MarkSent
    <3>3. ~Begins
      BY <1>2 DEF Begins
    <3>4. ~GoesOn
      BY <1>2 DEF GoesOn, outcome, Phased
    <3> QED BY <3>1, <3>2, <3>3, <3>4 DEF Effect
  <2>2. /\ attempt' = attempt + 1
        /\ \E draw \in Draws \cup {-1} : delay' = retryAfter(draw)
    BY <1>2, <2>1 DEF Fails, RecordFailure
  <2>3. PICK draw \in Draws \cup {-1} : delay' = retryAfter(draw)
    BY <2>2
  <2> DEFINE d == Smaller(conf.base * Pow2[attempt], conf.cap)
  <2>4. /\ conf.base \in 1 .. MaxDuration /\ conf.cap \in 1 .. MaxDuration
        /\ conf' = conf
    BY DeliveryAssumption DEF Phased, Deployments, Effect
  <2>5. attempt \in Nat /\ draw \in Int /\ DrawScale \in Nat /\ DrawScale > 0
    BY DeliveryAssumption DEF Counted
  <2>6. d = BackoffDelay(attempt, conf.base, conf.cap)
    BY <2>4, <2>5, BackoffIsReference
  <2>7. d \in Nat /\ d >= 1 /\ d <= conf.cap
    <3>1. Pow2[attempt] \in Nat /\ Pow2[attempt] >= 1
      BY <2>5, Pow2Positive
    <3>2. conf.base \in Nat /\ conf.base >= 1 /\ conf.cap \in Nat /\ conf.cap >= 1
      BY <2>4, DurationAssumption
    <3>3. conf.base * Pow2[attempt] \in Nat /\ conf.base * Pow2[attempt] >= 1
      BY <3>1, <3>2
    <3> QED BY <3>2, <3>3 DEF Smaller
  <2> HIDE DEF d
  <2>8. delay' \in Nat /\ d \div 2 <= delay' /\ delay' < d
    BY <2>3, <2>5, <2>6, <2>7, JitterInUpperHalf DEF retryAfter
  <2>9. delay' \in RetryDelays(attempt, conf.base, conf.cap)
    <3>1. delay' \in 0 .. conf.cap /\ delay' <= d
      BY <2>4, <2>7, <2>8, DurationAssumption
    <3> QED BY <3>1, <2>6, <2>8 DEF RetryDelays
  <2>10. attempt' - 1 = attempt
    BY <2>2, <2>5
  <2> QED BY <2>4, <2>8, <2>9, <2>10 DEF ScheduleIsReference, d
<1> QED BY <1>1, <1>2

\* Stuttering keeps everything.
LEMMA DeliveryStutter ==
    ASSUME DeliveryInv, UNCHANGED vars
    PROVE  DeliveryInv'
<1>1. /\ UNCHANGED <<conf, row, status, attempt, delay, phase, secure>>
      /\ UNCHANGED <<last, copies, lost>>
      /\ Sender(row.channel)' = Sender(row.channel)
  BY SenderFixed DEF vars, outcome, history
<1>2. Phased' /\ Counted' /\ FailureIsClassified' /\ CopiesAreAccountedFor'
  BY <1>1 DEF DeliveryInv, Phased, Counted, Open, FailureIsClassified,
              CopiesAreAccountedFor
<1>3. ScheduleIsReference'
  BY <1>1 DEF DeliveryInv, ScheduleIsReference
<1> QED BY <1>2, <1>3 DEF DeliveryInv

\* Every effect keeps the five parts.
LEMMA DeliveryStep ==
    ASSUME DeliveryInv, [Next]_vars
    PROVE  DeliveryInv'
<1>1. CASE Next
  <2>1. Effect
    BY <1>1, StepEffect DEF DeliveryInv
  <2> QED BY <2>1, PhasedStep, CountedStep, ClassifiedStep, CopiesStep,
             ScheduleStep DEF DeliveryInv
<1>2. CASE UNCHANGED vars
  BY <1>2, DeliveryStutter
<1> QED BY <1>1, <1>2

\* So they hold in every behaviour.
LEMMA DeliveryInductive == Spec => []DeliveryInv
BY InitDelivery, DeliveryStep, PTL DEF Spec

------------------------------------------------------------------------------
(* The theorems.                                                           *)

\* For every word width, base, cap and draw, and after any number of failures,
\* the wait retryAfter sets lies in the upper half of min(base * 2^(n-1), cap)
\* and below it: no shift of scaleBase wraps, and no delay is zero or in the
\* past unless the schedule itself is that short.
THEOREM ScheduleExact == Spec => []ScheduleIsReference
BY DeliveryInductive, PTL DEF DeliveryInv

\* Whatever the mail server answers and however often, settle gives up early
\* only on an outcome that classify or attemptDelivery calls permanent, and
\* never retries after one.
THEOREM FailureClassified == Spec => []FailureIsClassified
BY DeliveryInductive, PTL DEF DeliveryInv

\* However many attempts fail and whatever the replies, the server holds one
\* copy of a mail reported sent plus one per lost verdict.
THEOREM CopiesAccounted == Spec => []CopiesAreAccountedFor
BY DeliveryInductive, PTL DEF DeliveryInv
==============================================================================
