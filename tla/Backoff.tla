------------------------------- MODULE Backoff -------------------------------
(***************************************************************************)
(* The retry schedule of modules/notification/domain/notification.go:      *)
(* Backoff, the saturating scaleBase under it and BackoffWithJitter.       *)
(* Durations are signed machine integers of MaxDuration = 2^(w-1) - 1; the *)
(* code has w = 64, a configuration of this module picks a smaller width.  *)
(***************************************************************************)
EXTENDS Integers

CONSTANTS
    MaxDuration,   \* math.MaxInt64
    ValueBits      \* the value bits of a Duration: 63 in the code

\* 2^n by doubling: what a shift by n multiplies with.
Pow2[n \in Nat] == IF n = 0 THEN 1 ELSE 2 * Pow2[n - 1]

ASSUME DurationAssumption ==
    /\ MaxDuration \in Nat \ {0}
    /\ ValueBits \in Nat \ {0}
    /\ MaxDuration + 1 = Pow2[ValueBits]

\* d << k on a signed machine integer: the bits that leave the word are lost
\* and the top one is the sign.
ShiftLeft(d, k) ==
    LET word == 2 * (MaxDuration + 1)
        bits == (d * Pow2[k]) % word
    IN  IF bits > MaxDuration THEN bits - word ELSE bits

\* base * 2^attempt, saturating instead of wrapping.
scaleBase(attempt, base) ==
    IF base <= 0 THEN 0
    ELSE IF attempt <= 0 THEN base
    ELSE IF attempt >= ValueBits THEN MaxDuration
    ELSE IF base > MaxDuration \div Pow2[attempt] THEN MaxDuration
    ELSE ShiftLeft(base, attempt)

\* The delay after attempt recorded failures, clamped to 0..cap.
BackoffDelay(attempt, base, cap) ==
    LET d == scaleBase(attempt, base)
        capped == IF d > cap THEN cap ELSE d
    IN  IF capped < 0 THEN 0 ELSE capped

\* BackoffWithJitter for a source that yields f = num / den: the draw is
\* clamped to [0, 1) and spread over the upper half of the delay.
BackoffWithJitter(attempt, base, cap, num, den) ==
    LET d == BackoffDelay(attempt, base, cap)
        half == d \div 2
        draw == IF num < 0 THEN 0 ELSE IF num >= den THEN den - 1 ELSE num
    IN  IF d <= 0 THEN d ELSE half + ((draw * (d - half)) \div den)

\* The delays BackoffWithJitter can return over all draws, and with no source
\* (then the delay is d itself), for a caller that counts time in coarse ticks.
RetryDelays(attempt, base, cap) ==
    LET d == BackoffDelay(attempt, base, cap)
    IN  {x \in 0 .. cap : d \div 2 <= x /\ x <= d}
==============================================================================
