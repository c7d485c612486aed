------------------------------- MODULE Backoff -------------------------------
(***************************************************************************)
(* The delay before the next attempt of a job: NextDelay, as the executor  *)
(* calls it after a failure.                                               *)
(*                                                                         *)
(* A time.Duration is a signed 64-bit count of nanoseconds.  Here it is a  *)
(* count of minutes, so MaxInt is the largest duration in minutes          *)
(* (153722867), and sums and products wrap around beyond it.               *)
(***************************************************************************)
EXTENDS Integers

CONSTANTS
    MaxDelay,    \* the cap, 24 hours
    MaxInt       \* the largest duration

ASSUME BackoffAssumption ==
    /\ MaxDelay \in Nat /\ MaxInt \in Nat /\ MaxDelay <= MaxInt
    /\ MaxInt < 2^30     \* so that a duration is never doubled 30 times

Strategies == {"fixed", "linear", "exponential"}

MinInt == -MaxInt - 1

\* Sums and products of two durations, in 64 bits.
Wrap(n) == ((n - MinInt) % (2 * (MaxInt + 1))) + MinInt

\* A float64 converted to int64.  The result of one that does not fit is up to
\* the machine: the least integer on amd64, the largest on arm64.  Of a negative
\* duration only the sign matters in what follows.
DoubledOnceMore(b, n) ==     \* mutant: one doubling too many
    {Wrap(b * 2^n)}

Doubled(b, n) ==
    CASE b <= 0 -> {b}
      [] b > 0 /\ n <= 30 /\ 2^(n - 1) <= MaxInt \div b -> {b * 2^(n - 1)}
      [] OTHER -> {MinInt, MaxInt}

\* rand.Int63n(d / 2): from nothing to just under a half.  Bound: of the values in
\* between, the quarter alone.
Jitters(d) == {0, d \div 4, (d - 1) \div 2}

\* The executor asks for jitter with the exponential strategy only.
Jittered(d) ==
    IF d > 0 THEN UNION {{Wrap(d + j), d - j} : j \in Jitters(d)} ELSE {d}

UncappedDelay(b, d) == IF d < 0 THEN b ELSE d   \* mutant: no cap

\* The cap is applied before the test for a negative (overflown) delay.
CappedDelay(b, d) ==
    LET capped == IF d > MaxDelay THEN MaxDelay ELSE d
    IN  IF capped < 0 THEN b ELSE capped

RawDelays(s, b, n) ==
    CASE s = "fixed" -> {b}
      [] s = "linear" -> {Wrap(b * n)}
      [] s = "exponential" -> UNION {Jittered(d) : d \in Doubled(b, n)}

NextDelay(s, b, n) == {CappedDelay(b, d) : d \in RawDelays(s, b, n)}
=============================================================================
