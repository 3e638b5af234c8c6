------------------------------ MODULE Backoff ------------------------------
(***************************************************************************)
(* The retry delay of the Route Registry client (internal/selfheal):       *)
(* nextRetryDelay doubles the previous backoff up to a maximum and then    *)
(* takes up to a tenth of it off again, as jitter, for the delay it sleeps *)
(* for.  Durations are Go int64s, so doubling is done modulo the width of  *)
(* the integer; the code's comparison with maximum - previous is there to  *)
(* keep the doubling from overflowing.                                     *)
(*                                                                         *)
(* The jitter is a float64 that the code clamps to [0, 1].  Here it is an  *)
(* integer number of tenths.  The cut backoff * 0.1 * (1 - jitter) is      *)
(* truncated to an integer as the conversion to time.Duration does; the    *)
(* rounding of float64 itself is left out.                                 *)
(***************************************************************************)
EXTENDS Integers

CONSTANT
    MaxDuration,         \* largest time.Duration (2^63 - 1 in Go)
    MinimumRetryBackoff  \* the least value Validate accepts (100 ms)

ASSUME DurationAssumption ==
    /\ MaxDuration \in Nat
    /\ MinimumRetryBackoff \in 1 .. MaxDuration

Duration == -(MaxDuration + 1) .. MaxDuration

(* Config.Validate: the bounds a tunnel may run with. *)
Validate(minimum, maximum) ==
    /\ minimum >= MinimumRetryBackoff
    /\ maximum > 0
    /\ minimum <= maximum

(* previous * 2 in the integer of the code, for a previous >= 0. *)
Double(d) ==
    IF 2 * d > MaxDuration THEN 2 * d - 2 * (MaxDuration + 1) ELSE 2 * d

AtLeast(d, low) == IF d < low THEN low ELSE d

AtMost(d, high) == IF d > high THEN high ELSE d

(* Mutant: the guard against overflow compares with maximum only. *)
DoublingMutant(previous, maximum) ==
    IF previous >= maximum THEN maximum ELSE Double(previous)

(* The backoff that follows a positive previous one, before clamping. *)
Doubling(previous, maximum) ==
    IF previous >= maximum \/ previous > maximum - previous
    THEN maximum
    ELSE Double(previous)

(* Mutant: no upper bound. *)
NextBackoffMutant(previous, minimum, maximum) ==
    IF previous > 0 THEN Double(previous) ELSE minimum

(* nextRetryDelay, first result: the backoff the next call starts from. *)
NextBackoff(previous, minimum, maximum) ==
    AtMost(AtLeast(IF previous > 0 THEN Doubling(previous, maximum) ELSE minimum,
                   minimum),
           maximum)

JitterScale == 10

(* What the jitter takes off: trunc(backoff * 0.1 * (1 - clamped jitter)). *)
JitterCut(backoff, jitter) ==
    (backoff * (JitterScale - AtMost(AtLeast(jitter, 0), JitterScale)))
        \div (10 * JitterScale)

(* Mutant: the delay is not raised to the minimum again after the cut. *)
NextDelayMutant(backoff, minimum, maximum, jitter) ==
    AtMost(backoff - JitterCut(backoff, jitter), maximum)

(* nextRetryDelay, second result: how long to sleep. *)
NextDelay(backoff, minimum, maximum, jitter) ==
    AtMost(AtLeast(backoff - JitterCut(backoff, jitter), minimum), maximum)
=============================================================================
