----------------------------- MODULE RetryPolicy -----------------------------
(***************************************************************************)
(* When a target is crawled again: the intervals of crawler/worker.go, in  *)
(* minutes.                                                                *)
(***************************************************************************)
EXTENDS Integers

Hour == 60

baseInterval(priority) ==
    CASE priority <= 2 -> 4 * Hour
      [] priority \in 3..4 -> 8 * Hour
      [] priority \in 5..6 -> 24 * Hour
      [] OTHER -> 72 * Hour

MaxBackoff == 7 * 24 * Hour

\* The longest time.Duration, 2^63 nanoseconds, in whole minutes.
MaxDuration == 153722867

\* time.Duration(float64(base) * math.Pow(2, n)).  Out of range the conversion
\* is implementation-defined: the least value on amd64, the greatest on arm64.
Converted(base, n) ==
    IF 2^n > MaxDuration \div base THEN {-MaxDuration, MaxDuration} ELSE {base * 2^n}

\* Mutant: the sign of an overflow is not looked at.
BackoffSigned(base, n) == {IF d > MaxBackoff THEN MaxBackoff ELSE d : d \in Converted(base, n)}

\* The values it may return.
backoffDuration(base, n) ==
    {IF d > MaxBackoff \/ d < 0 THEN MaxBackoff ELSE d : d \in Converted(base, n)}
=============================================================================
