----------------------------- MODULE RetryWait -----------------------------
(***************************************************************************)
(* BuildNamedBackoff (helpers.go): how long the retry loop waits before an *)
(* attempt.  A time.Duration is a signed integer, from -Half to Half - 1,  *)
(* and its products wrap around; in the code, Half is 2^63.                *)
(***************************************************************************)
EXTENDS Integers

CONSTANTS Half,        \* how many durations are negative, and how many are not
          WaitSamples, \* durations the check tries, for both ends of the range
          AttemptTop   \* attempts it tries

ASSUME WaitAssumption ==
    /\ Half \in Nat \ {0} /\ AttemptTop \in Nat /\ WaitSamples \subseteq Nat

Strategy == {"none", "linear", "exponential", "other"}

Wrap(n) == ((n + Half) % (2 * Half)) - Half

\* Fault: the exponent is not capped.
Uncapped(attempt) == attempt

\* "Cap exponent to avoid overflow."
Exponent(attempt) == IF attempt > 10 THEN 10 ELSE attempt

\* initialWait times a number of steps; an unknown strategy is "none".
Factor(strategy, attempt) ==
    CASE strategy = "linear" -> attempt + 1
      [] strategy = "exponential" -> 2 ^ Exponent(attempt)
      [] OTHER -> 1

\* The upper end wins when the two cross.
Clamp(n, initialWait, maxWait) ==
    LET raised == IF n < initialWait THEN initialWait ELSE n IN
    IF raised > maxWait THEN maxWait ELSE raised

NamedBackoff(strategy, initialWait, maxWait, attempt) ==
    Clamp(Wrap(initialWait * Factor(strategy, attempt)), initialWait, maxWait)

\* A duration whose product with 2^10 and with the last attempt still fits.
Fits(d) == d * 1024 < Half /\ d * (AttemptTop + 1) < Half

\* Waits are "clamped to [initialWait, maxWait]" (helpers.go:44) even when the
\* product wraps around, and while it does not, no attempt waits less than the
\* one before it.
WaitsAreBounded ==
    \A lo \in WaitSamples : \A hi \in {d \in WaitSamples : lo <= d}, strategy \in Strategy :
        LET Wait(n) == NamedBackoff(strategy, lo, hi, n) IN
        /\ \A k \in 0 .. AttemptTop : Wait(k) \in lo .. hi
        /\ Fits(lo) => \A k \in 1 .. AttemptTop : Wait(k - 1) <= Wait(k)
=============================================================================
