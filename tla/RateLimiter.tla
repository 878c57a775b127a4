---------------------------- MODULE RateLimiter -----------------------------
(***************************************************************************)
(* The token bucket of pkg/security/ratelimit.go.                          *)
(*                                                                         *)
(* Time is a counter of ticks, Second of them to a second, and tokens are  *)
(* counted in units of 1/Second of a token, so that the refill, elapsed    *)
(* times rate, is a whole number of units: the rounding of float64 is left *)
(* out.  Allow holds the mutex and reads the clock under it, so a call is  *)
(* one step; the clock is monotonic.                                       *)
(***************************************************************************)
EXTENDS Integers

CONSTANTS
    Rate, Burst,   \* rate and burst of NewRateLimiter
    Second,        \* ticks to a second
    MaxTicks       \* bound on the clock

ASSUME RateAssumption == Rate \in Nat /\ Burst \in Nat /\ Second \in Nat \ {0} /\ MaxTicks \in Nat

VARIABLES
    clock,
    tokens, lastTime,     \* RateLimiter
    winStart, winAllowed  \* history: a window that began at any time, and
                          \* the messages allowed since

limiterVars == <<clock, tokens, lastTime, winStart, winAllowed>>

LimiterTypeOK ==
    /\ clock \in Nat /\ tokens \in Nat /\ lastTime \in Nat /\ lastTime <= clock
    /\ winStart \in Nat /\ winStart <= clock /\ winAllowed \in Nat

LimiterInit ==
    /\ clock = 0 /\ lastTime = 0 /\ tokens = Burst * Second
    /\ winStart = 0 /\ winAllowed = 0

-----------------------------------------------------------------------------

Min2(a, b) == IF a <= b THEN a ELSE b

RefilledUncapped == tokens + (clock - lastTime) * Rate

\* The tokens after the refill of Allow.
Refilled == Min2(tokens + (clock - lastTime) * Rate, Burst * Second)

\* Allow, with its answer.
Allow ==
    /\ lastTime' = clock
    /\ \/ /\ Refilled >= Second
          /\ tokens' = Refilled - Second
          /\ winAllowed' = winAllowed + 1
       \/ /\ Refilled < Second
          /\ tokens' = Refilled
          /\ UNCHANGED winAllowed
    /\ UNCHANGED <<clock, winStart>>

ClockTick ==
    /\ clock < MaxTicks
    /\ clock' = clock + 1
    /\ UNCHANGED <<tokens, lastTime, winStart, winAllowed>>

WindowBegins ==
    /\ winStart' = clock /\ winAllowed' = 0
    /\ UNCHANGED <<clock, tokens, lastTime>>

LimiterNext == Allow \/ ClockTick \/ WindowBegins

LimiterSpec == LimiterInit /\ [][LimiterNext]_limiterVars

-----------------------------------------------------------------------------

\* In every window of time, wherever it begins, at most Burst messages and the
\* rate times its length are allowed (Allow).
RateBounded == winAllowed * Second <= Burst * Second + Rate * (clock - winStart)
=============================================================================
