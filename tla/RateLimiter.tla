----------------------------- MODULE RateLimiter -----------------------------
(***************************************************************************)
(* Admission of requests at the client port of a node                      *)
(* (minidb/chaos/rate_limiter.py): a BackpressureManager in front of one   *)
(* of the three limiters, the one a node is built with.                    *)
(*                                                                         *)
(* Time is counted in ticks and every state keeps ages instead of stamps,  *)
(* so behaviours are unbounded in time.  Tokens and rates are integers:    *)
(* Unit stands for one token, a rate is what one tick adds.  The rounding  *)
(* of floats is left out, and so are clocks that are set back.             *)
(***************************************************************************)
EXTENDS Integers, Sequences

CONSTANTS
    Key,            \* rate limit keys: the sender ids of requests; clients that
                    \* give none share the key "default"
    Kinds,          \* the limiters to consider: "bucket", "window", "adaptive"
    Unit,           \* one token
    Rate, Burst,    \* TokenBucketLimiter(rate, burst)
    MaxRequests,    \* SlidingWindowLimiter(max_requests, ...)
    WindowLength,   \*   and its window_seconds
    InitialRate, MinRate, MaxRate, \* AdaptiveRateLimiter
    AdjustInterval, \*   and its adjustment_interval
    LowThreshold, HighThreshold,   \* BackpressureManager
    Depths,         \* queue depths that are reported
    Horizon         \* ages are counted up to here

ASSUME RateAssumption ==
    /\ Unit \in Nat \ {0} /\ Rate \in Nat \ {0} /\ Burst \in Nat \ {0}
    /\ InitialRate \in Nat /\ MinRate \in Nat /\ MaxRate \in Nat
    /\ Unit <= MinRate /\ MinRate <= InitialRate /\ InitialRate <= MaxRate

ASSUME WindowAssumption ==
    /\ MaxRequests \in Nat \ {0} /\ WindowLength \in Nat
    /\ AdjustInterval \in Nat \ {0}

\* A bucket is full again, every window is over and every adjustment is due
\* by the time ages stop growing.
ASSUME HorizonAssumption ==
    /\ Horizon \in Nat
    /\ Horizon * Rate >= Burst * Unit
    /\ Horizon >= 1 /\ Horizon > WindowLength /\ Horizon >= AdjustInterval

ASSUME PressureAssumption ==
    /\ LowThreshold \in Nat /\ HighThreshold \in Nat
    /\ LowThreshold < HighThreshold
    /\ Depths \subseteq Nat
    /\ Kinds \subseteq {"bucket", "window", "adaptive"}

VARIABLES
    kind,       \* the limiter the node was built with
    limiter,    \* the token bucket limiter: rate, burst, tokens and ages per key
    window,     \* per key the ages of the entries of the sliding window
    latency,    \* what the average of the recorded latencies calls for
    adjustAge,  \* ticks since _last_adjustment
    depth,      \* reported depth of the queue of pending writes
    reported,   \* the maintenance loop has reported in this tick
    admitted,   \* history: per key and w, requests admitted in the last w ticks
    changes     \* history: per w, changes of rate in the last w ticks

vars == <<kind, limiter, window, latency, adjustAge, depth, reported,
          admitted, changes>>

Ages == 0 .. Horizon
LatencyClasses == {"none", "low", "normal", "high"}

Least(a, b) == IF a <= b THEN a ELSE b
Greatest(a, b) == IF a >= b THEN a ELSE b
Older(a) == Least(a + 1, Horizon)

\* A count per age after one more event now, and after a tick.
OneMore(c) == [w \in Ages |-> c[w] + 1]
Shifted(c) == [w \in Ages |-> IF w = 0 THEN 0 ELSE c[w - 1]]

-----------------------------------------------------------------------------
(* TokenBucketLimiter. A bucket that was not used yet is created full, which *)
(* is the same as a full one: no bucket is ever evicted.                     *)

NewLimiter(r, b) ==
    [rate |-> r, burst |-> b,
     tokens |-> [k \in Key |-> b * Unit], age |-> [k \in Key |-> 0]]

\* Mutant: the cap on a bucket is left out.
RefilledUncapped(l, k) == l.tokens[k] + l.age[k] * l.rate

\* Mutant: only whole tokens are added, while the time is used up.
RefilledWhole(l, k) ==
    Least(l.burst * Unit, l.tokens[k] + ((l.age[k] * l.rate) \div Unit) * Unit)

Refilled(l, k) == Least(l.burst * Unit, l.tokens[k] + l.age[k] * l.rate)

\* The same limiter one tick later.
Aged(l) ==
    [rate |-> l.rate, burst |-> l.burst, tokens |-> l.tokens,
     age |-> [k \in Key |-> Older(l.age[k])]]

\* _refill, then `spent` tokens are taken.
Take(l, k, spent) ==
    [rate |-> l.rate, burst |-> l.burst,
     tokens |-> [l.tokens EXCEPT ![k] = Refilled(l, k) - spent],
     age |-> [l.age EXCEPT ![k] = 0]]

BucketAdmits(l, k) == Refilled(l, k) >= Unit

AfterAcquire(l, k) == Take(l, k, IF BucketAdmits(l, k) THEN Unit ELSE 0)

(* SlidingWindowLimiter *)

\* n entries are popped off the left: all of them are older than `limit` and
\* the next one, if there is one, is not.
Pops(s, n, limit) ==
    /\ \A i \in 1 .. n : s[i] > limit
    /\ n < Len(s) => s[n + 1] <= limit

PoppedWhile(s, limit) ==
    SubSeq(s, (CHOOSE n \in 0 .. Len(s) : Pops(s, n, limit)) + 1, Len(s))

\* Mutant: entries as old as the window are removed too.
CleanedEarly(k) == PoppedWhile(window[k], WindowLength - 1)

\* _cleanup_window: only entries older than the window are removed.
Cleaned(k) == PoppedWhile(window[k], WindowLength)

WindowAdmits(k) == Len(Cleaned(k)) < MaxRequests

(* AdaptiveRateLimiter *)
WholeTokens(r) == r \div Unit

AdjustDue == adjustAge >= AdjustInterval

\* _maybe_adjust_rate with an average that calls for a change.
Adjusts == AdjustDue /\ latency \in {"low", "high"}

\* Mutant: an increase is not held below max_rate.
AdjustedRateUncapped ==
    IF latency = "high"
    THEN Greatest(MinRate, (limiter.rate * 8) \div 10)
    ELSE (limiter.rate * 11) \div 10

\* 0.8 of the rate when latency is high, 1.1 of it when low.
AdjustedRate ==
    IF latency = "high"
    THEN Greatest(MinRate, (limiter.rate * 8) \div 10)
    ELSE Least(MaxRate, (limiter.rate * 11) \div 10)

\* _update_rate replaces the token buckets of all keys.
UpdateRate(r) == NewLimiter(r, WholeTokens(r))

(* BackpressureManager, for the one queue a node reports. Its level, between  *)
(* 0 and 1, is Pressure / Span.                                              *)
Span == HighThreshold - LowThreshold
Pressure(d) == Least(Span, Greatest(0, d - LowThreshold))
HighPressure == 10 * Pressure(depth) > 8 * Span

\* apply_backpressure(1 - level / 2)
PressedRate(d) ==
    Greatest(MinRate, (limiter.rate * (2 * Span - Pressure(d))) \div (2 * Span))

-----------------------------------------------------------------------------
Init ==
    /\ kind \in Kinds
    /\ limiter = IF kind = "adaptive" THEN UpdateRate(InitialRate)
                                      ELSE NewLimiter(Rate, Burst)
    /\ window = [k \in Key |-> <<>>]
    /\ latency = "none"
    /\ adjustAge = 0
    /\ depth = 0
    /\ reported = FALSE
    /\ admitted = [k \in Key |-> [w \in Ages |-> 0]]
    /\ changes = [w \in Ages |-> 0]

Count(k, ok) ==
    admitted' = IF ok THEN [admitted EXCEPT ![k] = OneMore(@)] ELSE admitted

\* should_accept_request under high pressure, the draw goes against the request.
Shed(k) == HighPressure /\ UNCHANGED vars

\* try_acquire of the three limiters, each under its lock.
BucketAcquire(k) ==
    /\ kind = "bucket"
    /\ limiter' = AfterAcquire(limiter, k)
    /\ Count(k, BucketAdmits(limiter, k))
    /\ UNCHANGED <<kind, window, latency, adjustAge, depth, reported, changes>>

WindowAcquire(k) ==
    /\ kind = "window"
    /\ window' = [window EXCEPT ![k] =
                    IF WindowAdmits(k) THEN Append(Cleaned(k), 0) ELSE Cleaned(k)]
    /\ Count(k, WindowAdmits(k))
    /\ UNCHANGED <<kind, limiter, latency, adjustAge, depth, reported, changes>>

AdaptiveAcquire(k) ==
    /\ kind = "adaptive"
    /\ LET l == IF Adjusts THEN UpdateRate(AdjustedRate) ELSE limiter
       IN  /\ limiter' = AfterAcquire(l, k)
           /\ Count(k, BucketAdmits(l, k))
    /\ adjustAge' = IF AdjustDue THEN 0 ELSE adjustAge
    /\ changes' = IF Adjusts THEN OneMore(changes) ELSE changes
    /\ UNCHANGED <<kind, window, latency, depth, reported>>

Acquire(k) == BucketAcquire(k) \/ WindowAcquire(k) \/ AdaptiveAcquire(k)

\* get_available_tokens and get_current_count tidy up as well.
Inspect(k) ==
    /\ kind # "adaptive"
    /\ limiter' = IF kind = "bucket" THEN Take(limiter, k, 0) ELSE limiter
    /\ window' = IF kind = "window" THEN [window EXCEPT ![k] = Cleaned(k)] ELSE window
    /\ UNCHANGED <<kind, latency, adjustAge, depth, reported, admitted, changes>>

\* record_latency; the average over the last hundred may fall in any class.
RecordLatency(c) ==
    /\ kind = "adaptive"
    /\ latency' = c
    /\ UNCHANGED <<kind, limiter, window, adjustAge, depth, reported,
                   admitted, changes>>

\* The maintenance loop reports one depth and sleeps.
UpdateQueueDepth(d) ==
    /\ ~reported
    /\ reported' = TRUE
    /\ depth' = d
    /\ LET presses == kind = "adaptive" /\ 2 * Pressure(d) > Span
       IN  /\ limiter' = IF presses THEN UpdateRate(PressedRate(d)) ELSE limiter
           /\ changes' = IF presses THEN OneMore(changes) ELSE changes
    /\ UNCHANGED <<kind, window, latency, adjustAge, admitted>>

Tick ==
    /\ limiter' = Aged(limiter)
    /\ window' = [k \in Key |-> [i \in DOMAIN window[k] |-> Older(window[k][i])]]
    /\ adjustAge' = Older(adjustAge)
    /\ reported' = FALSE
    /\ admitted' = [k \in Key |-> Shifted(admitted[k])]
    /\ changes' = Shifted(changes)
    /\ UNCHANGED <<kind, latency, depth>>

Next ==
    \/ \E k \in Key : Acquire(k) \/ Shed(k) \/ Inspect(k)
    \/ \E c \in LatencyClasses \ {"none"} : RecordLatency(c)
    \/ \E d \in Depths : UpdateQueueDepth(d)
    \/ Tick

Spec == Init /\ [][Next]_vars

\* Time passes, and a client whose request was refused tries again.  A request
\* passes the draw of Shed with probability one half or more.
Fairness == WF_vars(Tick) /\ \A k \in Key : WF_vars(Acquire(k))

FairSpec == Spec /\ Fairness

-----------------------------------------------------------------------------
TypeOK ==
    /\ kind \in Kinds
    /\ limiter.rate \in IF kind = "adaptive" THEN MinRate .. MaxRate ELSE {Rate}
    /\ limiter.burst =
         IF kind = "adaptive" THEN WholeTokens(limiter.rate) ELSE Burst
    /\ limiter.tokens \in [Key -> 0 .. limiter.burst * Unit]
    /\ limiter.age \in [Key -> Ages]
    /\ window \in [Key -> Seq(Ages)]
    /\ latency \in LatencyClasses
    /\ adjustAge \in Ages
    /\ depth \in Nat
    /\ reported \in BOOLEAN
    /\ admitted \in [Key -> [Ages -> Nat]]
    /\ changes \in [Ages -> Nat]

TopRate == IF kind = "adaptive" THEN MaxRate ELSE Rate
TopBurst == IF kind = "adaptive" THEN WholeTokens(MaxRate) ELSE Burst

\* Every admitted request was paid for: in any stretch of w ticks a key gets
\* through at most one burst, one more for every change of rate within the
\* stretch (_update_rate hands out new buckets), and what the ticks refilled.
RateBound ==
    kind # "window" =>
        \A k \in Key, w \in Ages :
            admitted[k][w] * Unit <= (1 + changes[w]) * TopBurst * Unit + w * TopRate

\* SlidingWindowLimiter admits at most max_requests of a key in any stretch as
\* long as the window, wherever the stretch begins.
WindowBound ==
    kind = "window" =>
        \A k \in Key : admitted[k][WindowLength] <= MaxRequests

\* No rate-limit key is locked out: while requests of a key keep coming, some of
\* them are admitted again and again, although refused attempts restart the refill
\* of its bucket, rates drop and requests are shed.  Which of the clients that
\* share the key "default" gets through is not told apart.
KeepsAdmitting == \A k \in Key : []<>(admitted[k][0] > 0)

\* What "Apply backpressure by reducing rate." says: changes of rate admit no
\* more than the highest rate would have.
PressureReduces ==
    kind = "adaptive" =>
        \A k \in Key, w \in Ages :
            admitted[k][w] * Unit <= TopBurst * Unit + w * TopRate
=============================================================================
