---------------------------- MODULE ChaosProofs -----------------------------
(***************************************************************************)
(* The package chaos/.  The limiters: TypeOK, RateBound and WindowBound    *)
(* for any keys, rates, bursts, windows and thresholds.  Fault injection:  *)
(* FaultTypeOK and PartitionHolds for any nodes, durations, kinds of       *)
(* faults and numbers of faults and commands.                              *)
(***************************************************************************)
EXTENDS RateLimiter, Faults, SequenceTheorems, TLAPS

-----------------------------------------------------------------------------
(* The limiters *)

\* A token bucket limiter whose rate and burst are within the limits.
Sound(l) ==
    /\ l \in [rate : Nat, burst : Nat, tokens : [Key -> Nat], age : [Key -> Nat]]
    /\ l.rate <= TopRate
    /\ l.burst <= TopBurst

\* What was admitted and what is left in the bucket were paid for together.
PaidFor(l, a, c) ==
    \A k \in Key, w \in Ages :
        a[k][w] * Unit + Refilled(l, k)
            <= (1 + c[w]) * (TopBurst * Unit) + w * TopRate

HistoryOK ==
    /\ admitted \in [Key -> [Ages -> Nat]]
    /\ changes \in [Ages -> Nat]

IInv ==
    /\ HistoryOK
    /\ kind # "window" => Sound(limiter) /\ PaidFor(limiter, admitted, changes)

\* The highest rate and the largest burst are numbers.
LEMMA TopTypes ==
    TopRate \in Nat /\ TopBurst \in Nat
  BY RateAssumption DEF TopRate, TopBurst, WholeTokens

\* So is the bound of RateBound.
LEMMA BoundType ==
    ASSUME NEW x \in Nat, NEW w \in Ages
    PROVE  (1 + x) * (TopBurst * Unit) \in Nat /\ w * TopRate \in Nat
  <1> DEFINE t == TopBurst * Unit
  <1>1. t \in Nat /\ w \in Nat /\ TopRate \in Nat
    BY TopTypes, RateAssumption, HorizonAssumption DEF Ages
  <1> HIDE DEF t
  <1>2. (1 + x) * t \in Nat /\ w * TopRate \in Nat
    BY <1>1
  <1>3. QED
    BY <1>2 DEF t

\* A quotient of a product with a proper fraction does not exceed its factor.
LEMMA FractionShrinks ==
    ASSUME NEW a \in Nat, NEW b \in Nat, NEW c \in Nat \ {0}, b <= c
    PROVE  (a * b) \div c \in Nat /\ (a * b) \div c <= a
  <1> DEFINE q == (a * b) \div c
  <1>1. q \in Nat /\ c * q <= a * b
    BY Z3
  <1>2. a * b <= a * c
    BY Z3
  <1>3. q <= a
    <2>1. SUFFICES ASSUME q >= a + 1 PROVE FALSE
      BY <1>1
    <2>2. c * q >= c * (a + 1)
      BY <1>1, <2>1
    <2>3. QED
      BY <1>1, <1>2, <2>2
  <1>4. QED
    BY <1>1, <1>3

\* A lower rate has no larger burst.
LEMMA WholeTokensMonotone ==
    ASSUME NEW r \in Nat, r <= MaxRate
    PROVE  WholeTokens(r) \in Nat /\ WholeTokens(r) <= WholeTokens(MaxRate)
  <1> DEFINE q == r \div Unit
             m == MaxRate \div Unit
  <1>1. Unit \in Nat \ {0} /\ MaxRate \in Nat
    BY RateAssumption
  <1>2. q \in Nat /\ m \in Nat /\ Unit * q <= r /\ MaxRate < Unit * (m + 1)
    BY <1>1, Z3
  <1>3. q < m + 1
    <2>1. SUFFICES ASSUME q >= m + 1 PROVE FALSE
      BY <1>2
    <2>2. Unit * q >= Unit * (m + 1)
      BY <1>1, <1>2, <2>1
    <2>3. QED
      BY <1>1, <1>2, <2>2
  <1>4. QED
    BY <1>2, <1>3 DEF WholeTokens

\* What a bucket holds after its refill.
LEMMA RefilledType ==
    ASSUME NEW l, Sound(l), NEW k \in Key
    PROVE  Refilled(l, k) \in Nat
  <1>1. /\ l.burst \in Nat /\ l.rate \in Nat /\ l.tokens[k] \in Nat /\ l.age[k] \in Nat
        /\ Unit \in Nat
    BY RateAssumption DEF Sound
  <1>2. l.burst * Unit \in Nat /\ l.age[k] * l.rate \in Nat
    BY <1>1
  <1>3. QED
    BY <1>1, <1>2 DEF Refilled, Least

\* Taking tokens out of a refilled bucket touches no other bucket.
LEMMA TakeOK ==
    ASSUME NEW l, Sound(l), NEW j \in Key, NEW spent \in Nat, spent <= Refilled(l, j)
    PROVE  /\ Sound(Take(l, j, spent))
           /\ Refilled(Take(l, j, spent), j) <= Refilled(l, j) - spent
           /\ \A k \in Key \ {j} : Refilled(Take(l, j, spent), k) = Refilled(l, k)
  <1> DEFINE n == Take(l, j, spent)
  <1>1. Unit \in Nat \ {0} /\ Refilled(l, j) \in Nat
    BY RefilledType, RateAssumption
  <1>2. Refilled(l, j) - spent \in Nat
    BY <1>1
  <1>3. n = [rate |-> l.rate, burst |-> l.burst,
             tokens |-> [l.tokens EXCEPT ![j] = Refilled(l, j) - spent],
             age |-> [l.age EXCEPT ![j] = 0]]
    BY DEF Take
  <1>4. /\ n \in [rate : Nat, burst : Nat, tokens : [Key -> Nat], age : [Key -> Nat]]
        /\ n.rate = l.rate /\ n.burst = l.burst
        /\ n.tokens[j] = Refilled(l, j) - spent /\ n.age[j] = 0
        /\ \A k \in Key \ {j} : n.tokens[k] = l.tokens[k] /\ n.age[k] = l.age[k]
    BY <1>2, <1>3 DEF Sound
  <1>5. Sound(n)
    BY <1>4 DEF Sound
  <1>6. \A k \in Key \ {j} : Refilled(n, k) = Refilled(l, k)
    BY <1>4 DEF Refilled
  <1>7. Refilled(n, j) <= Refilled(l, j) - spent
    <2>1. n.age[j] * n.rate = 0
      BY <1>4, <1>5 DEF Sound
    <2>2. l.burst * Unit \in Nat
      BY <1>1 DEF Sound
    <2>3. QED
      BY <1>2, <1>4, <2>1, <2>2 DEF Refilled, Least
  <1>8. QED
    BY <1>5, <1>6, <1>7

\* try_acquire keeps the account: a token is taken for a request let through.
LEMMA AcquirePays ==
    ASSUME NEW l, Sound(l), NEW j \in Key,
           NEW a \in [Key -> [Ages -> Nat]], NEW c \in [Ages -> Nat],
           PaidFor(l, a, c)
    PROVE  /\ Sound(AfterAcquire(l, j))
           /\ PaidFor(AfterAcquire(l, j),
                      IF BucketAdmits(l, j) THEN [a EXCEPT ![j] = OneMore(@)] ELSE a,
                      c)
  <1> DEFINE spent == IF BucketAdmits(l, j) THEN Unit ELSE 0
             n == AfterAcquire(l, j)
             b == IF BucketAdmits(l, j) THEN [a EXCEPT ![j] = OneMore(@)] ELSE a
  <1>1. Unit \in Nat \ {0} /\ Refilled(l, j) \in Nat
    BY RefilledType, RateAssumption
  <1>2. spent \in Nat /\ spent <= Refilled(l, j)
    BY <1>1 DEF BucketAdmits
  <1>3. n = Take(l, j, spent)
    BY DEF AfterAcquire
  <1>4. /\ Sound(n)
        /\ Refilled(n, j) <= Refilled(l, j) - spent
        /\ \A k \in Key \ {j} : Refilled(n, k) = Refilled(l, k)
    <2> HIDE DEF spent
    <2>1. QED
      BY <1>2, <1>3, TakeOK
  <1>5. ASSUME NEW k \in Key, NEW w \in Ages
        PROVE  b[k][w] * Unit + Refilled(n, k)
                 <= (1 + c[w]) * (TopBurst * Unit) + w * TopRate
    <2>1. a[k][w] * Unit + Refilled(l, k)
             <= (1 + c[w]) * (TopBurst * Unit) + w * TopRate
      BY DEF PaidFor
    <2>2. b[k][w] * Unit + Refilled(n, k) <= a[k][w] * Unit + Refilled(l, k)
      <3>1. CASE k # j
        <4>1. b[k][w] = a[k][w] /\ Refilled(n, k) = Refilled(l, k)
          BY <1>4, <3>1
        <4>2. a[k][w] * Unit \in Nat /\ Refilled(l, k) \in Nat
          BY <1>1, RefilledType
        <4>3. QED
          BY <4>1, <4>2
      <3>2. CASE k = j /\ ~BucketAdmits(l, j)
        <4>1. Refilled(n, j) \in Nat /\ a[j][w] * Unit \in Nat
          BY <1>1, <1>4, RefilledType
        <4>2. QED
          BY <1>1, <1>4, <3>2, <4>1
      <3>3. CASE k = j /\ BucketAdmits(l, j)
        <4>1. b[j][w] = a[j][w] + 1 /\ a[j][w] \in Nat
          BY <3>3 DEF OneMore
        <4> HIDE DEF b
        <4>2. b[j][w] * Unit = a[j][w] * Unit + Unit /\ a[j][w] * Unit \in Nat
          BY <1>1, <4>1
        <4>3. Refilled(n, j) \in Nat
          BY <1>4, RefilledType
        <4>4. QED
          BY <1>1, <1>4, <3>3, <4>2, <4>3
      <3>4. QED
        BY <3>1, <3>2, <3>3
    <2>3. /\ a[k][w] * Unit + Refilled(l, k) \in Int
          /\ b[k][w] * Unit + Refilled(n, k) \in Int
      <3>1. Refilled(n, k) \in Nat /\ Refilled(l, k) \in Nat
        BY <1>4, RefilledType
      <3>2. b[k][w] \in Nat
        BY DEF OneMore
      <3>3. QED
        BY <1>1, <3>1, <3>2
    <2>4. (1 + c[w]) * (TopBurst * Unit) + w * TopRate \in Int
      <3>1. c[w] \in Nat
        OBVIOUS
      <3>2. (1 + c[w]) * (TopBurst * Unit) \in Nat /\ w * TopRate \in Nat
        BY <3>1, BoundType
      <3>3. QED
        BY <3>2
    <2>5. QED
      BY <2>1, <2>2, <2>3, <2>4
  <1>6. QED
    BY <1>4, <1>5 DEF PaidFor

\* A refill alone keeps the account.
LEMMA InspectPays ==
    ASSUME NEW l, Sound(l), NEW j \in Key,
           NEW a \in [Key -> [Ages -> Nat]], NEW c \in [Ages -> Nat],
           PaidFor(l, a, c)
    PROVE  Sound(Take(l, j, 0)) /\ PaidFor(Take(l, j, 0), a, c)
  <1> DEFINE n == Take(l, j, 0)
  <1>1. Unit \in Nat /\ \A k \in Key : Refilled(l, k) \in Nat
    BY RefilledType, RateAssumption
  <1>2. Sound(n) /\ \A k \in Key : Refilled(n, k) <= Refilled(l, k)
    BY <1>1, TakeOK
  <1>3. ASSUME NEW k \in Key, NEW w \in Ages
        PROVE  a[k][w] * Unit + Refilled(n, k)
                 <= (1 + c[w]) * (TopBurst * Unit) + w * TopRate
    <2>1. a[k][w] * Unit + Refilled(l, k)
             <= (1 + c[w]) * (TopBurst * Unit) + w * TopRate
      BY DEF PaidFor
    <2>2. a[k][w] * Unit \in Nat /\ Refilled(n, k) \in Nat
      BY <1>1, <1>2, RefilledType
    <2>3. (1 + c[w]) * (TopBurst * Unit) \in Nat /\ w * TopRate \in Nat
      BY BoundType
    <2>4. QED
      BY <1>1, <1>2, <2>1, <2>2, <2>3
  <1>4. QED
    BY <1>2, <1>3 DEF PaidFor

\* _update_rate keeps the account: the new buckets are paid by the change.
LEMMA UpdatePays ==
    ASSUME kind = "adaptive", NEW r \in Nat, r <= MaxRate, NEW l, Sound(l),
           NEW a \in [Key -> [Ages -> Nat]], NEW c \in [Ages -> Nat],
           PaidFor(l, a, c)
    PROVE  Sound(UpdateRate(r)) /\ PaidFor(UpdateRate(r), a, OneMore(c))
  <1> DEFINE b == WholeTokens(r)
             n == UpdateRate(r)
  <1>1. b \in Nat /\ b <= TopBurst /\ r <= TopRate /\ Unit \in Nat
    BY WholeTokensMonotone, RateAssumption DEF TopBurst, TopRate
  <1>2. b * Unit \in Nat
    BY <1>1
  <1>3. n = [rate |-> r, burst |-> b, tokens |-> [k \in Key |-> b * Unit],
             age |-> [k \in Key |-> 0]]
    BY DEF UpdateRate, NewLimiter
  <1>4. Sound(n)
    BY <1>1, <1>2, <1>3 DEF Sound
  <1>5. ASSUME NEW k \in Key, NEW w \in Ages
        PROVE  a[k][w] * Unit + Refilled(n, k)
                 <= (1 + OneMore(c)[w]) * (TopBurst * Unit) + w * TopRate
    <2>1. Refilled(n, k) = b * Unit
      <3>1. n.age[k] * n.rate = 0 /\ n.tokens[k] = b * Unit /\ n.burst = b
        BY <1>3
      <3>2. QED
        BY <1>2, <3>1 DEF Refilled, Least
    <2>2. TopBurst * Unit \in Nat /\ b * Unit <= TopBurst * Unit
      BY <1>1, TopTypes
    <2>3. (1 + OneMore(c)[w]) * (TopBurst * Unit)
            = (1 + c[w]) * (TopBurst * Unit) + TopBurst * Unit
      <3> DEFINE t == TopBurst * Unit
      <3>1. OneMore(c)[w] = c[w] + 1 /\ c[w] \in Nat /\ t \in Nat
        BY <2>2 DEF OneMore
      <3> HIDE DEF t
      <3>2. (1 + (c[w] + 1)) * t = (1 + c[w]) * t + t
        BY <3>1
      <3>3. QED
        BY <3>1, <3>2 DEF t
    <2>4. a[k][w] * Unit <= (1 + c[w]) * (TopBurst * Unit) + w * TopRate
      <3>1. a[k][w] * Unit + Refilled(l, k)
              <= (1 + c[w]) * (TopBurst * Unit) + w * TopRate
        BY DEF PaidFor
      <3>2. Refilled(l, k) \in Nat /\ a[k][w] * Unit \in Nat
        BY <1>1, RefilledType
      <3>3. (1 + c[w]) * (TopBurst * Unit) + w * TopRate \in Int
        BY BoundType
      <3>4. QED
        BY <3>1, <3>2, <3>3
    <2>5. a[k][w] * Unit \in Nat /\ w * TopRate \in Nat /\ (1 + c[w]) * (TopBurst * Unit) \in Nat
      BY <1>1, BoundType
    <2>6. QED
      BY <1>2, <2>1, <2>2, <2>3, <2>4, <2>5
  <1>6. QED
    BY <1>4, <1>5 DEF PaidFor

\* A tick keeps the account: a bucket gains at most what the stretch gains.
LEMMA TickPays ==
    ASSUME NEW l, Sound(l),
           NEW a \in [Key -> [Ages -> Nat]], NEW c \in [Ages -> Nat],
           PaidFor(l, a, c)
    PROVE  /\ Sound(Aged(l))
           /\ PaidFor(Aged(l), [k \in Key |-> Shifted(a[k])], Shifted(c))
  <1> DEFINE n == Aged(l)
  <1>1. /\ Unit \in Nat \ {0} /\ Horizon \in Nat /\ TopRate \in Nat /\ TopBurst \in Nat
        /\ TopBurst * Unit \in Nat
    BY RateAssumption, HorizonAssumption, TopTypes
  <1>2. /\ n \in [rate : Nat, burst : Nat, tokens : [Key -> Nat], age : [Key -> Nat]]
        /\ n.rate = l.rate /\ n.burst = l.burst /\ n.tokens = l.tokens
        /\ \A k \in Key : n.age[k] <= l.age[k] + 1
    BY <1>1 DEF Aged, Sound, Older, Least
  <1>3. Sound(n)
    BY <1>2 DEF Sound
  <1>4. ASSUME NEW k \in Key PROVE Refilled(n, k) <= Refilled(l, k) + TopRate
    <2>1. /\ l.age[k] \in Nat /\ n.age[k] \in Nat /\ l.rate \in Nat /\ l.rate <= TopRate
          /\ l.tokens[k] \in Nat /\ l.burst * Unit \in Nat
      BY <1>1, <1>2 DEF Sound
    <2>2. n.age[k] * l.rate <= (l.age[k] + 1) * l.rate
      BY <1>2, <2>1
    <2>3. (l.age[k] + 1) * l.rate = l.age[k] * l.rate + l.rate
      BY <2>1
    <2>4. l.age[k] * l.rate \in Nat /\ n.age[k] * l.rate \in Nat
      BY <2>1
    <2>5. QED
      BY <1>1, <1>2, <2>1, <2>2, <2>3, <2>4 DEF Refilled, Least
  <1>5. ASSUME NEW k \in Key, NEW w \in Ages
        PROVE  Shifted(a[k])[w] * Unit + Refilled(n, k)
                 <= (1 + Shifted(c)[w]) * (TopBurst * Unit) + w * TopRate
    <2>1. Refilled(n, k) \in Nat /\ Refilled(l, k) \in Nat
      BY <1>3, RefilledType
    <2>2. CASE w = 0
      <3>1. Shifted(a[k])[w] = 0 /\ Shifted(c)[w] = 0
        BY <2>2 DEF Shifted
      <3>2. Refilled(n, k) <= n.burst * Unit
        <4>1. n.burst * Unit \in Nat /\ n.tokens[k] \in Nat /\ n.age[k] * n.rate \in Nat
          BY <1>1, <1>2
        <4>2. QED
          BY <4>1 DEF Refilled, Least
      <3>3. n.burst * Unit <= TopBurst * Unit
        BY <1>1, <1>3 DEF Sound
      <3>4. n.burst * Unit \in Nat /\ w * TopRate = 0
        BY <1>1, <1>2, <2>2
      <3>5. QED
        BY <1>1, <2>1, <3>1, <3>2, <3>3, <3>4
    <2>3. CASE w # 0
      <3>1. w - 1 \in Ages /\ w \in Nat
        BY <1>1, <2>3 DEF Ages
      <3>2. Shifted(a[k])[w] = a[k][w - 1] /\ Shifted(c)[w] = c[w - 1]
        BY <2>3 DEF Shifted
      <3>3. a[k][w - 1] * Unit + Refilled(l, k)
              <= (1 + c[w - 1]) * (TopBurst * Unit) + (w - 1) * TopRate
        BY <3>1 DEF PaidFor
      <3>4. (w - 1) * TopRate + TopRate = w * TopRate
        BY <1>1, <3>1
      <3>5. /\ a[k][w - 1] * Unit \in Nat /\ (w - 1) * TopRate \in Int
            /\ (1 + c[w - 1]) * (TopBurst * Unit) \in Int
        BY <1>1, <3>1
      <3>6. QED
        BY <1>1, <1>4, <2>1, <3>2, <3>3, <3>4, <3>5
    <2>4. QED
      BY <2>2, <2>3
  <1>6. QED
    BY <1>3, <1>5 DEF PaidFor

\* At the start every bucket is full and nothing was admitted.
LEMMA InitOK == Init => IInv
  <1> SUFFICES ASSUME Init PROVE IInv
    OBVIOUS
  <1>1. HistoryOK
    BY DEF Init, HistoryOK
  <1>2. ASSUME kind # "window" PROVE Sound(limiter) /\ PaidFor(limiter, admitted, changes)
    <2> DEFINE r == IF kind = "adaptive" THEN InitialRate ELSE Rate
               b == IF kind = "adaptive" THEN WholeTokens(InitialRate) ELSE Burst
    <2>1. limiter = NewLimiter(r, b)
      BY DEF Init, UpdateRate
    <2>2. r \in Nat /\ b \in Nat /\ r <= TopRate /\ b <= TopBurst /\ Unit \in Nat
      BY RateAssumption, WholeTokensMonotone DEF TopRate, TopBurst
    <2> HIDE DEF r, b
    <2>3. b * Unit \in Nat
      BY <2>2
    <2>4. Sound(limiter)
      BY <2>1, <2>2, <2>3 DEF Sound, NewLimiter
    <2>5. ASSUME NEW k \in Key, NEW w \in Ages
          PROVE  admitted[k][w] * Unit + Refilled(limiter, k)
                   <= (1 + changes[w]) * (TopBurst * Unit) + w * TopRate
      <3>1. admitted[k][w] = 0 /\ changes[w] = 0
        BY DEF Init
      <3>2. Refilled(limiter, k) = b * Unit
        <4>1. limiter.age[k] * limiter.rate = 0 /\ limiter.tokens[k] = b * Unit
              /\ limiter.burst = b
          BY <2>1, <2>2 DEF NewLimiter
        <4>2. QED
          BY <2>3, <4>1 DEF Refilled, Least
      <3>3. TopBurst * Unit \in Nat /\ b * Unit <= TopBurst * Unit
        BY <2>2, TopTypes
      <3>4. w * TopRate \in Nat
        BY BoundType
      <3>5. QED
        BY <2>2, <2>3, <3>1, <3>2, <3>3, <3>4
    <2>6. QED
      BY <2>4, <2>5 DEF PaidFor
  <1>3. QED
    BY <1>1, <1>2 DEF IInv

\* The rates an adaptive limiter changes to.
LEMMA NewRates ==
    ASSUME kind = "adaptive", Sound(limiter), NEW d \in Nat
    PROVE  /\ AdjustedRate \in Nat /\ AdjustedRate <= MaxRate
           /\ PressedRate(d) \in Nat /\ PressedRate(d) <= MaxRate
  <1>1. /\ limiter.rate \in Nat /\ limiter.rate <= MaxRate
        /\ MinRate \in Nat /\ MaxRate \in Nat /\ MinRate <= MaxRate
    BY RateAssumption DEF Sound, TopRate
  <1>2. AdjustedRate \in Nat /\ AdjustedRate <= MaxRate
    <2>1. (limiter.rate * 8) \div 10 \in Nat /\ (limiter.rate * 8) \div 10 <= limiter.rate
      BY <1>1, FractionShrinks
    <2>2. (limiter.rate * 11) \div 10 \in Nat
      BY <1>1
    <2>3. QED
      BY <1>1, <2>1, <2>2 DEF AdjustedRate, Greatest, Least
  <1>3. PressedRate(d) \in Nat /\ PressedRate(d) <= MaxRate
    <2>1. Span \in Nat \ {0} /\ Pressure(d) \in 0 .. Span
      BY PressureAssumption DEF Span, Pressure, Least, Greatest
    <2>2. 2 * Span \in Nat \ {0} /\ 2 * Span - Pressure(d) \in Nat
          /\ 2 * Span - Pressure(d) <= 2 * Span
      BY <2>1
    <2> DEFINE q == (limiter.rate * (2 * Span - Pressure(d))) \div (2 * Span)
    <2>3. q \in Nat /\ q <= limiter.rate
      BY <1>1, <2>2, FractionShrinks
    <2> HIDE DEF q
    <2>4. Greatest(MinRate, q) \in Nat /\ Greatest(MinRate, q) <= MaxRate
      BY <1>1, <2>3 DEF Greatest
    <2>5. QED
      BY <2>4 DEF PressedRate, q
  <1>4. QED
    BY <1>2, <1>3

\* Every step keeps the account balanced.
LEMMA StepOK == IInv /\ [Next]_vars => IInv'
  <1> SUFFICES ASSUME IInv, [Next]_vars PROVE IInv'
    OBVIOUS
  <1>1. HistoryOK
    BY DEF IInv
  <1>2. /\ kind' = kind => TopRate' = TopRate /\ TopBurst' = TopBurst
        /\ \A x \in [Ages -> Nat] : OneMore(x) \in [Ages -> Nat]
        /\ \A x \in [Ages -> Nat] : Shifted(x) \in [Ages -> Nat]
    <2>1. ASSUME NEW x \in [Ages -> Nat] PROVE OneMore(x) \in [Ages -> Nat]
      BY DEF OneMore
    <2>2. ASSUME NEW x \in [Ages -> Nat] PROVE Shifted(x) \in [Ages -> Nat]
      BY HorizonAssumption DEF Shifted, Ages
    <2>3. QED
      BY <2>1, <2>2 DEF TopRate, TopBurst
  <1>3. ASSUME kind' = kind, limiter' = limiter, admitted' = admitted, changes' = changes
        PROVE  IInv'
    BY <1>2, <1>3 DEF IInv, HistoryOK, Sound, PaidFor, Refilled
  <1>4. ASSUME NEW k \in Key, BucketAcquire(k) PROVE IInv'
    <2>1. kind' = kind /\ changes' = changes /\ kind # "window"
      BY <1>4 DEF BucketAcquire
    <2>2. /\ limiter' = AfterAcquire(limiter, k)
          /\ admitted' = IF BucketAdmits(limiter, k)
                         THEN [admitted EXCEPT ![k] = OneMore(@)] ELSE admitted
      BY <1>4 DEF BucketAcquire, Count
    <2>3. Sound(limiter') /\ PaidFor(limiter', admitted', changes)
      BY <1>1, <2>1, <2>2, AcquirePays DEF IInv, HistoryOK
    <2>4. HistoryOK'
      BY <1>1, <1>2, <2>1, <2>2 DEF HistoryOK
    <2>5. QED
      BY <1>2, <2>1, <2>3, <2>4 DEF IInv, Sound, PaidFor, Refilled
  <1>5. ASSUME NEW k \in Key, WindowAcquire(k) PROVE IInv'
    <2>1. kind' = kind /\ changes' = changes /\ kind = "window"
      BY <1>5 DEF WindowAcquire
    <2>2. admitted' = IF WindowAdmits(k)
                      THEN [admitted EXCEPT ![k] = OneMore(@)] ELSE admitted
      BY <1>5 DEF WindowAcquire, Count
    <2>3. HistoryOK'
      BY <1>1, <1>2, <2>1, <2>2 DEF HistoryOK
    <2>4. QED
      BY <2>1, <2>3 DEF IInv
  <1>6. ASSUME NEW k \in Key, AdaptiveAcquire(k) PROVE IInv'
    <2> DEFINE l == IF Adjusts THEN UpdateRate(AdjustedRate) ELSE limiter
               c == IF Adjusts THEN OneMore(changes) ELSE changes
    <2>1. kind' = kind /\ kind = "adaptive" /\ changes' = c
      BY <1>6 DEF AdaptiveAcquire
    <2>2. /\ limiter' = AfterAcquire(l, k)
          /\ admitted' = IF BucketAdmits(l, k)
                         THEN [admitted EXCEPT ![k] = OneMore(@)] ELSE admitted
      BY <1>6 DEF AdaptiveAcquire, Count
    <2>3. Sound(limiter) /\ PaidFor(limiter, admitted, changes)
      BY <2>1 DEF IInv
    <2>4. c \in [Ages -> Nat]
      BY <1>1, <1>2 DEF HistoryOK
    <2>5. Sound(l) /\ PaidFor(l, admitted, c)
      <3>1. CASE Adjusts
        <4>1. AdjustedRate \in Nat /\ AdjustedRate <= MaxRate
          BY <2>1, <2>3, NewRates
        <4>2. Sound(UpdateRate(AdjustedRate))
              /\ PaidFor(UpdateRate(AdjustedRate), admitted, OneMore(changes))
          BY <1>1, <2>1, <2>3, <4>1, UpdatePays DEF HistoryOK
        <4>3. QED
          BY <3>1, <4>2
      <3>2. CASE ~Adjusts
        BY <2>3, <3>2
      <3>3. QED
        BY <3>1, <3>2
    <2> HIDE DEF l, c
    <2>6. Sound(limiter') /\ PaidFor(limiter', admitted', c)
      BY <1>1, <2>2, <2>4, <2>5, AcquirePays DEF HistoryOK
    <2>7. HistoryOK'
      BY <1>1, <1>2, <2>1, <2>2, <2>4 DEF HistoryOK
    <2>8. QED
      BY <1>2, <2>1, <2>6, <2>7 DEF IInv, Sound, PaidFor, Refilled
  <1>7. ASSUME NEW k \in Key, Inspect(k) PROVE IInv'
    <2>1. /\ kind' = kind /\ admitted' = admitted /\ changes' = changes
          /\ limiter' = IF kind = "bucket" THEN Take(limiter, k, 0) ELSE limiter
      BY <1>7 DEF Inspect
    <2>2. CASE kind # "bucket"
      BY <1>3, <2>1, <2>2
    <2>3. CASE kind = "bucket"
      <3>1. Sound(limiter) /\ PaidFor(limiter, admitted, changes)
        BY <2>3 DEF IInv
      <3>2. Sound(limiter') /\ PaidFor(limiter', admitted, changes)
        BY <1>1, <2>1, <2>3, <3>1, InspectPays DEF HistoryOK
      <3>3. QED
        BY <1>1, <1>2, <2>1, <3>2 DEF IInv, HistoryOK, Sound, PaidFor, Refilled
    <2>4. QED
      BY <2>2, <2>3
  <1>8. ASSUME NEW d \in Depths, UpdateQueueDepth(d) PROVE IInv'
    <2> DEFINE presses == kind = "adaptive" /\ 2 * Pressure(d) > Span
    <2>1. /\ kind' = kind /\ admitted' = admitted
          /\ limiter' = IF presses THEN UpdateRate(PressedRate(d)) ELSE limiter
          /\ changes' = IF presses THEN OneMore(changes) ELSE changes
      BY <1>8 DEF UpdateQueueDepth
    <2>2. CASE ~presses
      BY <1>3, <2>1, <2>2
    <2>3. CASE presses
      <3>1. Sound(limiter) /\ PaidFor(limiter, admitted, changes) /\ kind = "adaptive"
        BY <2>3 DEF IInv
      <3>2. PressedRate(d) \in Nat /\ PressedRate(d) <= MaxRate
        BY <3>1, NewRates, PressureAssumption
      <3>3. Sound(limiter') /\ PaidFor(limiter', admitted, changes')
        BY <1>1, <2>1, <2>3, <3>1, <3>2, UpdatePays DEF HistoryOK
      <3>4. HistoryOK'
        BY <1>1, <1>2, <2>1, <2>3 DEF HistoryOK
      <3>5. QED
        BY <1>2, <2>1, <3>3, <3>4 DEF IInv, Sound, PaidFor, Refilled
    <2>4. QED
      BY <2>2, <2>3
  <1>9. ASSUME Tick PROVE IInv'
    <2>1. /\ kind' = kind /\ limiter' = Aged(limiter)
          /\ admitted' = [k \in Key |-> Shifted(admitted[k])]
          /\ changes' = Shifted(changes)
      BY <1>9 DEF Tick
    <2>2. HistoryOK'
      BY <1>1, <1>2, <2>1 DEF HistoryOK
    <2>3. ASSUME kind # "window"
          PROVE  Sound(limiter') /\ PaidFor(limiter', admitted', changes')
      BY <1>1, <2>1, <2>3, TickPays DEF IInv, HistoryOK
    <2>4. QED
      BY <1>2, <2>1, <2>2, <2>3 DEF IInv, Sound, PaidFor, Refilled
  <1>10. CASE UNCHANGED vars
    BY <1>3, <1>10 DEF vars
  <1>11. ASSUME NEW k \in Key, Shed(k) PROVE IInv'
    BY <1>3, <1>11 DEF Shed, vars
  <1>12. ASSUME NEW c \in LatencyClasses \ {"none"}, RecordLatency(c) PROVE IInv'
    BY <1>3, <1>12 DEF RecordLatency
  <1>13. QED
    BY <1>4, <1>5, <1>6, <1>7, <1>8, <1>9, <1>10, <1>11, <1>12 DEF Next, Acquire

\* The account bounds what was admitted: RateBound holds for any keys, rates,
\* bursts, thresholds and depths, and at any time.
THEOREM RateSafety == Spec => []RateBound
  <1>1. IInv => RateBound
    <2> SUFFICES ASSUME IInv, kind # "window", NEW k \in Key, NEW w \in Ages
                 PROVE  admitted[k][w] * Unit
                          <= (1 + changes[w]) * TopBurst * Unit + w * TopRate
      BY DEF RateBound
    <2>1. admitted[k][w] * Unit + Refilled(limiter, k)
            <= (1 + changes[w]) * (TopBurst * Unit) + w * TopRate
      BY DEF IInv, PaidFor
    <2>2. admitted[k][w] \in Nat /\ changes[w] \in Nat /\ Unit \in Nat /\ TopBurst \in Nat
      BY RateAssumption, TopTypes DEF IInv, HistoryOK
    <2>3. (1 + changes[w]) * TopBurst * Unit = (1 + changes[w]) * (TopBurst * Unit)
      BY <2>2
    <2>4. Refilled(limiter, k) \in Nat
      BY RefilledType DEF IInv
    <2>5. admitted[k][w] * Unit \in Nat
      BY <2>2
    <2>6. (1 + changes[w]) * (TopBurst * Unit) \in Nat /\ w * TopRate \in Nat
      BY <2>2, BoundType
    <2>7. QED
      BY <2>1, <2>3, <2>4, <2>5, <2>6
  <1>2. QED
    BY <1>1, InitOK, StepOK, PTL DEF Spec

-----------------------------------------------------------------------------
(* The sliding window. *)

\* The window s and the history c of admissions agree: for any w within the
\* window the last c[w] entries of s, and no others, are at most w ticks old.
Agrees(s, c) ==
    /\ s \in Seq(Ages)
    /\ Len(s) <= MaxRequests
    /\ \A w \in 0 .. WindowLength :
          /\ c[w] <= Len(s)
          /\ \A i \in 1 .. Len(s) : s[i] <= w <=> i > Len(s) - c[w]

WindowInv ==
    /\ window \in [Key -> Seq(Ages)]
    /\ kind = "window" => \A k \in Key : Agrees(window[k], admitted[k])

\* _cleanup_window leaves the entries that the history counts.
LEMMA CleanedWindow ==
    ASSUME NEW s, NEW c \in [Ages -> Nat], Agrees(s, c)
    PROVE  LET t == PoppedWhile(s, WindowLength)
           IN  /\ t \in Seq(Ages) /\ Len(t) = c[WindowLength]
               /\ Agrees(t, c)
  <1> DEFINE n == Len(s) - c[WindowLength]
             t == SubSeq(s, n + 1, Len(s))
  <1>1. /\ WindowLength \in Nat /\ Horizon \in Nat /\ WindowLength < Horizon
        /\ MaxRequests \in Nat /\ Ages \subseteq Int
        /\ \A w \in 0 .. WindowLength : w \in Ages /\ w \in Int
    BY WindowAssumption, HorizonAssumption DEF Ages
  <1>2. /\ s \in Seq(Ages) /\ Len(s) \in Nat /\ c[WindowLength] \in Nat
        /\ c[WindowLength] <= Len(s) /\ n \in 0 .. Len(s)
        /\ \A i \in 1 .. Len(s) : s[i] \in Int /\ (s[i] <= WindowLength <=> i > n)
    <2>1. s \in Seq(Ages) /\ Len(s) \in Nat /\ \A i \in 1 .. Len(s) : s[i] \in Int
      BY <1>1, LenProperties DEF Agrees
    <2>2. c[WindowLength] \in Nat /\ c[WindowLength] <= Len(s)
      BY <1>1 DEF Agrees
    <2>3. \A i \in 1 .. Len(s) : s[i] <= WindowLength <=> i > n
      BY <1>1 DEF Agrees
    <2>4. QED
      BY <2>1, <2>2, <2>3
  <1> HIDE DEF n
  <1>3. Pops(s, n, WindowLength)
    BY <1>1, <1>2 DEF Pops
  <1>4. ASSUME NEW m \in 0 .. Len(s), Pops(s, m, WindowLength) PROVE m = n
    <2>1. m < Len(s) => m + 1 > n
      BY <1>1, <1>2, <1>4 DEF Pops
    <2>2. ASSUME m > n PROVE FALSE
      <3>1. n + 1 \in 1 .. m /\ n + 1 \in 1 .. Len(s)
        BY <1>2, <2>2
      <3>2. s[n + 1] > WindowLength /\ s[n + 1] <= WindowLength
        BY <1>2, <1>4, <3>1 DEF Pops
      <3>3. QED
        BY <1>1, <1>2, <3>1, <3>2
    <2>3. Len(s) \in Int /\ m \in Int /\ n \in Int /\ m <= Len(s) /\ n <= Len(s)
      BY <1>2
    <2>4. QED
      BY <2>1, <2>2, <2>3
  <1>5. (CHOOSE m \in 0 .. Len(s) : Pops(s, m, WindowLength)) = n
    BY <1>2, <1>3, <1>4
  <1>6. PoppedWhile(s, WindowLength) = t
    BY <1>5 DEF PoppedWhile
  <1>7. /\ t \in Seq(Ages) /\ Len(t) = Len(s) - n
        /\ \A i \in 1 .. Len(s) - n : t[i] = s[n + i]
    <2>1. n + 1 \in 1 .. Len(s) + 1 /\ Len(s) \in (n + 1) - 1 .. Len(s)
      BY <1>2
    <2>2. QED
      BY <1>2, <2>1, SubSeqProperties
  <1> HIDE DEF t
  <1>8. Len(t) = c[WindowLength]
    BY <1>2, <1>7 DEF n
  <1>9. ASSUME NEW w \in 0 .. WindowLength
        PROVE  c[w] <= Len(t)
    <2>1. c[w] \in Nat /\ c[w] <= Len(s) /\ w <= WindowLength
      BY <1>1 DEF Agrees
    <2>2. CASE c[w] = 0
      BY <1>2, <1>8, <2>2
    <2>3. CASE c[w] # 0
      <3> DEFINE i == Len(s) - c[w] + 1
      <3>1. i \in 1 .. Len(s) /\ i > Len(s) - c[w]
        BY <1>2, <2>1, <2>3
      <3>2. s[i] <= w
        BY <3>1 DEF Agrees
      <3>3. s[i] <= WindowLength
        BY <1>1, <1>2, <2>1, <3>1, <3>2
      <3>4. i > n
        BY <1>2, <3>1, <3>3
      <3>5. QED
        BY <1>2, <1>7, <2>1, <3>4
    <2>4. QED
      BY <2>2, <2>3
  <1>10. ASSUME NEW w \in 0 .. WindowLength, NEW i \in 1 .. Len(t)
         PROVE  t[i] <= w <=> i > Len(t) - c[w]
    <2>1. c[w] \in Nat /\ i \in Int
      BY <1>1
    <2>2. n + i \in 1 .. Len(s) /\ t[i] = s[n + i] /\ Len(t) = Len(s) - n
      BY <1>2, <1>7
    <2>3. s[n + i] <= w <=> n + i > Len(s) - c[w]
      BY <2>2 DEF Agrees
    <2>4. Len(s) \in Int /\ n \in Int /\ c[w] \in Int /\ i \in Int
      BY <1>2, <2>1
    <2>5. n + i > Len(s) - c[w] <=> i > (Len(s) - n) - c[w]
      BY <2>4
    <2>6. QED
      BY <2>2, <2>3, <2>5
  <1>11. Len(t) <= MaxRequests
    BY <1>1, <1>2, <1>7 DEF Agrees
  <1>12. QED
    BY <1>6, <1>7, <1>8, <1>9, <1>10, <1>11 DEF Agrees

\* An entry that is appended is counted.
LEMMA AppendedWindow ==
    ASSUME NEW s, NEW c \in [Ages -> Nat], Agrees(s, c), Len(s) < MaxRequests
    PROVE  Agrees(Append(s, 0), OneMore(c))
  <1> DEFINE t == Append(s, 0)
  <1>1. /\ WindowLength \in Nat /\ MaxRequests \in Nat /\ 0 \in Ages
        /\ \A w \in 0 .. WindowLength : w \in Ages /\ w \in Int /\ w >= 0
    BY WindowAssumption, HorizonAssumption DEF Ages
  <1>2. s \in Seq(Ages) /\ Len(s) \in Nat
    BY LenProperties DEF Agrees
  <1>3. /\ t \in Seq(Ages) /\ Len(t) = Len(s) + 1
        /\ \A i \in 1 .. Len(s) : t[i] = s[i]
        /\ t[Len(s) + 1] = 0
    BY <1>1, <1>2, AppendProperties
  <1> HIDE DEF t
  <1>4. ASSUME NEW w \in 0 .. WindowLength
        PROVE  /\ OneMore(c)[w] <= Len(t)
               /\ \A i \in 1 .. Len(t) : t[i] <= w <=> i > Len(t) - OneMore(c)[w]
    <2>1. OneMore(c)[w] = c[w] + 1 /\ c[w] \in Nat /\ c[w] <= Len(s)
      BY <1>1 DEF OneMore, Agrees
    <2>2. ASSUME NEW i \in 1 .. Len(t)
          PROVE  t[i] <= w <=> i > Len(t) - OneMore(c)[w]
      <3>1. CASE i = Len(s) + 1
        BY <1>1, <1>2, <1>3, <2>1, <3>1
      <3>2. CASE i # Len(s) + 1
        <4>1. i \in 1 .. Len(s) /\ t[i] = s[i]
          BY <1>2, <1>3, <3>2
        <4>2. s[i] <= w <=> i > Len(s) - c[w]
          BY <4>1 DEF Agrees
        <4>3. QED
          BY <1>2, <1>3, <2>1, <4>1, <4>2
      <3>3. QED
        BY <3>1, <3>2
    <2>3. QED
      BY <1>2, <1>3, <2>1, <2>2
  <1>5. QED
    BY <1>1, <1>2, <1>3, <1>4 DEF Agrees, t

\* A tick ages the entries and the history alike.
LEMMA TickedWindow ==
    ASSUME NEW s, NEW c \in [Ages -> Nat], Agrees(s, c)
    PROVE  Agrees([i \in DOMAIN s |-> Older(s[i])], Shifted(c))
  <1> DEFINE t == [i \in DOMAIN s |-> Older(s[i])]
  <1>1. /\ WindowLength \in Nat /\ Horizon \in Nat /\ WindowLength < Horizon
        /\ \A a \in Ages : a \in Int /\ a >= 0 /\ a <= Horizon /\ Older(a) \in Ages
        /\ \A w \in 0 .. WindowLength : w \in Ages /\ w \in Int /\ w >= 0
    BY WindowAssumption, HorizonAssumption DEF Ages, Older, Least
  <1>2. s \in Seq(Ages) /\ Len(s) \in Nat /\ DOMAIN s = 1 .. Len(s)
        /\ \A i \in 1 .. Len(s) : s[i] \in Ages
    BY LenProperties DEF Agrees
  <1>3. t \in Seq(Ages) /\ Len(t) = Len(s) /\ \A i \in 1 .. Len(s) : t[i] = Older(s[i])
    BY <1>1, <1>2
  <1> HIDE DEF t
  <1>4. \A a \in Ages, w \in 0 .. WindowLength : Older(a) <= w <=> a <= w - 1
    BY <1>1 DEF Older, Least
  <1>5. ASSUME NEW w \in 0 .. WindowLength
        PROVE  /\ Shifted(c)[w] <= Len(t)
               /\ \A i \in 1 .. Len(t) : t[i] <= w <=> i > Len(t) - Shifted(c)[w]
    <2>1. CASE w = 0
      <3>1. Shifted(c)[w] = 0
        BY <1>1, <2>1 DEF Shifted
      <3>2. \A a \in Ages : ~(Older(a) <= 0)
        BY <1>1 DEF Older, Least
      <3>3. \A i \in 1 .. Len(s) : ~(t[i] <= 0)
        BY <1>2, <1>3, <3>2
      <3>4. QED
        BY <1>2, <1>3, <2>1, <3>1, <3>3
    <2>2. CASE w # 0
      <3>1. w - 1 \in 0 .. WindowLength
        BY <1>1, <2>2
      <3>2. Shifted(c)[w] = c[w - 1]
        BY <1>1, <2>2 DEF Shifted
      <3>3. \A i \in 1 .. Len(s) : t[i] <= w <=> s[i] <= w - 1
        BY <1>2, <1>3, <1>4
      <3>4. QED
        BY <1>2, <1>3, <3>1, <3>2, <3>3 DEF Agrees
    <2>3. QED
      BY <2>1, <2>2
  <1>6. QED
    BY <1>2, <1>3, <1>5 DEF Agrees, t

\* Every step keeps the windows and the history in agreement.
LEMMA StepWindow ==
    ASSUME HistoryOK, WindowInv, [Next]_vars
    PROVE  WindowInv'
  <1> USE DEF HistoryOK, WindowInv
  <1>1. ASSUME NEW k \in Key, WindowAcquire(k) PROVE WindowInv'
    <2> DEFINE t == PoppedWhile(window[k], WindowLength)
    <2>1. /\ kind = "window" /\ kind' = "window"
          /\ window' = [window EXCEPT ![k] =
                          IF Len(t) < MaxRequests THEN Append(t, 0) ELSE t]
          /\ admitted' = IF Len(t) < MaxRequests
                         THEN [admitted EXCEPT ![k] = OneMore(@)] ELSE admitted
      BY <1>1 DEF WindowAcquire, WindowAdmits, Cleaned, Count
    <2>2. Agrees(t, admitted[k])
      BY <2>1, CleanedWindow
    <2> HIDE DEF t
    <2>3. Len(t) < MaxRequests => Agrees(Append(t, 0), OneMore(admitted[k]))
      BY <2>2, AppendedWindow
    <2>4. Agrees(window'[k], admitted'[k])
      BY <2>1, <2>2, <2>3
    <2>5. \A j \in Key \ {k} : window'[j] = window[j] /\ admitted'[j] = admitted[j]
      BY <2>1
    <2>6. \A j \in Key : Agrees(window'[j], admitted'[j])
      BY <2>1, <2>4, <2>5
    <2>7. window' \in [Key -> Seq(Ages)]
      BY <2>1, <2>6 DEF Agrees
    <2>8. QED
      BY <2>6, <2>7
  <1>2. ASSUME NEW k \in Key, Inspect(k) PROVE WindowInv'
    <2> DEFINE t == PoppedWhile(window[k], WindowLength)
    <2>1. /\ kind' = kind /\ admitted' = admitted
          /\ window' = IF kind = "window" THEN [window EXCEPT ![k] = t] ELSE window
      BY <1>2 DEF Inspect, Cleaned
    <2>2. kind = "window" => Agrees(t, admitted[k])
      BY CleanedWindow
    <2> HIDE DEF t
    <2>3. kind = "window" => \A j \in Key : Agrees(window'[j], admitted'[j])
      BY <2>1, <2>2
    <2>4. window' \in [Key -> Seq(Ages)]
      BY <2>1, <2>3 DEF Agrees
    <2>5. QED
      BY <2>1, <2>3, <2>4
  <1>3. ASSUME Tick PROVE WindowInv'
    <2>1. /\ kind' = kind
          /\ window' = [k \in Key |-> [i \in DOMAIN window[k] |-> Older(window[k][i])]]
          /\ admitted' = [k \in Key |-> Shifted(admitted[k])]
      BY <1>3 DEF Tick
    <2>2. ASSUME NEW k \in Key PROVE window'[k] \in Seq(Ages)
      <3>1. /\ window[k] \in Seq(Ages) /\ Len(window[k]) \in Nat
            /\ DOMAIN window[k] = 1 .. Len(window[k])
            /\ \A i \in 1 .. Len(window[k]) : window[k][i] \in Ages
        BY LenProperties
      <3>2. \A a \in Ages : Older(a) \in Ages
        BY HorizonAssumption DEF Ages, Older, Least
      <3>3. QED
        BY <2>1, <3>1, <3>2
    <2>3. ASSUME NEW k \in Key, kind = "window" PROVE Agrees(window'[k], admitted'[k])
      BY <2>1, <2>3, TickedWindow
    <2>4. QED
      BY <2>1, <2>2, <2>3
  <1>4. ASSUME kind' = kind, window' = window, kind # "window" \/ admitted' = admitted
        PROVE  WindowInv'
    BY <1>4
  <1>5. QED
    BY <1>1, <1>2, <1>3, <1>4 DEF Next, Acquire, BucketAcquire, AdaptiveAcquire, Shed,
       RecordLatency, UpdateQueueDepth, vars

\* No entries, and no admissions.
LEMMA InitWindow == Init => WindowInv
  <1>1. ASSUME Init, NEW k \in Key PROVE Agrees(window[k], admitted[k])
    <2>1. window[k] = <<>> /\ \A w \in Ages : admitted[k][w] = 0
      BY <1>1 DEF Init
    <2>2. <<>> \in Seq(Ages) /\ Len(<<>>) = 0 /\ MaxRequests \in Nat
      BY WindowAssumption
    <2>3. \A w \in 0 .. WindowLength : w \in Ages
      BY WindowAssumption, HorizonAssumption DEF Ages
    <2>4. QED
      BY <2>1, <2>2, <2>3 DEF Agrees
  <1>2. QED
    BY <1>1 DEF Init, WindowInv, Agrees

\* SlidingWindowLimiter keeps its promise for every stretch of window_seconds, not
\* only for those that begin with an entry: the entries that _cleanup_window leaves
\* are exactly the requests admitted within the window.
THEOREM WindowSafety == Spec => []WindowBound
  <1>1. Init => WindowInv
    BY InitWindow
  <1>2. HistoryOK /\ WindowInv => WindowBound
    <2>1. MaxRequests \in Nat /\ WindowLength \in 0 .. WindowLength /\ WindowLength \in Ages
      BY WindowAssumption, HorizonAssumption DEF Ages
    <2>2. ASSUME HistoryOK, WindowInv, kind = "window", NEW k \in Key
          PROVE  admitted[k][WindowLength] <= MaxRequests
      <3>1. admitted[k][WindowLength] \in Nat /\ Len(window[k]) \in Nat
        BY <2>1, <2>2, LenProperties DEF HistoryOK, WindowInv
      <3>2. admitted[k][WindowLength] <= Len(window[k]) /\ Len(window[k]) <= MaxRequests
        BY <2>1, <2>2 DEF WindowInv, Agrees
      <3>3. QED
        BY <2>1, <3>1, <3>2
    <2>3. QED
      BY <2>2 DEF WindowBound
  <1>3. IInv => HistoryOK
    BY DEF IInv
  <1>4. HistoryOK /\ WindowInv /\ [Next]_vars => WindowInv'
    BY StepWindow
  <1>5. QED
    BY <1>1, <1>2, <1>3, <1>4, InitOK, StepOK, PTL DEF Spec

-----------------------------------------------------------------------------
(* Types. *)

\* A limiter whose rate is r and that holds no more tokens than its burst b.
Buckets(l, r, b) ==
    /\ l.rate = r /\ l.burst = b
    /\ l.tokens \in [Key -> 0 .. b * Unit]
    /\ l.age \in [Key -> Ages]

\* New buckets, a use of a bucket and a tick keep every bucket within the burst.
LEMMA BucketTypes ==
    ASSUME NEW r \in Nat, NEW b \in Nat
    PROVE  /\ Buckets(NewLimiter(r, b), r, b)
           /\ \A l : Buckets(l, r, b) =>
                 /\ Buckets(Aged(l), r, b)
                 /\ \A k \in Key : /\ Buckets(AfterAcquire(l, k), r, b)
                                   /\ Buckets(Take(l, k, 0), r, b)
  <1>1. b * Unit \in Nat /\ 0 \in Ages /\ Unit \in Nat /\ \A a \in Ages : Older(a) \in Ages /\ a \in Nat
    BY RateAssumption, HorizonAssumption DEF Ages, Older, Least
  <1>2. Buckets(NewLimiter(r, b), r, b)
    BY <1>1 DEF Buckets, NewLimiter
  <1>3. ASSUME NEW l, Buckets(l, r, b) PROVE Buckets(Aged(l), r, b)
    BY <1>1, <1>3 DEF Buckets, Aged
  <1>4. ASSUME NEW l, Buckets(l, r, b), NEW k \in Key
        PROVE  Refilled(l, k) \in 0 .. b * Unit
    <2>1. l.tokens[k] \in Nat /\ l.age[k] * l.rate \in Nat /\ l.burst = b
      <3>1. l.age[k] \in Nat /\ l.rate \in Nat /\ l.tokens[k] \in 0 .. b * Unit
        BY <1>1, <1>4 DEF Buckets
      <3>2. QED
        BY <1>1, <1>4, <3>1 DEF Buckets
    <2>2. QED
      BY <1>1, <2>1 DEF Refilled, Least
  <1>5. ASSUME NEW l, Buckets(l, r, b), NEW k \in Key, NEW x \in Nat, x <= Refilled(l, k)
        PROVE  Buckets(Take(l, k, x), r, b)
    <2>1. Refilled(l, k) - x \in 0 .. b * Unit
      BY <1>1, <1>4, <1>5
    <2>2. QED
      BY <1>1, <1>5, <2>1 DEF Buckets, Take
  <1>6. ASSUME NEW l, Buckets(l, r, b), NEW k \in Key
        PROVE  Buckets(AfterAcquire(l, k), r, b) /\ Buckets(Take(l, k, 0), r, b)
    <2>1. 0 <= Refilled(l, k)
      BY <1>1, <1>4, <1>6
    <2>2. Buckets(Take(l, k, 0), r, b)
      BY <1>5, <1>6, <2>1
    <2>3. CASE BucketAdmits(l, k)
      <3>1. Unit <= Refilled(l, k)
        BY <1>1, <1>4, <1>6, <2>3 DEF BucketAdmits
      <3>2. QED
        BY <1>1, <1>5, <1>6, <2>2, <2>3, <3>1 DEF AfterAcquire
    <2>4. QED
      BY <2>2, <2>3 DEF AfterAcquire
  <1>7. QED
    BY <1>2, <1>3, <1>6

\* The rates the adaptive limiter is set to stay between its limits.
LEMMA RateLimits ==
    ASSUME NEW d \in Nat, kind = "adaptive", limiter.rate \in MinRate .. MaxRate
    PROVE  AdjustedRate \in MinRate .. MaxRate /\ PressedRate(d) \in MinRate .. MaxRate
  <1>1. /\ limiter.rate \in Nat /\ limiter.rate <= MaxRate /\ MinRate <= limiter.rate
        /\ MinRate \in Nat /\ MaxRate \in Nat /\ MinRate <= MaxRate
    BY RateAssumption
  <1>2. AdjustedRate \in MinRate .. MaxRate
    <2>1. (limiter.rate * 8) \div 10 \in Nat /\ (limiter.rate * 8) \div 10 <= limiter.rate
      BY <1>1, FractionShrinks
    <2>2. (limiter.rate * 11) \div 10 \in Nat /\ (limiter.rate * 11) \div 10 >= limiter.rate
      BY <1>1
    <2>3. QED
      BY <1>1, <2>1, <2>2 DEF AdjustedRate, Greatest, Least
  <1>3. PressedRate(d) \in MinRate .. MaxRate
    <2>1. Span \in Nat \ {0} /\ Pressure(d) \in 0 .. Span
      BY PressureAssumption DEF Span, Pressure, Least, Greatest
    <2>2. 2 * Span \in Nat \ {0} /\ 2 * Span - Pressure(d) \in Nat
          /\ 2 * Span - Pressure(d) <= 2 * Span
      BY <2>1
    <2> DEFINE q == (limiter.rate * (2 * Span - Pressure(d))) \div (2 * Span)
    <2>3. q \in Nat /\ q <= limiter.rate
      BY <1>1, <2>2, FractionShrinks
    <2> HIDE DEF q
    <2>4. Greatest(MinRate, q) \in MinRate .. MaxRate
      BY <1>1, <2>3 DEF Greatest
    <2>5. QED
      BY <2>4 DEF PressedRate, q
  <1>4. QED
    BY <1>2, <1>3

\* What TypeOK says of the token bucket limiter.
LimiterOK ==
    /\ kind \in Kinds
    /\ limiter.rate \in IF kind = "adaptive" THEN MinRate .. MaxRate ELSE {Rate}
    /\ Buckets(limiter, limiter.rate,
               IF kind = "adaptive" THEN WholeTokens(limiter.rate) ELSE Burst)

\* The rest of TypeOK, without windows and histories.
OthersOK ==
    /\ latency \in LatencyClasses
    /\ adjustAge \in Ages
    /\ depth \in Nat
    /\ reported \in BOOLEAN

\* TypeOK in the parts the steps are proved for.
LEMMA TypeParts == TypeOK <=> LimiterOK /\ OthersOK /\ HistoryOK /\ window \in [Key -> Seq(Ages)]
  BY DEF TypeOK, LimiterOK, OthersOK, HistoryOK, Buckets

\* The state of the limiter and the rest after every step.
LEMMA StepLimiter ==
    ASSUME LimiterOK, [Next]_vars
    PROVE  LimiterOK'
  <1>1. /\ \A r \in MinRate .. MaxRate : r \in Nat /\ WholeTokens(r) \in Nat
        /\ Rate \in Nat /\ Burst \in Nat
    BY RateAssumption, WholeTokensMonotone
  <1>2. /\ limiter.rate \in Nat
        /\ (IF kind = "adaptive" THEN WholeTokens(limiter.rate) ELSE Burst) \in Nat
    BY <1>1 DEF LimiterOK
  <1> DEFINE old(l) == Buckets(l, limiter.rate,
                          IF kind = "adaptive" THEN WholeTokens(limiter.rate) ELSE Burst)
  <1>3. /\ old(Aged(limiter))
        /\ \A k \in Key : old(AfterAcquire(limiter, k)) /\ old(Take(limiter, k, 0))
    BY <1>2, BucketTypes DEF LimiterOK
  <1>4. ASSUME kind' = kind, old(limiter') PROVE LimiterOK'
    BY <1>4 DEF LimiterOK, Buckets
  <1>5. ASSUME NEW r \in MinRate .. MaxRate, kind = "adaptive", kind' = kind,
               Buckets(limiter', r, WholeTokens(r))
        PROVE  LimiterOK'
    BY <1>5 DEF LimiterOK, Buckets
  <1>6. ASSUME NEW k \in Key, BucketAcquire(k) PROVE LimiterOK'
    BY <1>3, <1>4, <1>6 DEF BucketAcquire
  <1>7. ASSUME NEW k \in Key, AdaptiveAcquire(k) PROVE LimiterOK'
    <2>1. CASE Adjusts
      <3>1. /\ limiter' = AfterAcquire(UpdateRate(AdjustedRate), k)
            /\ kind = "adaptive" /\ kind' = kind
        BY <1>7, <2>1 DEF AdaptiveAcquire
      <3>2. AdjustedRate \in MinRate .. MaxRate
        BY <3>1, RateLimits DEF LimiterOK
      <3>3. Buckets(limiter', AdjustedRate, WholeTokens(AdjustedRate))
        BY <1>1, <3>1, <3>2, BucketTypes DEF UpdateRate
      <3>4. QED
        BY <1>5, <3>1, <3>2, <3>3
    <2>2. CASE ~Adjusts
      BY <1>3, <1>4, <1>7, <2>2 DEF AdaptiveAcquire
    <2>3. QED
      BY <2>1, <2>2
  <1>8. ASSUME NEW k \in Key, Inspect(k) PROVE LimiterOK'
    BY <1>3, <1>4, <1>8 DEF Inspect, LimiterOK
  <1>9. ASSUME NEW d \in Depths, UpdateQueueDepth(d) PROVE LimiterOK'
    <2>1. CASE kind = "adaptive" /\ 2 * Pressure(d) > Span
      <3>1. limiter' = UpdateRate(PressedRate(d)) /\ kind' = kind
        BY <1>9, <2>1 DEF UpdateQueueDepth
      <3>2. PressedRate(d) \in MinRate .. MaxRate
        BY <2>1, RateLimits, PressureAssumption DEF LimiterOK
      <3>3. Buckets(limiter', PressedRate(d), WholeTokens(PressedRate(d)))
        BY <1>1, <3>1, <3>2, BucketTypes DEF UpdateRate
      <3>4. QED
        BY <1>5, <2>1, <3>1, <3>2, <3>3
    <2>2. CASE ~(kind = "adaptive" /\ 2 * Pressure(d) > Span)
      BY <1>4, <1>9, <2>2 DEF UpdateQueueDepth, LimiterOK
    <2>3. QED
      BY <2>1, <2>2
  <1>10. ASSUME Tick PROVE LimiterOK'
    BY <1>3, <1>4, <1>10 DEF Tick
  <1>11. ASSUME UNCHANGED <<kind, limiter>> PROVE LimiterOK'
    BY <1>11 DEF LimiterOK
  <1>12. QED
    BY <1>6, <1>7, <1>8, <1>9, <1>10, <1>11
       DEF Next, Acquire, WindowAcquire, Shed, RecordLatency, vars

\* Latency, ages and queue depth after every step.
LEMMA StepOthers ==
    ASSUME OthersOK, [Next]_vars
    PROVE  OthersOK'
  <1> USE DEF OthersOK
  <1>1. 0 \in Ages /\ \A a \in Ages : Older(a) \in Ages
    BY HorizonAssumption DEF Ages, Older, Least
  <1>2. ASSUME NEW k \in Key, Acquire(k) \/ Shed(k) \/ Inspect(k) PROVE OthersOK'
    BY <1>1, <1>2 DEF Acquire, BucketAcquire, WindowAcquire, AdaptiveAcquire, Shed, Inspect, vars
  <1>3. ASSUME NEW c \in LatencyClasses \ {"none"}, RecordLatency(c) PROVE OthersOK'
    BY <1>3 DEF RecordLatency
  <1>4. ASSUME NEW d \in Depths, UpdateQueueDepth(d) PROVE OthersOK'
    BY <1>4, PressureAssumption DEF UpdateQueueDepth
  <1>5. CASE Tick
    BY <1>1, <1>5 DEF Tick
  <1>6. CASE UNCHANGED vars
    BY <1>6 DEF vars
  <1>7. QED
    BY <1>2, <1>3, <1>4, <1>5, <1>6 DEF Next

\* The limiters keep their types: no bucket is ever below zero or above its burst,
\* and the rate of an adaptive limiter stays within min_rate and max_rate through
\* every adjustment and every report of backpressure.
THEOREM RateTypes == Spec => []TypeOK
  <1>1. Init => LimiterOK /\ OthersOK /\ WindowInv
    <2> SUFFICES ASSUME Init PROVE LimiterOK /\ OthersOK /\ WindowInv
      OBVIOUS
    <2>1. OthersOK
      <3>1. 0 \in Ages /\ 0 \in Nat
        BY HorizonAssumption DEF Ages
      <3>2. QED
        BY <3>1 DEF Init, OthersOK, LatencyClasses
    <2>2. LimiterOK
      <3>1. /\ InitialRate \in MinRate .. MaxRate /\ InitialRate \in Nat /\ Rate \in Nat /\ Burst \in Nat
            /\ WholeTokens(InitialRate) \in Nat
        BY RateAssumption, WholeTokensMonotone
      <3>2. Buckets(UpdateRate(InitialRate), InitialRate, WholeTokens(InitialRate))
        BY <3>1, BucketTypes DEF UpdateRate
      <3>3. Buckets(NewLimiter(Rate, Burst), Rate, Burst)
        BY <3>1, BucketTypes
      <3>4. QED
        BY <3>1, <3>2, <3>3 DEF Init, LimiterOK, Buckets
    <2>3. WindowInv
      BY InitWindow
    <2>4. QED
      BY <2>1, <2>2, <2>3
  <1>2. IInv => HistoryOK
    BY DEF IInv
  <1>3. HistoryOK /\ WindowInv /\ [Next]_vars => WindowInv'
    BY StepWindow
  <1>4. LimiterOK /\ OthersOK /\ [Next]_vars => LimiterOK' /\ OthersOK'
    BY StepLimiter, StepOthers
  <1>5. LimiterOK /\ OthersOK /\ HistoryOK /\ WindowInv => TypeOK
    BY TypeParts DEF WindowInv
  <1>6. QED
    BY <1>1, <1>2, <1>3, <1>4, <1>5, InitOK, StepOK, PTL DEF Spec

-----------------------------------------------------------------------------
(* Fault injection *)

\* What a node was told to keep apart from, it keeps apart from, or a clear_fault
\* of another fault has let it in.
WantedIsCut ==
    \A n \in Node : \A f \in wanted[n] : f.from \subseteq cut[n] \cup lifted[n]

\* A message remembers its receiver only if that keeps the partition still, and no
\* more once the receiver has let it pass; it remembers its sender if it is a JOIN.
Remembers(p, m) ==
    /\ m.parted \subseteq {p[1], p[2]}
    /\ p[1] \in m.parted => m.join
    /\ p[2] \in m.parted => Keeps(p[2], p[1]) /\ m.stage \notin {"delayed", "handled"}
MailRemembers == \A p \in Pair : Remembers(p, mail[p])

IsMessage(m) == m = [stage |-> m.stage, join |-> m.join, parted |-> m.parted]
FaultShape ==
    /\ DOMAIN wanted = Node /\ DOMAIN lifted = Node /\ DOMAIN cut = Node
    /\ DOMAIN mail = Pair
    /\ \A p \in Pair : IsMessage(mail[p])

PartitionInv == FaultShape /\ WantedIsCut /\ MailRemembers

\* A partition that is kept is in force.
LEMMA KeepsMeansCut ==
    ASSUME WantedIsCut, NEW n \in Node, NEW m \in Node, Keeps(n, m)
    PROVE  IsCut(n, m)
  BY DEF WantedIsCut, Keeps, Wants, IsCut

\* What the messages remember is brought up to date whenever faults change.
LEMMA RememberKeeps ==
    ASSUME FaultShape, MailRemembers, Remember
    PROVE  /\ MailRemembers'
           /\ DOMAIN mail' = Pair
           /\ \A p \in Pair : IsMessage(mail'[p])
  <1> SUFFICES ASSUME NEW p \in Pair
      PROVE /\ Remembers(p, mail[p])'
            /\ IsMessage(mail'[p])
            /\ DOMAIN mail' = Pair
    BY DEF MailRemembers, Remember
  <1> DEFINE left == {n \in mail[p].parted : n = p[1] \/ Keeps(p[2], p[1])'}
  <1>1. mail'[p] = [mail[p] EXCEPT !.parted = left]
    BY DEF Remember
  <1>2. /\ mail'[p] = [stage |-> mail[p].stage, join |-> mail[p].join, parted |-> left]
        /\ mail'[p].stage = mail[p].stage /\ mail'[p].join = mail[p].join
        /\ mail'[p].parted = left
    BY <1>1 DEF FaultShape, IsMessage
  <1>3. p[1] # p[2] BY DEF Pair
  <1>4. Remembers(p, mail[p])
    BY DEF MailRemembers
  <1> QED BY <1>2, <1>3, <1>4 DEF Remembers, IsMessage, Remember

\* A step that leaves the messages to Remember keeps the invariant if what is
\* wanted stays cut.
LEMMA RememberStep ==
    ASSUME PartitionInv, Remember, WantedIsCut',
           DOMAIN wanted' = Node, DOMAIN lifted' = Node, DOMAIN cut' = Node
    PROVE  PartitionInv'
  BY RememberKeeps DEF PartitionInv, FaultShape

\* A step of one message keeps the invariant if what the message remembers is
\* right.
LEMMA MailKeeps ==
    ASSUME PartitionInv, NEW p \in Pair, NEW stage, NEW join, NEW parted,
           MailStep(p, stage, join, parted),
           Remembers(p, [stage |-> stage, join |-> join, parted |-> parted])
    PROVE  PartitionInv'
  <1> DEFINE message == [stage |-> stage, join |-> join, parted |-> parted]
  <1>1. \A n, m : Keeps(n, m)' = Keeps(n, m)
    BY DEF MailStep, Keeps, Wants, Expired
  <1>2. WantedIsCut' /\ DOMAIN wanted' = Node /\ DOMAIN lifted' = Node /\ DOMAIN cut' = Node
    BY DEF PartitionInv, FaultShape, WantedIsCut, MailStep
  <1>3. DOMAIN mail' = Pair
    BY DEF PartitionInv, FaultShape, MailStep
  <1>4. ASSUME NEW q \in Pair
        PROVE  mail'[q] = IF q = p THEN message ELSE mail[q]
    BY DEF PartitionInv, FaultShape, MailStep
  <1>5. \A q \in Pair : IsMessage(mail'[q])
    BY <1>4 DEF PartitionInv, FaultShape, IsMessage
  <1>6. MailRemembers'
    <2> SUFFICES ASSUME NEW q \in Pair PROVE Remembers(q, mail[q])'
      BY DEF MailRemembers
    <2>1. CASE q = p
      BY <2>1, <1>4, <1>1 DEF Remembers
    <2>2. CASE q # p
      BY <2>2, <1>4, <1>1 DEF PartitionInv, MailRemembers, Remembers
    <2> QED BY <2>1, <2>2
  <1> QED BY <1>2, <1>3, <1>5, <1>6 DEF PartitionInv, FaultShape

\* The invariant holds at first,
LEMMA PartitionInit == FaultInit => PartitionInv
  BY DEF FaultInit, NoMessage, PartitionInv, FaultShape, IsMessage, WantedIsCut,
         MailRemembers, Remembers

\* A message is sent: its sender keeps no partition if it asked.
LEMMA SendKeeps ==
    ASSUME PartitionInv, NEW p \in Pair, NEW join \in BOOLEAN,
           join \/ ~IsCut(p[1], p[2]), MailStep(p, "sent", join, Keepers(p))
    PROVE  PartitionInv'
  <1>1. p[1] \in Node /\ p[2] \in Node /\ p[1] # p[2]
    BY DEF Pair
  <1>2. ASSUME NEW n \in Keepers(p)
        PROVE  (n = p[1] /\ Keeps(p[1], p[2])) \/ (n = p[2] /\ Keeps(p[2], p[1]))
    <2>1. PICK m \in Node : {n, m} = {p[1], p[2]} /\ Keeps(n, m)
      BY DEF Keepers
    <2>2. (n = p[1] /\ m = p[2]) \/ (n = p[2] /\ m = p[1])
      BY <2>1, <1>1
    <2> QED BY <2>1, <2>2
  <1>3. Keeps(p[1], p[2]) => join
    BY <1>1, KeepsMeansCut DEF PartitionInv
  <1>4. Remembers(p, [stage |-> "sent", join |-> join, parted |-> Keepers(p)])
    BY <1>1, <1>2, <1>3 DEF Remembers
  <1> QED BY <1>4, MailKeeps

\* and whatever is injected, cleared, switched, sent, delayed or lost keeps it.
LEMMA PartitionStep == PartitionInv /\ [FaultNext]_faultVars => PartitionInv'
  <1> SUFFICES ASSUME PartitionInv, [FaultNext]_faultVars PROVE PartitionInv'
    OBVIOUS
  <1> USE DEF FaultShape
  <1> DEFINE Domains == DOMAIN wanted' = Node /\ DOMAIN lifted' = Node /\ DOMAIN cut' = Node
  <1>1. ASSUME NEW n \in Node, NEW on \in BOOLEAN, SetEnabled(n, on)
        PROVE  PartitionInv'
    <2>1. WantedIsCut' /\ Domains
      BY <1>1 DEF PartitionInv, WantedIsCut, SetEnabled
    <2> QED BY <1>1, <2>1, RememberStep DEF SetEnabled
  <1>2. ASSUME NEW n \in Node, NEW what, NEW from, NEW d, Inject(n, what, from, d)
        PROVE  PartitionInv'
    <2> DEFINE f == [kind |-> what, from |-> from, start |-> now, duration |-> d]
    <2>1. /\ wanted' = [wanted EXCEPT ![n] = wanted[n] \cup {f}]
          /\ lifted' = [lifted EXCEPT ![n] = lifted[n] \ from]
          /\ cut' = [cut EXCEPT ![n] = cut[n] \cup from]
          /\ Remember
      BY <1>2 DEF Inject
    <2>2. WantedIsCut' /\ Domains
      BY <2>1 DEF PartitionInv, WantedIsCut
    <2> QED BY <2>1, <2>2, RememberStep
  <1>3. ASSUME NEW n \in Node, NEW f \in faults[n], ClearFault(n, f)
        PROVE  PartitionInv'
    <2>1. Domains
      BY <1>3 DEF PartitionInv, ClearFault
    <2>2. ASSUME NEW m \in Node, NEW g \in wanted'[m], NEW q \in g.from
          PROVE  q \in cut'[m] \cup lifted'[m]
      <3>1. g \in wanted[m] /\ q \in cut[m] \cup lifted[m]
        BY <1>3, <2>2 DEF PartitionInv, WantedIsCut, ClearFault
      <3>2. CASE m # n
        BY <1>3, <3>1, <3>2 DEF PartitionInv, ClearFault
      <3>3. CASE m = n
        <4>1. g # f /\ cut'[n] = cut[n] \ f.from
              /\ lifted'[n] = lifted[n] \cup {x \in f.from : \E h \in wanted[n] \ {f} : x \in h.from}
          BY <1>3, <2>2, <3>3 DEF PartitionInv, ClearFault
        <4> QED BY <3>1, <3>3, <4>1
      <3> QED BY <3>2, <3>3
    <2>3. WantedIsCut'
      BY <2>2 DEF WantedIsCut
    <2> QED BY <1>3, <2>1, <2>3, RememberStep DEF ClearFault
  <1>4. ASSUME NEW n \in Node, ClearAllFaults(n)
        PROVE  PartitionInv'
    <2>1. WantedIsCut' /\ Domains
      BY <1>4 DEF PartitionInv, WantedIsCut, ClearAllFaults
    <2> QED BY <1>4, <2>1, RememberStep DEF ClearAllFaults
  <1>5. CASE TimePasses
    <2>1. WantedIsCut' /\ Domains
      BY <1>5 DEF PartitionInv, WantedIsCut, TimePasses
    <2> QED BY <1>5, <2>1, RememberStep DEF TimePasses
  <1>6. ASSUME NEW p \in Pair, Send(p) \/ SendJoin(p)
        PROVE  PartitionInv'
    BY <1>6, SendKeeps DEF Send, SendJoin
  <1>7. ASSUME NEW p \in Pair, Receive(p)
        PROVE  PartitionInv'
    <2>1. p[1] \in Node /\ p[2] \in Node
      BY DEF Pair
    <2>2. Remembers(p, mail[p]) /\ ~Keeps(p[2], p[1])
      BY <1>7, <2>1, KeepsMeansCut DEF Receive, PartitionInv, MailRemembers
    <2>3. \A stage : Remembers(p, [stage |-> stage, join |-> mail[p].join, parted |-> mail[p].parted])
      BY <2>2 DEF Remembers
    <2> QED BY <1>7, <2>3, MailKeeps DEF Receive, PassOn
  <1>8. ASSUME NEW p \in Pair, HandleDelayed(p)
        PROVE  PartitionInv'
    <2>1. Remembers(p, [stage |-> "handled", join |-> mail[p].join, parted |-> mail[p].parted])
      BY <1>8 DEF HandleDelayed, PartitionInv, MailRemembers, Remembers
    <2> QED BY <1>8, <2>1, MailKeeps DEF HandleDelayed, PassOn
  <1>9. ASSUME NEW p \in Pair, Lose(p)
        PROVE  PartitionInv'
    <2>1. Remembers(p, [stage |-> "none", join |-> FALSE, parted |-> {}])
      BY DEF Remembers
    <2> QED BY <1>9, <2>1, MailKeeps DEF Lose
  <1>10. CASE UNCHANGED <<enabled, cut, mail, now, wanted, lifted>>
    BY <1>10 DEF PartitionInv, WantedIsCut, MailRemembers, Remembers, Keeps, Wants, Expired
  <1>11. ASSUME NEW p \in Pair
         PROVE  p[1] \in Node
    BY DEF Pair
  <1>12. ASSUME NEW p \in Pair, Judge(p)
         PROVE  PartitionInv'
    BY <1>10, <1>12 DEF Judge
  <1>13. CASE UNCHANGED faultVars
    BY <1>10, <1>13 DEF faultVars
  <1> QED BY <1>1, <1>2, <1>3, <1>4, <1>5, <1>6, <1>7, <1>8, <1>9, <1>11, <1>12, <1>13 DEF FaultNext

\* No message is handled through a partition that its receiver was told to keep up
\* before it was sent and ever since, or, unless it is a JOIN, its sender before it
\* sent, for any nodes, any faults and any succession of injecting, clearing,
\* disabling and enabling; save that clear_fault also lifts the partitions of other
\* faults from the same peer, which lifted keeps.
THEOREM PartitionSafety == FaultSpec => []PartitionHolds
  <1>1. PartitionInv => PartitionHolds
    BY DEF PartitionInv, MailRemembers, Remembers, PartitionHolds
  <1> QED BY PartitionInit, PartitionStep, <1>1, PTL DEF FaultSpec

-----------------------------------------------------------------------------
\* The type invariant, with the domains it leaves open.
FaultTypeInv ==
    /\ FaultTypeOK
    /\ DOMAIN faults = Node /\ DOMAIN wanted = Node

\* The type invariant of fault injection; among it that a node lists at most one
\* fault of each id.
THEOREM FaultsTypes == FaultSpec => []FaultTypeOK
  <1> USE FaultsAssumption
  <1>1. FaultInit => FaultTypeInv
    BY DEF FaultInit, NoMessage, FaultTypeInv, FaultTypeOK
  <1>2. FaultTypeInv /\ [FaultNext]_faultVars => FaultTypeInv'
    <2> SUFFICES ASSUME FaultTypeInv, [FaultNext]_faultVars PROVE FaultTypeInv'
      OBVIOUS
    <2>0. ASSUME Remember
          PROVE  mail' \in [Pair -> [stage : {"none", "sent", "delayed", "handled"},
                                       join : BOOLEAN, parted : SUBSET Node]]
      <3>1. ASSUME NEW p \in Pair
            PROVE  mail'[p] = [mail[p] EXCEPT !.parted = {n \in mail[p].parted : n = p[1] \/ Keeps(p[2], p[1])'}]
        BY <2>0 DEF Remember
      <3>2. ASSUME NEW p \in Pair
            PROVE  mail'[p] \in [stage : {"none", "sent", "delayed", "handled"},
                                       join : BOOLEAN, parted : SUBSET Node]
        <4> DEFINE left == {n \in mail[p].parted : n = p[1] \/ Keeps(p[2], p[1])'}
        <4>1. mail[p] \in [stage : {"none", "sent", "delayed", "handled"},
                         join : BOOLEAN, parted : SUBSET Node]
          BY DEF FaultTypeInv, FaultTypeOK
        <4>2. left \in SUBSET Node
          BY <4>1
        <4>3. mail'[p] = [mail[p] EXCEPT !.parted = left]
          BY <3>1
        <4> HIDE DEF left
        <4> QED BY <4>1, <4>2, <4>3
      <3>3. mail' = [p \in Pair |-> mail'[p]]
        BY <2>0 DEF Remember
      <3> QED BY <3>2, <3>3
    <2>1. ASSUME NEW n \in Node, NEW on \in BOOLEAN, SetEnabled(n, on)
          PROVE  FaultTypeInv'
      BY <2>0, <2>1 DEF SetEnabled, Switch, FaultTypeInv, FaultTypeOK
    <2>2. ASSUME NEW n \in Node, NEW what \in FaultKinds, NEW from \in SUBSET Node,
                 NEW d \in Durations \cup {0}, Inject(n, what, from, d)
          PROVE  FaultTypeInv'
      <3> DEFINE f == [kind |-> what, from |-> from, start |-> now, duration |-> d]
      <3>1. f \in Fault
        BY DEF Fault, FaultTypeInv, FaultTypeOK
      <3>2. /\ wanted' = [wanted EXCEPT ![n] = wanted[n] \cup {f}]
            /\ lifted' = [lifted EXCEPT ![n] = lifted[n] \ from]
            /\ faults' = [faults EXCEPT ![n] = {g \in faults[n] : Id(g) # Id(f)} \cup {f}]
            /\ cut' = [cut EXCEPT ![n] = cut[n] \cup from]
            /\ injected < MaxFaults /\ injected' = injected + 1
            /\ up' = up \/ up' = [up EXCEPT ![n] = FALSE]
            /\ UNCHANGED <<enabled, dead, now, switches>>
            /\ Remember
        BY <2>2 DEF Inject
      <3> HIDE DEF f
      <3>3. \A m \in Node : faults'[m] \subseteq Fault /\ wanted'[m] \subseteq Fault
        BY <3>1, <3>2 DEF FaultTypeInv, FaultTypeOK
      <3>4. \A m \in Node : \A g, h \in faults'[m] : Id(g) = Id(h) => g = h
        BY <3>2 DEF FaultTypeInv, FaultTypeOK
      <3>5. DOMAIN faults' = Node /\ DOMAIN wanted' = Node
        BY <3>2 DEF FaultTypeInv
      <3>6. cut' \in [Node -> SUBSET Node] /\ lifted' \in [Node -> SUBSET Node] /\ up' \in [Node -> BOOLEAN]
        BY <3>2 DEF FaultTypeInv, FaultTypeOK
      <3> QED BY <3>2, <3>3, <3>4, <3>5, <3>6, <2>0 DEF FaultTypeInv, FaultTypeOK, Id
    <2>3. ASSUME NEW n \in Node, NEW f \in faults[n], ClearFault(n, f)
          PROVE  FaultTypeInv'
      <3>1. f.from \subseteq Node
        BY DEF FaultTypeInv, FaultTypeOK, Fault
      <3>2. lifted' \in [Node -> SUBSET Node] /\ cut' \in [Node -> SUBSET Node]
        BY <2>3, <3>1 DEF ClearFault, FaultTypeInv, FaultTypeOK
      <3>3. \A m \in Node : faults'[m] \subseteq faults[m] /\ wanted'[m] \subseteq wanted[m]
        BY <2>3 DEF ClearFault, FaultTypeInv
      <3>4. DOMAIN faults' = Node /\ DOMAIN wanted' = Node
        BY <2>3 DEF ClearFault, FaultTypeInv
      <3>5. Remember /\ switches < MaxSwitches /\ switches' = switches + 1
            /\ UNCHANGED <<enabled, up, dead, now, injected>>
        BY <2>3 DEF ClearFault, Switch
      <3> QED BY <2>0, <3>2, <3>3, <3>4, <3>5 DEF FaultTypeInv, FaultTypeOK, Id
    <2>4. ASSUME NEW n \in Node, ClearAllFaults(n)
          PROVE  FaultTypeInv'
      BY <2>0, <2>4 DEF ClearAllFaults, Switch, FaultTypeInv, FaultTypeOK, Id
    <2>5. CASE TimePasses
      BY <2>0, <2>5 DEF TimePasses, FaultTypeInv, FaultTypeOK, Id
    <2>6. ASSUME NEW p \in Pair, NEW stage \in {"none", "sent", "delayed", "handled"},
                 NEW join \in BOOLEAN, NEW parted \in SUBSET Node,
                 MailStep(p, stage, join, parted)
          PROVE  FaultTypeInv'
      BY <2>6 DEF MailStep, FaultTypeInv, FaultTypeOK, Id
    <2>7. ASSUME NEW p \in Pair,
                 Send(p) \/ SendJoin(p) \/ Receive(p) \/ HandleDelayed(p) \/ Lose(p)
          PROVE  FaultTypeInv'
      <3>1. mail[p].parted \in SUBSET Node /\ mail[p].join \in BOOLEAN
        BY DEF FaultTypeInv, FaultTypeOK
      <3>2. Keepers(p) \in SUBSET Node
        BY DEF Keepers
      <3>3. ASSUME NEW stage \in {"handled", "delayed"}, PassOn(p, stage)
            PROVE  FaultTypeInv'
        BY <3>1, <3>3, <2>6 DEF PassOn
      <3>4. CASE Send(p) \/ SendJoin(p)
        <4>1. PICK join \in BOOLEAN : MailStep(p, "sent", join, Keepers(p))
          BY <3>4 DEF Send, SendJoin
        <4>2. "sent" \in {"none", "sent", "delayed", "handled"}
          OBVIOUS
        <4> QED BY <4>1, <4>2, <3>2, <2>6, Zenon
      <3>5. CASE Receive(p) \/ HandleDelayed(p)
        BY <3>3, <3>5 DEF Receive, HandleDelayed
      <3>6. CASE Lose(p)
        <4>1. MailStep(p, "none", FALSE, {}) /\ FALSE \in BOOLEAN
          BY <3>6 DEF Lose
        <4>2. "none" \in {"none", "sent", "delayed", "handled"} /\ {} \in SUBSET Node
          OBVIOUS
        <4> QED BY <4>1, <4>2, <2>6, Zenon
      <3> QED BY <2>7, <3>4, <3>5, <3>6
    <2>10. ASSUME NEW p \in Pair, Judge(p)
           PROVE  FaultTypeInv'
      BY <2>10 DEF Judge, FaultTypeInv, FaultTypeOK, Id
    <2>8. CASE UNCHANGED faultVars
      BY <2>8 DEF faultVars, FaultTypeInv, FaultTypeOK, Id
    <2>9. ASSUME NEW p \in Pair
          PROVE  p[1] \in Node /\ {p[2]} \in SUBSET Node
      BY DEF Pair
    <2> QED BY <2>1, <2>2, <2>3, <2>4, <2>5, <2>7, <2>8, <2>9, <2>10 DEF FaultNext
  <1>3. FaultTypeInv => FaultTypeOK
    BY DEF FaultTypeInv
  <1> QED BY <1>1, <1>2, <1>3, PTL DEF FaultSpec
=============================================================================
