-------------------------- MODULE MiddlewareProofs --------------------------
(***************************************************************************)
(* Theorems about the two gRPC middlewares: the circuit breaker, for every *)
(* set of requests and methods and every configuration, and the rate       *)
(* limiter, for every set of callers and methods and every rate and burst, *)
(* zero included.                                                          *)
(***************************************************************************)
EXTENDS CircuitBreaker, RateLimiter, Sequences, TLAPS

Breaker == [state : States, failures : Nat, successes : Nat, age : 0..Timeout]

\* What CountersInv says of one breaker.
Counts(c) ==
  /\ c.failures # 0 => c.state = "closed" /\ c.failures < FailureThreshold
  /\ c.successes # 0 => c.state = "half-open" /\ c.successes < SuccessThreshold

Inv == TypeOK /\ OneBreakerPerMethod /\ CountersInv

\* No breaker is None.
LEMMA NoneIsNoObject ==
  ASSUME NEW o \in Objects
  PROVE  o # None
<1>1. PICK m \in Methods, r \in Requests : o = <<m, r>>
  BY DEF Objects
<1>2. DOMAIN o = 1..2 /\ DOMAIN None = 1..0
  BY <1>1 DEF None
<1>3. 1 \in DOMAIN o /\ 1 \notin DOMAIN None
  BY <1>2
<1> QED
  BY <1>3

\* A breaker that has just changed its state is well formed and counts nothing.
LEMMA SetStateCounts ==
  ASSUME NEW s \in States
  PROVE  SetState(s) \in Breaker /\ Counts(SetState(s))
BY BreakerAssumption DEF SetState, Breaker, Counts

\* Recording a success keeps a breaker well formed and its counts below the thresholds,
\* and leaves an open one as it is.
LEMMA SuccessCounts ==
  ASSUME NEW c \in Breaker, Counts(c)
  PROVE  /\ RecordSuccess(c) \in Breaker /\ Counts(RecordSuccess(c))
         /\ c.state = "open" => RecordSuccess(c) = c
<1>1. CASE c.state = "closed"
  <2>1. RecordSuccess(c) = [c EXCEPT !.failures = 0]
    BY <1>1 DEF RecordSuccess
  <2> QED
    BY <1>1, <2>1 DEF Breaker, Counts
<1>2. CASE c.state = "half-open" /\ c.successes + 1 >= SuccessThreshold
  <2>1. RecordSuccess(c) = SetState("closed")
    BY <1>2, BreakerAssumption DEF RecordSuccess, Breaker
  <2> QED
    BY <1>2, <2>1, SetStateCounts DEF States
<1>3. CASE c.state = "half-open" /\ c.successes + 1 < SuccessThreshold
  <2>1. RecordSuccess(c) = [c EXCEPT !.successes = @ + 1]
    BY <1>3, BreakerAssumption DEF RecordSuccess, Breaker
  <2> QED
    BY <1>3, <2>1, BreakerAssumption DEF Breaker, Counts
<1>4. CASE c.state = "open"
  BY <1>4 DEF RecordSuccess
<1> QED
  BY <1>1, <1>2, <1>3, <1>4, BreakerAssumption DEF Breaker, States

\* The same for recording a failure.
LEMMA FailureCounts ==
  ASSUME NEW c \in Breaker, Counts(c)
  PROVE  /\ RecordFailure(c) \in Breaker /\ Counts(RecordFailure(c))
         /\ c.state = "open" => RecordFailure(c) = c
<1>1. CASE c.state = "closed" /\ c.failures + 1 >= FailureThreshold
  <2>1. RecordFailure(c) = SetState("open")
    BY <1>1, BreakerAssumption DEF RecordFailure, Breaker
  <2> QED
    BY <1>1, <2>1, SetStateCounts DEF States
<1>2. CASE c.state = "closed" /\ c.failures + 1 < FailureThreshold
  <2>1. RecordFailure(c) = [c EXCEPT !.failures = @ + 1]
    BY <1>2, BreakerAssumption DEF RecordFailure, Breaker
  <2> QED
    BY <1>2, <2>1, BreakerAssumption DEF Breaker, Counts
<1>3. CASE c.state = "half-open"
  <2>1. RecordFailure(c) = SetState("open")
    BY <1>3 DEF RecordFailure
  <2> QED
    BY <1>3, <2>1, SetStateCounts DEF States
<1>4. CASE c.state = "open"
  BY <1>4 DEF RecordFailure
<1> QED
  BY <1>1, <1>2, <1>3, <1>4, BreakerAssumption DEF Breaker, States

\* A result recorded by a running request r: what its breaker becomes is all that matters.
LEMMA RecordKeepsInv ==
  ASSUME Inv, NEW r \in Requests, NEW c \in Breaker, Counts(c), Record(r, c)
  PROVE  Inv'
<1> USE DEF Inv
<1>1. mine[r] \in Objects
  BY DEF Record, OneBreakerPerMethod
<1>2. TypeOK'
  BY <1>1 DEF Record, TypeOK, Goto, Breaker
<1>3. OneBreakerPerMethod'
  BY DEF Record, OneBreakerPerMethod, Goto, TypeOK
<1>4. CountersInv'
  BY <1>1 DEF Record, CountersInv, Counts, TypeOK
<1> QED
  BY <1>2, <1>3, <1>4

\* The breaker of a running request satisfies the premises of the lemmas above.
LEMMA RunningHasBreaker ==
  ASSUME Inv, NEW r \in Requests, pc[r] = "running"
  PROVE  mine[r] \in Objects /\ cb[mine[r]] \in Breaker /\ Counts(cb[mine[r]])
BY DEF Inv, TypeOK, OneBreakerPerMethod, CountersInv, Counts, Breaker

\* Every step preserves the invariant.
LEMMA StepKeepsInv ==
  ASSUME Inv, [Next]_vars
  PROVE  Inv'
<1>1. ASSUME NEW r \in Requests, NEW m \in Methods, Lookup(r, m)
      PROVE  Inv'
  BY <1>1 DEF Lookup, Inv, TypeOK, OneBreakerPerMethod, CountersInv, Goto, None
<1>2. ASSUME NEW r \in Requests, Create(r)
      PROVE  Inv'
  <2> DEFINE b == IF breakers[method[r]] = None THEN <<method[r], r>> ELSE breakers[method[r]]
  <2>1. b \in Objects /\ method[r] \in Methods
    BY DEF Inv, TypeOK, Objects
  <2>2. /\ pc[r] = "create" /\ pc' = [pc EXCEPT ![r] = "allow"]
        /\ breakers' = [breakers EXCEPT ![method[r]] = b]
        /\ mine' = [mine EXCEPT ![r] = b]
        /\ UNCHANGED <<cb, method, healthy>>
    BY <1>2 DEF Create, Goto
  <2>3. TypeOK'
    BY <2>1, <2>2 DEF Inv, TypeOK
  <2>4. OneBreakerPerMethod'
    <3> SUFFICES ASSUME NEW q \in Requests, pc'[q] \in {"allow", "running"}
                 PROVE  mine'[q] \in Objects /\ mine'[q] = breakers'[method'[q]]
      BY DEF OneBreakerPerMethod
    <3>1. CASE q = r
      BY <2>1, <2>2, <3>1 DEF Inv, TypeOK
    <3>2. CASE q # r
      <4>1. mine[q] \in Objects /\ mine[q] = breakers[method[q]]
        BY <2>2, <3>2 DEF Inv, TypeOK, OneBreakerPerMethod
      <4>2. mine[q] # None
        BY <4>1, NoneIsNoObject
      <4> QED
        BY <2>1, <2>2, <3>2, <4>1, <4>2 DEF Inv, TypeOK
    <3> QED
      BY <3>1, <3>2
  <2>5. CountersInv'
    BY <2>2 DEF Inv, CountersInv
  <2> QED
    BY <2>3, <2>4, <2>5 DEF Inv
<1>3. ASSUME NEW r \in Requests, Allow(r)
      PROVE  Inv'
  <2>1. mine[r] \in Objects
    BY <1>3 DEF Allow, Inv, OneBreakerPerMethod
  <2>2. SetState("half-open") \in Breaker /\ Counts(SetState("half-open"))
    BY SetStateCounts DEF States
  <2>3. cb' = cb \/ cb' = [cb EXCEPT ![mine[r]] = SetState("half-open")]
    BY <1>3 DEF Allow
  <2>4. TypeOK'
    <3>1. cb' \in [Objects -> Breaker]
      BY <2>1, <2>2, <2>3 DEF Inv, TypeOK, Breaker
    <3> QED
      BY <1>3, <3>1 DEF Allow, Inv, TypeOK, Goto, Breaker
  <2>5. OneBreakerPerMethod'
    BY <1>3 DEF Allow, Inv, TypeOK, OneBreakerPerMethod, Goto
  <2>6. CountersInv'
    BY <2>1, <2>2, <2>3 DEF Inv, TypeOK, CountersInv, Counts
  <2> QED
    BY <2>4, <2>5, <2>6 DEF Inv
<1>4. ASSUME NEW r \in Requests, Succeed(r)
      PROVE  Inv'
  BY <1>4, RunningHasBreaker, SuccessCounts, RecordKeepsInv DEF Succeed, Record
<1>5. ASSUME NEW r \in Requests, Fail(r)
      PROVE  Inv'
  BY <1>5, RunningHasBreaker, FailureCounts, RecordKeepsInv DEF Fail, Record
<1>6. ASSUME NEW r \in Requests, FailUncounted(r)
      PROVE  Inv'
  BY <1>6, RunningHasBreaker, RecordKeepsInv DEF FailUncounted, Record
<1>7. CASE Tick
  <2>1. TypeOK'
    BY <1>7, BreakerAssumption DEF Tick, Waiting, Inv, TypeOK
  <2>2. OneBreakerPerMethod' /\ CountersInv'
    BY <1>7 DEF Tick, Waiting, Inv, TypeOK, OneBreakerPerMethod, CountersInv
  <2> QED
    BY <2>1, <2>2 DEF Inv
<1>8. CASE Heal
  BY <1>8 DEF Heal, Inv, TypeOK, OneBreakerPerMethod, CountersInv
<1>9. CASE UNCHANGED vars
  BY <1>9 DEF vars, Inv, TypeOK, OneBreakerPerMethod, CountersInv
<1> QED
  BY <1>1, <1>2, <1>3, <1>4, <1>5, <1>6, <1>7, <1>8, <1>9 DEF Next

\* It holds before the first call.
LEMMA InitInv == Init => Inv
<1> SUFFICES ASSUME Init PROVE Inv
  OBVIOUS
<1>1. NewCircuitBreaker \in [state : States, failures : Nat, successes : Nat, age : 0..Timeout]
  BY BreakerAssumption DEF NewCircuitBreaker, States
<1>2. cb \in [Objects -> [state : States, failures : Nat, successes : Nat, age : 0..Timeout]]
  BY <1>1 DEF Init
<1>3. healthy \in BOOLEAN
  BY Zenon DEF Init
<1>4. breakers \in [Methods -> Objects \cup {None}] /\ mine \in [Requests -> Objects \cup {None}]
  BY Zenon DEF Init
<1>5. TypeOK
  BY <1>2, <1>3, <1>4 DEF Init, TypeOK
<1>6. OneBreakerPerMethod /\ CountersInv
  BY DEF Init, OneBreakerPerMethod, CountersInv, NewCircuitBreaker
<1> QED
  BY <1>5, <1>6 DEF Inv

\* Hence it always holds.
LEMMA Inductive == Spec => []Inv
BY InitInv, StepKeepsInv, PTL DEF Spec

\* The state of breakers and requests is well formed (circuitbreaker.go:67-92).
THEOREM TypeCorrect == Spec => []TypeOK
BY Inductive, PTL DEF Inv

\* The double-checked lookup of GetBreaker gives all requests of a method one breaker.
THEOREM OneBreaker == Spec => []OneBreakerPerMethod
BY Inductive, PTL DEF Inv

\* Late results never push a counter to its threshold, or into another state, unnoticed.
THEOREM CountersBounded == Spec => []CountersInv
BY Inductive, PTL DEF Inv

\* A circuit that has opened stays open for Timeout, and not longer because of results
\* that arrive meanwhile.
THEOREM OpenForTimeout == Spec => OpenPeriod
<1> DEFINE Kept(o) == cb[o].state = "open" =>
                        \/ cb'[o].state = "open" /\ cb'[o].age >= cb[o].age
                        \/ cb'[o].state = "half-open" /\ cb[o].age >= Timeout
<1>1. ASSUME Inv, [Next]_vars, NEW o \in Objects
      PROVE  Kept(o)
  <2> USE <1>1
  <2>0. cb[o] \in Breaker
    BY DEF Inv, TypeOK, Breaker
  <2>1. ASSUME cb'[o] = cb[o] PROVE Kept(o)
    BY <2>0, <2>1, BreakerAssumption DEF Breaker
  <2>2. ASSUME NEW r \in Requests, Allow(r) PROVE Kept(o)
    <3>1. mine[r] \in Objects
      BY <2>2 DEF Allow, Inv, OneBreakerPerMethod
    <3>2. CASE cb' = cb
      BY <2>1, <3>2
    <3>3. CASE cb' = [cb EXCEPT ![mine[r]] = SetState("half-open")] /\ cb[mine[r]].age >= Timeout
      BY <2>1, <3>1, <3>3 DEF SetState, Inv, TypeOK
    <3> QED
      BY <2>2, <3>2, <3>3 DEF Allow
  <2>3. ASSUME NEW r \in Requests, NEW c, Record(r, c),
               cb[mine[r]].state = "open" => c = cb[mine[r]]
        PROVE  Kept(o)
    <3>1. cb' = [cb EXCEPT ![mine[r]] = c]
      BY <2>3 DEF Record
    <3>2. CASE o = mine[r] /\ cb[o].state = "open"
      BY <2>1, <2>3, <3>1, <3>2 DEF Inv, TypeOK
    <3>3. CASE o # mine[r]
      BY <2>1, <3>1, <3>3 DEF Inv, TypeOK
    <3> QED
      BY <3>2, <3>3
  <2>4. ASSUME NEW r \in Requests, Succeed(r) \/ Fail(r) \/ FailUncounted(r) PROVE Kept(o)
    <3>1. pc[r] = "running"
      BY <2>4 DEF Succeed, Fail, FailUncounted, Record
    <3>2. cb[mine[r]] \in Breaker /\ Counts(cb[mine[r]])
      BY <3>1, RunningHasBreaker
    <3>3. CASE Succeed(r)
      BY <2>3, <3>2, <3>3, SuccessCounts DEF Succeed
    <3>4. CASE Fail(r)
      BY <2>3, <3>2, <3>4, FailureCounts DEF Fail
    <3>5. CASE FailUncounted(r)
      BY <2>3, <3>5 DEF FailUncounted
    <3> QED
      BY <2>4, <3>3, <3>4, <3>5
  <2>5. CASE Tick
    BY <2>0, <2>5, BreakerAssumption DEF Tick, Waiting, Breaker
  <2>6. CASE Heal \/ UNCHANGED vars
    BY <2>1, <2>6 DEF Heal, vars
  <2>7. ASSUME NEW r \in Requests, Create(r) \/ \E m \in Methods : Lookup(r, m) PROVE Kept(o)
    BY <2>1, <2>7 DEF Create, Lookup
  <2> QED
    BY <2>2, <2>4, <2>5, <2>6, <2>7 DEF Next
<1>2. Inv /\ [Next]_vars => [\A o \in Objects : Kept(o)]_vars
  BY <1>1
<1> QED
  BY <1>2, Inductive, PTL DEF Spec, OpenPeriod

-----------------------------------------------------------------------------
(***************************************************************************)
(* The window bound of the rate limiter.  WithinRate alone is not          *)
(* inductive: what a method has used of its allowance and what is in its   *)
(* bucket must together fit into the burst (Credit), the bucket a caller   *)
(* holds must be the one in the table (HoldsTheOne), and a bucket not yet  *)
(* in the table must be as it was made (Unused).                           *)
(***************************************************************************)
LLabels == {"idle", "create", "allow", "wait"}

BucketOK ==
  /\ limiters \in [Keys -> Limiters \cup {NoLimiter}]
  /\ tokens \in [Limiters -> 0..Full] /\ age \in [Limiters -> Nat]
  /\ lpc \in [Goroutines -> LLabels]
  /\ key \in [Goroutines -> Keys] /\ lmine \in [Goroutines -> Limiters \cup {NoLimiter}]
  /\ worst \in [Keys -> Nat]

HoldsTheOne ==
  \A g \in Goroutines : lpc[g] \in {"allow", "wait"} =>
    lmine[g] \in Limiters /\ lmine[g] = limiters[key[g]]

OwnMethod == \A k \in Keys : limiters[k] # NoLimiter => limiters[k][1] = k

Unused == \A l \in Limiters : limiters[l[1]] # l => tokens[l] = Full /\ age[l] = 0

Credit ==
  \A k \in Keys :
    /\ limiters[k] = NoLimiter => worst[k] = 0
    /\ \A l \in Limiters : limiters[k] = l => worst[k] + Refill(l) <= Full

LInv == BucketOK /\ HoldsTheOne /\ OwnMethod /\ Unused /\ Credit

-----------------------------------------------------------------------------
\* The capacity of a bucket is a number of tokens.
LEMMA FullNat == Full \in Nat
BY LimiterAssumption DEF Full

\* No limiter is the empty entry of the table.
LEMMA NoLimiterIsNone ==
  ASSUME NEW l \in Limiters
  PROVE  l # NoLimiter /\ l[1] \in Keys
<1>1. PICK k \in Keys, g \in Goroutines : l = <<k, g>>
  BY DEF Limiters
<1>2. Len(l) = 2 /\ Len(NoLimiter) = 0
  BY <1>1 DEF NoLimiter
<1> QED
  BY <1>1, <1>2

\* A refilled bucket holds at least what it held and at most the burst.
LEMMA RefillBounds ==
  ASSUME NEW l \in Limiters, tokens[l] \in 0..Full, age[l] \in Nat
  PROVE  Refill(l) \in tokens[l]..Full
<1>1. Rate * age[l] \in Nat
  BY LimiterAssumption
<1> QED
  BY <1>1, FullNat DEF Refill

\* One more tick adds at most Rate.
LEMMA RefillTick ==
  ASSUME NEW l \in Limiters, tokens[l] \in 0..Full, age[l] \in Nat,
         tokens' = tokens, age'[l] \in {age[l], age[l] + 1}
  PROVE  Refill(l)' \in 0..Full /\ Refill(l)' <= Refill(l) + Rate
<1> DEFINE a == Rate * age[l]
           b == Rate * age'[l]
<1>1. a \in Nat /\ b \in Nat /\ b <= a + Rate
  <2>1. Rate * (age[l] + 1) = Rate * age[l] + Rate
    BY LimiterAssumption
  <2> QED
    BY <2>1, LimiterAssumption
<1>2. Refill(l) = IF tokens[l] + a > Full THEN Full ELSE tokens[l] + a
  BY DEF Refill
<1>3. Refill(l)' = IF tokens[l] + b > Full THEN Full ELSE tokens[l] + b
  BY DEF Refill, Full
<1> HIDE DEF a, b
<1> QED
  BY <1>1, <1>2, <1>3, FullNat, LimiterAssumption

\* The bound follows from the invariant.
LEMMA CreditBounds ==
  ASSUME LInv
  PROVE  WithinRate
<1> SUFFICES ASSUME NEW k \in Keys PROVE worst[k] <= Full
  BY DEF WithinRate
<1>1. CASE limiters[k] = NoLimiter
  BY <1>1, FullNat DEF LInv, Credit
<1>2. CASE limiters[k] # NoLimiter
  <2>1. limiters[k] \in Limiters /\ worst[k] \in Nat
    BY <1>2 DEF LInv, BucketOK
  <2>2. Refill(limiters[k]) \in Nat
    BY <2>1, RefillBounds, FullNat DEF LInv, BucketOK
  <2> QED
    BY <1>2, <2>1, <2>2, FullNat DEF LInv, Credit
<1> QED
  BY <1>1, <1>2

\* An empty table and untouched buckets.
LEMMA LInitInv == LInit => LInv
<1> SUFFICES ASSUME LInit PROVE LInv
  OBVIOUS
<1>1. BucketOK
  <2>1. tokens \in [Limiters -> 0..Full] /\ age \in [Limiters -> Nat] /\ worst \in [Keys -> Nat]
    BY FullNat DEF LInit
  <2>2. lpc \in [Goroutines -> LLabels] /\ key \in [Goroutines -> Keys]
    BY DEF LInit, LLabels
  <2>3. limiters \in [Keys -> Limiters \cup {NoLimiter}] /\ lmine \in [Goroutines -> Limiters \cup {NoLimiter}]
    BY Zenon DEF LInit
  <2> QED
    BY <2>1, <2>2, <2>3 DEF BucketOK
<1>2. HoldsTheOne /\ OwnMethod /\ Unused /\ Credit
  BY NoLimiterIsNone DEF LInit, HoldsTheOne, OwnMethod, Unused, Credit
<1> QED
  BY <1>1, <1>2 DEF LInv

\* A caller that only moves, or is given what the table has, disturbs nothing.
LEMMA CallerMoves ==
  ASSUME LInv, UNCHANGED <<limiters, tokens, age, worst>>, BucketOK',
         \A g \in Goroutines : lpc'[g] \in {"allow", "wait"} =>
           lmine'[g] # NoLimiter /\ lmine'[g] = limiters[key'[g]]
  PROVE  LInv'
<1>1. HoldsTheOne'
  BY DEF HoldsTheOne, BucketOK
<1>2. OwnMethod' /\ Unused'
  BY DEF LInv, OwnMethod, Unused
<1>3. Credit'
  BY DEF LInv, Credit, Refill
<1> QED
  BY <1>1, <1>2, <1>3 DEF LInv

\* GetLimiter under the read lock hands out what the table has.
LEMMA LookupInv ==
  ASSUME LInv, NEW g \in Goroutines, NEW k \in Keys, LLookup(g, k)
  PROVE  LInv'
<1>1. lpc' \in [Goroutines -> LLabels]
  BY DEF LLookup, LInv, BucketOK, LLabels
<1>2. BucketOK'
  BY <1>1 DEF LLookup, LInv, BucketOK
<1>3. \A h \in Goroutines : lpc'[h] \in {"allow", "wait"} =>
        lmine'[h] # NoLimiter /\ lmine'[h] = limiters[key'[h]]
  <2> SUFFICES ASSUME NEW h \in Goroutines, lpc'[h] \in {"allow", "wait"}
               PROVE  lmine'[h] # NoLimiter /\ lmine'[h] = limiters[key'[h]]
    OBVIOUS
  <2>1. CASE h = g
    BY <2>1 DEF LLookup, LInv, BucketOK
  <2>2. CASE h # g
    BY <2>2, NoLimiterIsNone DEF LLookup, LInv, BucketOK, HoldsTheOne
  <2> QED
    BY <2>1, <2>2
<1> QED
  BY <1>2, <1>3, CallerMoves DEF LLookup

\* Wait tries again with the limiter the caller has, or gives up.
LEMMA WaitInv ==
  ASSUME LInv, NEW g \in Goroutines, Wait(g)
  PROVE  LInv'
<1>1. lpc' \in [Goroutines -> LLabels]
  BY DEF Wait, LInv, BucketOK, LLabels
<1>2. BucketOK'
  BY <1>1 DEF Wait, LInv, BucketOK
<1>3. \A h \in Goroutines : lpc'[h] \in {"allow", "wait"} => lpc[h] \in {"allow", "wait"}
  BY DEF Wait, LInv, BucketOK
<1> QED
  BY <1>2, <1>3, CallerMoves, NoLimiterIsNone DEF Wait, LInv, HoldsTheOne

\* GetLimiter under the write lock: a full, unused bucket enters the table, and
\* only if the method has none.
LEMMA CreateInv ==
  ASSUME LInv, NEW g \in Goroutines, LCreate(g)
  PROVE  LInv'
<1> DEFINE k == key[g]
           l == IF limiters[k] = NoLimiter THEN <<k, g>> ELSE limiters[k]
<1>1. k \in Keys /\ l \in Limiters /\ l[1] = k /\ lpc[g] = "create"
  BY DEF LInv, BucketOK, LCreate, Limiters, OwnMethod
<1>2. /\ limiters' = [limiters EXCEPT ![k] = l] /\ lmine' = [lmine EXCEPT ![g] = l]
      /\ lpc' = [lpc EXCEPT ![g] = "allow"]
      /\ UNCHANGED <<tokens, age, key, worst>>
  BY DEF LCreate
<1>3. limiters[k] # NoLimiter => l = limiters[k]
  OBVIOUS
<1>4. limiters[k] = NoLimiter => l = <<k, g>>
  OBVIOUS
<1> HIDE DEF k, l
<1>5. BucketOK'
  <2>1. lpc' \in [Goroutines -> LLabels]
    BY <1>2 DEF LInv, BucketOK, LLabels
  <2>2. limiters' \in [Keys -> Limiters \cup {NoLimiter}]
    BY <1>1, <1>2, Zenon DEF LInv, BucketOK
  <2>3. lmine' \in [Goroutines -> Limiters \cup {NoLimiter}]
    BY <1>1, <1>2, Zenon DEF LInv, BucketOK
  <2> QED
    BY <1>2, <2>1, <2>2, <2>3 DEF LInv, BucketOK
<1>6. \A m \in Keys : limiters'[m] = IF m = k THEN l ELSE limiters[m]
  BY <1>1, <1>2 DEF LInv, BucketOK
<1>7. HoldsTheOne'
  <2> SUFFICES ASSUME NEW h \in Goroutines, lpc'[h] \in {"allow", "wait"}
               PROVE  lmine'[h] \in Limiters /\ lmine'[h] = limiters'[key'[h]]
    BY DEF HoldsTheOne
  <2>1. CASE h = g
    BY <2>1, <1>1, <1>2, <1>6 DEF LInv, BucketOK, k
  <2>2. CASE h # g
    <3>1. lmine[h] \in Limiters /\ lmine[h] = limiters[key[h]] /\ lmine'[h] = lmine[h] /\ key[h] \in Keys
      BY <2>2, <1>2 DEF LInv, BucketOK, HoldsTheOne
    <3>2. limiters[key[h]] # NoLimiter
      BY <3>1, NoLimiterIsNone
    <3> QED
      BY <3>1, <3>2, <1>2, <1>3, <1>6
  <2> QED
    BY <2>1, <2>2
<1>8. OwnMethod'
  BY <1>1, <1>6 DEF LInv, OwnMethod
<1>9. Unused'
  <2> SUFFICES ASSUME NEW m \in Limiters, limiters'[m[1]] # m
               PROVE  tokens[m] = Full /\ age[m] = 0
    BY <1>2 DEF Unused, Full
  <2>1. m[1] \in Keys /\ m # NoLimiter
    BY NoLimiterIsNone
  <2>2. limiters[m[1]] # m
    BY <2>1, <1>3, <1>6
  <2> QED
    BY <2>2 DEF LInv, Unused
<1>10. Credit'
  <2>1. \A x \in Limiters : Refill(x)' = Refill(x)
    BY <1>2 DEF Refill, Full
  <2> SUFFICES ASSUME NEW m \in Keys
               PROVE  /\ limiters'[m] = NoLimiter => worst[m] = 0
                      /\ \A x \in Limiters : limiters'[m] = x => worst[m] + Refill(x) <= Full
    BY <1>2, <2>1 DEF Credit, Full
  <2>2. CASE m = k /\ limiters[k] = NoLimiter
    <3>1. limiters'[m] = l /\ l # NoLimiter /\ worst[m] = 0
      BY <2>2, <1>1, <1>6, NoLimiterIsNone DEF LInv, Credit
    <3>2. tokens[l] \in 0..Full /\ age[l] \in Nat
      BY <1>1 DEF LInv, BucketOK
    <3>3. Refill(l) \in 0..Full
      BY <3>2, <1>1, RefillBounds, FullNat
    <3> QED
      BY <3>1, <3>3, FullNat
  <2>3. CASE ~(m = k /\ limiters[k] = NoLimiter)
    BY <2>3, <1>3, <1>6 DEF LInv, Credit
  <2> QED
    BY <2>2, <2>3
<1> QED
  BY <1>5, <1>7, <1>8, <1>9, <1>10 DEF LInv

\* Allow spends the token it admits a request for, and only the caller's own method pays.
LEMMA AllowInv ==
  ASSUME LInv, NEW g \in Goroutines, LAllow(g)
  PROVE  LInv'
<1> DEFINE k == key[g]
           l == lmine[g]
           r == Refill(l)
<1>1. k \in Keys /\ l \in Limiters /\ limiters[k] = l /\ l # NoLimiter /\ l[1] = k
  BY NoLimiterIsNone DEF LInv, BucketOK, HoldsTheOne, OwnMethod, LAllow
<1>2. r \in 0..Full /\ Unit \in Nat /\ worst[k] \in Nat /\ worst[k] + r <= Full
  <2>1. tokens[l] \in 0..Full /\ age[l] \in Nat /\ worst[k] \in Nat
    BY <1>1 DEF LInv, BucketOK
  <2>2. r \in 0..Full
    BY <1>1, <2>1, RefillBounds, FullNat
  <2>3. worst[k] + r <= Full
    BY <1>1 DEF LInv, Credit
  <2> QED
    BY <2>1, <2>2, <2>3, LimiterAssumption
<1>3. PICK spent \in 0..Unit, next \in {"idle", "wait"} :
        /\ spent <= r
        /\ tokens' = [tokens EXCEPT ![l] = r - spent]
        /\ worst' = [worst EXCEPT ![k] = @ + spent]
        /\ lpc' = [lpc EXCEPT ![g] = next]
  <2>1. CASE /\ r >= Unit /\ tokens' = [tokens EXCEPT ![l] = r - Unit]
             /\ worst' = [worst EXCEPT ![k] = @ + Unit]
             /\ lpc' = [lpc EXCEPT ![g] = "idle"]
    <3>1. Unit \in 0..Unit
      BY <1>2
    <3> QED
      BY <2>1, <3>1
  <2>2. CASE /\ r < Unit /\ tokens' = [tokens EXCEPT ![l] = r]
             /\ \E next \in {"idle", "wait"} : lpc' = [lpc EXCEPT ![g] = next]
             /\ UNCHANGED worst
    <3>1. PICK next \in {"idle", "wait"} : lpc' = [lpc EXCEPT ![g] = next]
      BY <2>2
    <3>2. 0 \in 0..Unit /\ 0 <= r /\ r - 0 = r /\ worst[k] + 0 = worst[k]
      BY <1>2
    <3>3. worst' = [worst EXCEPT ![k] = worst[k] + 0]
      BY <2>2, <3>2, <1>1, Zenon DEF LInv, BucketOK
    <3>4. worst' = [worst EXCEPT ![k] = @ + 0]
      BY <3>3
    <3>5. tokens' = [tokens EXCEPT ![l] = r - 0]
      BY <2>2, <3>2
    <3> QED
      BY <3>1, <3>2, <3>4, <3>5
  <2> QED
    BY <2>1, <2>2 DEF LAllow
<1>4. age' = [age EXCEPT ![l] = 0] /\ UNCHANGED <<limiters, key, lmine>> /\ lpc[g] = "allow"
  BY DEF LAllow
<1> HIDE DEF k, l, r
<1>5. r - spent \in 0..Full /\ worst[k] + spent \in Nat /\ worst[k] + spent + (r - spent) <= Full
  BY <1>2, <1>3, FullNat
<1>6. BucketOK'
  <2>1. tokens' \in [Limiters -> 0..Full]
    BY <1>1, <1>3, <1>5 DEF LInv, BucketOK
  <2>2. worst' \in [Keys -> Nat]
    BY <1>1, <1>3, <1>5 DEF LInv, BucketOK
  <2>3. age' \in [Limiters -> Nat]
    BY <1>1, <1>4 DEF LInv, BucketOK
  <2>4. lpc' \in [Goroutines -> LLabels]
    BY <1>3 DEF LInv, BucketOK, LLabels
  <2>5. Full' = Full
    BY DEF Full
  <2> QED
    BY <2>1, <2>2, <2>3, <2>4, <2>5, <1>4 DEF LInv, BucketOK
<1>7. HoldsTheOne'
  <2>1. \A h \in Goroutines : lpc'[h] \in {"allow", "wait"} => lpc[h] \in {"allow", "wait"}
    BY <1>3, <1>4 DEF LInv, BucketOK
  <2> QED
    BY <2>1, <1>4 DEF LInv, HoldsTheOne
<1>8. OwnMethod'
  BY <1>4 DEF LInv, OwnMethod
<1>9. Unused'
  <2> SUFFICES ASSUME NEW m \in Limiters, limiters[m[1]] # m
               PROVE  tokens'[m] = Full /\ age'[m] = 0
    BY <1>4 DEF Unused, Full
  <2>1. m # l
    BY <1>1
  <2> QED
    BY <2>1, <1>3, <1>4 DEF LInv, BucketOK, Unused
<1>10. Credit'
  <2>1. \A x \in Limiters : x # l => Refill(x)' = Refill(x)
    BY <1>3, <1>4 DEF Refill, Full, LInv, BucketOK
  <2>2. ASSUME NEW x \in Limiters, x = l
        PROVE  Refill(x)' = r - spent
    <3>1. tokens'[x] = r - spent /\ age'[x] = 0 /\ Rate * 0 = 0
      BY <2>2, <1>1, <1>3, <1>4, LimiterAssumption DEF LInv, BucketOK
    <3>2. tokens'[x] + Rate * age'[x] = r - spent
      BY <3>1, <1>5, FullNat
    <3> QED
      BY <3>2, <1>5, FullNat DEF Refill, Full
  <2> SUFFICES ASSUME NEW m \in Keys
               PROVE  /\ limiters[m] = NoLimiter => worst'[m] = 0
                      /\ \A x \in Limiters : limiters[m] = x => worst'[m] + Refill(x)' <= Full
    BY <1>4 DEF Credit, Full
  <2>3. CASE m = k
    <3>1. worst'[k] = worst[k] + spent
      BY <1>1, <1>3 DEF LInv, BucketOK
    <3> QED
      BY <2>3, <2>2, <3>1, <1>1, <1>5
  <2>4. CASE m # k
    <3>1. worst'[m] = worst[m]
      BY <2>4, <1>3 DEF LInv, BucketOK
    <3>2. limiters[m] # l
      BY <2>4, <1>1 DEF LInv, OwnMethod
    <3>3. ASSUME NEW x \in Limiters, limiters[m] = x
          PROVE  worst'[m] + Refill(x)' <= Full
      <4>1. Refill(x)' = Refill(x)
        BY <3>2, <3>3, <2>1
      <4>2. worst[m] + Refill(x) <= Full
        BY <3>3 DEF LInv, Credit
      <4> QED
        BY <3>1, <4>1, <4>2
    <3> QED
      BY <3>1, <3>3 DEF LInv, Credit
  <2> QED
    BY <2>3, <2>4
<1> QED
  BY <1>6, <1>7, <1>8, <1>9, <1>10 DEF LInv

\* A tick earns each method at most the Rate that leaves its window.
LEMMA TickInv ==
  ASSUME LInv, LTick
  PROVE  LInv'
<1>1. \A l \in Limiters : age'[l] = (IF Running(l) THEN age[l] + 1 ELSE age[l]) /\ age[l] \in Nat
  BY DEF LTick, LInv, BucketOK
<1>2. \A k \in Keys : worst'[k] = (IF worst[k] > Rate THEN worst[k] - Rate ELSE 0) /\ worst[k] \in Nat
  BY DEF LTick, LInv, BucketOK
<1>3. UNCHANGED <<limiters, tokens, lpc, key, lmine>>
  BY DEF LTick
<1>4. BucketOK'
  <2>1. age' \in [Limiters -> Nat]
    BY <1>1 DEF LTick
  <2>2. worst' \in [Keys -> Nat]
    BY <1>2, LimiterAssumption DEF LTick
  <2> QED
    BY <2>1, <2>2, <1>3 DEF LInv, BucketOK, Full
<1>5. HoldsTheOne' /\ OwnMethod'
  BY <1>3 DEF LInv, HoldsTheOne, OwnMethod
<1>6. Unused'
  BY <1>1, <1>3 DEF LInv, Unused, Running, Full
<1>7. Credit'
  <2> SUFFICES ASSUME NEW k \in Keys
               PROVE  /\ limiters[k] = NoLimiter => worst'[k] = 0
                      /\ \A l \in Limiters : limiters[k] = l => worst'[k] + Refill(l)' <= Full
    BY <1>3 DEF Credit, Full
  <2>1. limiters[k] = NoLimiter => worst'[k] = 0
    BY <1>2, LimiterAssumption DEF LInv, Credit
  <2>2. ASSUME NEW l \in Limiters, limiters[k] = l
        PROVE  worst'[k] + Refill(l)' <= Full
    <3>1. tokens[l] \in 0..Full /\ age[l] \in Nat /\ age'[l] \in {age[l], age[l] + 1}
      BY <1>1 DEF LInv, BucketOK
    <3>2. Refill(l)' \in 0..Full /\ Refill(l)' <= Refill(l) + Rate
      BY <3>1, <1>3, RefillTick
    <3>3. Refill(l) \in 0..Full
      BY <3>1, RefillBounds, FullNat
    <3>4. worst[k] + Refill(l) <= Full
      BY <2>2 DEF LInv, Credit
    <3> QED
      BY <3>2, <3>3, <3>4, <1>2, FullNat, LimiterAssumption
  <2> QED
    BY <2>1, <2>2
<1> QED
  BY <1>4, <1>5, <1>6, <1>7 DEF LInv

\* Every step of the limiter preserves the invariant.
LEMMA LStepInv ==
  ASSUME LInv, [LNext]_lvars
  PROVE  LInv'
<1>1. CASE UNCHANGED lvars
  BY <1>1 DEF lvars, LInv, BucketOK, HoldsTheOne, OwnMethod, Unused, Credit, Refill
<1> QED
  BY <1>1, LookupInv, CreateInv, AllowInv, WaitInv, TickInv DEF LNext

\* middleware/ratelimit.go, Allow and GetLimiter: in every window of time a method
\* is admitted at most the burst and what the rate gives for that time.
THEOREM LimiterWithinRate == LSpec => []WithinRate
BY LInitInv, LStepInv, CreditBounds, PTL DEF LSpec
=============================================================================
