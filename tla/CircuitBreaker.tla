--------------------------- MODULE CircuitBreaker ---------------------------
(***************************************************************************)
(* The circuit breakers of middleware/circuitbreaker.go, one per method:   *)
(* the table of PerMethodCircuitBreaker with its double-checked creation,  *)
(* the three states, and concurrent requests whose results may arrive when *)
(* the breaker has long left the state in which it admitted them.          *)
(*                                                                         *)
(* A request is a goroutine that goes through the interceptor again and    *)
(* again.  Execute and the interceptors of a single breaker are the same   *)
(* without the lookup.  Time is kept as the age of lastStateChange, which  *)
(* is read only in the open state and matters only up to Timeout.          *)
(***************************************************************************)
EXTENDS Naturals, FiniteSets

CONSTANTS Requests,          \* goroutines that make calls
          Methods,           \* keys of p.breakers
          FailureThreshold,  \* config
          SuccessThreshold,
          Timeout            \* in ticks of the model's clock

ASSUME BreakerAssumption ==
  /\ FailureThreshold \in Nat /\ SuccessThreshold \in Nat
  /\ Timeout \in Nat

Objects == Methods \X Requests   \* a CircuitBreaker: its method and its creator
None    == <<>>

VARIABLES breakers,  \* p.breakers: method -> object
          cb,        \* the fields of each object
          pc,        \* where each request is
          method,    \* the method it calls
          mine,      \* the breaker it was given
          healthy    \* environment: from now on every call succeeds

vars == <<breakers, cb, pc, method, mine, healthy>>

NewCircuitBreaker == [state |-> "closed", failures |-> 0, successes |-> 0, age |-> 0]

Init ==
  /\ breakers = [m \in Methods |-> None]
  /\ cb = [o \in Objects |-> NewCircuitBreaker]
  /\ pc = [r \in Requests |-> "idle"]
  /\ method \in [Requests -> Methods]
  /\ mine = [r \in Requests |-> None]
  /\ healthy = FALSE

Goto(r, label) == pc' = [pc EXCEPT ![r] = label]

-----------------------------------------------------------------------------
(* GetBreaker. *)

\* The lookup under the read lock.
Lookup(r, m) ==
  /\ pc[r] = "idle"
  /\ method' = [method EXCEPT ![r] = m]
  /\ mine' = [mine EXCEPT ![r] = breakers[m]]
  /\ Goto(r, IF breakers[m] = None THEN "create" ELSE "allow")
  /\ UNCHANGED <<breakers, cb, healthy>>

\* Mutant: the table is not looked at again under the write lock.
CreateUnchecked(r) ==
  LET m == method[r] IN
  /\ pc[r] = "create"
  /\ breakers' = [breakers EXCEPT ![m] = <<m, r>>]
  /\ mine' = [mine EXCEPT ![r] = <<m, r>>]
  /\ Goto(r, "allow")
  /\ UNCHANGED <<cb, method, healthy>>

\* Under the write lock: look again, and create.
Create(r) ==
  LET m == method[r]
      b == IF breakers[m] = None THEN <<m, r>> ELSE breakers[m]
  IN  /\ pc[r] = "create"
      /\ breakers' = [breakers EXCEPT ![m] = b]
      /\ mine' = [mine EXCEPT ![r] = b]
      /\ Goto(r, "allow")
      /\ UNCHANGED <<cb, method, healthy>>

-----------------------------------------------------------------------------
(* The breaker.  Allow, RecordSuccess and RecordFailure each run under cb.mu. *)

SetState(s) == [state |-> s, failures |-> 0, successes |-> 0, age |-> 0]

\* Allow, and what the interceptor does with its answer.
Allow(r) ==
  LET o == mine[r] IN
  /\ pc[r] = "allow"
  /\ \/ /\ cb[o].state \in {"closed", "half-open"}
        /\ Goto(r, "running")
        /\ UNCHANGED cb
     \/ /\ cb[o].state = "open" /\ cb[o].age >= Timeout
        /\ cb' = [cb EXCEPT ![o] = SetState("half-open")]
        /\ Goto(r, "running")
     \/ /\ cb[o].state = "open" /\ cb[o].age < Timeout
        /\ Goto(r, "idle")
        /\ UNCHANGED cb
  /\ UNCHANGED <<breakers, method, mine, healthy>>

\* Mutant: successes of a half-open breaker are not counted.
RecordSuccessUncounted(c) == IF c.state = "closed" THEN [c EXCEPT !.failures = 0] ELSE c

\* Mutant: a success takes one failure back instead of all.
RecordSuccessDecays(c) ==
  CASE c.state = "closed" -> [c EXCEPT !.failures = @ - 1]
    [] c.state = "half-open" /\ c.successes + 1 >= SuccessThreshold -> SetState("closed")
    [] c.state = "half-open" /\ c.successes + 1 < SuccessThreshold -> [c EXCEPT !.successes = @ + 1]
    [] c.state = "open" -> c

\* The breaker c after RecordSuccess.
RecordSuccess(c) ==
  CASE c.state = "closed" -> [c EXCEPT !.failures = 0]
    [] c.state = "half-open" /\ c.successes + 1 >= SuccessThreshold -> SetState("closed")
    [] c.state = "half-open" /\ c.successes + 1 < SuccessThreshold -> [c EXCEPT !.successes = @ + 1]
    [] c.state = "open" -> c

\* Mutant: the threshold is passed, not met.
RecordFailureOneMore(c) ==
  CASE c.state = "closed" /\ c.failures + 1 > FailureThreshold -> SetState("open")
    [] c.state = "closed" /\ c.failures + 1 <= FailureThreshold -> [c EXCEPT !.failures = @ + 1]
    [] c.state = "half-open" -> SetState("open")
    [] c.state = "open" -> c

\* Mutant: a failure that arrives late starts the open period again.
RecordFailureExtends(c) ==
  IF c.state = "closed" /\ c.failures + 1 < FailureThreshold
  THEN [c EXCEPT !.failures = @ + 1]
  ELSE SetState("open")

\* The breaker c after RecordFailure.
RecordFailure(c) ==
  CASE c.state = "closed" /\ c.failures + 1 >= FailureThreshold -> SetState("open")
    [] c.state = "closed" /\ c.failures + 1 < FailureThreshold -> [c EXCEPT !.failures = @ + 1]
    [] c.state = "half-open" -> SetState("open")
    [] c.state = "open" -> c

Record(r, c) ==
  /\ pc[r] = "running"
  /\ cb' = [cb EXCEPT ![mine[r]] = c]
  /\ Goto(r, "idle")
  /\ UNCHANGED <<breakers, method, mine, healthy>>

Succeed(r) == Record(r, RecordSuccess(cb[mine[r]]))

\* The call fails with an error that isCircuitBreakerError counts ...
Fail(r) == ~healthy /\ Record(r, RecordFailure(cb[mine[r]]))

\* ... or with one that it does not count.
FailUncounted(r) == ~healthy /\ Record(r, cb[mine[r]])

-----------------------------------------------------------------------------
(* The environment. *)

Waiting(o) == cb[o].state = "open" /\ cb[o].age < Timeout

Tick ==
  /\ \E o \in Objects : Waiting(o)
  /\ cb' = [o \in Objects |-> IF Waiting(o) THEN [cb[o] EXCEPT !.age = @ + 1] ELSE cb[o]]
  /\ UNCHANGED <<breakers, pc, method, mine, healthy>>

Heal ==
  /\ ~healthy
  /\ healthy' = TRUE
  /\ UNCHANGED <<breakers, cb, pc, method, mine>>

Next ==
  \/ \E r \in Requests, m \in Methods : Lookup(r, m)
  \/ \E r \in Requests : Create(r) \/ Allow(r) \/ Succeed(r) \/ Fail(r) \/ FailUncounted(r)
  \/ Tick
  \/ Heal

\* A request that has begun ends, time passes, and every method keeps being called.
Fairness ==
  /\ \A r \in Requests : WF_vars(Create(r) \/ Allow(r) \/ Succeed(r) \/ Fail(r) \/ FailUncounted(r))
  /\ WF_vars(Tick)
  /\ \A m \in Methods : SF_vars(\E r \in Requests : Lookup(r, m))

Spec     == Init /\ [][Next]_vars
FairSpec == Spec /\ Fairness

-----------------------------------------------------------------------------
States == {"closed", "open", "half-open"}

TypeOK ==
  /\ breakers \in [Methods -> Objects \cup {None}]
  /\ cb \in [Objects -> [state : States, failures : Nat, successes : Nat, age : 0..Timeout]]
  /\ pc \in [Requests -> {"idle", "create", "allow", "running"}]
  /\ method \in [Requests -> Methods]
  /\ mine \in [Requests -> Objects \cup {None}]
  /\ healthy \in BOOLEAN

\* circuitbreaker.go:244-263.  All requests of a method that are past GetBreaker hold the
\* same breaker, the one in the table, although several may have missed it at first:
\* no result is recorded in a breaker that nobody consults.
OneBreakerPerMethod ==
  \A r \in Requests : pc[r] \in {"allow", "running"} =>
    mine[r] \in Objects /\ mine[r] = breakers[method[r]]

\* circuitbreaker.go:115-157.  However late results arrive: failures are counted only in the
\* closed state and successes only in the half-open one, and a count that has reached its
\* threshold has changed the state.
CountersInv ==
  \A o \in Objects :
    /\ cb[o].failures # 0 => cb[o].state = "closed" /\ cb[o].failures < FailureThreshold
    /\ cb[o].successes # 0 => cb[o].state = "half-open" /\ cb[o].successes < SuccessThreshold

\* circuitbreaker.go:99-105, 115-145.  An open circuit is left only for half-open, only once
\* Timeout has passed since it opened, and no result that arrives meanwhile begins that
\* period again.
OpenPeriod ==
  [][\A o \in Objects : cb[o].state = "open" =>
       \/ cb'[o].state = "open" /\ cb'[o].age >= cb[o].age
       \/ cb'[o].state = "half-open" /\ cb[o].age >= Timeout]_vars

\* circuitbreaker.go:92-145.  Once every call succeeds, the breaker of a method that is still
\* called ends up closed and stays so, whatever state the failures left it in.
Recovers ==
  healthy ~> [](\A m \in Methods : breakers[m] # None => cb[breakers[m]].state = "closed")
=============================================================================
