---------------------------- MODULE RateLimiter ----------------------------
(***************************************************************************)
(* middleware/ratelimit.go: the token buckets of PerMethodRateLimiter, one *)
(* per method, with their double-checked creation, and concurrent requests *)
(* that call Allow once (the server interceptors) or until a token is      *)
(* there (Wait, used by the client interceptor).  The interceptors of a    *)
(* single limiter are the same without the lookup.                         *)
(*                                                                         *)
(* Time is counted in ticks.  Tokens are integers, Unit of them to a       *)
(* request and Rate of them to a tick, so that fractions of a token are    *)
(* kept as the code's float64 keeps them (its rounding is left out).       *)
(***************************************************************************)
EXTENDS Integers, FiniteSets

CONSTANTS
  Goroutines,  \* callers of the interceptors
  Keys,        \* methods
  Rate, Unit,  \* r.rate = Rate / Unit requests per tick
  Burst        \* r.burst

ASSUME LimiterAssumption ==
  Rate \in Nat /\ Unit \in Nat \ {0} /\ Burst \in Nat

Limiters == Keys \X Goroutines  \* a RateLimiter: its method and its creator
NoLimiter == <<>>
Full == Burst * Unit

VARIABLES
  limiters,    \* p.limiters
  tokens, age, \* per limiter: r.tokens; ticks since r.lastUpdate
  lpc,         \* control of the callers
  key, lmine,  \* the method a caller calls, the limiter it was given
  worst        \* history, per method: the largest sum over the windows that end
               \* now of Unit per request admitted less Rate per tick passed

lvars == <<limiters, tokens, age, lpc, key, lmine, worst>>

LInit ==
  /\ limiters = [k \in Keys |-> NoLimiter]
  /\ tokens = [l \in Limiters |-> Full] /\ age = [l \in Limiters |-> 0]
  /\ lpc = [g \in Goroutines |-> "idle"]
  /\ key \in [Goroutines -> Keys] /\ lmine = [g \in Goroutines |-> NoLimiter]
  /\ worst = [k \in Keys |-> 0]

(* GetLimiter: under the read lock, and again under the write lock.  A     *)
(* limiter is full, and its clock stands at zero, until it is created.     *)
LLookup(g, k) ==
  /\ lpc[g] = "idle"
  /\ key' = [key EXCEPT ![g] = k] /\ lmine' = [lmine EXCEPT ![g] = limiters[k]]
  /\ lpc' = [lpc EXCEPT ![g] = IF limiters[k] = NoLimiter THEN "create" ELSE "allow"]
  /\ UNCHANGED <<limiters, tokens, age, worst>>

\* Mutant: the table is not looked at again under the write lock.
LCreateUnchecked(g) ==
  /\ lpc[g] = "create" /\ lpc' = [lpc EXCEPT ![g] = "allow"]
  /\ limiters' = [limiters EXCEPT ![key[g]] = <<key[g], g>>]
  /\ lmine' = [lmine EXCEPT ![g] = <<key[g], g>>]
  /\ UNCHANGED <<tokens, age, key, worst>>

LCreate(g) ==
  LET k == key[g]
      l == IF limiters[k] = NoLimiter THEN <<k, g>> ELSE limiters[k]
  IN  /\ lpc[g] = "create" /\ lpc' = [lpc EXCEPT ![g] = "allow"]
      /\ limiters' = [limiters EXCEPT ![k] = l] /\ lmine' = [lmine EXCEPT ![g] = l]
      /\ UNCHANGED <<tokens, age, key, worst>>

(* The bucket after the elapsed time has been added and cut to the burst.  *)
Refill(l) == LET t == tokens[l] + Rate * age[l] IN IF t > Full THEN Full ELSE t

(* Allow, under r.mu.  A refused request fails, or waits to try again.     *)
LAllow(g) ==
  LET l == lmine[g] IN
  /\ lpc[g] = "allow" /\ age' = [age EXCEPT ![l] = 0]
  /\ \/ /\ Refill(l) >= Unit /\ tokens' = [tokens EXCEPT ![l] = Refill(l) - Unit]
        /\ worst' = [worst EXCEPT ![key[g]] = @ + Unit]
        /\ lpc' = [lpc EXCEPT ![g] = "idle"]
     \/ /\ Refill(l) < Unit /\ tokens' = [tokens EXCEPT ![l] = Refill(l)]
        /\ \E next \in {"idle", "wait"} : lpc' = [lpc EXCEPT ![g] = next]
        /\ UNCHANGED worst
  /\ UNCHANGED <<limiters, key, lmine>>

(* Wait: after 10 ms once more, or the context ends.  *)
Wait(g) ==
  /\ lpc[g] = "wait" /\ \E next \in {"idle", "allow"} : lpc' = [lpc EXCEPT ![g] = next]
  /\ UNCHANGED <<limiters, tokens, age, key, lmine, worst>>

(* Time passes.  Ages stop at MaxAge, by when a bucket that fills is full. *)
MaxAge == Full

Running(l) == limiters[l[1]] = l /\ age[l] < MaxAge

LTick ==
  /\ age' = [l \in Limiters |-> IF Running(l) THEN age[l] + 1 ELSE age[l]]
  /\ worst' = [k \in Keys |-> IF worst[k] > Rate THEN worst[k] - Rate ELSE 0]
  /\ UNCHANGED <<limiters, tokens, lpc, key, lmine>>

LNext ==
  \/ \E g \in Goroutines, k \in Keys : LLookup(g, k)
  \/ \E g \in Goroutines : LCreate(g) \/ LAllow(g) \/ Wait(g)
  \/ LTick

LSpec == LInit /\ [][LNext]_lvars

LTypeOK ==
  /\ limiters \in [Keys -> Limiters \cup {NoLimiter}]
  /\ tokens \in [Limiters -> Int] /\ age \in [Limiters -> Nat]
  /\ lpc \in [Goroutines -> {"idle", "create", "allow", "wait"}]
  /\ key \in [Goroutines -> Keys] /\ lmine \in [Goroutines -> Limiters \cup {NoLimiter}]
  /\ worst \in [Keys -> Int]

(* In every window of time a method is admitted at most Burst requests     *)
(* plus Rate for the time that passed, however many goroutines were first  *)
(* to call it and however long its bucket lay idle before.                 *)
WithinRate == \A k \in Keys : worst[k] <= Full
============================================================================
