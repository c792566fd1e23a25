-------------------------------- MODULE App ---------------------------------
(***************************************************************************)
(* The application lifecycle of grodyia.go together with what the three    *)
(* transports do when they are started and stopped, possibly more than     *)
(* once: Start with its hooks and its rollback, Stop, and callers of both  *)
(* that run concurrently.  a.mu protects only the flags: everything else   *)
(* Start and Stop do is outside the lock.                                  *)
(*                                                                         *)
(* The registry is the interface of registry/registry.go as App uses it,   *)
(* and the event bus is reduced to whether it is closed.  The addresses of *)
(* the HTTP and WebSocket transports are assumed free of other processes.  *)
(***************************************************************************)
EXTENDS Naturals, Sequences

CONSTANTS Callers,   \* goroutines that call Start and Stop
          Kinds,     \* the bound transports in order: a sequence of "http", "grpc", "ws"
          MaxCalls   \* bound: calls of Start and Stop

T == DOMAIN Kinds

ASSUME AppAssumption ==
  /\ Kinds \in Seq({"http", "grpc", "ws"})
  /\ MaxCalls \in Nat

N == Len(Kinds)

VARIABLES running, starting,  \* the flags under a.mu
          pc,                 \* where each caller is
          at,                 \* index into a.transports
          connected,          \* registryConnected of the Start in progress
          failed,             \* err of the Start in progress
          registry,           \* the registry is connected
          registered,         \* transports it advertises
          busClosed,          \* the event bus is closed
          built,              \* transports with s.server # nil
          listening,          \* who listens on the address: "no", "current", "orphan"
          heartbeats,         \* ws: scheduler goroutines
          heartbeatStop,      \* ws: channels closed
          heartbeatDone,
          crashed,            \* a goroutine panicked, the process is gone
          \* history
          calls,
          raced,              \* a Start or Stop began while another was under way
          tlsFailed           \* grpc transports whose credentials failed to load

flags   == <<running, starting>>
frame   == <<pc, at, connected, failed>>
reg     == <<registry, registered>>
trans   == <<built, listening, heartbeats, heartbeatStop, heartbeatDone, crashed, tlsFailed>>
vars    == <<flags, frame, reg, busClosed, trans, calls, raced>>

Init ==
  /\ running = FALSE /\ starting = FALSE
  /\ pc = [c \in Callers |-> "idle"] /\ at = [c \in Callers |-> 0]
  /\ connected = [c \in Callers |-> FALSE] /\ failed = [c \in Callers |-> FALSE]
  /\ registry = FALSE /\ registered = {}
  /\ busClosed = FALSE
  /\ built = {} /\ listening = [t \in T |-> "no"]
  /\ heartbeats = [t \in T |-> 0] /\ heartbeatStop = {} /\ heartbeatDone = {}
  /\ crashed = FALSE
  /\ calls = 0 /\ raced = FALSE /\ tlsFailed = {}

Goto(c, label) == pc' = [pc EXCEPT ![c] = label]
Busy == {c \in Callers : pc[c] # "idle"}

\* A call of Start or Stop that passes its guard; the history notes if another is
\* still at work.
Enter(c, label) ==
  /\ Goto(c, label)
  /\ raced' = (raced \/ Busy # {})

-----------------------------------------------------------------------------
(* The transports. *)

\* ListenAndServe of the new http.Server, in the background.  If the previous one
\* still listens, s.server no longer refers to it and the new one gets nothing.
Listen(t) == listening' = [listening EXCEPT ![t] = IF @ = "no" THEN "current" ELSE "orphan"]

\* http.go Start never fails.
StartHTTP(t) ==
  /\ Kinds[t] = "http"
  /\ built' = built \cup {t}
  /\ Listen(t)
  /\ UNCHANGED <<heartbeats, heartbeatStop, heartbeatDone, crashed, tlsFailed>>

\* ws.go Start never fails, and starts another heartbeat scheduler.
StartWS(t) ==
  /\ Kinds[t] = "ws"
  /\ built' = built \cup {t}
  /\ Listen(t)
  /\ heartbeats' = [heartbeats EXCEPT ![t] = @ + 1]
  /\ UNCHANGED <<heartbeatStop, heartbeatDone, crashed, tlsFailed>>

\* grpc.go Start listens first; failing credentials leave that listener open.
StartGRPC(t) ==
  /\ Kinds[t] = "grpc" /\ listening[t] = "no"
  /\ built' = built \cup {t}
  /\ Listen(t)
  /\ UNCHANGED <<heartbeats, heartbeatStop, heartbeatDone, crashed, tlsFailed>>

StartGRPCFails(t) ==
  /\ Kinds[t] = "grpc"
  /\ \/ UNCHANGED <<listening, tlsFailed>>
     \/ /\ listening[t] = "no"
        /\ listening' = [listening EXCEPT ![t] = "orphan"]
        /\ tlsFailed' = tlsFailed \cup {t}
  /\ UNCHANGED <<built, heartbeats, heartbeatStop, heartbeatDone, crashed>>

\* Shutdown of s.server.
Unlisten(t) == listening' = [listening EXCEPT ![t] = IF @ = "current" THEN "no" ELSE @]

\* Stop of a transport.  For ws: closing heartbeatStop a second time panics, and
\* Stop then waits for heartbeatDone; `next` is where the caller goes.
StopTransport(c, t, next) ==
  \/ /\ t \notin built
     /\ next
     /\ UNCHANGED trans
  \/ /\ t \in built /\ Kinds[t] # "ws"
     /\ Unlisten(t)
     /\ next
     /\ UNCHANGED <<built, heartbeats, heartbeatStop, heartbeatDone, crashed, tlsFailed>>
  \/ /\ t \in built /\ Kinds[t] = "ws" /\ pc[c] \in {"stopTransports", "rollback"}
     /\ crashed' = (t \in heartbeatStop)
     /\ heartbeatStop' = heartbeatStop \cup {t}
     /\ Goto(c, IF pc[c] = "rollback" THEN "rollbackWait" ELSE "stopWait")
     /\ UNCHANGED <<built, listening, heartbeats, heartbeatDone, tlsFailed, at, connected, failed>>
  \/ /\ t \in heartbeatDone /\ pc[c] \in {"stopWait", "rollbackWait"}
     /\ Unlisten(t)
     /\ next
     /\ UNCHANGED <<built, heartbeats, heartbeatStop, heartbeatDone, crashed, tlsFailed>>

\* Mutant: the scheduler returns without closing heartbeatDone.
HeartbeatEndSilent(t) ==
  /\ heartbeats[t] > 0 /\ t \in heartbeatStop
  /\ heartbeats' = [heartbeats EXCEPT ![t] = @ - 1]
  /\ UNCHANGED <<flags, frame, reg, busClosed, built, listening, heartbeatStop, heartbeatDone,
                 crashed, calls, raced, tlsFailed>>

\* The scheduler sees heartbeatStop closed and closes heartbeatDone, which panics
\* if it is closed already.
HeartbeatEnd(t) ==
  /\ heartbeats[t] > 0 /\ t \in heartbeatStop
  /\ heartbeats' = [heartbeats EXCEPT ![t] = @ - 1]
  /\ crashed' = (t \in heartbeatDone)
  /\ heartbeatDone' = heartbeatDone \cup {t}
  /\ UNCHANGED <<flags, frame, reg, busClosed, built, listening, heartbeatStop, calls, raced, tlsFailed>>

-----------------------------------------------------------------------------
(* App.Start. *)

\* A Start of a running or starting application returns nil at once.
StartBegin(c) ==
  /\ pc[c] = "idle" /\ calls < MaxCalls
  /\ calls' = calls + 1
  /\ \/ /\ running \/ starting
        /\ UNCHANGED <<starting, frame, raced>>
     \/ /\ ~running /\ ~starting
        /\ starting' = TRUE
        /\ Enter(c, "prepare")
        /\ at' = [at EXCEPT ![c] = 1]
        /\ connected' = [connected EXCEPT ![c] = FALSE]
        /\ failed' = [failed EXCEPT ![c] = FALSE]
  /\ UNCHANGED <<running, reg, busClosed, trans>>

\* logger.New and the before-start hooks: an error ends Start.
StartPrepare(c) ==
  /\ pc[c] = "prepare"
  /\ \/ Goto(c, "connect") /\ UNCHANGED failed
     \/ Goto(c, "finish") /\ failed' = [failed EXCEPT ![c] = TRUE]
  /\ UNCHANGED <<flags, at, connected, reg, busClosed, trans, calls, raced>>

\* An error of registry.Connect is only logged.
StartConnect(c) ==
  /\ pc[c] = "connect"
  /\ Goto(c, "startTransports")
  /\ \/ registry' = TRUE /\ connected' = [connected EXCEPT ![c] = TRUE]
     \/ UNCHANGED <<registry, connected>>
  /\ UNCHANGED <<flags, at, failed, registered, busClosed, trans, calls, raced>>

\* Start of the next transport.
StartTransport(c) ==
  LET t == at[c] IN
  /\ pc[c] = "startTransports" /\ t \in T
  /\ \/ StartHTTP(t) /\ Goto(c, "register") /\ UNCHANGED failed
     \/ StartWS(t) /\ Goto(c, "register") /\ UNCHANGED failed
     \/ StartGRPC(t) /\ Goto(c, "register") /\ UNCHANGED failed
     \/ StartGRPCFails(t) /\ Goto(c, "finish") /\ failed' = [failed EXCEPT ![c] = TRUE]
  /\ UNCHANGED <<flags, at, connected, reg, busClosed, calls, raced>>

\* registry.Register of the transport just started; its error is only logged.
StartRegister(c) ==
  /\ pc[c] = "register"
  /\ \/ registry /\ registered' = registered \cup {at[c]}
     \/ UNCHANGED registered
  /\ at' = [at EXCEPT ![c] = @ + 1]
  /\ Goto(c, "startTransports")
  /\ UNCHANGED <<flags, connected, failed, registry, busClosed, trans, calls, raced>>

\* registry.Watch (its watcher is dropped, its error logged), then the start event,
\* which a closed bus refuses; then the after-start hooks, whose errors are logged.
StartPublish(c) ==
  /\ pc[c] = "startTransports" /\ at[c] \notin T
  /\ failed' = [failed EXCEPT ![c] = busClosed]
  /\ Goto(c, "finish")
  /\ UNCHANGED <<flags, at, connected, reg, busClosed, trans, calls, raced>>

\* Mutant: the deferred function leaves `starting` set after a failure.
StartFinishStuck(c) ==
  /\ pc[c] = "finish"
  /\ starting' = failed[c]
  /\ running' = ~failed[c]
  /\ Goto(c, IF failed[c] THEN "rollback" ELSE "idle")
  /\ at' = [at EXCEPT ![c] = IF failed[c] THEN @ - 1 ELSE 0]
  /\ UNCHANGED <<connected, failed, reg, busClosed, trans, calls, raced>>

\* Mutant: a failed start is not rolled back.
StartFinishNoRollback(c) ==
  /\ pc[c] = "finish"
  /\ starting' = FALSE
  /\ running' = ~failed[c]
  /\ Goto(c, "idle")
  /\ at' = [at EXCEPT ![c] = 0]
  /\ UNCHANGED <<connected, failed, reg, busClosed, trans, calls, raced>>

\* Mutant: the application counts as running whatever Start's outcome.
StartFinishRunning(c) ==
  /\ pc[c] = "finish"
  /\ starting' = FALSE
  /\ running' = TRUE
  /\ Goto(c, IF failed[c] THEN "rollback" ELSE "idle")
  /\ at' = [at EXCEPT ![c] = IF failed[c] THEN @ - 1 ELSE 0]
  /\ UNCHANGED <<connected, failed, reg, busClosed, trans, calls, raced>>

\* The deferred function sets the flags, under the lock.
StartFinish(c) ==
  /\ pc[c] = "finish"
  /\ starting' = FALSE
  /\ running' = ~failed[c]
  /\ Goto(c, IF failed[c] THEN "rollback" ELSE "idle")
  /\ at' = [at EXCEPT ![c] = IF failed[c] THEN @ - 1 ELSE 0]
  /\ UNCHANGED <<connected, failed, reg, busClosed, trans, calls, raced>>

\* The rollback, after the lock is released: the started transports in reverse ...
RollbackTransport(c) ==
  /\ pc[c] \in {"rollback", "rollbackWait"} /\ at[c] > 0
  /\ StopTransport(c, at[c], /\ at' = [at EXCEPT ![c] = @ - 1]
                             /\ Goto(c, "rollback")
                             /\ UNCHANGED <<connected, failed>>)
  /\ UNCHANGED <<flags, reg, busClosed, calls, raced>>

\* ... and the registry, if this Start connected it.
RollbackRegistry(c) ==
  /\ pc[c] = "rollback" /\ at[c] = 0
  /\ \/ connected[c] /\ registry' = FALSE /\ registered' = {}
     \/ ~connected[c] /\ UNCHANGED reg
  /\ Goto(c, "idle")
  /\ UNCHANGED <<flags, at, connected, failed, busClosed, trans, calls, raced>>

-----------------------------------------------------------------------------
(* App.Stop. *)

\* A Stop of an application that is not running, a starting one included, returns
\* nil at once.
StopBegin(c) ==
  /\ pc[c] = "idle" /\ calls < MaxCalls
  /\ calls' = calls + 1
  /\ \/ ~running /\ UNCHANGED <<running, pc, raced>>
     \/ running /\ running' = FALSE /\ Enter(c, "closeRegistry")
  /\ UNCHANGED <<starting, at, connected, failed, reg, busClosed, trans>>

\* Mutant: transports are stopped before the registry is closed.
StopRegistryLast(c) ==
  /\ pc[c] = "closeRegistry"
  /\ at' = [at EXCEPT ![c] = 1]
  /\ Goto(c, "stopTransports")
  /\ UNCHANGED <<flags, connected, failed, reg, busClosed, trans, calls, raced>>

\* cancel, the before-stop hooks, whose errors are logged, and registry.Close.
StopRegistry(c) ==
  /\ pc[c] = "closeRegistry"
  /\ registry' = FALSE /\ registered' = {}
  /\ at' = [at EXCEPT ![c] = 1]
  /\ Goto(c, "stopTransports")
  /\ UNCHANGED <<flags, connected, failed, busClosed, trans, calls, raced>>

StopTransports(c) ==
  /\ pc[c] \in {"stopTransports", "stopWait"} /\ at[c] \in T
  /\ StopTransport(c, at[c], /\ at' = [at EXCEPT ![c] = @ + 1]
                             /\ Goto(c, "stopTransports")
                             /\ UNCHANGED <<connected, failed>>)
  /\ UNCHANGED <<flags, reg, busClosed, calls, raced>>

\* The event bus is closed, then the after-stop hooks run.
StopBus(c) ==
  /\ pc[c] = "stopTransports" /\ at[c] \notin T
  /\ busClosed' = TRUE
  /\ at' = [at EXCEPT ![c] = 0]
  /\ Goto(c, "idle")
  /\ UNCHANGED <<flags, connected, failed, reg, trans, calls, raced>>

-----------------------------------------------------------------------------
CallStep(c) ==
  \/ StartPrepare(c) \/ StartConnect(c) \/ StartTransport(c) \/ StartRegister(c)
  \/ StartPublish(c) \/ StartFinish(c) \/ RollbackTransport(c) \/ RollbackRegistry(c)
  \/ StopRegistry(c) \/ StopTransports(c) \/ StopBus(c)

Finished == (crashed \/ (Busy = {} /\ calls = MaxCalls)) /\ UNCHANGED vars

Next ==
  \/ ~crashed /\ \E c \in Callers : StartBegin(c) \/ StopBegin(c) \/ CallStep(c)
  \/ ~crashed /\ \E t \in T : HeartbeatEnd(t)
  \/ Finished

\* The callers and the heartbeat goroutines are scheduled, and hooks return.
Fairness ==
  /\ \A c \in Callers : WF_vars(~crashed /\ CallStep(c))
  /\ \A t \in T : WF_vars(~crashed /\ HeartbeatEnd(t))

Spec     == Init /\ [][Next]_vars
FairSpec == Spec /\ Fairness

-----------------------------------------------------------------------------
Labels == {"idle", "prepare", "connect", "startTransports", "register", "finish", "rollback",
           "rollbackWait", "closeRegistry", "stopTransports", "stopWait"}

TypeOK ==
  /\ running \in BOOLEAN /\ starting \in BOOLEAN
  /\ pc \in [Callers -> Labels] /\ at \in [Callers -> 0..(N + 1)]
  /\ connected \in [Callers -> BOOLEAN] /\ failed \in [Callers -> BOOLEAN]
  /\ registry \in BOOLEAN /\ registered \subseteq T
  /\ busClosed \in BOOLEAN
  /\ built \subseteq T /\ listening \in [T -> {"no", "current", "orphan"}]
  /\ heartbeats \in [T -> 0..MaxCalls] /\ heartbeatStop \subseteq T /\ heartbeatDone \subseteq T
  /\ crashed \in BOOLEAN /\ raced \in BOOLEAN
  /\ calls \in 0..MaxCalls /\ tlsFailed \subseteq T

InStart(c) == pc[c] \in {"prepare", "connect", "startTransports", "register", "finish"}
RollingBack(c) == pc[c] \in {"rollback", "rollbackWait"}

\* grodyia.go:235-239, 245-253.  `starting` is up exactly while one caller is inside
\* Start, and running excludes it: two Starts never proceed together.
OneStart ==
  /\ ~(running /\ starting)
  /\ \A c, d \in Callers : InStart(c) /\ InStart(d) => c = d
  /\ starting <=> \E c \in Callers : InStart(c)

\* grodyia.go:244-265, 342-393.  When every call has returned and the application is
\* not running, nothing is left of it: no transport listens (but for a gRPC listener
\* whose credentials failed to load) and nothing is advertised.
NothingLeftBehind ==
  Busy = {} /\ ~running /\ ~raced /\ ~crashed =>
    /\ \A t \in T : listening[t] = "no" \/ (listening[t] = "orphan" /\ t \in tlsFailed)
    /\ registered = {}

\* grodyia.go:405-410.  IsRunning is true of an application whose transports all listen
\* and whose bus is open, provided no Start or Stop began while another was at work.
RunningMeansServing ==
  Busy = {} /\ running /\ ~raced /\ ~crashed =>
    ~busClosed /\ \A t \in T : listening[t] = "current"

\* grodyia.go:363-377.  A service is advertised only while it listens, except during the
\* rollback of a failed Start, which stops transports before it closes the registry.
AdvertisedIsServing ==
  ~raced /\ ~crashed /\ (\A c \in Callers : ~RollingBack(c)) =>
    \A t \in registered : listening[t] = "current"

\* grodyia.go:233-393.  Every call of Start or Stop returns, or the process crashes.
CallsReturn == \A c \in Callers : pc[c] # "idle" ~> (pc[c] = "idle" \/ crashed)

\* grodyia_test.go:26-48 (a failed Start is followed by a Start that succeeds, and by
\* Stop): starting again after a failed Start does not bring the process down.
RetrySurvives == crashed => raced \/ busClosed
=============================================================================
