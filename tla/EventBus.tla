------------------------------ MODULE EventBus ------------------------------
(***************************************************************************)
(* The in-process event bus of events/events.go.                           *)
(*                                                                         *)
(* Goroutines that call Publish are Publishers, and the bus's own workers  *)
(* whose handlers publish in turn.  A Publish reads `closed` and copies    *)
(* the subscriber lists under the read lock and delivers after releasing   *)
(* it, so everything that follows interleaves with Subscribe, Unsubscribe, *)
(* Close and the workers.  The worker pool is started lazily by the first  *)
(* asynchronous delivery (startOnce).                                      *)
(***************************************************************************)
EXTENDS Naturals, Sequences, FiniteSets

CONSTANTS Publishers,   \* goroutines that call Publish
          Closers,      \* goroutines that call Close
          Topics,       \* topics subscribed and published to
          Wildcard,     \* the topic "*"
          WorkerCount,  \* opts.WorkerCount, after NewBus raised it to 1
          BufferSize,   \* opts.BufferSize, after NewBus raised it to 1
          MaxEvents,    \* bound: calls of Publish
          MaxSubs,      \* bound: calls of Subscribe
          MaxCalls      \* bound: calls of Publish and Subscribe together

ASSUME BusAssumption ==
  /\ WorkerCount \in Nat \ {0}
  /\ BufferSize \in Nat \ {0}
  /\ MaxEvents \in Nat /\ MaxSubs \in Nat /\ MaxCalls \in Nat
  /\ Wildcard \in Topics
  /\ Publishers \cap (1..WorkerCount) = {}

VARIABLES async,        \* opts.Async
          subscribers,  \* topic -> ids of its subscriptions, oldest first
          nextID,       \* ids handed out so far
          closed,       \* b.closed
          done,         \* b.done has been closed
          jobs,         \* the channel b.jobs
          once,         \* b.startOnce: "new", "running", "done"
          wg,           \* counter of b.workerWG
          worker,       \* pool goroutines: program counter and job
          call,         \* Publish in progress, per goroutine
          closer,       \* program counter of each Close
          crashed,      \* the runtime panicked
          \* history of the calls, read by the properties only
          calls,        \* number of Publish calls so far
          record,       \* per call: subscriptions copied and delivered to, result
          pending,      \* jobs accepted and not yet dispatched, oldest first
          quietClose    \* no start of the pool was pending when Close took effect

bus  == <<async, subscribers, nextID, closed, done, jobs, once, wg>>
hist == <<calls, record, pending, quietClose>>
vars == <<bus, worker, call, closer, crashed, hist>>

Workers == 1..WorkerCount
Callers == Publishers \cup Workers
Events  == 1..MaxEvents
Subs    == 1..MaxSubs
Jobs    == Events \X Subs          \* eventJob: which event, whose handler

NoCall == [pc |-> "idle", event |-> 0, todo |-> <<>>]
NoJob  == <<>>

Init ==
  /\ async \in BOOLEAN
  /\ subscribers = [t \in Topics |-> <<>>]
  /\ nextID = 0
  /\ closed = FALSE /\ done = FALSE
  /\ jobs = <<>>
  /\ once = "new"
  /\ wg = 0
  /\ worker = [w \in Workers |-> [pc |-> "none", job |-> NoJob]]
  /\ call = [q \in Callers |-> NoCall]
  /\ closer = [c \in Closers |-> "idle"]
  /\ crashed = FALSE
  /\ calls = 0
  /\ record = [e \in Events |-> [subs |-> <<>>, got |-> <<>>, result |-> "none"]]
  /\ pending = <<>>
  /\ quietClose = TRUE

-----------------------------------------------------------------------------
(* Subscribe and Unsubscribe run entirely under the write lock. *)

Subscribe(t) ==
  /\ ~closed
  /\ nextID < MaxSubs /\ nextID + calls < MaxCalls
  /\ nextID' = nextID + 1
  /\ subscribers' = [subscribers EXCEPT ![t] = Append(@, nextID')]
  /\ UNCHANGED <<async, closed, done, jobs, once, wg, worker, call, closer, crashed, hist>>

\* The entry is cut out of its topic's list; a second call finds nothing.
Unsubscribe(s) ==
  /\ \E t \in Topics : \E i \in DOMAIN subscribers[t] :
       /\ subscribers[t][i] = s
       /\ subscribers' = [subscribers EXCEPT ![t] = SubSeq(@, 1, i - 1) \o SubSeq(@, i + 1, Len(@))]
  /\ UNCHANGED <<async, nextID, closed, done, jobs, once, wg, worker, call, closer, crashed, hist>>

-----------------------------------------------------------------------------
(* Publish.  A worker publishes only from inside a handler it is running.  *)

MayPublish(q) ==
  /\ call[q].pc = "idle"
  /\ q \in Workers => worker[q].pc = "handling"

\* Copying the two lists, topic first.  Publishing to "*" itself copies the
\* wildcard list twice, as the code does.
Targets(t) == subscribers[t] \o subscribers[Wildcard]

Return(q, result) ==
  /\ call' = [call EXCEPT ![q] = NoCall]
  /\ record' = [record EXCEPT ![call[q].event].result = result]

\* The critical section of Publish, and its two early returns.
PublishBegin(q, t) ==
  /\ MayPublish(q)
  /\ calls < MaxEvents /\ nextID + calls < MaxCalls
  /\ calls' = calls + 1
  /\ LET e == calls + 1
         targets == Targets(t)
     IN  \/ /\ closed
            /\ record' = [record EXCEPT ![e].result = "ErrBusClosed"]
            /\ UNCHANGED call
         \/ /\ ~closed /\ targets = <<>>
            /\ record' = [record EXCEPT ![e].result = "nil"]
            /\ UNCHANGED call
         \/ /\ ~closed /\ targets # <<>>
            /\ call' = [call EXCEPT ![q] = [pc |-> "deliver", event |-> e, todo |-> targets]]
            /\ record' = [record EXCEPT ![e].subs = targets]
  /\ UNCHANGED <<bus, worker, closer, crashed, pending, quietClose>>

\* The next target has been delivered to: go on, or return `result` if it is not "go".
Delivered(q, result) ==
  LET c == call[q] IN
  /\ call' = [call EXCEPT ![q] = IF result = "go" THEN [@ EXCEPT !.todo = Tail(c.todo)] ELSE NoCall]
  /\ record' = [record EXCEPT ![c.event] =
                  [subs |-> @.subs, got |-> Append(@.got, Head(c.todo)),
                   result |-> IF result = "go" THEN @.result ELSE result]]

\* Delivery succeeded: the loops go on to the next target or return nil.
Advance(q) == Delivered(q, IF Len(call[q].todo) = 1 THEN "nil" ELSE "go")

\* Synchronous delivery: the handler runs in the caller's goroutine and its
\* error ends the call.
CallHandler(q) ==
  /\ call[q].pc = "deliver" /\ ~async
  /\ Advance(q) \/ Delivered(q, "handlerError")
  /\ UNCHANGED <<bus, worker, closer, crashed, calls, pending, quietClose>>

\* startWorkers: the first caller runs the body, the others wait for its end.
StartWorkers(q) ==
  /\ call[q].pc = "deliver" /\ async
  /\ once = "new"
  /\ once' = "running"
  /\ call' = [call EXCEPT ![q].pc = "starting"]
  /\ UNCHANGED <<async, subscribers, nextID, closed, done, jobs, wg, worker, closer, crashed, hist>>

\* One iteration of the loop: workerWG.Add(1), then go b.worker().
SpawnWorker(q) ==
  /\ call[q].pc = "starting"
  /\ \E w \in Workers :
       /\ \A v \in Workers : worker[v].pc = "none" <=> v >= w
       /\ worker' = [worker EXCEPT ![w].pc = "select"]
       /\ once' = IF w = WorkerCount THEN "done" ELSE once
       /\ call' = IF w = WorkerCount THEN [call EXCEPT ![q].pc = "deliver"] ELSE call
  /\ wg' = wg + 1
  /\ UNCHANGED <<async, subscribers, nextID, closed, done, jobs, closer, crashed, hist>>

\* Mutant: a full queue makes room by dropping its oldest job.
EnqueueEvicting(q) ==
  /\ call[q].pc = "deliver" /\ async
  /\ once = "done"
  /\ LET job == <<call[q].event, Head(call[q].todo)>>
     IN  /\ jobs' = Append(IF Len(jobs) < BufferSize THEN jobs ELSE Tail(jobs), job)
         /\ pending' = Append(pending, job)
  /\ Advance(q)
  /\ UNCHANGED <<async, subscribers, nextID, closed, done, once, wg, worker, closer, crashed,
                 calls, quietClose>>

\* The case b.jobs <- job of enqueue's select.
Enqueue(q) ==
  /\ call[q].pc = "deliver" /\ async
  /\ once = "done"
  /\ Len(jobs) < BufferSize
  /\ LET job == <<call[q].event, Head(call[q].todo)>>
     IN  /\ jobs' = Append(jobs, job)
         /\ pending' = Append(pending, job)
  /\ Advance(q)
  /\ UNCHANGED <<async, subscribers, nextID, closed, done, once, wg, worker, closer, crashed,
                 calls, quietClose>>

\* Mutant: the rejected publisher reports success.
EnqueueClosedSilently(q) ==
  /\ call[q].pc = "deliver" /\ async
  /\ once = "done"
  /\ done
  /\ Return(q, "nil")
  /\ UNCHANGED <<bus, worker, closer, crashed, calls, pending, quietClose>>

\* The case <-b.done of enqueue's select: later targets get nothing.
EnqueueClosed(q) ==
  /\ call[q].pc = "deliver" /\ async
  /\ once = "done"
  /\ done
  /\ Return(q, "ErrBusClosed")
  /\ UNCHANGED <<bus, worker, closer, crashed, calls, pending, quietClose>>

-----------------------------------------------------------------------------
(* The worker pool. *)

\* The case job := <-b.jobs: also possible when done is closed, select is fair.
WorkerTake(w) ==
  /\ worker[w].pc = "select" /\ jobs # <<>>
  /\ worker' = [worker EXCEPT ![w] = [pc |-> "handling", job |-> Head(jobs)]]
  /\ jobs' = Tail(jobs)
  /\ pending' = Tail(pending)
  /\ UNCHANGED <<async, subscribers, nextID, closed, done, once, wg, call, closer, crashed,
                 calls, record, quietClose>>

\* Mutant: the worker handles one job and ends.
HandlerReturnOnce(w) ==
  /\ worker[w].pc = "handling" /\ call[w].pc = "idle"
  /\ worker' = [worker EXCEPT ![w] = [pc |-> "exited", job |-> NoJob]]
  /\ wg' = wg - 1
  /\ UNCHANGED <<async, subscribers, nextID, closed, done, jobs, once, call, closer, crashed, hist>>

\* The handler returns (any Publish it made has returned); its error is dropped.
HandlerReturn(w) ==
  /\ worker[w].pc = "handling" /\ call[w].pc = "idle"
  /\ worker' = [worker EXCEPT ![w] = [pc |-> "select", job |-> NoJob]]
  /\ UNCHANGED <<bus, call, closer, crashed, hist>>

\* The case <-b.done, and the deferred workerWG.Done, which wakes the sleeping
\* Close when it brings the counter to zero.
WorkerExit(w) ==
  /\ worker[w].pc = "select" /\ done
  /\ worker' = [worker EXCEPT ![w].pc = "exited"]
  /\ wg' = wg - 1
  /\ closer' = [c \in Closers |-> IF closer[c] = "asleep" /\ wg = 1 THEN "woken" ELSE closer[c]]
  /\ UNCHANGED <<async, subscribers, nextID, closed, done, jobs, once, call, crashed, hist>>

-----------------------------------------------------------------------------
(* Close. *)

\* The critical section.  A Close of a closed bus, and a Close of a synchronous
\* bus, are over when they leave it.
CloseBegin(c) ==
  /\ closer[c] \in {"idle", "returned"}
  /\ closed' = TRUE
  /\ closer' = [closer EXCEPT ![c] = IF closed \/ ~async THEN "returned" ELSE "marked"]
  /\ subscribers' = [t \in Topics |-> <<>>]
  /\ quietClose' = IF closed THEN quietClose
                   ELSE once = "done" \/ \A q \in Callers : call[q].pc = "idle"
  /\ UNCHANGED <<async, nextID, done, jobs, once, wg, worker, call, crashed,
                 calls, record, pending>>

\* Mutant: Close forgets close(b.done).
CloseDoneForgotten(c) ==
  /\ closer[c] = "marked"
  /\ closer' = [closer EXCEPT ![c] = "waiting"]
  /\ UNCHANGED <<bus, worker, call, crashed, hist>>

CloseDone(c) ==
  /\ closer[c] = "marked"
  /\ done' = TRUE
  /\ closer' = [closer EXCEPT ![c] = "waiting"]
  /\ UNCHANGED <<async, subscribers, nextID, closed, jobs, once, wg, worker, call, crashed, hist>>

\* Mutant: Close does not wait for the workers.
CloseWithoutWait(c) ==
  /\ closer[c] = "waiting"
  /\ closer' = [closer EXCEPT ![c] = "returned"]
  /\ UNCHANGED <<bus, worker, call, crashed, hist>>

\* workerWG.Wait: returns at once on a zero counter, else sleeps.
CloseWait(c) ==
  /\ closer[c] = "waiting"
  /\ closer' = [closer EXCEPT ![c] = IF wg = 0 THEN "returned" ELSE "asleep"]
  /\ UNCHANGED <<bus, worker, call, crashed, hist>>

\* sync.WaitGroup panics when a woken Wait finds the counter raised again
\* ("WaitGroup is reused before previous Wait has returned").
CloseWake(c) ==
  /\ closer[c] = "woken"
  /\ closer' = [closer EXCEPT ![c] = "returned"]
  /\ crashed' = (wg # 0)
  /\ UNCHANGED <<bus, worker, call, hist>>

-----------------------------------------------------------------------------
PublishStep(q) == \/ CallHandler(q) \/ StartWorkers(q) \/ SpawnWorker(q)
                  \/ Enqueue(q) \/ EnqueueClosed(q)
WorkerStep(w)  == WorkerTake(w) \/ HandlerReturn(w) \/ WorkerExit(w)
CloseStep(c)   == CloseDone(c) \/ CloseWait(c) \/ CloseWake(c)

\* Nothing is left to do: every call has returned and every Closer has closed, or
\* the process is gone.
Finished ==
  /\ \/ crashed
     \/ /\ \A q \in Callers : call[q].pc = "idle"
        /\ \A c \in Closers : closer[c] = "returned"
  /\ UNCHANGED vars

Next ==
  \/ /\ ~crashed
     /\ \/ \E t \in Topics : Subscribe(t)
        \/ \E s \in Subs : Unsubscribe(s)
        \/ \E q \in Callers, t \in Topics : PublishBegin(q, t)
        \/ \E q \in Callers : PublishStep(q)
        \/ \E w \in Workers : WorkerStep(w)
        \/ \E c \in Closers : CloseBegin(c) \/ CloseStep(c)
  \/ Finished

\* Every goroutine that can run is eventually scheduled, and handlers return.
\* Nobody is obliged to call Publish, Subscribe or Close.
Fairness ==
  /\ \A q \in Callers : WF_vars(~crashed /\ PublishStep(q))
  /\ \A w \in Workers : WF_vars(~crashed /\ WorkerStep(w))
  /\ \A c \in Closers : WF_vars(~crashed /\ CloseStep(c))

Spec     == Init /\ [][Next]_vars
FairSpec == Spec /\ Fairness

-----------------------------------------------------------------------------
TypeOK ==
  /\ async \in BOOLEAN /\ closed \in BOOLEAN /\ done \in BOOLEAN
  /\ subscribers \in [Topics -> Seq(Subs)]
  /\ nextID \in 0..MaxSubs /\ calls \in 0..MaxEvents
  /\ jobs \in Seq(Jobs) /\ Len(jobs) <= BufferSize
  /\ once \in {"new", "running", "done"}
  /\ wg \in 0..WorkerCount
  /\ worker \in [Workers -> [pc : {"none", "select", "handling", "exited"}, job : Jobs \cup {NoJob}]]
  /\ call \in [Callers -> [pc : {"idle", "deliver", "starting"}, event : 0..MaxEvents, todo : Seq(Subs)]]
  /\ closer \in [Closers -> {"idle", "marked", "waiting", "asleep", "woken", "returned"}]
  /\ crashed \in BOOLEAN /\ quietClose \in BOOLEAN
  /\ record \in [Events -> [subs : Seq(Subs), got : Seq(Subs),
                            result : {"none", "nil", "ErrBusClosed", "handlerError"}]]
  /\ pending \in Seq(Jobs)

Alive == {w \in Workers : worker[w].pc \in {"select", "handling"}}

\* events.go:217-243.  Handlers start in the order in which enqueue accepted
\* their jobs, across publishers and workers, and no accepted job is lost or
\* duplicated: the queue is what a fault-free queue would hold.
DispatchInOrder == jobs = pending

IsPrefixOf(s, t) == Len(s) <= Len(t) /\ s = SubSeq(t, 1, Len(s))

\* events.go:102-150.  A Publish that returned nil delivered to exactly the
\* subscriptions it copied, in their order; one that returned an error stopped
\* after a prefix of them, and ErrBusClosed means that the bus was closed.
PublishOutcome ==
  \A e \in Events :
    LET r == record[e] IN
    /\ IsPrefixOf(r.got, r.subs)
    /\ r.result = "nil" => r.got = r.subs
    /\ r.result = "ErrBusClosed" => closed /\ (r.subs = <<>> \/ r.got # r.subs)
    /\ r.result = "handlerError" => ~async /\ r.got # <<>>

\* events.go:191-206.  If no start of the pool was pending when Close took effect
\* then Close does not crash and, once it has returned from its Wait, no worker
\* is left that could run a handler.  (Without that premise both fail: a publisher
\* past the closed check starts workers behind Close's back.)
OrderlyClose ==
  quietClose => /\ ~crashed
                /\ closed /\ (\A c \in Closers : closer[c] \in {"idle", "returned"}) => Alive = {}

\* events.go:201-222.  Once Close has begun, every Publish returns, the ones blocked
\* on a full queue included, and every Close returns.
CloseReleasesEveryone ==
  closed ~> \/ crashed
            \/ /\ \A q \in Publishers : call[q].pc = "idle"
               /\ \A c \in Closers : closer[c] \in {"idle", "returned"}

\* events.go:234-245.  A queued job is dispatched, unless the bus is closed or every
\* worker is itself blocked in a Publish made by a handler.
QueuedIsDispatched ==
  jobs # <<>> ~> \/ jobs = <<>>
                 \/ closed
                 \/ \A w \in Workers : call[w].pc = "deliver"
=============================================================================
