--------------------------- MODULE EventBusProofs ---------------------------
(***************************************************************************)
(* The safety properties of the event bus, for every set of publishers,    *)
(* closers and topics, every size of the pool and of its queue.  The       *)
(* invariant has three parts: what a call in progress still owes its       *)
(* record (PublishInv), what the pool and its counter are to each other    *)
(* (PoolInv), and what a Close under way may rely on (CloseInv).           *)
(***************************************************************************)
EXTENDS EventBus, SequenceTheorems, FiniteSetTheorems, TLAPS

CallRecord == [pc : {"idle", "deliver", "starting"}, event : 0..MaxEvents, todo : Seq(Subs)]
Outcome == [subs : Seq(Subs), got : Seq(Subs), result : {"none", "nil", "ErrBusClosed", "handlerError"}]
CloseLabels == {"idle", "marked", "waiting", "asleep", "woken", "returned"}
Closing == {"marked", "waiting", "asleep", "woken"}

\* TypeOK without the counter, whose range follows from PoolInv.
BusType ==
  /\ async \in BOOLEAN /\ closed \in BOOLEAN /\ done \in BOOLEAN
  /\ subscribers \in [Topics -> Seq(Subs)]
  /\ nextID \in 0..MaxSubs /\ calls \in 0..MaxEvents
  /\ jobs \in Seq(Jobs) /\ Len(jobs) <= BufferSize
  /\ once \in {"new", "running", "done"}
  /\ worker \in [Workers -> [pc : {"none", "select", "handling", "exited"}, job : Jobs \cup {NoJob}]]
  /\ call \in [Callers -> CallRecord]
  /\ closer \in [Closers -> CloseLabels]
  /\ crashed \in BOOLEAN /\ quietClose \in BOOLEAN
  /\ record \in [Events -> Outcome]
  /\ pending = jobs

Active(q) == call[q].pc # "idle"

\* What a call copied is what it delivered to and what it still has to.
OwesTheRest ==
  \A q \in Callers : Active(q) =>
    LET c == call[q] IN
    /\ c.event \in 1..calls /\ c.todo # <<>>
    /\ record[c.event].subs = record[c.event].got \o c.todo
    /\ record[c.event].result = "none"

OwnEvent ==
  \A q, r \in Callers : Active(q) /\ Active(r) /\ call[q].event = call[r].event => q = r

Unpublished ==
  \A e \in Events : e > calls => record[e] = [subs |-> <<>>, got |-> <<>>, result |-> "none"]

PublishInv == OwesTheRest /\ OwnEvent /\ Unpublished /\ PublishOutcome

PoolInv ==
  /\ wg = Cardinality(Alive)
  /\ Alive # {} => async
  /\ \A q \in Callers : call[q].pc = "starting" => async /\ once = "running"
  /\ \A q, r \in Callers : call[q].pc = "starting" /\ call[r].pc = "starting" => q = r

CloseInv ==
  /\ done => closed
  /\ \A c \in Closers : closer[c] \in Closing => closed
  /\ closed /\ quietClose => once = "done" \/ \A q \in Callers : ~Active(q)
  /\ quietClose => ~crashed
  /\ quietClose /\ closed => (\E c \in Closers : closer[c] \in Closing) \/ Alive = {}
  /\ quietClose => \A c \in Closers : closer[c] = "woken" => wg = 0

BusInv == BusType /\ PublishInv /\ PoolInv /\ CloseInv

-----------------------------------------------------------------------------
\* The idle call, the empty record and the empty list have their types.
LEMMA EmptyOK ==
  /\ <<>> \in Seq(Subs) /\ NoCall \in CallRecord /\ NoCall.pc = "idle"
  /\ [subs |-> <<>>, got |-> <<>>, result |-> "none"] \in Outcome
<1>1. <<>> \in Seq(Subs)
  BY EmptySeq
<1>2. 0 \in 0..MaxEvents
  BY BusAssumption
<1> QED
  BY <1>1, <1>2 DEF NoCall, CallRecord, Outcome

\* Before the first call nothing has been started, closed or published.
LEMMA InitInv == Init => BusInv
<1> SUFFICES ASSUME Init PROVE BusInv
  OBVIOUS
<1>1. BusType
  <2>1. call \in [Callers -> CallRecord] /\ record \in [Events -> Outcome]
    BY EmptyOK DEF Init
  <2>2. subscribers \in [Topics -> Seq(Subs)] /\ jobs \in Seq(Jobs) /\ Len(jobs) <= BufferSize
    BY BusAssumption, EmptySeq DEF Init
  <2>3. worker \in [Workers -> [pc : {"none", "select", "handling", "exited"}, job : Jobs \cup {NoJob}]]
    BY Zenon DEF Init
  <2>4. closer \in [Closers -> CloseLabels] /\ nextID \in 0..MaxSubs /\ calls \in 0..MaxEvents
    BY BusAssumption DEF Init, CloseLabels
  <2> QED
    BY <2>1, <2>2, <2>3, <2>4 DEF BusType, Init
<1>2. Alive = {}
  BY DEF Init, Alive
<1>3. PublishInv
  <2>1. IsPrefixOf(<<>>, <<>>)
    BY DEF IsPrefixOf
  <2> QED
    BY <2>1 DEF Init, PublishInv, OwesTheRest, OwnEvent, Unpublished, PublishOutcome, Active, NoCall
<1>4. PoolInv /\ CloseInv
  BY <1>2, FS_EmptySet DEF Init, PoolInv, CloseInv, NoCall, Active, Closing
<1> QED
  BY <1>1, <1>3, <1>4 DEF BusInv

\* Assignments to the fields of a call and of a record.
LEMMA WithTodo ==
  ASSUME NEW c \in CallRecord, NEW x
  PROVE  [c EXCEPT !.todo = x] = [pc |-> c.pc, event |-> c.event, todo |-> x]
BY DEF CallRecord

\* The same for a result.
LEMMA WithResult ==
  ASSUME NEW o \in Outcome, NEW r
  PROVE  [o EXCEPT !.result = r] = [subs |-> o.subs, got |-> o.got, result |-> r]
BY DEF Outcome

\* A step that leaves every call its event and its targets, and closes nothing again.
LEMMA PublishKept ==
  ASSUME BusInv, UNCHANGED <<calls, record, async>>, closed => closed',
         \A q \in Callers : /\ Active(q)' <=> Active(q)
                            /\ call'[q].event = call[q].event /\ call'[q].todo = call[q].todo
  PROVE  PublishInv'
<1>1. OwesTheRest'
  BY DEF BusInv, PublishInv, OwesTheRest, BusType
<1>2. OwnEvent'
  BY DEF BusInv, PublishInv, OwnEvent
<1>3. Unpublished'
  BY DEF BusInv, PublishInv, Unpublished
<1>4. PublishOutcome'
  BY DEF BusInv, PublishInv, PublishOutcome
<1> QED
  BY <1>1, <1>2, <1>3, <1>4 DEF PublishInv

\* A step that starts and ends no worker, and begins no start of the pool.
LEMMA PoolKept ==
  ASSUME BusInv, UNCHANGED <<wg, async, once>>, Alive' = Alive,
         \A q \in Callers : call'[q].pc = "starting" => call[q].pc = "starting"
  PROVE  PoolInv'
BY DEF BusInv, PoolInv

\* A step that neither closes nor starts anything, and after Close makes no caller busy.
LEMMA CloseKept ==
  ASSUME BusInv, UNCHANGED <<done, closed, quietClose, crashed, closer, wg>>, Alive' = Alive,
         once = "done" => once' = "done",
         closed => \A q \in Callers : Active(q)' => Active(q)
  PROVE  CloseInv'
BY DEF BusInv, CloseInv

\* Only the worker table decides who is alive.
LEMMA AliveKept ==
  ASSUME worker' = worker
  PROVE  Alive' = Alive
BY DEF Alive, Workers

\* Subscribe appends a fresh id to one list.
LEMMA SubscribeInv ==
  ASSUME BusInv, NEW t \in Topics, Subscribe(t)
  PROVE  BusInv'
<1> USE DEF hist
<1>1. nextID' \in Subs /\ nextID' \in 0..MaxSubs
  BY BusAssumption DEF Subscribe, BusInv, BusType, Subs
<1>2. subscribers' \in [Topics -> Seq(Subs)]
  <2>1. Append(subscribers[t], nextID') \in Seq(Subs)
    BY <1>1, AppendProperties DEF BusInv, BusType
  <2> QED
    BY <2>1 DEF Subscribe, BusInv, BusType
<1>3. BusType'
  BY <1>1, <1>2 DEF Subscribe, BusInv, BusType
<1>4. UNCHANGED <<worker, call, calls, record, async, closed, wg, once, done, quietClose, crashed, closer>>
  BY DEF Subscribe
<1>5. PublishInv' /\ PoolInv' /\ CloseInv'
  BY <1>4, PublishKept, PoolKept, CloseKept, AliveKept DEF Active
<1> QED
  BY <1>3, <1>5 DEF BusInv

\* unsubscribe cuts an entry out of one list.
LEMMA UnsubscribeInv ==
  ASSUME BusInv, NEW s \in Subs, Unsubscribe(s)
  PROVE  BusInv'
<1> USE DEF hist
<1>1. PICK t \in Topics : \E i \in DOMAIN subscribers[t] :
        subscribers' = [subscribers EXCEPT ![t] =
                          SubSeq(subscribers[t], 1, i - 1) \o SubSeq(subscribers[t], i + 1, Len(subscribers[t]))]
  BY DEF Unsubscribe
<1>2. PICK i \in DOMAIN subscribers[t] :
        subscribers' = [subscribers EXCEPT ![t] =
                          SubSeq(subscribers[t], 1, i - 1) \o SubSeq(subscribers[t], i + 1, Len(subscribers[t]))]
  BY <1>1
<1>3. subscribers' \in [Topics -> Seq(Subs)]
  <2> DEFINE l == subscribers[t]
  <2>1. l \in Seq(Subs) /\ i \in 1..Len(l) /\ Len(l) \in Nat
    BY <1>2, LenProperties DEF BusInv, BusType
  <2> HIDE DEF l
  <2>2. SubSeq(l, 1, i - 1) \in Seq(Subs) /\ SubSeq(l, i + 1, Len(l)) \in Seq(Subs)
    BY <2>1, SubSeqProperties
  <2>3. SubSeq(l, 1, i - 1) \o SubSeq(l, i + 1, Len(l)) \in Seq(Subs)
    BY <2>2, ConcatProperties
  <2> QED
    BY <1>2, <2>3 DEF l, BusInv, BusType
<1>4. BusType'
  BY <1>3 DEF Unsubscribe, BusInv, BusType
<1>5. UNCHANGED <<worker, call, calls, record, async, closed, wg, once, done, quietClose, crashed, closer>>
  BY DEF Unsubscribe
<1>6. PublishInv' /\ PoolInv' /\ CloseInv'
  BY <1>5, PublishKept, PoolKept, CloseKept, AliveKept DEF Active
<1> QED
  BY <1>4, <1>6 DEF BusInv

\* startWorkers: one caller enters the body of startOnce.
LEMMA StartWorkersInv ==
  ASSUME BusInv, NEW q \in Callers, StartWorkers(q)
  PROVE  BusInv'
<1> USE DEF hist
<1>1. call \in [Callers -> CallRecord] /\ call[q].pc = "deliver"
      /\ call' = [call EXCEPT ![q] = [call[q] EXCEPT !.pc = "starting"]]
  BY DEF StartWorkers, BusInv, BusType
<1>2. call' \in [Callers -> CallRecord]
  BY <1>1 DEF CallRecord
<1>3. BusType'
  BY <1>2 DEF StartWorkers, BusInv, BusType
<1>4. \A r \in Callers : /\ Active(r)' <=> Active(r)
                         /\ call'[r].event = call[r].event /\ call'[r].todo = call[r].todo
                         /\ call'[r].pc = "starting" => r = q \/ call[r].pc = "starting"
  BY <1>1 DEF CallRecord, Active
<1>5. PublishInv'
  BY <1>4, PublishKept DEF StartWorkers
<1>6. PoolInv'
  BY <1>4, AliveKept DEF StartWorkers, BusInv, PoolInv
<1>7. CloseInv'
  BY <1>4, CloseKept, AliveKept DEF StartWorkers
<1> QED
  BY <1>3, <1>5, <1>6, <1>7 DEF BusInv

\* There are finitely many workers.
LEMMA AliveFinite == IsFiniteSet(Alive) /\ Alive \subseteq Workers
<1>1. IsFiniteSet(Workers)
  BY FS_Interval, BusAssumption DEF Workers
<1> QED
  BY <1>1, FS_Subset DEF Alive

\* workerWG.Add(1) and go b.worker(): the counter and the pool grow together, and
\* only before Close when Close found no start pending.
LEMMA SpawnWorkerInv ==
  ASSUME BusInv, NEW q \in Callers, SpawnWorker(q)
  PROVE  BusInv'
<1> USE DEF hist
<1>1. PICK w \in Workers :
        /\ \A v \in Workers : worker[v].pc = "none" <=> v >= w
        /\ worker' = [worker EXCEPT ![w].pc = "select"]
        /\ once' = IF w = WorkerCount THEN "done" ELSE once
        /\ call' = IF w = WorkerCount THEN [call EXCEPT ![q].pc = "deliver"] ELSE call
  BY DEF SpawnWorker
<1>2. call[q].pc = "starting" /\ once = "running" /\ async
  BY DEF SpawnWorker, BusInv, PoolInv
<1>3. UNCHANGED <<async, subscribers, nextID, closed, done, jobs, closer, crashed, hist>> /\ wg' = wg + 1
  BY DEF SpawnWorker
<1>4. call' \in [Callers -> CallRecord]
  <2>1. CASE w = WorkerCount
    BY <1>1, <2>1 DEF CallRecord, BusInv, BusType
  <2>2. CASE w # WorkerCount
    BY <1>1, <2>2 DEF BusInv, BusType
  <2> QED
    BY <2>1, <2>2
<1>5. \A r \in Callers : /\ Active(r)' <=> Active(r)
                         /\ call'[r].event = call[r].event /\ call'[r].todo = call[r].todo
                         /\ call'[r].pc = "starting" => call[r].pc = "starting" /\ (r = q => w # WorkerCount)
  <2>1. CASE w = WorkerCount
    BY <1>1, <1>2, <2>1 DEF CallRecord, BusInv, BusType, Active
  <2>2. CASE w # WorkerCount
    BY <1>1, <2>2 DEF Active
  <2> QED
    BY <2>1, <2>2
<1>6. BusType'
  <2>1. worker' \in [Workers -> [pc : {"none", "select", "handling", "exited"}, job : Jobs \cup {NoJob}]]
    BY <1>1 DEF BusInv, BusType
  <2>2. once' \in {"new", "running", "done"}
    BY <1>1 DEF BusInv, BusType
  <2> QED
    BY <1>3, <1>4, <2>1, <2>2 DEF BusInv, BusType
<1>7. PublishInv'
  BY <1>3, <1>5, PublishKept
<1>8. PoolInv'
  <2>1. w \notin Alive /\ Alive' = Alive \cup {w}
    <3>1. WorkerCount \in Nat /\ w \in Nat
      BY BusAssumption DEF Workers
    <3>2. worker[w].pc = "none"
      BY <1>1, <3>1
    <3> QED
      BY <1>1, <3>2 DEF Alive, Workers, BusInv, BusType
  <2>2. wg' = Cardinality(Alive')
    BY <2>1, <1>3, AliveFinite, FS_AddElement, FS_CardinalityType DEF BusInv, PoolInv
  <2>3. \A r \in Callers : call'[r].pc = "starting" => r = q /\ w # WorkerCount
    BY <1>2, <1>5 DEF BusInv, PoolInv
  <2> QED
    BY <1>1, <1>2, <1>3, <2>2, <2>3 DEF PoolInv
<1>9. CloseInv'
  <2>1. ~(closed /\ quietClose)
    BY <1>2 DEF BusInv, CloseInv, Active
  <2>2. \A c \in Closers : closer[c] \in Closing => closed
    BY DEF BusInv, CloseInv
  <2>3. quietClose => \A c \in Closers : closer[c] # "woken"
    BY <2>1, <2>2 DEF Closing
  <2> QED
    BY <1>3, <2>1, <2>2, <2>3 DEF CloseInv, BusInv
<1> QED
  BY <1>6, <1>7, <1>8, <1>9 DEF BusInv

\* Publish copies the lists into a fresh record, or returns at once.
LEMMA PublishBeginInv ==
  ASSUME BusInv, NEW q \in Callers, NEW t \in Topics, PublishBegin(q, t)
  PROVE  BusInv'
<1> USE DEF hist, bus
<1> DEFINE e == calls + 1
           targets == Targets(t)
<1>1. e \in Events /\ calls' = e /\ calls \in Nat /\ calls' \in 0..MaxEvents
  BY BusAssumption DEF PublishBegin, BusInv, BusType, Events
<1>2. targets \in Seq(Subs)
  BY ConcatProperties, BusAssumption DEF Targets, BusInv, BusType
<1>3. record[e] = [subs |-> <<>>, got |-> <<>>, result |-> "none"]
  BY <1>1 DEF BusInv, PublishInv, Unpublished
<1>4. UNCHANGED <<bus, worker, closer, crashed, pending, quietClose>> /\ call[q].pc = "idle"
  BY DEF PublishBegin, MayPublish
<1>a. \/ closed /\ record' = [record EXCEPT ![e].result = "ErrBusClosed"] /\ UNCHANGED call
      \/ ~closed /\ record' = [record EXCEPT ![e].result = "nil"] /\ UNCHANGED call
      \/ /\ ~closed /\ targets # <<>>
         /\ call' = [call EXCEPT ![q] = [pc |-> "deliver", event |-> e, todo |-> targets]]
         /\ record' = [record EXCEPT ![e].subs = targets]
  BY DEF PublishBegin
<1> HIDE DEF e, targets
<1>5. PICK new \in Outcome :
        /\ record' = [record EXCEPT ![e] = new] /\ new.got = <<>>
        /\ \/ /\ call' = call /\ new.subs = <<>>
              /\ new.result \in {"nil", "ErrBusClosed"} /\ (new.result = "ErrBusClosed" => closed)
           \/ /\ call' = [call EXCEPT ![q] = [pc |-> "deliver", event |-> e, todo |-> targets]]
              /\ ~closed /\ targets # <<>> /\ new.subs = targets /\ new.result = "none"
  <2>0. record \in [Events -> Outcome]
    BY DEF BusInv, BusType
  <2>1. CASE closed /\ record' = [record EXCEPT ![e].result = "ErrBusClosed"] /\ UNCHANGED call
    <3> DEFINE new == [subs |-> <<>>, got |-> <<>>, result |-> "ErrBusClosed"]
    <3>1. new \in Outcome
      BY EmptyOK DEF Outcome
    <3>0. [record[e] EXCEPT !.result = "ErrBusClosed"] = new
      BY <1>3
    <3>2. record' = [record EXCEPT ![e] = new]
      BY <3>0, <1>1, <2>0, <2>1
    <3> QED
      BY <3>1, <3>2, <2>1
  <2>2. CASE ~closed /\ record' = [record EXCEPT ![e].result = "nil"] /\ UNCHANGED call
    <3> DEFINE new == [subs |-> <<>>, got |-> <<>>, result |-> "nil"]
    <3>1. new \in Outcome
      BY EmptyOK DEF Outcome
    <3>0. [record[e] EXCEPT !.result = "nil"] = new
      BY <1>3
    <3>2. record' = [record EXCEPT ![e] = new]
      BY <3>0, <1>1, <2>0, <2>2
    <3> QED
      BY <3>1, <3>2, <2>2
  <2>3. CASE /\ ~closed /\ targets # <<>>
             /\ call' = [call EXCEPT ![q] = [pc |-> "deliver", event |-> e, todo |-> targets]]
             /\ record' = [record EXCEPT ![e].subs = targets]
    <3> DEFINE new == [subs |-> targets, got |-> <<>>, result |-> "none"]
    <3>1. new \in Outcome
      BY EmptyOK, <1>2 DEF Outcome
    <3>0. [record[e] EXCEPT !.subs = targets] = new
      BY <1>3
    <3>2. record' = [record EXCEPT ![e] = new]
      BY <3>0, <1>1, <2>0, <2>3
    <3> QED
      BY <3>1, <3>2, <2>3
  <2> QED
    BY <2>1, <2>2, <2>3, <1>a
<1>6. BusType'
  <2>1. record' \in [Events -> Outcome]
    BY <1>1, <1>5 DEF BusInv, BusType
  <2>2. call' \in [Callers -> CallRecord]
    <3>1. [pc |-> "deliver", event |-> e, todo |-> targets] \in CallRecord
      BY <1>1, <1>2 DEF CallRecord
    <3> QED
      BY <3>1, <1>5 DEF BusInv, BusType
  <2> QED
    BY <1>1, <1>4, <2>1, <2>2 DEF BusInv, BusType
<1>7. \A r \in Callers : \/ call'[r] = call[r]
                         \/ /\ r = q /\ call'[r] = [pc |-> "deliver", event |-> e, todo |-> targets]
                            /\ ~closed /\ targets # <<>> /\ new.subs = targets /\ new.result = "none"
  BY <1>5 DEF BusInv, BusType
<1>8. \A x \in Events : record'[x] = IF x = e THEN new ELSE record[x]
  BY <1>1, <1>5 DEF BusInv, BusType
<1>9. \A r \in Callers : Active(r) => call[r].event \in 1..calls /\ call[r].event # e /\ call[r].event \in Events
  <2>1. \A r \in Callers : Active(r) => call[r].event \in 1..calls
    BY DEF BusInv, PublishInv, OwesTheRest
  <2>2. calls \in 0..MaxEvents
    BY DEF BusInv, BusType
  <2> QED
    BY <2>1, <2>2, BusAssumption DEF Events, e
<1>10. PublishInv'
  <2>1. OwesTheRest'
    <3> SUFFICES ASSUME NEW r \in Callers, Active(r)'
                 PROVE  /\ call'[r].event \in 1..calls' /\ call'[r].todo # <<>>
                        /\ record'[call'[r].event].subs = record'[call'[r].event].got \o call'[r].todo
                        /\ record'[call'[r].event].result = "none"
      BY DEF OwesTheRest
    <3>1. CASE call'[r] = call[r]
      <4>1. Active(r)
        BY <3>1 DEF Active
      <4>2. record'[call[r].event] = record[call[r].event]
        BY <4>1, <1>8, <1>9
      <4>3. call[r].event \in 1..calls'
        BY <4>1, <1>1, <1>9 DEF e
      <4> QED
        BY <3>1, <4>1, <4>2, <4>3 DEF BusInv, PublishInv, OwesTheRest
    <3>2. CASE /\ call'[r] = [pc |-> "deliver", event |-> e, todo |-> targets]
               /\ targets # <<>> /\ new.subs = targets /\ new.result = "none"
      <4>1. <<>> \o targets = targets
        BY <1>2, ConcatEmptySeq
      <4>2. record'[e].subs = targets /\ record'[e].got = <<>> /\ record'[e].result = "none"
        BY <3>2, <1>1, <1>5, <1>8
      <4>3. e \in 1..calls'
        BY <1>1 DEF e
      <4>4. call'[r].event = e /\ call'[r].todo = targets /\ targets # <<>>
        BY <3>2
      <4> QED
        BY <4>1, <4>2, <4>3, <4>4
    <3> QED
      BY <3>1, <3>2, <1>7
  <2>2. OwnEvent'
    BY <1>7, <1>9 DEF BusInv, PublishInv, OwnEvent, Active
  <2>3. Unpublished'
    BY <1>1, <1>8, BusAssumption DEF BusInv, PublishInv, Unpublished, Events, e
  <2>4. PublishOutcome'
    <3>1. IsPrefixOf(<<>>, new.subs)
      BY EmptySeq, SubSeqEmpty, LenProperties DEF IsPrefixOf, Outcome
    <3>2. new.result = "nil" => new.got = new.subs
      BY <1>5
    <3> QED
      BY <3>1, <3>2, <1>4, <1>5, <1>8 DEF BusInv, PublishInv, PublishOutcome
  <2> QED
    BY <2>1, <2>2, <2>3, <2>4 DEF PublishInv
<1>11. PoolInv' /\ CloseInv'
  <2>1. \A r \in Callers : call'[r].pc = "starting" => call[r].pc = "starting"
    BY <1>7
  <2>2. closed => \A r \in Callers : Active(r)' => Active(r)
    BY <1>7 DEF Active
  <2> QED
    BY <2>1, <2>2, <1>4, PoolKept, CloseKept, AliveKept
<1> QED
  BY <1>6, <1>10, <1>11 DEF BusInv

\* A prefix stays one when something follows it.
LEMMA PrefixOfConcat ==
  ASSUME NEW a \in Seq(Subs), NEW b \in Seq(Subs)
  PROVE  IsPrefixOf(a, a \o b)
<1>1. Len(a) \in Nat /\ Len(b) \in Nat /\ Len(a \o b) = Len(a) + Len(b)
  BY ConcatProperties, LenProperties
<1>2. SubSeq(a \o b, 1, Len(a)) = a
  BY SubSeqOfConcat1, SubSeqFull, <1>1
<1> QED
  BY <1>1, <1>2 DEF IsPrefixOf

\* What a call in progress is, spelled out.
LEMMA ActiveCall ==
  ASSUME BusInv, NEW q \in Callers, Active(q)
  PROVE  LET e == call[q].event
             rest == call[q].todo
         IN  /\ e \in Events /\ e \in 1..calls /\ rest \in Seq(Subs) /\ rest # <<>>
             /\ record[e] \in Outcome /\ record[e].result = "none"
             /\ record[e].subs = record[e].got \o rest
             /\ record[e].got \in Seq(Subs) /\ record[e].subs \in Seq(Subs)
<1>1. call[q] \in CallRecord /\ calls \in 0..MaxEvents
  BY DEF BusInv, BusType
<1>2. /\ call[q].event \in 1..calls /\ call[q].todo # <<>>
      /\ record[call[q].event].subs = record[call[q].event].got \o call[q].todo
      /\ record[call[q].event].result = "none"
  BY DEF BusInv, PublishInv, OwesTheRest
<1>3. call[q].event \in Events
  BY <1>1, <1>2, BusAssumption DEF Events
<1>4. record[call[q].event] \in Outcome
  BY <1>3 DEF BusInv, BusType
<1> QED
  BY <1>1, <1>2, <1>3, <1>4 DEF CallRecord, Outcome

\* One target is delivered to and the call goes on with the rest, or it is over.
LEMMA ProgressKeepsPublish ==
  ASSUME BusInv, NEW q \in Callers, Active(q), NEW new \in Outcome, NEW rest \in Seq(Subs),
         record' = [record EXCEPT ![call[q].event] = new],
         UNCHANGED <<async, calls>>, closed => closed',
         new.subs = record[call[q].event].subs,
         \/ /\ call' = [call EXCEPT ![q] = NoCall] /\ IsPrefixOf(new.got, new.subs)
            /\ new.result = "nil" => new.got = new.subs
            /\ new.result = "ErrBusClosed" => closed /\ new.got # new.subs
            /\ new.result = "handlerError" => ~async /\ new.got # <<>>
            /\ new.result # "none"
         \/ /\ call' = [call EXCEPT ![q] = [pc |-> "deliver", event |-> call[q].event, todo |-> rest]]
            /\ rest # <<>> /\ new.subs = new.got \o rest /\ new.result = "none"
  PROVE  /\ PublishInv' /\ call' \in [Callers -> CallRecord] /\ record' \in [Events -> Outcome]
         /\ \A r \in Callers : Active(r)' => Active(r)
         /\ \A r \in Callers : call'[r].pc = "starting" => call[r].pc = "starting"
<1> DEFINE e == call[q].event
           next == [pc |-> "deliver", event |-> e, todo |-> rest]
<1>1. e \in Events /\ e \in 1..calls
  BY ActiveCall
<1>2. next \in CallRecord
  <2>1. e \in 0..MaxEvents
    BY DEF BusInv, BusType, CallRecord
  <2> QED
    BY <2>1 DEF CallRecord
<1>3. call' \in [Callers -> CallRecord]
  BY <1>2, EmptyOK DEF BusInv, BusType
<1>4. record' \in [Events -> Outcome] /\ \A x \in Events : record'[x] = IF x = e THEN new ELSE record[x]
  BY <1>1 DEF BusInv, BusType
<1>5. \A r \in Callers : r # q => call'[r] = call[r]
  BY DEF BusInv, BusType
<1>6. \/ call'[q] = NoCall
      \/ call'[q] = next /\ rest # <<>> /\ new.subs = new.got \o rest /\ new.result = "none"
  BY DEF BusInv, BusType
<1>7. NoCall.pc = "idle" /\ next.pc = "deliver" /\ next.event = e /\ next.todo = rest
  BY EmptyOK
<1> HIDE DEF e, next
<1>8. \A r \in Callers : Active(r)' => Active(r) /\ call'[r].event = call[r].event
  BY <1>5, <1>6, <1>7 DEF Active, e
<1>9. \A r \in Callers : Active(r) /\ r # q => call[r].event # e /\ call[r].event \in Events
  BY ActiveCall DEF BusInv, PublishInv, OwnEvent, e
<1>10. OwesTheRest'
  <2> SUFFICES ASSUME NEW r \in Callers, Active(r)'
               PROVE  /\ call'[r].event \in 1..calls' /\ call'[r].todo # <<>>
                      /\ record'[call'[r].event].subs = record'[call'[r].event].got \o call'[r].todo
                      /\ record'[call'[r].event].result = "none"
    BY DEF OwesTheRest
  <2>1. CASE r = q
    <3>1. call'[r].event = e /\ call'[r].todo = rest /\ record'[e] = new
      BY <2>1, <1>1, <1>4, <1>6, <1>7 DEF Active
    <3>2. rest # <<>> /\ new.subs = new.got \o rest /\ new.result = "none"
      BY <2>1, <1>6, <1>7 DEF Active
    <3> QED
      BY <3>1, <3>2, <1>1
  <2>2. CASE r # q
    <3>1. call'[r] = call[r] /\ Active(r)
      BY <2>2, <1>5 DEF Active
    <3>2. record'[call[r].event] = record[call[r].event]
      BY <2>2, <3>1, <1>4, <1>9
    <3> QED
      BY <3>1, <3>2 DEF BusInv, PublishInv, OwesTheRest
  <2> QED
    BY <2>1, <2>2
<1>11. OwnEvent'
  BY <1>8 DEF BusInv, PublishInv, OwnEvent
<1>12. Unpublished'
  <2>1. \A x \in Events : x > calls => x # e
    BY <1>1, BusAssumption DEF Events, BusInv, BusType
  <2> QED
    BY <2>1, <1>4 DEF BusInv, PublishInv, Unpublished
<1>13. PublishOutcome'
  <2> SUFFICES ASSUME NEW x \in Events
               PROVE  /\ IsPrefixOf(record'[x].got, record'[x].subs)
                      /\ record'[x].result = "nil" => record'[x].got = record'[x].subs
                      /\ record'[x].result = "ErrBusClosed" =>
                           closed' /\ (record'[x].subs = <<>> \/ record'[x].got # record'[x].subs)
                      /\ record'[x].result = "handlerError" => ~async' /\ record'[x].got # <<>>
    BY DEF PublishOutcome, IsPrefixOf
  <2>1. CASE x # e
    <3>1. record'[x] = record[x]
      BY <2>1, <1>4
    <3> QED
      BY <3>1 DEF BusInv, PublishInv, PublishOutcome
  <2>2. CASE x = e /\ new.result # "none"
    <3>1. record'[x] = new
      BY <2>2, <1>4
    <3> QED
      BY <3>1, <2>2
  <2>3. CASE x = e /\ new.result = "none"
    <3>1. record'[x] = new /\ new.subs = new.got \o rest /\ new.got \in Seq(Subs)
      BY <2>3, <1>4 DEF Outcome
    <3>2. IsPrefixOf(new.got, new.subs)
      BY <3>1, PrefixOfConcat
    <3> QED
      BY <3>1, <3>2, <2>3
  <2> QED
    BY <2>1, <2>2, <2>3
<1>14. \A r \in Callers : call'[r].pc = "starting" => call[r].pc = "starting"
  BY <1>5, <1>6, <1>7
<1> QED
  BY <1>3, <1>4, <1>8, <1>10, <1>11, <1>12, <1>13, <1>14 DEF PublishInv

\* A list is its head and its tail, whatever goes before them.
LEMMA MoveHead ==
  ASSUME NEW a \in Seq(Subs), NEW b \in Seq(Subs), b # <<>>
  PROVE  /\ Append(a, Head(b)) \in Seq(Subs) /\ Append(a, Head(b)) # <<>>
         /\ Tail(b) \in Seq(Subs) /\ Head(b) \in Subs
         /\ a \o b = Append(a, Head(b)) \o Tail(b)
         /\ Len(b) = 1 => a \o b = Append(a, Head(b))
         /\ Len(b) # 1 => Tail(b) # <<>>
         /\ a # a \o b
<1> DEFINE h == Head(b)
           t == Tail(b)
<1>1. h \in Subs /\ t \in Seq(Subs) /\ Len(t) = Len(b) - 1 /\ Len(b) \in Nat \ {0} /\ Len(a) \in Nat
  BY HeadTailProperties, LenProperties, EmptySeq
<1>2. b = <<h>> \o t
  BY HeadTailProperties, <1>1
<1>3. Append(a, h) = a \o <<h>> /\ <<h>> \in Seq(Subs) /\ Append(a, h) \in Seq(Subs)
  BY AppendIsConcat, AppendProperties, <1>1
<1> HIDE DEF h, t
<1>4. a \o b = Append(a, h) \o t
  <2>1. (a \o <<h>>) \o t = a \o (<<h>> \o t)
    BY <1>1, <1>3, ConcatAssociative
  <2> QED
    BY <2>1, <1>2, <1>3
<1>a. \A s \in Seq(Subs) : s = <<>> <=> Len(s) = 0
  BY EmptySeq
<1>5. Len(b) = 1 => t = <<>>
  BY <1>1, <1>a
<1>6. Append(a, h) \o <<>> = Append(a, h)
  BY <1>3, ConcatEmptySeq
<1>7. Len(a \o b) = Len(a) + Len(b)
  BY ConcatProperties
<1>8. Append(a, h) # <<>> /\ a # a \o b
  BY <1>1, <1>7, AppendProperties
<1>9. Len(b) # 1 => t # <<>>
  BY <1>1, <1>a
<1> QED
  BY <1>1, <1>3, <1>4, <1>5, <1>6, <1>8, <1>9 DEF h, t

\* A handler called or a job accepted: the target moves from what is owed to what was got.
LEMMA DeliveredKeepsPublish ==
  ASSUME BusInv, NEW q \in Callers, call[q].pc = "deliver",
         Advance(q) \/ (~async /\ Delivered(q, "handlerError")),
         UNCHANGED <<async, calls>>, closed => closed'
  PROVE  /\ PublishInv' /\ call' \in [Callers -> CallRecord] /\ record' \in [Events -> Outcome]
         /\ \A r \in Callers : Active(r)' => Active(r)
         /\ \A r \in Callers : call'[r].pc = "starting" => call[r].pc = "starting"
<1> DEFINE e == call[q].event
           todo == call[q].todo
           old == record[e]
           got == Append(old.got, Head(todo))
<1>0. Active(q)
  BY DEF Active
<1>1. /\ e \in Events /\ todo \in Seq(Subs) /\ todo # <<>> /\ old \in Outcome
      /\ old.result = "none" /\ old.subs = old.got \o todo
      /\ old.got \in Seq(Subs) /\ old.subs \in Seq(Subs)
  BY <1>0, ActiveCall
<1>2. call \in [Callers -> CallRecord] /\ record \in [Events -> Outcome]
  BY DEF BusInv, BusType
<1>3. PICK res \in {"go", "nil", "handlerError"} :
        /\ Delivered(q, res)
        /\ res = "go" => Len(todo) # 1
        /\ res = "nil" => Len(todo) = 1
        /\ res = "handlerError" => ~async
  BY DEF Advance
<1>4. /\ got \in Seq(Subs) /\ got # <<>> /\ Tail(todo) \in Seq(Subs)
      /\ old.subs = got \o Tail(todo)
      /\ Len(todo) = 1 => old.subs = got
      /\ Len(todo) # 1 => Tail(todo) # <<>>
  BY <1>1, MoveHead
<1> DEFINE new == [subs |-> old.subs, got |-> got, result |-> IF res = "go" THEN "none" ELSE res]
<1>5. new \in Outcome
  BY <1>1, <1>3, <1>4 DEF Outcome
<1>6. record' = [record EXCEPT ![e] = new]
  <2>1. record' = [record EXCEPT ![e] =
                     [subs |-> old.subs, got |-> got, result |-> IF res = "go" THEN old.result ELSE res]]
    BY <1>3 DEF Delivered
  <2> QED
    BY <2>1, <1>1
<1>a. call' = [call EXCEPT ![q] = IF res = "go" THEN [call[q] EXCEPT !.todo = Tail(todo)] ELSE NoCall]
  BY <1>3 DEF Delivered
<1>7. res # "go" => call' = [call EXCEPT ![q] = NoCall]
  BY <1>a
<1>8. res = "go" => call' = [call EXCEPT ![q] = [pc |-> "deliver", event |-> e, todo |-> Tail(todo)]]
  <2> DEFINE next == [call[q] EXCEPT !.todo = Tail(todo)]
  <2>1. next = [pc |-> "deliver", event |-> e, todo |-> Tail(todo)]
    BY <1>2, WithTodo
  <2>2. call' = [call EXCEPT ![q] = IF res = "go" THEN next ELSE NoCall]
    BY <1>a
  <2> HIDE DEF next
  <2> QED
    BY <2>1, <2>2
<1>9. /\ new.subs = old.subs /\ new.got = got
      /\ new.result = IF res = "go" THEN "none" ELSE res
  OBVIOUS
<1>10. IsPrefixOf(got, old.subs)
  BY <1>4, PrefixOfConcat
<1> HIDE DEF new, got, old, e, todo
<1>11. CASE res = "go"
  BY <1>0, <1>1, <1>4, <1>3, <1>5, <1>6, <1>8, <1>9, <1>11, ProgressKeepsPublish DEF old, e
<1>12. CASE res # "go"
  BY <1>0, <1>1, <1>4, <1>3, <1>5, <1>6, <1>7, <1>9, <1>10, <1>12, ProgressKeepsPublish DEF old, e
<1> QED
  BY <1>11, <1>12

\* The synchronous bus: the handler runs in the caller's goroutine.
LEMMA CallHandlerInv ==
  ASSUME BusInv, NEW q \in Callers, CallHandler(q)
  PROVE  BusInv'
<1> USE DEF bus
<1>1. /\ UNCHANGED <<bus, worker, closer, crashed, calls, pending, quietClose>>
      /\ call[q].pc = "deliver" /\ ~async /\ (Advance(q) \/ Delivered(q, "handlerError"))
  BY DEF CallHandler
<1>2. /\ PublishInv' /\ call' \in [Callers -> CallRecord] /\ record' \in [Events -> Outcome]
      /\ \A r \in Callers : Active(r)' => Active(r)
      /\ \A r \in Callers : call'[r].pc = "starting" => call[r].pc = "starting"
  BY <1>1, DeliveredKeepsPublish
<1>3. BusType'
  BY <1>1, <1>2 DEF BusInv, BusType
<1>4. PoolInv' /\ CloseInv'
  <2>1. Alive' = Alive
    BY <1>1, AliveKept
  <2>2. PoolInv'
    BY <1>1, <1>2, <2>1, PoolKept
  <2>3. CloseInv'
    BY <1>1, <1>2, <2>1, CloseKept
  <2> QED
    BY <2>2, <2>3
<1> QED
  BY <1>2, <1>3, <1>4 DEF BusInv

\* enqueue's select accepts the job: it enters the queue behind all accepted before.
LEMMA EnqueueInv ==
  ASSUME BusInv, NEW q \in Callers, Enqueue(q)
  PROVE  BusInv'
<1> DEFINE job == <<call[q].event, Head(call[q].todo)>>
<1>1. /\ UNCHANGED <<async, subscribers, nextID, closed, done, once, wg, worker, closer, crashed,
                     calls, quietClose>>
      /\ call[q].pc = "deliver" /\ Advance(q) /\ Len(jobs) < BufferSize
      /\ jobs' = Append(jobs, job) /\ pending' = Append(pending, job)
  BY DEF Enqueue
<1>2. /\ PublishInv' /\ call' \in [Callers -> CallRecord] /\ record' \in [Events -> Outcome]
      /\ \A r \in Callers : Active(r)' => Active(r)
      /\ \A r \in Callers : call'[r].pc = "starting" => call[r].pc = "starting"
  BY <1>1, DeliveredKeepsPublish
<1>3. job \in Jobs
  <2>1. call[q].event \in Events /\ call[q].todo \in Seq(Subs) /\ call[q].todo # <<>>
    BY <1>1, ActiveCall DEF Active
  <2>2. Head(call[q].todo) \in Subs
    BY <2>1, HeadTailProperties
  <2> QED
    BY <2>1, <2>2 DEF Jobs
<1>4. jobs' \in Seq(Jobs) /\ Len(jobs') <= BufferSize /\ pending' = jobs'
  <2>1. jobs \in Seq(Jobs) /\ pending = jobs /\ Len(jobs) \in Nat
    BY LenProperties DEF BusInv, BusType
  <2>2. Append(jobs, job) \in Seq(Jobs) /\ Len(Append(jobs, job)) = Len(jobs) + 1
    BY <2>1, <1>3, AppendProperties
  <2> QED
    BY <2>1, <2>2, <1>1, BusAssumption
<1> HIDE DEF job
<1>5. BusType'
  BY <1>1, <1>2, <1>4 DEF BusInv, BusType
<1>6. PoolInv' /\ CloseInv'
  <2>1. Alive' = Alive
    BY <1>1, AliveKept
  <2>2. PoolInv'
    BY <1>1, <1>2, <2>1, PoolKept
  <2>3. CloseInv'
    BY <1>1, <1>2, <2>1, CloseKept
  <2> QED
    BY <2>2, <2>3
<1> QED
  BY <1>2, <1>5, <1>6 DEF BusInv

\* enqueue's select takes <-b.done: the call ends with the targets it has not reached.
LEMMA EnqueueClosedInv ==
  ASSUME BusInv, NEW q \in Callers, EnqueueClosed(q)
  PROVE  BusInv'
<1> USE DEF bus
<1> DEFINE old == record[call[q].event]
           new == [subs |-> old.subs, got |-> old.got, result |-> "ErrBusClosed"]
<1>1. /\ UNCHANGED <<bus, worker, closer, crashed, calls, pending, quietClose>>
      /\ Active(q) /\ closed
      /\ call' = [call EXCEPT ![q] = NoCall]
      /\ record' = [record EXCEPT ![call[q].event].result = "ErrBusClosed"]
  BY DEF EnqueueClosed, Return, Active, BusInv, CloseInv
<1>2. /\ call[q].event \in Events /\ call[q].todo \in Seq(Subs) /\ call[q].todo # <<>> /\ old \in Outcome
      /\ old.subs = old.got \o call[q].todo /\ old.got \in Seq(Subs) /\ old.subs \in Seq(Subs)
  BY <1>1, ActiveCall
<1>3. new \in Outcome /\ new = [old EXCEPT !.result = "ErrBusClosed"]
  <2>1. new \in Outcome
    BY <1>2 DEF Outcome
  <2>2. new = [old EXCEPT !.result = "ErrBusClosed"]
    BY <1>2, WithResult
  <2> QED
    BY <2>1, <2>2
<1>4. record' = [record EXCEPT ![call[q].event] = new]
  BY <1>1, <1>2, <1>3 DEF BusInv, BusType
<1>5. IsPrefixOf(old.got, old.subs) /\ old.got # old.subs
  <2> HIDE DEF old
  <2>1. IsPrefixOf(old.got, old.got \o call[q].todo)
    BY <1>2, PrefixOfConcat
  <2>2. old.got # old.got \o call[q].todo
    BY <1>2, MoveHead
  <2> QED
    BY <1>2, <2>1, <2>2
<1>6. new.subs = old.subs /\ new.got = old.got /\ new.result = "ErrBusClosed"
  OBVIOUS
<1> HIDE DEF new
<1>7. /\ PublishInv' /\ call' \in [Callers -> CallRecord] /\ record' \in [Events -> Outcome]
      /\ \A r \in Callers : Active(r)' => Active(r)
      /\ \A r \in Callers : call'[r].pc = "starting" => call[r].pc = "starting"
  BY <1>1, <1>2, <1>3, <1>4, <1>5, <1>6, ProgressKeepsPublish
<1>8. BusType'
  BY <1>1, <1>7 DEF BusInv, BusType
<1>9. PoolInv' /\ CloseInv'
  <2>1. Alive' = Alive
    BY <1>1, AliveKept
  <2>2. PoolInv'
    BY <1>1, <1>7, <2>1, PoolKept
  <2>3. CloseInv'
    BY <1>1, <1>7, <2>1, CloseKept
  <2> QED
    BY <2>2, <2>3
<1> QED
  BY <1>7, <1>8, <1>9 DEF BusInv

\* A worker takes a job, or its handler returns: the pool is the same.
LEMMA WorkerLoopInv ==
  ASSUME BusInv, NEW w \in Workers, WorkerTake(w) \/ HandlerReturn(w)
  PROVE  BusInv'
<1> USE DEF bus, hist
<1>1. /\ UNCHANGED <<async, subscribers, nextID, closed, done, once, wg, call, closer, crashed,
                     calls, record, quietClose>>
  BY DEF WorkerTake, HandlerReturn
<1>2. PICK at \in {"select", "handling"}, j \in Jobs \cup {NoJob} :
        worker' = [worker EXCEPT ![w] = [pc |-> at, job |-> j]]
  <2>1. CASE WorkerTake(w)
    <3>1. Head(jobs) \in Jobs
      BY <2>1, HeadTailProperties DEF WorkerTake, BusInv, BusType
    <3> QED
      BY <2>1, <3>1 DEF WorkerTake
  <2>2. CASE HandlerReturn(w)
    BY <2>2 DEF HandlerReturn
  <2> QED
    BY <2>1, <2>2
<1>3. jobs' \in Seq(Jobs) /\ Len(jobs') <= BufferSize /\ pending' = jobs'
  <2>0. jobs \in Seq(Jobs) /\ Len(jobs) <= BufferSize /\ pending = jobs
    BY DEF BusInv, BusType
  <2>1. CASE WorkerTake(w)
    <3>1. jobs # <<>> /\ jobs' = Tail(jobs) /\ pending' = Tail(pending)
      BY <2>1 DEF WorkerTake
    <3>2. Tail(jobs) \in Seq(Jobs) /\ Len(Tail(jobs)) = Len(jobs) - 1 /\ Len(jobs) \in Nat
      BY <2>0, <3>1, HeadTailProperties, LenProperties
    <3> QED
      BY <2>0, <3>1, <3>2, BusAssumption
  <2>2. CASE HandlerReturn(w)
    BY <2>0, <2>2 DEF HandlerReturn
  <2> QED
    BY <2>1, <2>2
<1>4. BusType'
  <2>1. worker' \in [Workers -> [pc : {"none", "select", "handling", "exited"}, job : Jobs \cup {NoJob}]]
    BY <1>2 DEF BusInv, BusType
  <2> QED
    BY <1>1, <1>3, <2>1 DEF BusInv, BusType
<1>5. Alive' = Alive
  <2>1. w \in Alive
    BY DEF Alive, WorkerTake, HandlerReturn
  <2>2. \A v \in Workers : worker'[v] = IF v = w THEN [pc |-> at, job |-> j] ELSE worker[v]
    BY <1>2 DEF BusInv, BusType
  <2> QED
    BY <2>1, <2>2 DEF Alive, Workers
<1>6. PublishInv' /\ PoolInv' /\ CloseInv'
  BY <1>1, <1>5, PublishKept, PoolKept, CloseKept DEF Active
<1> QED
  BY <1>4, <1>6 DEF BusInv

\* A worker ends: the counter falls with the pool, and who is woken finds it at zero.
LEMMA WorkerExitInv ==
  ASSUME BusInv, NEW w \in Workers, WorkerExit(w)
  PROVE  BusInv'
<1> USE DEF hist
<1>1. /\ UNCHANGED <<async, subscribers, nextID, closed, done, jobs, once, call, crashed, hist>>
      /\ worker' = [worker EXCEPT ![w].pc = "exited"] /\ wg' = wg - 1
      /\ closer' = [c \in Closers |-> IF closer[c] = "asleep" /\ wg = 1 THEN "woken" ELSE closer[c]]
      /\ worker[w].pc = "select" /\ done
  BY DEF WorkerExit
<1>2. BusType'
  <2>1. worker' \in [Workers -> [pc : {"none", "select", "handling", "exited"}, job : Jobs \cup {NoJob}]]
    BY <1>1 DEF BusInv, BusType
  <2>2. closer' \in [Closers -> CloseLabels]
    BY <1>1 DEF BusInv, BusType, CloseLabels
  <2> QED
    BY <1>1, <2>1, <2>2 DEF BusInv, BusType
<1>3. w \in Alive /\ Alive' = Alive \ {w}
  BY <1>1 DEF Alive, Workers, BusInv, BusType
<1>4. wg \in Nat /\ wg # 0 /\ wg' = Cardinality(Alive')
  <2>1. wg = Cardinality(Alive)
    BY DEF BusInv, PoolInv
  <2>2. wg \in Nat /\ Cardinality(Alive \ {w}) = wg - 1
    BY <2>1, <1>3, AliveFinite, FS_RemoveElement, FS_CardinalityType
  <2>3. Cardinality(Alive \ {w}) \in Nat
    BY AliveFinite, FS_RemoveElement, FS_CardinalityType
  <2> QED
    BY <2>2, <2>3, <1>1, <1>3
<1>5. PublishInv'
  BY <1>1, PublishKept DEF Active
<1>6. PoolInv'
  BY <1>1, <1>3, <1>4 DEF BusInv, PoolInv
<1>7. CloseInv'
  <2>1. \A c \in Closers : /\ closer'[c] \in Closing <=> closer[c] \in Closing
                           /\ closer'[c] = "woken" => closer[c] = "woken" \/ wg = 1
    BY <1>1 DEF BusInv, BusType, Closing, CloseLabels
  <2>2. Alive = {} => Alive' = {}
    BY <1>3
  <2>3. quietClose => \A c \in Closers : closer'[c] = "woken" => wg' = 0
    BY <1>1, <1>4, <2>1 DEF BusInv, CloseInv
  <2> QED
    BY <1>1, <2>1, <2>2, <2>3 DEF BusInv, CloseInv, Active
<1> QED
  BY <1>2, <1>5, <1>6, <1>7 DEF BusInv

\* The critical section of Close.
LEMMA CloseBeginInv ==
  ASSUME BusInv, NEW c \in Closers, CloseBegin(c), ~crashed
  PROVE  BusInv'
<1>1. /\ UNCHANGED <<async, nextID, done, jobs, once, wg, worker, call, crashed, calls, record, pending>>
      /\ closer[c] \in {"idle", "returned"} /\ closed' = TRUE
      /\ closer' = [closer EXCEPT ![c] = IF closed \/ ~async THEN "returned" ELSE "marked"]
      /\ subscribers' = [t \in Topics |-> <<>>]
      /\ quietClose' = IF closed THEN quietClose
                       ELSE once = "done" \/ \A q \in Callers : call[q].pc = "idle"
  BY DEF CloseBegin
<1>2. BusType'
  <2>1. subscribers' \in [Topics -> Seq(Subs)]
    BY <1>1, EmptyOK
  <2>2. closer' \in [Closers -> CloseLabels]
    BY <1>1 DEF BusInv, BusType, CloseLabels
  <2>3. quietClose' \in BOOLEAN /\ closed' \in BOOLEAN
    BY <1>1 DEF BusInv, BusType
  <2> QED
    BY <1>1, <2>1, <2>2, <2>3 DEF BusInv, BusType
<1>3. Alive' = Alive
  BY <1>1, AliveKept
<1>4. PublishInv'
  BY <1>1, PublishKept DEF Active
<1>5. PoolInv'
  BY <1>1, <1>3, PoolKept
<1>6. CloseInv'
  <2>1. \A d \in Closers : d # c => closer'[d] = closer[d]
    BY <1>1 DEF BusInv, BusType
  <2>2. closer'[c] = IF closed \/ ~async THEN "returned" ELSE "marked"
    BY <1>1 DEF BusInv, BusType
  <2>3. \A d \in Closers : closer'[d] = "woken" => closer[d] = "woken" /\ closed
    BY <2>1, <2>2 DEF BusInv, CloseInv, Closing
  <2>4. CASE closed
    <3>1. \A d \in Closers : closer[d] \in Closing => closer'[d] \in Closing
      BY <1>1, <2>1 DEF Closing
    <3>2. quietClose' = quietClose
      BY <2>4, <1>1
    <3> QED
      BY <2>3, <2>4, <3>1, <3>2, <1>1, <1>3 DEF BusInv, CloseInv, Active
  <2>5. CASE ~closed
    <3>1. quietClose' => once = "done" \/ \A q \in Callers : ~Active(q)
      BY <2>5, <1>1 DEF Active
    <3>2. \A d \in Closers : closer'[d] # "woken"
      BY <2>3, <2>5
    <3>3. (\E d \in Closers : closer'[d] \in Closing) \/ Alive = {}
      <4>1. CASE async
        BY <4>1, <2>2, <2>5 DEF Closing
      <4>2. CASE ~async
        BY <4>2 DEF BusInv, PoolInv
      <4> QED
        BY <4>1, <4>2
    <3> QED
      BY <3>1, <3>2, <3>3, <1>1, <1>3 DEF CloseInv, Active
  <2> QED
    BY <2>4, <2>5
<1> QED
  BY <1>2, <1>4, <1>5, <1>6 DEF BusInv

\* close(b.done) and workerWG.Wait.
LEMMA CloseStepInv ==
  ASSUME BusInv, NEW c \in Closers, CloseStep(c), ~crashed
  PROVE  BusInv'
<1> USE DEF bus, hist
<1>1. UNCHANGED <<async, subscribers, nextID, closed, jobs, once, wg, worker, call, hist>>
  BY DEF CloseStep, CloseDone, CloseWait, CloseWake
<1>2. PICK at \in {"waiting", "returned", "asleep"} : closer' = [closer EXCEPT ![c] = at]
  BY DEF CloseStep, CloseDone, CloseWait, CloseWake
<1>3. closer[c] \in Closing /\ closed
  BY DEF CloseStep, CloseDone, CloseWait, CloseWake, Closing, BusInv, CloseInv
<1>4. BusType'
  <2>1. closer' \in [Closers -> CloseLabels]
    BY <1>2 DEF BusInv, BusType, CloseLabels
  <2>2. done' \in BOOLEAN /\ crashed' \in BOOLEAN
    BY DEF CloseStep, CloseDone, CloseWait, CloseWake, BusInv, BusType
  <2> QED
    BY <1>1, <2>1, <2>2 DEF BusInv, BusType
<1>5. Alive' = Alive
  BY <1>1, AliveKept
<1>6. PublishInv' /\ PoolInv'
  BY <1>1, <1>5, PublishKept, PoolKept DEF Active
<1>7. CloseInv'
  <2>1. \A d \in Closers : closer'[d] = IF d = c THEN at ELSE closer[d]
    BY <1>2 DEF BusInv, BusType
  <2>2. quietClose /\ at = "returned" => wg = 0
    BY <2>1 DEF CloseStep, CloseDone, CloseWait, CloseWake, BusInv, BusType, CloseInv
  <2>3. wg = 0 => Alive = {}
    BY AliveFinite, FS_EmptySet DEF BusInv, PoolInv
  <2>4. quietClose => (\E d \in Closers : closer'[d] \in Closing) \/ Alive' = {}
    <3>1. CASE at = "returned"
      BY <3>1, <2>2, <2>3, <1>5
    <3>2. CASE at # "returned"
      BY <3>2, <2>1 DEF Closing
    <3> QED
      BY <3>1, <3>2
  <2>5. quietClose => ~crashed'
    BY <1>1 DEF CloseStep, CloseDone, CloseWait, CloseWake, BusInv, CloseInv
  <2>6. \A d \in Closers : closer'[d] = "woken" => closer[d] = "woken"
    BY <2>1
  <2> QED
    BY <1>1, <1>3, <2>4, <2>5, <2>6 DEF BusInv, CloseInv, Active
<1> QED
  BY <1>4, <1>6, <1>7 DEF BusInv

\* Every step of the bus preserves the invariant.
LEMMA StepInv ==
  ASSUME BusInv, [Next]_vars
  PROVE  BusInv'
<1>1. CASE UNCHANGED vars
  <2>1. UNCHANGED <<bus, worker, call, closer, crashed, hist>>
    BY <1>1 DEF vars
  <2>2. BusType'
    BY <2>1 DEF BusInv, BusType, bus, hist
  <2>3. PublishInv' /\ PoolInv' /\ CloseInv'
    BY <2>1, PublishKept, PoolKept, CloseKept, AliveKept DEF bus, hist, Active
  <2> QED
    BY <2>2, <2>3 DEF BusInv
<1>2. ASSUME NEW q \in Callers, PublishStep(q) PROVE BusInv'
  BY <1>2, CallHandlerInv, StartWorkersInv, SpawnWorkerInv, EnqueueInv, EnqueueClosedInv DEF PublishStep
<1>3. ASSUME NEW w \in Workers, WorkerStep(w) PROVE BusInv'
  BY <1>3, WorkerLoopInv, WorkerExitInv DEF WorkerStep
<1> QED
  BY <1>1, <1>2, <1>3, SubscribeInv, UnsubscribeInv, PublishBeginInv, CloseBeginInv, CloseStepInv
     DEF Next, Finished

\* What the invariant says of the properties.
LEMMA InvImplies ==
  ASSUME BusInv
  PROVE  TypeOK /\ DispatchInOrder /\ PublishOutcome /\ OrderlyClose
<1>1. TypeOK
  <2>1. wg \in 0..WorkerCount
    <3>1. Cardinality(Workers) = WorkerCount /\ IsFiniteSet(Workers)
      BY FS_Interval, BusAssumption DEF Workers
    <3>2. Cardinality(Alive) \in Nat /\ Cardinality(Alive) <= Cardinality(Workers)
      BY <3>1, AliveFinite, FS_Subset, FS_CardinalityType
    <3> QED
      BY <3>1, <3>2, BusAssumption DEF BusInv, PoolInv
  <2> QED
    BY <2>1 DEF BusInv, BusType, TypeOK, CallRecord, Outcome, CloseLabels
<1>2. OrderlyClose
  BY DEF BusInv, CloseInv, OrderlyClose, Closing
<1> QED
  BY <1>1, <1>2 DEF BusInv, BusType, PublishInv, DispatchInOrder

\* events/events.go: every variable of the bus keeps its type, the counter of the
\* WaitGroup within the size of the pool and the queue within its buffer.
THEOREM BusTyped == Spec => []TypeOK
BY InitInv, StepInv, InvImplies, PTL DEF Spec

\* events.go:217-243: jobs are dispatched in the order in which they were accepted,
\* and none is lost or duplicated.
THEOREM BusDispatchInOrder == Spec => []DispatchInOrder
BY InitInv, StepInv, InvImplies, PTL DEF Spec

\* events.go:102-150: what Publish returns says what it delivered, however calls,
\* workers, Unsubscribe and Close interleave.
THEOREM BusPublishOutcome == Spec => []PublishOutcome
BY InitInv, StepInv, InvImplies, PTL DEF Spec

\* events.go:191-206: a Close that no start of the pool overtakes does not panic and
\* leaves no worker behind.
THEOREM BusOrderlyClose == Spec => []OrderlyClose
BY InitInv, StepInv, InvImplies, PTL DEF Spec
=============================================================================
