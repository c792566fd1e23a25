---------------------------- MODULE WSConnection ----------------------------
(***************************************************************************)
(* The outbound side of one WebSocket connection,                          *)
(* transport/ws/connection.go: the two bounded queues, and the writer that *)
(* is started on demand and guarded by the flag writerRunning.             *)
(*                                                                         *)
(* A process is one call that sends: of Send, SendRaw or schedulePing      *)
(* (DirectCalls), or of SendPrepared or the server's sendBroadcastMessage  *)
(* (BroadcastCalls).  A call that claims the flag goes on as writePump, in *)
(* a goroutine of its own or, for sendBroadcastMessage, in line; the two   *)
(* differ only in who waits for it.  The call also names its message.      *)
(***************************************************************************)
EXTENDS Naturals, Sequences, FiniteSets

CONSTANTS DirectCalls, BroadcastCalls,
          SendQueueSize,       \* capacity of c.send
          BroadcastQueueSize,  \* capacity of c.broadcast
          BatchSize,           \* defaultBroadcastBatchSize (32)
          PreemptEvery,        \* broadcastPreemptEvery (8)
          DrainBurst           \* defaultDirectDrainBurst (4)

ASSUME ConnAssumption ==
  /\ DirectCalls \cap BroadcastCalls = {}
  /\ SendQueueSize \in Nat \ {0} /\ BroadcastQueueSize \in Nat \ {0}
  /\ BatchSize \in Nat \ {0} /\ PreemptEvery \in Nat \ {0} /\ DrainBurst \in Nat \ {0}

Calls == DirectCalls \cup BroadcastCalls

VARIABLES send,           \* c.send
          broadcast,      \* c.broadcast; empty also while it is still nil
          closed,         \* c.closed, and c.Conn is closed
          writerRunning,  \* c.writerRunning
          pc,             \* where each call, or the writer it became, is
          hand,           \* the message a writer has taken and is writing
          i,              \* writeBroadcastBatch: broadcasts written so far
          k,              \* tryWriteDirectBurst: direct messages written so far
          last,           \* the burst in progress is the batch's last step
          \* history
          unsentDirect,     \* direct messages accepted and not yet written, in
          unsentBroadcast,  \* order of acceptance, and the same for broadcasts
          overlap,        \* two writers have been at work at the same time
          overtaken       \* broadcasts written since a direct message waits

queues  == <<send, broadcast>>
locals  == <<hand, i, k, last>>
history == <<unsentDirect, unsentBroadcast, overlap, overtaken>>
vars    == <<queues, closed, writerRunning, pc, locals, history>>

NoMsg == "none"

ASSUME NoMsgAssumption == NoMsg \notin Calls

Init ==
  /\ send = <<>> /\ broadcast = <<>>
  /\ closed = FALSE
  /\ writerRunning = FALSE
  /\ pc = [m \in Calls |-> "idle"]
  /\ hand = [m \in Calls |-> NoMsg]
  /\ i = [m \in Calls |-> 0]
  /\ k = [m \in Calls |-> 0]
  /\ last = [m \in Calls |-> FALSE]
  /\ unsentDirect = <<>> /\ unsentBroadcast = <<>>
  /\ overlap = FALSE
  /\ overtaken = 0

Goto(m, label) == pc' = [pc EXCEPT ![m] = label]

-----------------------------------------------------------------------------
(* The sending half of a call. *)

\* The check of c.closed that every sending call begins with.
Begin(m) ==
  /\ pc[m] = "idle"
  /\ Goto(m, IF closed THEN "done" ELSE "checked")
  /\ UNCHANGED <<queues, closed, writerRunning, locals, history>>

\* The non-blocking send on c.send; ErrBufferFull ends the call.
EnqueueDirect(m) ==
  /\ pc[m] = "checked" /\ m \in DirectCalls
  /\ \/ /\ Len(send) < SendQueueSize
        /\ send' = Append(send, m)
        /\ unsentDirect' = Append(unsentDirect, m)
        /\ Goto(m, "ensure")
     \/ /\ Len(send) = SendQueueSize
        /\ Goto(m, "done")
        /\ UNCHANGED <<send, unsentDirect>>
  /\ UNCHANGED <<broadcast, closed, writerRunning, locals, unsentBroadcast, overlap, overtaken>>

\* Mutant: a full queue makes room by dropping its oldest message.
EnqueueBroadcastEvicting(m) ==
  /\ pc[m] = "checked" /\ m \in BroadcastCalls
  /\ broadcast' = Append(IF Len(broadcast) < BroadcastQueueSize THEN broadcast ELSE Tail(broadcast), m)
  /\ unsentBroadcast' = Append(unsentBroadcast, m)
  /\ Goto(m, "ensure")
  /\ UNCHANGED <<send, closed, writerRunning, locals, unsentDirect, overlap, overtaken>>

\* enqueueBroadcast: the same on c.broadcast.
EnqueueBroadcast(m) ==
  /\ pc[m] = "checked" /\ m \in BroadcastCalls
  /\ \/ /\ Len(broadcast) < BroadcastQueueSize
        /\ broadcast' = Append(broadcast, m)
        /\ unsentBroadcast' = Append(unsentBroadcast, m)
        /\ Goto(m, "ensure")
     \/ /\ Len(broadcast) = BroadcastQueueSize
        /\ Goto(m, "done")
        /\ UNCHANGED <<broadcast, unsentBroadcast>>
  /\ UNCHANGED <<send, closed, writerRunning, locals, unsentDirect, overlap, overtaken>>

\* ensureWriter and tryServeWriterInline, first half: the check of c.closed.
EnsureWriter(m) ==
  /\ pc[m] = "ensure"
  /\ Goto(m, IF closed THEN "done" ELSE "claim")
  /\ UNCHANGED <<queues, closed, writerRunning, locals, history>>

\* Labels of a writer that has the queues to itself, or should have.
Serving == {"drain", "drainBroadcast", "write", "burst", "batch", "failed", "store"}

\* writerRunning.CompareAndSwap(false, true): on success m is a writer.
CompareAndSwap(m, otherwise) ==
  /\ writerRunning' = TRUE
  /\ Goto(m, IF writerRunning THEN otherwise ELSE "drain")
  /\ overlap' = (overlap \/ (~writerRunning /\ \E n \in Calls : pc[n] \in Serving))
  /\ UNCHANGED <<queues, closed, locals, unsentDirect, unsentBroadcast, overtaken>>

\* Second half: the call that wins the flag becomes the writer.
Claim(m) == pc[m] = "claim" /\ CompareAndSwap(m, "done")

-----------------------------------------------------------------------------
(* writePump.  Taking a message and writing it are two steps.  While a     *)
(* writer holds a message it is inside Conn.WriteMessage.                  *)

TakeDirect(m) ==
  /\ send # <<>>
  /\ send' = Tail(send)
  /\ hand' = [hand EXCEPT ![m] = Head(send)]
  /\ overtaken' = 0
  /\ Goto(m, "write")
  /\ UNCHANGED <<broadcast, closed, writerRunning, unsentDirect, unsentBroadcast, overlap>>

TakeBroadcast(m) ==
  /\ broadcast # <<>>
  /\ broadcast' = Tail(broadcast)
  /\ hand' = [hand EXCEPT ![m] = Head(broadcast)]
  /\ Goto(m, "write")
  /\ UNCHANGED <<send, closed, writerRunning, unsentDirect, unsentBroadcast, overlap, overtaken>>

\* drainPendingWrites, first the direct queue: a burst of one.
DrainDirect(m) ==
  /\ pc[m] = "drain"
  /\ \/ TakeDirect(m) /\ UNCHANGED <<i, k, last>>
     \/ /\ send = <<>>
        /\ Goto(m, "drainBroadcast")
        /\ UNCHANGED <<queues, closed, writerRunning, hand, i, k, last, history>>

\* ... then one broadcast, which opens a batch; nothing at all ends the drain.
DrainBroadcast(m) ==
  /\ pc[m] = "drainBroadcast"
  /\ \/ /\ TakeBroadcast(m)
        /\ UNCHANGED <<i, k, last>>
     \/ /\ broadcast = <<>>
        /\ Goto(m, "store")
        /\ UNCHANGED <<queues, closed, writerRunning, locals, history>>

\* Mutant: a batch polls the direct queue only at its end.
AfterBroadcastNoPreempt(n) == IF n = BatchSize THEN "burst" ELSE "batch"

\* Where writeBroadcastBatch goes after its n-th broadcast: the loop ends at
\* BatchSize, and polls the direct queue at every multiple of PreemptEvery.
AfterBroadcast(n) ==
  IF n = BatchSize \/ n % PreemptEvery = 0 THEN "burst" ELSE "batch"

\* s without the first occurrence of x: the history's removal of a message.
Without(s, x) ==
  LET at == CHOOSE n \in DOMAIN s : s[n] = x /\ \A j \in 1..(n - 1) : s[j] # x
  IN  IF \E n \in DOMAIN s : s[n] = x
      THEN [n \in 1..(Len(s) - 1) |-> IF n < at THEN s[n] ELSE s[n + 1]]
      ELSE s

\* Writing succeeds.  A broadcast is always written by writeBroadcastBatch.
WriteBroadcastOk(m) ==
  LET n == i[m] + 1 IN
  /\ pc[m] = "write" /\ ~closed
  /\ hand[m] \in BroadcastCalls
  /\ hand' = [hand EXCEPT ![m] = NoMsg]
  /\ i' = [i EXCEPT ![m] = n]
  /\ last' = [last EXCEPT ![m] = (n = BatchSize)]
  /\ Goto(m, AfterBroadcast(n))
  /\ unsentBroadcast' = Without(unsentBroadcast, hand[m])
  /\ overtaken' = IF send = <<>> THEN 0 ELSE overtaken + 1
  /\ UNCHANGED <<queues, closed, writerRunning, k, unsentDirect, overlap>>

\* The end of a burst inside a batch: back to the batch or, if that is over, to
\* writePump's loop.
EndBurst(m) ==
  /\ Goto(m, IF last[m] THEN "drain" ELSE "batch")
  /\ i' = [i EXCEPT ![m] = IF last[m] THEN 0 ELSE @]
  /\ k' = [k EXCEPT ![m] = 0]
  /\ last' = [last EXCEPT ![m] = FALSE]

\* A direct message is written by the burst of one that precedes every batch
\* (i = 0), after which writePump loops, or by a burst inside a batch.
WriteDirectOk(m) ==
  /\ pc[m] = "write" /\ ~closed
  /\ hand[m] \in DirectCalls
  /\ hand' = [hand EXCEPT ![m] = NoMsg]
  /\ \/ /\ i[m] = 0
        /\ Goto(m, "drain")
        /\ UNCHANGED <<i, k, last>>
     \/ /\ i[m] > 0 /\ k[m] + 1 < DrainBurst
        /\ k' = [k EXCEPT ![m] = @ + 1]
        /\ Goto(m, "burst")
        /\ UNCHANGED <<i, last>>
     \/ i[m] > 0 /\ k[m] + 1 >= DrainBurst /\ EndBurst(m)
  /\ unsentDirect' = Without(unsentDirect, hand[m])
  /\ UNCHANGED <<queues, closed, writerRunning, unsentBroadcast, overlap, overtaken>>

\* A burst inside a batch polls the direct queue.
Burst(m) ==
  /\ pc[m] = "burst"
  /\ \/ TakeDirect(m) /\ UNCHANGED <<i, k, last>>
     \/ /\ send = <<>>
        /\ EndBurst(m)
        /\ UNCHANGED <<queues, closed, writerRunning, hand, history>>

\* The next broadcast of the batch, or, with none waiting, a last burst.
Batch(m) ==
  /\ pc[m] = "batch"
  /\ \/ TakeBroadcast(m) /\ UNCHANGED <<i, k, last>>
     \/ /\ broadcast = <<>>
        /\ last' = [last EXCEPT ![m] = TRUE]
        /\ Goto(m, "burst")
        /\ UNCHANGED <<queues, closed, writerRunning, hand, i, k, history>>

\* A write fails: the message is lost.  Always so on a closed socket.
WriteError(m) ==
  /\ pc[m] = "write"
  /\ hand' = [hand EXCEPT ![m] = NoMsg]
  /\ i' = [i EXCEPT ![m] = 0]
  /\ k' = [k EXCEPT ![m] = 0]
  /\ last' = [last EXCEPT ![m] = FALSE]
  /\ Goto(m, "failed")
  /\ UNCHANGED <<queues, closed, writerRunning, history>>

\* writePump closes the connection and returns.
FailClose(m) ==
  /\ pc[m] = "failed"
  /\ closed' = TRUE
  /\ Goto(m, "exit")
  /\ UNCHANGED <<queues, writerRunning, locals, history>>

\* Nothing was written: give up the flag ...
StoreFalse(m) ==
  /\ pc[m] = "store"
  /\ writerRunning' = FALSE
  /\ Goto(m, "recheck")
  /\ UNCHANGED <<queues, closed, locals, history>>

\* Mutant: the writer returns without looking at the queues again.
RecheckSkipped(m) ==
  /\ pc[m] = "recheck"
  /\ Goto(m, "exit")
  /\ UNCHANGED <<queues, closed, writerRunning, locals, history>>

\* ... look at c.closed and the queues again, one after the other ...
Recheck(m) ==
  /\ pc[m] = "recheck"
  /\ Goto(m, CASE closed -> "exit"
               [] ~closed /\ send # <<>> -> "reclaim"
               [] OTHER -> "recheckBroadcast")
  /\ UNCHANGED <<queues, closed, writerRunning, locals, history>>

RecheckBroadcast(m) ==
  /\ pc[m] = "recheckBroadcast"
  /\ Goto(m, IF broadcast # <<>> THEN "reclaim" ELSE "exit")
  /\ UNCHANGED <<queues, closed, writerRunning, locals, history>>

\* ... and claim the flag back if something is waiting.
Reclaim(m) == pc[m] = "reclaim" /\ CompareAndSwap(m, "exit")

\* The deferred writerRunning.Store(false): it runs on every return, also when
\* the flag is no longer this writer's.
Exit(m) ==
  /\ pc[m] = "exit"
  /\ writerRunning' = FALSE
  /\ Goto(m, "done")
  /\ UNCHANGED <<queues, closed, locals, history>>

-----------------------------------------------------------------------------
\* Connection.Close by anyone else: the read pump, the server, a handler.
Close ==
  /\ ~closed
  /\ closed' = TRUE
  /\ UNCHANGED <<queues, writerRunning, pc, locals, history>>

SendStep(m)  == EnqueueDirect(m) \/ EnqueueBroadcast(m) \/ EnsureWriter(m) \/ Claim(m)
WriteStep(m) == \/ DrainDirect(m) \/ DrainBroadcast(m) \/ WriteDirectOk(m) \/ WriteBroadcastOk(m) \/ WriteError(m)
                \/ Burst(m) \/ Batch(m) \/ FailClose(m) \/ StoreFalse(m)
                \/ Recheck(m) \/ RecheckBroadcast(m) \/ Reclaim(m) \/ Exit(m)

Finished == (\A m \in Calls : pc[m] = "done") /\ UNCHANGED vars

Next ==
  \/ \E m \in Calls : Begin(m) \/ SendStep(m) \/ WriteStep(m)
  \/ Close
  \/ Finished

\* Goroutines that can run are scheduled, and a write ends within its deadline.
Fairness == \A m \in Calls : WF_vars(SendStep(m) \/ WriteStep(m))

Spec     == Init /\ [][Next]_vars
FairSpec == Spec /\ Fairness

-----------------------------------------------------------------------------
Labels == {"idle", "checked", "ensure", "claim", "drain", "drainBroadcast", "write", "burst",
           "batch", "failed", "store", "recheck", "recheckBroadcast", "reclaim", "exit", "done"}

TypeOK ==
  /\ send \in Seq(DirectCalls) /\ Len(send) <= SendQueueSize
  /\ broadcast \in Seq(BroadcastCalls) /\ Len(broadcast) <= BroadcastQueueSize
  /\ closed \in BOOLEAN /\ writerRunning \in BOOLEAN
  /\ pc \in [Calls -> Labels]
  /\ hand \in [Calls -> Calls \cup {NoMsg}]
  /\ i \in [Calls -> Nat] /\ k \in [Calls -> Nat]
  /\ last \in [Calls -> BOOLEAN]
  /\ unsentDirect \in Seq(DirectCalls) /\ unsentBroadcast \in Seq(BroadcastCalls)
  /\ overlap \in BOOLEAN /\ overtaken \in Nat

\* The three parts of the inductive invariant behind NoStrandedMessage.
\* The flag is only ever up on behalf of a writer that has yet to take it down and
\* look at the queues again.  The converse fails: Exit may take down a flag that
\* has passed to another writer.
FlagHasWriter ==
  writerRunning /\ ~closed => \E m \in Calls : pc[m] \in Serving

\* A waiting direct message has somebody who will look at the direct queue, or try
\* the flag, after it was enqueued.
DirectCovered ==
  send # <<>> /\ ~closed =>
    \E m \in Calls : pc[m] \in Serving \cup {"ensure", "claim", "recheck", "reclaim"}

\* The same for a waiting broadcast, which the second half of the recheck sees too.
BroadcastCovered ==
  broadcast # <<>> /\ ~closed =>
    \E m \in Calls :
      pc[m] \in Serving \cup {"ensure", "claim", "recheck", "recheckBroadcast", "reclaim"}

\* connection.go:264-271, 394-402.  No lost wakeup, as an inductive invariant: every
\* waiting message of an open connection is somebody's concern.
WakeupInv == FlagHasWriter /\ DirectCovered /\ BroadcastCovered

\* connection.go:264-271, 394-402.  No lost wakeup: when nobody is on the way to
\* the queues any more (every call has ended, has yet to enqueue, or is a writer
\* about to end), an open connection has nothing left to send.
NoStrandedMessage ==
  ~closed /\ (\A m \in Calls : pc[m] \in {"idle", "checked", "exit", "done"})
    => send = <<>> /\ broadcast = <<>>

Held(kind) == LET h == {hand[m] : m \in Calls} \cap kind
              IN  IF h = {} THEN <<>> ELSE <<CHOOSE x \in h : TRUE>>

\* connection.go:285-343.  In each class the accepted messages not yet on the wire
\* are, in order of acceptance, the one being written followed by the queue: no
\* message is lost, repeated or overtaken within its class, across bursts, batches
\* and the hand-over from one writer to the next, until a write fails, and as long
\* as no two writers overlapped.
InOrder ==
  ~overlap /\ ~closed /\ (\A m \in Calls : pc[m] # "failed")
    => /\ unsentDirect = Held(DirectCalls) \o send
       /\ unsentBroadcast = Held(BroadcastCalls) \o broadcast

\* connection.go:319-324.  A direct message never waits for more than PreemptEvery
\* broadcasts, however batches and writers follow each other.
DirectPreempts == ~overlap => overtaken <= PreemptEvery

\* connection.go:252-273.  Whatever was accepted is eventually taken out and sent,
\* unless the connection is closed.
EverythingIsSent ==
  (send # <<>> \/ broadcast # <<>>) ~> (closed \/ (send = <<>> /\ broadcast = <<>>))

\* connection.go:268, 398, 408.  writerRunning admits one writer: no two goroutines
\* are ever inside Conn.WriteMessage together.
SingleWriter == \A m, n \in Calls : pc[m] = "write" /\ pc[n] = "write" => m = n
=============================================================================
