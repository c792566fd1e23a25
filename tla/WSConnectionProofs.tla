------------------------- MODULE WSConnectionProofs -------------------------
(***************************************************************************)
(* Proofs about WSConnection, for any sets of calls, any queue capacities  *)
(* and any batch parameters: type correctness; that no wakeup of the       *)
(* writer is lost although the writer's flag can be taken down twice; and, *)
(* as long as that has not let two writers in, that messages are written   *)
(* in order and how long broadcasts may keep a direct message waiting.     *)
(***************************************************************************)
EXTENDS WSConnection, TLAPS

\* What the history's removal of a message does to the type of a sequence.
LEMMA WithoutType ==
  ASSUME NEW S, NEW s \in Seq(S), NEW x
  PROVE  Without(s, x) \in Seq(S)
<1>1. CASE \E n \in DOMAIN s : s[n] = x
  <2>1. Len(s) - 1 \in Nat
    BY <1>1
  <2>2. \A n \in 1..(Len(s) - 1) : s[n] \in S /\ s[n + 1] \in S
    BY <2>1
  <2> QED
    BY <1>1, <2>1, <2>2 DEF Without
<1>2. CASE ~ \E n \in DOMAIN s : s[n] = x
  BY <1>2 DEF Without
<1> QED
  BY <1>1, <1>2

\* Every reachable state is well typed, and the queues stay within their
\* capacities (connection.go:113-119, 148-156).
THEOREM TypeCorrect == Spec => []TypeOK
<1> USE ConnAssumption DEF Calls, Labels, NoMsg
<1> USE DEF ConnAssumption
<1>1. Init => TypeOK
  <2> SUFFICES ASSUME Init PROVE TypeOK
    OBVIOUS
  <2>1. /\ send \in Seq(DirectCalls) /\ Len(send) <= SendQueueSize
        /\ broadcast \in Seq(BroadcastCalls) /\ Len(broadcast) <= BroadcastQueueSize
        /\ unsentDirect \in Seq(DirectCalls) /\ unsentBroadcast \in Seq(BroadcastCalls)
    BY DEF Init
  <2>2. pc \in [Calls -> Labels] /\ hand \in [Calls -> Calls \cup {NoMsg}]
    BY DEF Init
  <2>3. last \in [Calls -> BOOLEAN] /\ i \in [Calls -> Nat] /\ k \in [Calls -> Nat]
    BY DEF Init
  <2> QED
    BY <2>1, <2>2, <2>3 DEF Init, TypeOK
<1>2. TypeOK /\ [Next]_vars => TypeOK'
  <2> SUFFICES ASSUME TypeOK, [Next]_vars PROVE TypeOK'
    OBVIOUS
  <2> USE DEF TypeOK, Goto, queues, locals, history
  <2>1. ASSUME NEW m \in Calls, Begin(m) PROVE TypeOK'
    BY <2>1 DEF Begin
  <2>2. ASSUME NEW m \in Calls, EnqueueDirect(m) PROVE TypeOK'
    <3>1. /\ send' \in Seq(DirectCalls) /\ Len(send') <= SendQueueSize
          /\ unsentDirect' \in Seq(DirectCalls)
      <4>1. CASE /\ Len(send) < SendQueueSize
                 /\ send' = Append(send, m)
                 /\ unsentDirect' = Append(unsentDirect, m)
        <5>1. m \in DirectCalls
          BY <2>2 DEF EnqueueDirect
        <5>2. Len(send') = Len(send) + 1
          BY <4>1
        <5> QED
          BY <4>1, <5>1, <5>2
      <4>2. CASE UNCHANGED <<send, unsentDirect>>
        BY <4>2
      <4> QED
        BY <2>2, <4>1, <4>2 DEF EnqueueDirect
    <3>2. pc' \in [Calls -> Labels]
      BY <2>2 DEF EnqueueDirect
    <3> QED
      BY <2>2, <3>1, <3>2 DEF EnqueueDirect
  <2>3. ASSUME NEW m \in Calls, EnqueueBroadcast(m) PROVE TypeOK'
    <3>1. /\ broadcast' \in Seq(BroadcastCalls) /\ Len(broadcast') <= BroadcastQueueSize
          /\ unsentBroadcast' \in Seq(BroadcastCalls)
      <4>1. CASE /\ Len(broadcast) < BroadcastQueueSize
                 /\ broadcast' = Append(broadcast, m)
                 /\ unsentBroadcast' = Append(unsentBroadcast, m)
        <5>1. m \in BroadcastCalls
          BY <2>3 DEF EnqueueBroadcast
        <5>2. Len(broadcast') = Len(broadcast) + 1
          BY <4>1
        <5> QED
          BY <4>1, <5>1, <5>2
      <4>2. CASE UNCHANGED <<broadcast, unsentBroadcast>>
        BY <4>2
      <4> QED
        BY <2>3, <4>1, <4>2 DEF EnqueueBroadcast
    <3>2. pc' \in [Calls -> Labels]
      BY <2>3 DEF EnqueueBroadcast
    <3> QED
      BY <2>3, <3>1, <3>2 DEF EnqueueBroadcast
  <2>4. ASSUME NEW m \in Calls, EnsureWriter(m) PROVE TypeOK'
    BY <2>4 DEF EnsureWriter
  <2>5. ASSUME NEW m \in Calls, Claim(m) PROVE TypeOK'
    BY <2>5 DEF Claim, CompareAndSwap
  <2>6. ASSUME NEW m \in Calls, TakeDirect(m), UNCHANGED <<i, k, last>> PROVE TypeOK'
    BY <2>6 DEF TakeDirect
  <2>7. ASSUME NEW m \in Calls, TakeBroadcast(m), UNCHANGED <<i, k, last>> PROVE TypeOK'
    BY <2>7 DEF TakeBroadcast
  <2>8. ASSUME NEW m \in Calls, DrainDirect(m) PROVE TypeOK'
    BY <2>6, <2>8 DEF DrainDirect
  <2>9. ASSUME NEW m \in Calls, DrainBroadcast(m) PROVE TypeOK'
    BY <2>7, <2>9 DEF DrainBroadcast
  <2>10. ASSUME NEW m \in Calls, WriteBroadcastOk(m) PROVE TypeOK'
    <3>1. unsentBroadcast' \in Seq(BroadcastCalls)
      BY <2>10, WithoutType DEF WriteBroadcastOk
    <3> QED
      BY <2>10, <3>1 DEF WriteBroadcastOk, AfterBroadcast
  <2>11. ASSUME NEW m \in Calls, WriteDirectOk(m) PROVE TypeOK'
    <3>1. unsentDirect' \in Seq(DirectCalls)
      BY <2>11, WithoutType DEF WriteDirectOk
    <3>2. pc' \in [Calls -> Labels] /\ hand' \in [Calls -> Calls \cup {NoMsg}]
      BY <2>11 DEF WriteDirectOk, EndBurst
    <3>3. i' \in [Calls -> Nat] /\ k' \in [Calls -> Nat]
      <4>1. CASE UNCHANGED <<i, k>>
        BY <4>1
      <4>2. CASE k' = [k EXCEPT ![m] = @ + 1] /\ UNCHANGED i
        BY <4>2
      <4>3. CASE EndBurst(m)
        BY <4>3 DEF EndBurst
      <4> QED
        BY <2>11, <4>1, <4>2, <4>3 DEF WriteDirectOk
    <3>4. last' \in [Calls -> BOOLEAN]
      BY <2>11 DEF WriteDirectOk, EndBurst
    <3> QED
      BY <2>11, <3>1, <3>2, <3>3, <3>4 DEF WriteDirectOk
  <2>12. ASSUME NEW m \in Calls, Burst(m) PROVE TypeOK'
    <3>1. CASE EndBurst(m) /\ UNCHANGED <<queues, closed, writerRunning, hand, history>>
      <4>1. pc' \in [Calls -> Labels] /\ i' \in [Calls -> Nat] /\ k' \in [Calls -> Nat]
        BY <3>1 DEF EndBurst
      <4>2. last' \in [Calls -> BOOLEAN]
        BY <3>1 DEF EndBurst
      <4> QED
        BY <3>1, <4>1, <4>2
    <3> QED
      BY <2>6, <2>12, <3>1 DEF Burst
  <2>13. ASSUME NEW m \in Calls, Batch(m) PROVE TypeOK'
    BY <2>7, <2>13 DEF Batch
  <2>14. ASSUME NEW m \in Calls, WriteError(m) PROVE TypeOK'
    BY <2>14 DEF WriteError
  <2>15. ASSUME NEW m \in Calls, FailClose(m) PROVE TypeOK'
    BY <2>15 DEF FailClose
  <2>16. ASSUME NEW m \in Calls, StoreFalse(m) PROVE TypeOK'
    BY <2>16 DEF StoreFalse
  <2>17. ASSUME NEW m \in Calls, Recheck(m) PROVE TypeOK'
    BY <2>17 DEF Recheck
  <2>18. ASSUME NEW m \in Calls, RecheckBroadcast(m) PROVE TypeOK'
    BY <2>18 DEF RecheckBroadcast
  <2>19. ASSUME NEW m \in Calls, Reclaim(m) PROVE TypeOK'
    BY <2>19 DEF Reclaim, CompareAndSwap
  <2>20. ASSUME NEW m \in Calls, Exit(m) PROVE TypeOK'
    BY <2>20 DEF Exit
  <2>21. CASE Close
    BY <2>21 DEF Close
  <2>22. CASE UNCHANGED vars
    BY <2>22 DEF vars
  <2> QED
    BY <2>1, <2>2, <2>3, <2>4, <2>5, <2>8, <2>9, <2>10, <2>11, <2>12, <2>13, <2>14, <2>15,
       <2>16, <2>17, <2>18, <2>19, <2>20, <2>21, <2>22
       DEF Next, SendStep, WriteStep, Finished
<1> QED
  BY <1>1, <1>2, PTL DEF Spec

-----------------------------------------------------------------------------
\* A step of m that leaves the queues and the flag alone and keeps m among those
\* who will look at them again keeps the wakeup invariant.
LEMMA StillServing ==
  ASSUME TypeOK, WakeupInv, NEW m \in Calls, NEW label \in Serving,
         pc[m] \in Serving, Goto(m, label),
         send' \in {send, Tail(send)}, broadcast' \in {broadcast, Tail(broadcast)},
         UNCHANGED <<closed, writerRunning>>
  PROVE  WakeupInv'
<1>1. pc'[m] \in Serving
  BY DEF TypeOK, Goto
<1> QED
  BY <1>1 DEF WakeupInv, FlagHasWriter, DirectCovered, BroadcastCovered

\* connection.go:264-271, 394-402.  The wakeup invariant is inductive: whenever a
\* message waits in an open connection, somebody is still going to look at its
\* queue or to try for the flag, and a flag that is up belongs to such a writer.
THEOREM Wakeup == Spec => []WakeupInv
<1>1. Init => WakeupInv
  BY DEF Init, WakeupInv, FlagHasWriter, DirectCovered, BroadcastCovered
<1>2. TypeOK /\ WakeupInv /\ [Next]_vars => WakeupInv'
  <2> SUFFICES ASSUME TypeOK, WakeupInv, [Next]_vars PROVE WakeupInv'
    OBVIOUS
  <2>0. pc \in [Calls -> Labels]
    BY DEF TypeOK
  <2> USE DEF WakeupInv, FlagHasWriter, DirectCovered, BroadcastCovered, Serving, Goto, queues
  <2>1. ASSUME NEW m \in Calls, Begin(m) PROVE WakeupInv'
    BY <2>0, <2>1 DEF Begin
  <2>2. ASSUME NEW m \in Calls, EnqueueDirect(m) PROVE WakeupInv'
    BY <2>0, <2>2 DEF EnqueueDirect
  <2>3. ASSUME NEW m \in Calls, EnqueueBroadcast(m) PROVE WakeupInv'
    BY <2>0, <2>3 DEF EnqueueBroadcast
  <2>4. ASSUME NEW m \in Calls, EnsureWriter(m) PROVE WakeupInv'
    BY <2>0, <2>4 DEF EnsureWriter
  <2>5. ASSUME NEW m \in Calls, NEW otherwise \in Labels \ Serving, pc[m] \notin Serving,
               CompareAndSwap(m, otherwise)
        PROVE  WakeupInv'
    <3>1. CASE writerRunning
      \* Somebody else has the flag, and is obliged to look at the queues.
      BY <2>0, <2>5, <3>1 DEF CompareAndSwap
    <3>2. CASE ~writerRunning
      BY <2>0, <2>5, <3>2 DEF CompareAndSwap
    <3> QED
      BY <3>1, <3>2
  <2>6. ASSUME NEW m \in Calls, Claim(m) PROVE WakeupInv'
    BY <2>5, <2>6 DEF Claim, Labels
  <2>7. ASSUME NEW m \in Calls, Reclaim(m) PROVE WakeupInv'
    BY <2>5, <2>7 DEF Reclaim, Labels
  <2>8. ASSUME NEW m \in Calls, DrainDirect(m) PROVE WakeupInv'
    BY <2>8, StillServing DEF DrainDirect, TakeDirect
  <2>9. ASSUME NEW m \in Calls, DrainBroadcast(m) PROVE WakeupInv'
    BY <2>9, StillServing DEF DrainBroadcast, TakeBroadcast
  <2>10. ASSUME NEW m \in Calls, WriteBroadcastOk(m) PROVE WakeupInv'
    BY <2>10, StillServing DEF WriteBroadcastOk, AfterBroadcast
  <2>11. ASSUME NEW m \in Calls, WriteDirectOk(m) PROVE WakeupInv'
    BY <2>11, StillServing DEF WriteDirectOk, EndBurst
  <2>12. ASSUME NEW m \in Calls, Burst(m) PROVE WakeupInv'
    BY <2>12, StillServing DEF Burst, TakeDirect, EndBurst
  <2>13. ASSUME NEW m \in Calls, Batch(m) PROVE WakeupInv'
    BY <2>13, StillServing DEF Batch, TakeBroadcast
  <2>14. ASSUME NEW m \in Calls, WriteError(m) PROVE WakeupInv'
    BY <2>14, StillServing DEF WriteError
  <2>15. ASSUME NEW m \in Calls, FailClose(m) PROVE WakeupInv'
    BY <2>15 DEF FailClose
  <2>16. ASSUME NEW m \in Calls, StoreFalse(m) PROVE WakeupInv'
    BY <2>0, <2>16 DEF StoreFalse
  <2>17. ASSUME NEW m \in Calls, Recheck(m) PROVE WakeupInv'
    BY <2>0, <2>17 DEF Recheck
  <2>18. ASSUME NEW m \in Calls, RecheckBroadcast(m) PROVE WakeupInv'
    BY <2>0, <2>18 DEF RecheckBroadcast
  <2>19. ASSUME NEW m \in Calls, Exit(m) PROVE WakeupInv'
    BY <2>0, <2>19 DEF Exit
  <2>20. CASE Close
    BY <2>20 DEF Close
  <2>21. CASE UNCHANGED vars
    BY <2>21 DEF vars
  <2> QED
    BY <2>1, <2>2, <2>3, <2>4, <2>6, <2>7, <2>8, <2>9, <2>10, <2>11, <2>12, <2>13, <2>14,
       <2>15, <2>16, <2>17, <2>18, <2>19, <2>20, <2>21
       DEF Next, SendStep, WriteStep, Finished
<1> QED
  BY <1>1, <1>2, TypeCorrect, PTL DEF Spec

\* connection.go:252-273.  When all calls have ended, or have yet to enqueue, an
\* open connection has empty queues: no accepted message is left behind.
THEOREM NothingStranded == Spec => []NoStrandedMessage
<1>1. WakeupInv => NoStrandedMessage
  BY DEF WakeupInv, FlagHasWriter, DirectCovered, BroadcastCovered, Serving, NoStrandedMessage
<1> QED
  BY <1>1, Wakeup, PTL

-----------------------------------------------------------------------------
\* Until two writers have overlapped there is at most one.
Solo ==
  ~overlap => \A m, n \in Calls : pc[m] \in Serving /\ pc[n] \in Serving => m = n

\* A writer holds a message exactly while it writes.
Hands == \A m \in Calls : IF pc[m] = "write" THEN hand[m] \in Calls ELSE hand[m] = NoMsg

\* The flag goes to a second writer only where the history says so.
LEMMA SoloStep == ASSUME TypeOK, Solo, [Next]_vars PROVE Solo'
<1>0. pc \in [Calls -> Labels] BY DEF TypeOK
<1>1. CASE UNCHANGED <<pc, overlap>> BY <1>1 DEF Solo
<1>2. ASSUME NEW m \in Calls, NEW label \in Labels, Goto(m, label), UNCHANGED overlap,
             label \in Serving => pc[m] \in Serving
      PROVE  Solo'
  <2>1. \A n \in Calls : pc'[n] \in Serving => pc[n] \in Serving BY <1>0, <1>2 DEF Goto
  <2> QED BY <1>2, <2>1 DEF Solo
<1>3. ASSUME NEW m \in Calls, NEW otherwise \in {"done", "exit"}, CompareAndSwap(m, otherwise)
      PROVE  Solo'
  <2>1. CASE writerRunning
    <3>1. \A n \in Calls : pc'[n] \in Serving => pc[n] \in Serving
      BY <1>0, <1>3, <2>1 DEF CompareAndSwap, Goto, Serving
    <3>2. overlap' = overlap BY <1>3, <2>1 DEF CompareAndSwap, TypeOK
    <3> QED BY <3>1, <3>2 DEF Solo
  <2>2. CASE ~writerRunning
    <3>1. ~overlap' => \A n \in Calls : pc[n] \notin Serving BY <1>3, <2>2 DEF CompareAndSwap
    <3>2. \A n \in Calls : n # m => pc'[n] = pc[n] BY <1>0, <1>3 DEF CompareAndSwap, Goto
    <3> QED BY <3>1, <3>2 DEF Solo
  <2> QED BY <2>1, <2>2
<1> USE DEF Labels, Serving
<1>4. ASSUME NEW m \in Calls, Begin(m) \/ EnqueueDirect(m) \/ EnqueueBroadcast(m) \/ EnsureWriter(m)
      PROVE  Solo'
  BY <1>2, <1>4 DEF Begin, EnqueueDirect, EnqueueBroadcast, EnsureWriter, history
<1>5. ASSUME NEW m \in Calls, Claim(m) \/ Reclaim(m) PROVE Solo'
  BY <1>3, <1>5 DEF Claim, Reclaim
<1>6. ASSUME NEW m \in Calls, DrainDirect(m) \/ DrainBroadcast(m) \/ Burst(m) \/ Batch(m)
      PROVE  Solo'
  BY <1>2, <1>6 DEF DrainDirect, DrainBroadcast, Burst, Batch, TakeDirect, TakeBroadcast,
                    EndBurst, history
<1>7. ASSUME NEW m \in Calls, WriteDirectOk(m) \/ WriteBroadcastOk(m) \/ WriteError(m)
      PROVE  Solo'
  BY <1>2, <1>7 DEF WriteDirectOk, WriteBroadcastOk, WriteError, EndBurst, AfterBroadcast, history
<1>8. ASSUME NEW m \in Calls,
             \/ FailClose(m) \/ StoreFalse(m) \/ Recheck(m) \/ RecheckBroadcast(m) \/ Exit(m)
      PROVE  Solo'
  BY <1>2, <1>8 DEF FailClose, StoreFalse, Recheck, RecheckBroadcast, Exit, history
<1>9. CASE Close \/ UNCHANGED vars BY <1>1, <1>9 DEF Close, vars, history
<1> QED BY <1>4, <1>5, <1>6, <1>7, <1>8, <1>9 DEF Next, SendStep, WriteStep, Finished

\* Taking a message and writing it, or failing to, are what fills and empties a hand.
LEMMA HandsStep == ASSUME TypeOK, Hands, [Next]_vars PROVE Hands'
<1>0. /\ pc \in [Calls -> Labels] /\ hand \in [Calls -> Calls \cup {NoMsg}]
      /\ send \in Seq(DirectCalls) /\ broadcast \in Seq(BroadcastCalls)
  BY DEF TypeOK
<1>1. CASE UNCHANGED <<pc, hand>> BY <1>1 DEF Hands
<1>2. ASSUME NEW m \in Calls, NEW label \in Labels, Goto(m, label), UNCHANGED hand,
             label # "write", pc[m] # "write"
      PROVE  Hands'
  BY <1>0, <1>2 DEF Goto, Hands
<1>3. ASSUME NEW m \in Calls, NEW x \in Calls, Goto(m, "write"), hand' = [hand EXCEPT ![m] = x]
      PROVE  Hands'
  BY <1>0, <1>3 DEF Goto, Hands
<1>4. ASSUME NEW m \in Calls, NEW label \in Labels, Goto(m, label), label # "write",
             hand' = [hand EXCEPT ![m] = NoMsg]
      PROVE  Hands'
  BY <1>0, <1>4 DEF Goto, Hands
<1> USE DEF Labels
<1>5. ASSUME NEW m \in Calls, TakeDirect(m) PROVE Hands'
  <2>1. Head(send) \in Calls BY <1>0, <1>5 DEF TakeDirect, Calls
  <2> QED BY <1>3, <1>5, <2>1 DEF TakeDirect
<1>6. ASSUME NEW m \in Calls, TakeBroadcast(m) PROVE Hands'
  <2>1. Head(broadcast) \in Calls BY <1>0, <1>6 DEF TakeBroadcast, Calls
  <2> QED BY <1>3, <1>6, <2>1 DEF TakeBroadcast
<1>7. ASSUME NEW m \in Calls,
             \/ Begin(m) \/ EnqueueDirect(m) \/ EnqueueBroadcast(m) \/ EnsureWriter(m)
             \/ Claim(m) \/ Reclaim(m)
      PROVE  Hands'
  BY <1>2, <1>7 DEF Begin, EnqueueDirect, EnqueueBroadcast, EnsureWriter, Claim, Reclaim,
                    CompareAndSwap, locals
<1>8. ASSUME NEW m \in Calls, DrainDirect(m) \/ DrainBroadcast(m) \/ Burst(m) \/ Batch(m)
      PROVE  Hands'
  BY <1>2, <1>5, <1>6, <1>8 DEF DrainDirect, DrainBroadcast, Burst, Batch, EndBurst, locals
<1>9. ASSUME NEW m \in Calls, WriteDirectOk(m) \/ WriteBroadcastOk(m) \/ WriteError(m)
      PROVE  Hands'
  BY <1>4, <1>9 DEF WriteDirectOk, WriteBroadcastOk, WriteError, EndBurst, AfterBroadcast
<1>10. ASSUME NEW m \in Calls,
              \/ FailClose(m) \/ StoreFalse(m) \/ Recheck(m) \/ RecheckBroadcast(m) \/ Exit(m)
       PROVE  Hands'
  BY <1>2, <1>10 DEF FailClose, StoreFalse, Recheck, RecheckBroadcast, Exit, locals
<1>11. CASE Close \/ UNCHANGED vars BY <1>1, <1>11 DEF Close, vars, locals
<1> QED BY <1>7, <1>8, <1>9, <1>10, <1>11 DEF Next, SendStep, WriteStep, Finished

-----------------------------------------------------------------------------
\* Nothing has gone wrong on this connection yet.
Sound == ~overlap /\ ~closed /\ \A m \in Calls : pc[m] # "failed"

\* Of the messages in D, u is the one in some writer's hand, if any, and then q.
InHand(D, u, q) ==
  \/ \E m \in Calls : hand[m] \in D /\ u = <<hand[m]>> \o q
  \/ (\A m \in Calls : hand[m] \notin D) /\ u = q

\* InOrder, said so that it is inductive.
Ordered == Sound => /\ InHand(DirectCalls, unsentDirect, send)
                    /\ InHand(BroadcastCalls, unsentBroadcast, broadcast)

\* A message enqueued goes behind the one in hand and the queue alike.
LEMMA AppendAfter ==
  ASSUME NEW S, NEW q \in Seq(S), NEW x \in S, NEW e \in S
  PROVE  Append(<<x>> \o q, e) = <<x>> \o Append(q, e)
OBVIOUS

\* Taking the head of a queue into the hand keeps the order.
LEMMA HeadThenTail ==
  ASSUME NEW S, NEW q \in Seq(S), q # <<>>
  PROVE  q = <<Head(q)>> \o Tail(q)
OBVIOUS

\* Removing the first message of a sequence leaves the rest.
LEMMA WithoutFirst ==
  ASSUME NEW S, NEW q \in Seq(S), NEW x \in S
  PROVE  Without(<<x>> \o q, x) = q
<1> DEFINE s == <<x>> \o q
           P(n) == s[n] = x /\ \A j \in 1..(n - 1) : s[j] # x
           at == CHOOSE n \in DOMAIN s : P(n)
<1>1. /\ s \in Seq(S) /\ Len(s) = Len(q) + 1 /\ s[1] = x
      /\ \A n \in 1..Len(q) : s[n + 1] = q[n]
  OBVIOUS
<1>2. DOMAIN s = 1..(Len(q) + 1) /\ Len(q) \in Nat
  BY <1>1
<1> HIDE DEF s
<1>3. 1 \in DOMAIN s /\ P(1)
  BY <1>1, <1>2
<1>4. at \in DOMAIN s /\ P(at)
  BY <1>3
<1>5. at = 1
  BY <1>1, <1>2, <1>4
<1>6. Without(s, x) = [n \in 1..(Len(s) - 1) |-> IF n < at THEN s[n] ELSE s[n + 1]]
  BY <1>3 DEF Without
<1> HIDE DEF at, P
<1>7. Without(s, x) = [n \in 1..Len(q) |-> q[n]]
  <2>1. Len(s) - 1 = Len(q)
    BY <1>1, <1>2
  <2>2. \A n \in 1..Len(q) : ~(n < at) /\ s[n + 1] = q[n]
    BY <1>1, <1>2, <1>5
  <2> QED
    BY <1>6, <2>1, <2>2
<1>8. q = [n \in 1..Len(q) |-> q[n]]
  OBVIOUS
<1> QED
  BY <1>7, <1>8 DEF s

\* What goes wrong stays wrong.
LEMMA SoundBefore == ASSUME TypeOK, [Next]_vars, Sound' PROVE Sound
<1>0. pc \in [Calls -> Labels]
  BY DEF TypeOK
<1>1. ASSUME NEW m \in Calls, NEW label, Goto(m, label), pc[m] # "failed",
             ~overlap' => ~overlap, ~closed' => ~closed
      PROVE  Sound
  BY <1>0, <1>1 DEF Sound, Goto
<1>2. ASSUME NEW m \in Calls,
             Begin(m) \/ EnqueueDirect(m) \/ EnqueueBroadcast(m) \/ EnsureWriter(m)
      PROVE  Sound
  BY <1>1, <1>2 DEF Begin, EnqueueDirect, EnqueueBroadcast, EnsureWriter, history
<1>3. ASSUME NEW m \in Calls, Claim(m) \/ Reclaim(m) PROVE Sound
  <2>1. /\ pc[m] # "failed" /\ UNCHANGED closed
        /\ \E label : Goto(m, label)
    BY <1>3 DEF Claim, Reclaim, CompareAndSwap
  <2>2. ~overlap' => ~overlap
    BY <1>3 DEF Claim, Reclaim, CompareAndSwap
  <2> QED
    BY <1>1, <2>1, <2>2
<1>4. ASSUME NEW m \in Calls, DrainDirect(m) \/ DrainBroadcast(m) \/ Burst(m) \/ Batch(m)
      PROVE  Sound
  BY <1>1, <1>4 DEF DrainDirect, DrainBroadcast, Burst, Batch, TakeDirect, TakeBroadcast,
                    EndBurst, history
<1>5. ASSUME NEW m \in Calls, WriteDirectOk(m) \/ WriteBroadcastOk(m) \/ WriteError(m)
      PROVE  Sound
  BY <1>1, <1>5 DEF WriteDirectOk, WriteBroadcastOk, WriteError, EndBurst, history
<1>6. ASSUME NEW m \in Calls, StoreFalse(m) \/ Recheck(m) \/ RecheckBroadcast(m) \/ Exit(m)
      PROVE  Sound
  BY <1>1, <1>6 DEF StoreFalse, Recheck, RecheckBroadcast, Exit, history
<1>7. ASSUME NEW m \in Calls, FailClose(m) PROVE Sound
  BY <1>7 DEF FailClose, Sound
<1>8. CASE Close \/ UNCHANGED vars
  BY <1>8 DEF Close, vars, history, Sound
<1> QED
  BY <1>2, <1>3, <1>4, <1>5, <1>6, <1>7, <1>8 DEF Next, SendStep, WriteStep, Finished

\* While all is sound, the one writer takes the head of a queue, which is the first
\* unsent message of its class, and removes from the unsent the one it has written.
LEMMA OrderedStep == ASSUME TypeOK, Solo, Hands, Ordered, [Next]_vars PROVE Ordered'
<1> SUFFICES ASSUME Sound'
             PROVE  /\ InHand(DirectCalls, unsentDirect, send)'
                    /\ InHand(BroadcastCalls, unsentBroadcast, broadcast)'
  BY DEF Ordered
<1>0. /\ hand \in [Calls -> Calls \cup {NoMsg}]
      /\ send \in Seq(DirectCalls) /\ broadcast \in Seq(BroadcastCalls)
      /\ unsentDirect \in Seq(DirectCalls) /\ unsentBroadcast \in Seq(BroadcastCalls)
      /\ DirectCalls \cap BroadcastCalls = {}
  BY ConnAssumption DEF TypeOK, ConnAssumption
<1>1. /\ Sound
      /\ InHand(DirectCalls, unsentDirect, send)
      /\ InHand(BroadcastCalls, unsentBroadcast, broadcast)
  BY SoundBefore DEF Ordered
<1>2. \* Only the writer has anything in hand.
      ASSUME NEW m \in Calls, pc[m] \in Serving
      PROVE  \A n \in Calls : n # m => hand[n] = NoMsg
  BY <1>1, <1>2 DEF Sound, Solo, Hands, Serving
<1>3. NoMsg \notin DirectCalls /\ NoMsg \notin BroadcastCalls
  BY NoMsgAssumption DEF Calls
<1>4. CASE UNCHANGED <<hand, queues, unsentDirect, unsentBroadcast>>
  BY <1>1, <1>4 DEF InHand, queues
<1>5. \* A writer that is not writing finds every hand empty.
      ASSUME NEW m \in Calls, pc[m] \in Serving, pc[m] # "write"
      PROVE  /\ \A n \in Calls : hand[n] = NoMsg
             /\ unsentDirect = send /\ unsentBroadcast = broadcast
  <2>1. \A n \in Calls : hand[n] = NoMsg
    BY <1>2, <1>5 DEF Hands
  <2> QED
    BY <1>1, <1>3, <2>1 DEF InHand
<1>6. ASSUME NEW m \in Calls, pc[m] \in Serving, pc[m] # "write", TakeDirect(m)
      PROVE  /\ InHand(DirectCalls, unsentDirect, send)'
             /\ InHand(BroadcastCalls, unsentBroadcast, broadcast)'
  <2>1. unsentDirect' = <<Head(send)>> \o send' /\ Head(send) \in DirectCalls
    BY <1>0, <1>5, <1>6, HeadThenTail DEF TakeDirect
  <2>2. hand'[m] = Head(send) /\ \A n \in Calls : n # m => hand'[n] = NoMsg
    BY <1>0, <1>5, <1>6 DEF TakeDirect
  <2>3. unsentBroadcast' = broadcast'
    BY <1>5, <1>6 DEF TakeDirect
  <2> QED
    BY <1>0, <1>3, <2>1, <2>2, <2>3 DEF InHand
<1>7. ASSUME NEW m \in Calls, pc[m] \in Serving, pc[m] # "write", TakeBroadcast(m)
      PROVE  /\ InHand(DirectCalls, unsentDirect, send)'
             /\ InHand(BroadcastCalls, unsentBroadcast, broadcast)'
  <2>1. unsentBroadcast' = <<Head(broadcast)>> \o broadcast' /\ Head(broadcast) \in BroadcastCalls
    BY <1>0, <1>5, <1>7, HeadThenTail DEF TakeBroadcast
  <2>2. hand'[m] = Head(broadcast) /\ \A n \in Calls : n # m => hand'[n] = NoMsg
    BY <1>0, <1>5, <1>7 DEF TakeBroadcast
  <2>3. unsentDirect' = send'
    BY <1>5, <1>7 DEF TakeBroadcast
  <2> QED
    BY <1>0, <1>3, <2>1, <2>2, <2>3 DEF InHand
<1>8. ASSUME NEW D, NEW u, NEW q \in Seq(D), NEW e \in D, InHand(D, u, q)
      PROVE  InHand(D, Append(u, e), Append(q, e))
  BY <1>8, AppendAfter DEF InHand
<1>9. ASSUME NEW m \in Calls, EnqueueDirect(m)
      PROVE  /\ InHand(DirectCalls, unsentDirect, send)'
             /\ InHand(BroadcastCalls, unsentBroadcast, broadcast)'
  <2>1. UNCHANGED <<hand, broadcast, unsentBroadcast>> /\ m \in DirectCalls
    BY <1>9 DEF EnqueueDirect, locals
  <2>2. CASE UNCHANGED <<send, unsentDirect>>
    BY <1>4, <2>1, <2>2 DEF queues
  <2>3. CASE send' = Append(send, m) /\ unsentDirect' = Append(unsentDirect, m)
    <3>1. InHand(BroadcastCalls, unsentBroadcast, broadcast)'
      BY <1>1, <2>1 DEF InHand
    <3>2. InHand(DirectCalls, Append(unsentDirect, m), Append(send, m))
      BY <1>0, <1>1, <1>8, <2>1
    <3>3. InHand(DirectCalls, unsentDirect, send)'
      BY <2>1, <2>3, <3>2 DEF InHand
    <3> QED
      BY <3>1, <3>3
  <2> QED
    BY <1>9, <2>2, <2>3 DEF EnqueueDirect
<1>10. ASSUME NEW m \in Calls, EnqueueBroadcast(m)
       PROVE  /\ InHand(DirectCalls, unsentDirect, send)'
              /\ InHand(BroadcastCalls, unsentBroadcast, broadcast)'
  <2>1. UNCHANGED <<hand, send, unsentDirect>> /\ m \in BroadcastCalls
    BY <1>10 DEF EnqueueBroadcast, locals
  <2>2. CASE UNCHANGED <<broadcast, unsentBroadcast>>
    BY <1>4, <2>1, <2>2 DEF queues
  <2>3. CASE broadcast' = Append(broadcast, m) /\ unsentBroadcast' = Append(unsentBroadcast, m)
    <3>1. InHand(DirectCalls, unsentDirect, send)'
      BY <1>1, <2>1 DEF InHand
    <3>2. InHand(BroadcastCalls, Append(unsentBroadcast, m), Append(broadcast, m))
      BY <1>0, <1>1, <1>8, <2>1
    <3>3. InHand(BroadcastCalls, unsentBroadcast, broadcast)'
      BY <2>1, <2>3, <3>2 DEF InHand
    <3> QED
      BY <3>1, <3>3
  <2> QED
    BY <1>10, <2>2, <2>3 DEF EnqueueBroadcast
<1>11. \* A message written was the first of its class, and leaves every hand empty.
       ASSUME NEW m \in Calls, pc[m] = "write", hand' = [hand EXCEPT ![m] = NoMsg]
       PROVE  \A n \in Calls : hand'[n] = NoMsg
  BY <1>0, <1>2, <1>11 DEF Serving
<1>12. ASSUME NEW m \in Calls, WriteDirectOk(m)
       PROVE  /\ InHand(DirectCalls, unsentDirect, send)'
              /\ InHand(BroadcastCalls, unsentBroadcast, broadcast)'
  <2>1. /\ pc[m] = "write" /\ hand[m] \in DirectCalls /\ hand' = [hand EXCEPT ![m] = NoMsg]
        /\ unsentDirect' = Without(unsentDirect, hand[m])
        /\ UNCHANGED <<send, broadcast, unsentBroadcast>>
    BY <1>12 DEF WriteDirectOk, queues
  <2>2. \A n \in Calls : n # m => hand[n] = NoMsg
    BY <1>2, <2>1 DEF Serving
  <2>3. unsentDirect = <<hand[m]>> \o send /\ unsentBroadcast = broadcast
    BY <1>0, <1>1, <1>3, <2>1, <2>2 DEF InHand
  <2>4. Without(unsentDirect, hand[m]) = send
    BY <1>0, <2>1, <2>3, WithoutFirst
  <2> QED
    BY <1>3, <1>11, <2>1, <2>3, <2>4 DEF InHand
<1>13. ASSUME NEW m \in Calls, WriteBroadcastOk(m)
       PROVE  /\ InHand(DirectCalls, unsentDirect, send)'
              /\ InHand(BroadcastCalls, unsentBroadcast, broadcast)'
  <2>1. /\ pc[m] = "write" /\ hand[m] \in BroadcastCalls /\ hand' = [hand EXCEPT ![m] = NoMsg]
        /\ unsentBroadcast' = Without(unsentBroadcast, hand[m])
        /\ UNCHANGED <<send, broadcast, unsentDirect>>
    BY <1>13 DEF WriteBroadcastOk, queues
  <2>2. \A n \in Calls : n # m => hand[n] = NoMsg
    BY <1>2, <2>1 DEF Serving
  <2>3. unsentBroadcast = <<hand[m]>> \o broadcast /\ unsentDirect = send
    BY <1>0, <1>1, <1>3, <2>1, <2>2 DEF InHand
  <2>4. Without(unsentBroadcast, hand[m]) = broadcast
    BY <1>0, <2>1, <2>3, WithoutFirst
  <2> QED
    BY <1>3, <1>11, <2>1, <2>3, <2>4 DEF InHand
<1>14. \* A failed write ends the order's guarantee.
       ASSUME NEW m \in Calls, WriteError(m)
       PROVE  FALSE
  BY <1>14 DEF WriteError, Goto, Sound, TypeOK
<1>15. ASSUME NEW m \in Calls,
              \/ Begin(m) \/ EnsureWriter(m) \/ Claim(m) \/ Reclaim(m) \/ FailClose(m)
              \/ StoreFalse(m) \/ Recheck(m) \/ RecheckBroadcast(m) \/ Exit(m)
       PROVE  UNCHANGED <<hand, queues, unsentDirect, unsentBroadcast>>
  BY <1>15 DEF Begin, EnsureWriter, Claim, Reclaim, CompareAndSwap, FailClose, StoreFalse,
               Recheck, RecheckBroadcast, Exit, locals, history
<1>16. ASSUME NEW m \in Calls, DrainDirect(m) \/ DrainBroadcast(m) \/ Burst(m) \/ Batch(m)
       PROVE  /\ InHand(DirectCalls, unsentDirect, send)'
              /\ InHand(BroadcastCalls, unsentBroadcast, broadcast)'
  <2>1. \/ TakeDirect(m) \/ TakeBroadcast(m)
        \/ UNCHANGED <<hand, queues, unsentDirect, unsentBroadcast>>
    BY <1>16 DEF DrainDirect, DrainBroadcast, Burst, Batch, locals, history
  <2>2. pc[m] \in Serving /\ pc[m] # "write"
    BY <1>16 DEF DrainDirect, DrainBroadcast, Burst, Batch, Serving
  <2> QED
    BY <1>4, <1>6, <1>7, <2>1, <2>2
<1>17. CASE Close \/ UNCHANGED vars
  BY <1>4, <1>17 DEF Close, vars, locals, history
<1> QED
  BY <1>4, <1>9, <1>10, <1>12, <1>13, <1>14, <1>15, <1>16, <1>17
     DEF Next, SendStep, WriteStep, Finished

\* With at most one hand full, what InOrder takes from the hands is that message.
LEMMA OrderedEnough == ASSUME TypeOK, Solo, Hands, Ordered PROVE InOrder
<1> SUFFICES ASSUME Sound
             PROVE  /\ unsentDirect = Held(DirectCalls) \o send
                    /\ unsentBroadcast = Held(BroadcastCalls) \o broadcast
  BY DEF InOrder, Sound
<1>1. ASSUME NEW D, D \subseteq Calls, NEW S, NEW q \in Seq(S), NEW u, InHand(D, u, q)
      PROVE  u = Held(D) \o q
  <2> DEFINE h == {hand[m] : m \in Calls} \cap D
  <2>1. CASE (\A m \in Calls : hand[m] \notin D) /\ u = q
    <3>1. h = {}
      BY <2>1
    <3> QED
      BY <1>1, <2>1, <3>1 DEF Held
  <2>2. ASSUME NEW m \in Calls, hand[m] \in D, u = <<hand[m]>> \o q
        PROVE  u = Held(D) \o q
    <3>1. \A n \in Calls : hand[n] \in D => pc[n] = "write"
      BY <1>1, NoMsgAssumption DEF Hands
    <3>2. \A n \in Calls : hand[n] \in D => n = m
      BY <2>2, <3>1 DEF Sound, Solo, Serving
    <3>3. h = {hand[m]}
      BY <2>2, <3>2
    <3>4. (CHOOSE x \in h : TRUE) = hand[m]
      BY <3>3
    <3>5. Held(D) = <<hand[m]>>
      BY <3>3, <3>4 DEF Held
    <3> QED
      BY <2>2, <3>5
  <2> QED
    BY <1>1, <2>1, <2>2 DEF InHand
<1>2. /\ send \in Seq(DirectCalls) /\ broadcast \in Seq(BroadcastCalls)
      /\ DirectCalls \subseteq Calls /\ BroadcastCalls \subseteq Calls
  BY DEF TypeOK, Calls
<1>3. /\ InHand(DirectCalls, unsentDirect, send)
      /\ InHand(BroadcastCalls, unsentBroadcast, broadcast)
  BY DEF Ordered
<1>4. unsentDirect = Held(DirectCalls) \o send
  BY <1>1, <1>2, <1>3
<1>5. unsentBroadcast = Held(BroadcastCalls) \o broadcast
  BY <1>1, <1>2, <1>3
<1> QED
  BY <1>4, <1>5

\* connection.go:285-343.  As long as no write failed and no two writers overlapped,
\* the accepted messages of a class not yet on the wire are the one in hand followed
\* by the queue: nothing is lost, repeated or overtaken within its class.
THEOREM MessagesInOrder == Spec => []InOrder
<1>1. Init => Solo /\ Hands /\ Ordered
  <2> SUFFICES ASSUME Init PROVE Solo /\ Hands /\ Ordered
    OBVIOUS
  <2>1. Solo
    BY DEF Init, Solo, Serving
  <2>2. \A m \in Calls : hand[m] = NoMsg /\ pc[m] = "idle"
    BY DEF Init
  <2>3. Hands
    BY <2>2 DEF Hands
  <2>4. \A m \in Calls : hand[m] \notin DirectCalls /\ hand[m] \notin BroadcastCalls
    BY <2>2, NoMsgAssumption DEF Calls
  <2>5. Ordered
    BY <2>4 DEF Init, Ordered, InHand
  <2> QED
    BY <2>1, <2>3, <2>5
<1>2. TypeOK /\ Solo /\ Hands /\ Ordered /\ [Next]_vars => (Solo /\ Hands /\ Ordered)'
  BY SoloStep, HandsStep, OrderedStep
<1>3. TypeOK /\ Solo /\ Hands /\ Ordered => InOrder
  BY OrderedEnough
<1> QED
  BY <1>1, <1>2, <1>3, TypeCorrect, PTL DEF Spec

-----------------------------------------------------------------------------
\* What a writer at its place in the batch still owes a waiting direct message:
\* inside a batch, no more broadcasts have passed it than since the last poll.
Due(m) ==
  /\ pc[m] \in {"drainBroadcast", "store"} => overtaken = 0
  /\ pc[m] = "batch" => overtaken <= i[m] % PreemptEvery
  /\ pc[m] = "write" => IF hand[m] \in DirectCalls THEN overtaken = 0
                        ELSE overtaken <= i[m] % PreemptEvery

\* A count above 0 has a direct message that waits.
Passed ==
  /\ overtaken > 0 => send # <<>>
  /\ ~overlap => overtaken <= PreemptEvery /\ \A m \in Calls : Due(m)

\* The next multiple of p is p further on.
LEMMA MultipleStep ==
  ASSUME NEW p \in Nat, NEW a \in Nat, NEW b \in Nat, a >= b + 1
  PROVE  p * a >= p * b + p
<1>1. PICK d \in Nat : a = b + 1 + d
  <2>1. a - b - 1 \in Nat
    OBVIOUS
  <2> QED
    BY <2>1
<1>2. p * a = p * b + p + p * d
  BY <1>1
<1>3. p * d \in Nat /\ p * b \in Nat
  OBVIOUS
<1> QED
  BY <1>2, <1>3

\* Division with remainder.
LEMMA Division ==
  ASSUME NEW n \in Nat, NEW p \in Nat \ {0}
  PROVE  \E q \in Nat : n = p * q + (n % p) /\ n % p \in 0..(p - 1)
<1>1. n \div p \in Nat
  OBVIOUS
<1>2. n = p * (n \div p) + (n % p)
  OBVIOUS
<1>3. n % p \in 0..(p - 1)
  OBVIOUS
<1> QED
  BY <1>1, <1>2, <1>3

\* Counting on, the remainder grows until the next multiple.
LEMMA RemainderGrows ==
  ASSUME NEW n \in Nat, NEW p \in Nat \ {0}, (n + 1) % p # 0
  PROVE  n % p < (n + 1) % p
<1> DEFINE r == n % p
           s == (n + 1) % p
<1>1. PICK q \in Nat : n = p * q + r /\ r \in 0..(p - 1)
  BY Division
<1>2. PICK u \in Nat : n + 1 = p * u + s /\ s \in 0..(p - 1)
  <2>1. n + 1 \in Nat
    OBVIOUS
  <2> QED
    BY <2>1, Division
<1>3. s # 0
  OBVIOUS
<1> HIDE DEF r, s
<1>4. p * q \in Nat /\ p * u \in Nat
  OBVIOUS
<1>5. CASE u = q
  BY <1>1, <1>2, <1>4, <1>5
<1>6. CASE u >= q + 1
  <2>1. p * u >= p * q + p
    BY <1>6, MultipleStep
  <2> QED
    BY <1>1, <1>2, <1>3, <1>4, <2>1
<1>7. CASE q >= u + 1
  <2>1. p * q >= p * u + p
    BY <1>7, MultipleStep
  <2> QED
    BY <1>1, <1>2, <1>4, <2>1
<1>8. u = q \/ u >= q + 1 \/ q >= u + 1
  OBVIOUS
<1> QED
  BY <1>5, <1>6, <1>7, <1>8

\* The remainder is less than the divisor.
LEMMA RemainderBelow ==
  ASSUME NEW n \in Nat, NEW p \in Nat \ {0}
  PROVE  n % p \in Nat /\ n % p < p
OBVIOUS

\* A step of m after which no more broadcasts have passed than before.
LEMMA PassedKept ==
  ASSUME TypeOK, Passed, NEW m \in Calls, NEW label, Goto(m, label),
         \A n \in Calls \ {m} : hand'[n] = hand[n] /\ i'[n] = i[n],
         i' \in [Calls -> Nat], overtaken' \in {0, overtaken},
         overtaken' > 0 => send' # <<>>,
         ~overlap' => ~overlap,
         ~overlap' => Due(m)'
  PROVE  Passed'
<1>0. /\ pc \in [Calls -> Labels] /\ i \in [Calls -> Nat] /\ overtaken \in Nat
      /\ PreemptEvery \in Nat \ {0}
  BY ConnAssumption DEF TypeOK, ConnAssumption
<1> SUFFICES ASSUME ~overlap' PROVE overtaken' <= PreemptEvery /\ \A n \in Calls : Due(n)'
  BY DEF Passed
<1>1. overtaken <= PreemptEvery /\ \A n \in Calls : Due(n)
  BY DEF Passed
<1>2. overtaken' <= PreemptEvery
  BY <1>0, <1>1
<1>3. ASSUME NEW n \in Calls \ {m} PROVE Due(n)'
  <2>1. pc'[n] = pc[n] /\ hand'[n] = hand[n] /\ i'[n] = i[n] /\ Due(n)
    BY <1>0, <1>1, <1>3 DEF Goto
  <2>2. i[n] % PreemptEvery \in Nat
    BY <1>0, RemainderBelow
  <2> QED
    BY <1>0, <2>1, <2>2 DEF Due
<1> QED
  BY <1>2, <1>3

\* Only WriteBroadcastOk lets a broadcast pass, and then by the writer's own counter;
\* before a batch begins or goes on after a poll, the count is back to 0.
LEMMA PassedStep == ASSUME TypeOK, Solo, Hands, Passed, [Next]_vars PROVE Passed'
<1>0. /\ pc \in [Calls -> Labels] /\ i \in [Calls -> Nat] /\ overtaken \in Nat
      /\ hand \in [Calls -> Calls \cup {NoMsg}]
      /\ send \in Seq(DirectCalls) /\ broadcast \in Seq(BroadcastCalls)
      /\ PreemptEvery \in Nat \ {0} /\ DirectCalls \cap BroadcastCalls = {}
  BY ConnAssumption DEF TypeOK, ConnAssumption
<1>1. overtaken > 0 => send # <<>>
  BY DEF Passed
<1>2. \A m \in Calls : i[m] % PreemptEvery \in Nat
  BY <1>0, RemainderBelow
<1>3. \* To a label of which Due asks nothing.
      ASSUME NEW m \in Calls, NEW label \in Labels, Goto(m, label),
             label \notin {"drainBroadcast", "store", "batch", "write"},
             UNCHANGED <<hand, i, overtaken, send>>, ~overlap' => ~overlap
      PROVE  Passed'
  <2>1. Due(m)'
    BY <1>0, <1>3 DEF Due, Goto
  <2> QED
    BY <1>0, <1>1, <1>3, <2>1, PassedKept
<1>4. ASSUME NEW m \in Calls, Begin(m) \/ EnqueueBroadcast(m) \/ EnsureWriter(m)
      PROVE  Passed'
  BY <1>3, <1>4 DEF Begin, EnqueueBroadcast, EnsureWriter, locals, history, queues, Labels
<1>5. ASSUME NEW m \in Calls, Claim(m) \/ Reclaim(m) PROVE Passed'
  <2>1. PICK label \in Labels : /\ label \in {"drain", "done", "exit"}
                                /\ Goto(m, label)
    BY <1>5 DEF Claim, Reclaim, CompareAndSwap, Labels
  <2>2. UNCHANGED <<hand, i, overtaken, send>> /\ (~overlap' => ~overlap)
    BY <1>5 DEF Claim, Reclaim, CompareAndSwap, locals, queues
  <2> QED
    BY <1>3, <2>1, <2>2
<1>6. ASSUME NEW m \in Calls, EnqueueDirect(m) PROVE Passed'
  <2>1. PICK label \in {"ensure", "done"} : Goto(m, label)
    BY <1>6 DEF EnqueueDirect
  <2>2. Due(m)'
    BY <1>0, <2>1 DEF Due, Goto
  <2>3. UNCHANGED <<hand, i, overtaken, overlap>>
    BY <1>6 DEF EnqueueDirect, locals
  <2>4. overtaken' > 0 => send' # <<>>
    BY <1>0, <1>1, <1>6, <2>3 DEF EnqueueDirect
  <2> QED
    BY <1>0, <2>1, <2>2, <2>3, <2>4, PassedKept
<1>7. ASSUME NEW m \in Calls, TakeDirect(m), UNCHANGED <<i, k, last>> PROVE Passed'
  <2>1. /\ overtaken' = 0 /\ UNCHANGED overlap /\ Goto(m, "write")
        /\ \A n \in Calls \ {m} : hand'[n] = hand[n]
    BY <1>0, <1>7 DEF TakeDirect
  <2>2. Due(m)'
    BY <1>0, <1>2, <1>7, <2>1 DEF Due, Goto
  <2> QED
    BY <1>0, <1>7, <2>1, <2>2, PassedKept
<1>8. \* A broadcast is taken where few enough have passed.
      ASSUME NEW m \in Calls, TakeBroadcast(m), UNCHANGED <<i, k, last>>,
             pc[m] \in {"drainBroadcast", "batch"}
      PROVE  Passed'
  <2>1. /\ UNCHANGED <<overtaken, overlap, send>> /\ Goto(m, "write")
        /\ \A n \in Calls \ {m} : hand'[n] = hand[n]
        /\ hand'[m] = Head(broadcast)
    BY <1>0, <1>8 DEF TakeBroadcast
  <2>2. Head(broadcast) \notin DirectCalls
    BY <1>0, <1>8 DEF TakeBroadcast
  <2>3. ~overlap => overtaken <= i[m] % PreemptEvery
    BY <1>0, <1>2, <1>8 DEF Passed, Due
  <2>4. ~overlap' => Due(m)'
    BY <1>0, <1>8, <2>1, <2>2, <2>3 DEF Due, Goto
  <2> QED
    BY <1>0, <1>1, <1>8, <2>1, <2>4, PassedKept
<1>9. \* The end of a burst: the direct queue was empty, or has just been served.
      ASSUME NEW m \in Calls, EndBurst(m), ~overlap => overtaken = 0,
             UNCHANGED <<overtaken, overlap, send>>,
             \A n \in Calls \ {m} : hand'[n] = hand[n]
      PROVE  Passed'
  <2>1. PICK label \in {"drain", "batch"} : Goto(m, label)
    BY <1>9 DEF EndBurst
  <2>2. i' \in [Calls -> Nat] /\ \A n \in Calls \ {m} : i'[n] = i[n]
    BY <1>0, <1>9 DEF EndBurst
  <2>3. i'[m] % PreemptEvery \in Nat
    BY <1>0, <2>2, RemainderBelow
  <2>4. ~overlap' => Due(m)'
    BY <1>0, <1>9, <2>1, <2>3 DEF Due, Goto
  <2> QED
    BY <1>0, <1>1, <1>9, <2>1, <2>2, <2>4, PassedKept
<1>10. ASSUME NEW m \in Calls, DrainDirect(m) PROVE Passed'
  <2>1. CASE send = <<>> /\ Goto(m, "drainBroadcast") /\ UNCHANGED <<send, hand, i, overtaken, overlap>>
    <3>1. overtaken = 0
      BY <1>0, <1>1, <2>1
    <3>2. Due(m)'
      BY <1>0, <2>1, <3>1 DEF Due, Goto
    <3> QED
      BY <1>0, <1>1, <2>1, <3>2, PassedKept
  <2> QED
    BY <1>7, <1>10, <2>1 DEF DrainDirect, queues, history
<1>11. ASSUME NEW m \in Calls, DrainBroadcast(m) PROVE Passed'
  <2>1. CASE Goto(m, "store") /\ UNCHANGED <<send, hand, i, overtaken, overlap>>
    <3>1. ~overlap => overtaken = 0
      BY <1>11 DEF DrainBroadcast, Passed, Due
    <3>2. ~overlap' => Due(m)'
      BY <1>0, <2>1, <3>1 DEF Due, Goto
    <3> QED
      BY <1>0, <1>1, <2>1, <3>2, PassedKept
  <2> QED
    BY <1>8, <1>11, <2>1 DEF DrainBroadcast, queues, locals, history
<1>12. ASSUME NEW m \in Calls, Burst(m) PROVE Passed'
  <2>1. CASE send = <<>> /\ EndBurst(m) /\ UNCHANGED <<queues, hand, history>>
    <3>1. overtaken = 0
      BY <1>0, <1>1, <2>1
    <3> QED
      BY <1>9, <2>1, <3>1 DEF queues, history
  <2> QED
    BY <1>7, <1>12, <2>1 DEF Burst
<1>13. ASSUME NEW m \in Calls, Batch(m) PROVE Passed'
  BY <1>3, <1>8, <1>13 DEF Batch, queues, history, Labels
<1>14. ASSUME NEW m \in Calls, WriteDirectOk(m) PROVE Passed'
  <2>1. /\ ~overlap => overtaken = 0
        /\ UNCHANGED <<overtaken, overlap, send>>
        /\ \A n \in Calls \ {m} : hand'[n] = hand[n]
    BY <1>0, <1>14 DEF WriteDirectOk, Passed, Due, queues
  <2>2. ASSUME NEW label \in {"drain", "burst"}, Goto(m, label), UNCHANGED i PROVE Passed'
    <3>1. Due(m)'
      BY <1>0, <2>2 DEF Due, Goto
    <3> QED
      BY <1>0, <1>1, <2>1, <2>2, <3>1, PassedKept
  <2> QED
    BY <1>9, <1>14, <2>1, <2>2 DEF WriteDirectOk
<1>15. ASSUME NEW m \in Calls, WriteBroadcastOk(m) PROVE Passed'
  <2> DEFINE n == i[m] + 1
  <2>1. /\ Goto(m, AfterBroadcast(n)) /\ i'[m] = n /\ UNCHANGED <<send, overlap>>
        /\ overtaken' = IF send = <<>> THEN 0 ELSE overtaken + 1
        /\ pc[m] = "write" /\ hand[m] \notin DirectCalls
    BY <1>0, <1>15 DEF WriteBroadcastOk, queues
  <2>2. n \in Nat /\ n % PreemptEvery \in Nat
    BY <1>0, RemainderBelow
  <2>3. pc'[m] \in {"burst", "batch"} /\ (pc'[m] = "batch" => n % PreemptEvery # 0)
    BY <1>0, <2>1 DEF Goto, AfterBroadcast
  <2> SUFFICES ASSUME ~overlap PROVE overtaken' <= PreemptEvery /\ \A j \in Calls : Due(j)'
    BY <1>0, <2>1 DEF Passed
  <2>4. overtaken <= i[m] % PreemptEvery
    BY <2>1 DEF Passed, Due
  <2>5. i[m] % PreemptEvery < PreemptEvery
    BY <1>0, RemainderBelow
  <2>6. overtaken' <= (i[m] % PreemptEvery) + 1
    BY <1>0, <1>2, <2>1, <2>4
  <2>7. overtaken' <= PreemptEvery
    <3>1. overtaken' \in Nat
      BY <1>0, <2>1
    <3> QED
      BY <1>0, <1>2, <2>5, <2>6, <3>1
  <2>8. Due(m)'
    <3>1. CASE pc'[m] = "batch"
      <4>1. i[m] % PreemptEvery < n % PreemptEvery
        BY <1>0, <2>3, <3>1, RemainderGrows
      <4>2. overtaken' <= n % PreemptEvery
        <5>1. overtaken' \in Nat
          BY <1>0, <2>1
        <5> QED
          BY <1>2, <2>2, <2>6, <4>1, <5>1
      <4> QED
        BY <2>1, <3>1, <4>2 DEF Due
    <3>2. CASE pc'[m] = "burst"
      BY <3>2 DEF Due
    <3> QED
      BY <2>3, <3>1, <3>2
  <2>9. ASSUME NEW j \in Calls \ {m} PROVE Due(j)'
    <3>1. pc[j] \notin Serving /\ pc'[j] = pc[j]
      BY <1>0, <2>1, <2>9 DEF Solo, Serving, Goto
    <3> QED
      BY <3>1 DEF Due, Serving
  <2> QED
    BY <2>7, <2>8, <2>9
<1>16. ASSUME NEW m \in Calls, WriteError(m) PROVE Passed'
  <2>1. /\ Goto(m, "failed") /\ UNCHANGED <<overtaken, overlap, send>>
        /\ \A n \in Calls \ {m} : hand'[n] = hand[n] /\ i'[n] = i[n]
        /\ i' \in [Calls -> Nat]
    BY <1>0, <1>16 DEF WriteError, queues, history
  <2>2. Due(m)'
    BY <1>0, <2>1 DEF Due, Goto
  <2> QED
    BY <1>0, <1>1, <2>1, <2>2, PassedKept
<1>17. ASSUME NEW m \in Calls,
              \/ FailClose(m) \/ StoreFalse(m) \/ Recheck(m) \/ RecheckBroadcast(m) \/ Exit(m)
       PROVE  Passed'
  BY <1>3, <1>17 DEF FailClose, StoreFalse, Recheck, RecheckBroadcast, Exit, locals, history,
                     queues, Labels
<1>18. CASE Close \/ UNCHANGED vars
  BY <1>18 DEF Close, vars, locals, history, queues, Passed, Due
<1> QED
  BY <1>4, <1>5, <1>6, <1>10, <1>11, <1>12, <1>13, <1>14, <1>15, <1>16, <1>17, <1>18
     DEF Next, SendStep, WriteStep, Finished

\* connection.go:319-324.  However batches, bursts and writers follow each other, at
\* most PreemptEvery broadcasts pass a waiting direct message, unless two writers
\* have overlapped: inside a batch the count is bounded by the remainder of the
\* batch's own counter, which is what the poll at its multiples is for.
THEOREM DirectIsPreempting == Spec => []DirectPreempts
<1>1. Init => Solo /\ Hands /\ Passed
  <2> SUFFICES ASSUME Init PROVE Solo /\ Hands /\ Passed
    OBVIOUS
  <2>1. Solo
    BY DEF Init, Solo, Serving
  <2>2. Hands
    BY DEF Init, Hands
  <2>3. Passed
    BY ConnAssumption DEF Init, ConnAssumption, Passed, Due
  <2> QED
    BY <2>1, <2>2, <2>3
<1>2. TypeOK /\ Solo /\ Hands /\ Passed /\ [Next]_vars => (Solo /\ Hands /\ Passed)'
  BY SoloStep, HandsStep, PassedStep
<1>3. Passed => DirectPreempts
  BY DEF Passed, DirectPreempts
<1> QED
  BY <1>1, <1>2, <1>3, TypeCorrect, PTL DEF Spec

=============================================================================
