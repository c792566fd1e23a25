--------------------------- MODULE WSServerProofs ---------------------------
(***************************************************************************)
(* Proofs about WSServer for any number of requests, any limit and any     *)
(* number of shards: the slot counter is exact, the limit is respected,    *)
(* and Stop closes every connection that was there when it began.  And     *)
(* about Broadcast, for any number of connections and goroutines: every    *)
(* connection is offered the message once and every error is reported.     *)
(***************************************************************************)
EXTENDS WSServer, Broadcast, FiniteSetTheorems, TLAPS

\* TypeOK without the sign of the counter, which follows from SlotAccounting.
Typed ==
  /\ serving \in {"no", "starting", "yes", "down"} /\ stopping \in BOOLEAN
  /\ activeCount \in Int
  /\ connections \subseteq Requests /\ closed \subseteq Requests
  /\ shard \in [Requests -> 0..(ShardCount - 1)]
  /\ pc \in [Requests -> Labels]
  /\ heartbeatStop \in BOOLEAN /\ heartbeatDone \in BOOLEAN
  /\ heartbeat \in {"none", "running", "ended"}
  /\ stop \in {"idle", "snapshot", "closing", "heartbeat", "returned"}
  /\ index \in 0..ShardCount
  /\ snapshot \subseteq Requests /\ early \subseteq Requests

IInv == Typed /\ ServerInv /\ SlotAccounting

\* Adding a request to, or removing one from, a set of requests moves its size by one.
LEMMA CountOne ==
  ASSUME NEW S \in SUBSET Requests, NEW r \in Requests
  PROVE  /\ Cardinality(S) \in Nat
         /\ r \notin S => Cardinality(S \cup {r}) = Cardinality(S) + 1
         /\ r \in S => Cardinality(S \ {r}) = Cardinality(S) - 1
<1>1. IsFiniteSet(S)
  BY FS_Subset, ServerAssumption DEF ServerAssumption
<1> QED
  BY <1>1, FS_CardinalityType, FS_AddElement, FS_RemoveElement

-----------------------------------------------------------------------------
\* Everything but the count, which the next lemma treats.
LEMMA TableStep ==
  ASSUME IInv, [Next]_vars
  PROVE  Typed' /\ Placement' /\ EarlyInv'
<1> USE ServerAssumption DEF ServerAssumption, IInv, Typed, ServerInv, Placement, EarlyInv, Goto,
        Labels, table, life
<1>1. CASE Start \/ Listen \/ HeartbeatEnd
  <2>1. CASE Start
    BY <2>1 DEF Start
  <2>2. CASE Listen
    BY <2>2 DEF Listen
  <2>3. CASE HeartbeatEnd
    BY <2>3 DEF HeartbeatEnd
  <2> QED
    BY <1>1, <2>1, <2>2, <2>3
<1>2. ASSUME NEW r \in Requests, CheckStopping(r) PROVE Typed' /\ Placement' /\ EarlyInv'
  BY <1>2 DEF CheckStopping
<1>3. ASSUME NEW r \in Requests, AcquireSlot(r) PROVE Typed' /\ Placement' /\ EarlyInv'
  BY <1>3 DEF AcquireSlot
<1>4. ASSUME NEW r \in Requests, Upgrade(r) PROVE Typed' /\ Placement' /\ EarlyInv'
  BY <1>4 DEF Upgrade
<1>5. ASSUME NEW r \in Requests, Store(r) PROVE Typed' /\ Placement' /\ EarlyInv'
  BY <1>5 DEF Store
<1>6. ASSUME NEW r \in Requests, OnConnect(r) \/ OnDisconnect(r)
      PROVE  Typed' /\ Placement' /\ EarlyInv'
  BY <1>6 DEF OnConnect, OnDisconnect
<1>7. ASSUME NEW r \in Requests, CloseConnection(r) PROVE Typed' /\ Placement' /\ EarlyInv'
  BY <1>7 DEF CloseConnection, CloseEffect
<1>8. ASSUME NEW r \in Requests, ReadEnd(r) PROVE Typed' /\ Placement' /\ EarlyInv'
  BY <1>8 DEF ReadEnd, CloseEffect
<1>9. CASE StopBegin
  BY <1>9 DEF StopBegin
<1>10. CASE SnapshotShard
  BY <1>10 DEF SnapshotShard
<1>11. CASE StopCloseOne
  BY <1>11 DEF StopCloseOne, CloseEffect
<1>12. CASE StopHeartbeat \/ StopShutdown
  BY <1>12 DEF StopHeartbeat, StopShutdown
<1>13. CASE UNCHANGED vars
  BY <1>13 DEF vars
<1> QED
  BY <1>1, <1>2, <1>3, <1>4, <1>5, <1>6, <1>7, <1>8, <1>9, <1>10, <1>11, <1>12, <1>13
     DEF Next, HandlerStep, StopStep, Finished

\* Closing a connection frees exactly the slot it holds, if it still holds one.
LEMMA CloseCounts ==
  ASSUME IInv, NEW r \in Requests, CloseEffect(r), r \in connections => pc[r] \in {"stored", "reading"},
         \A q \in Requests : pc'[q] \in {"slot", "upgraded"} <=> pc[q] \in {"slot", "upgraded"}
  PROVE  SlotAccounting' /\ CountInv'
<1> USE DEF IInv, Typed, ServerInv
<1>1. SlotHolders \subseteq Requests
  BY DEF SlotHolders
<1>2. CASE r \in connections
  <2>1. r \in SlotHolders /\ SlotHolders' = SlotHolders \ {r}
    BY <1>2 DEF SlotHolders, CloseEffect
  <2>2. Cardinality(SlotHolders') = Cardinality(SlotHolders) - 1
    BY <1>1, <2>1, CountOne
  <2>3. activeCount' = activeCount - 1
    BY <1>2 DEF CloseEffect
  <2> QED
    BY <2>2, <2>3, ServerAssumption DEF SlotAccounting, CountInv, ServerAssumption
<1>3. CASE r \notin connections
  <2>1. SlotHolders' = SlotHolders /\ activeCount' = activeCount
    BY <1>3 DEF SlotHolders, CloseEffect
  <2> QED
    BY <2>1 DEF SlotAccounting, CountInv
<1> QED
  BY <1>2, <1>3

\* A step that changes neither the counter nor who holds a slot.
LEMMA SameHolders ==
  ASSUME IInv, activeCount' = activeCount, SlotHolders' = SlotHolders
  PROVE  SlotAccounting' /\ CountInv'
BY DEF IInv, ServerInv, SlotAccounting, CountInv

\* The count follows every step.
LEMMA CountStep ==
  ASSUME IInv, [Next]_vars
  PROVE  SlotAccounting' /\ CountInv'
<1> USE DEF Goto, table, life
<1>0. /\ pc \in [Requests -> Labels] /\ activeCount \in Int
      /\ SlotHolders \subseteq Requests
  BY DEF IInv, Typed, SlotHolders
<1>1. CASE Start \/ Listen \/ HeartbeatEnd
  BY <1>1, SameHolders DEF Start, Listen, HeartbeatEnd, SlotHolders
<1>2. ASSUME NEW r \in Requests, CheckStopping(r) PROVE SlotAccounting' /\ CountInv'
  <2>1. SlotHolders' = SlotHolders
    BY <1>0, <1>2 DEF CheckStopping, SlotHolders
  <2> QED
    BY <1>2, <2>1, SameHolders DEF CheckStopping
<1>3. ASSUME NEW r \in Requests, AcquireSlot(r) PROVE SlotAccounting' /\ CountInv'
  <2>1. CASE /\ MaxConnections = 0 \/ activeCount < MaxConnections
             /\ activeCount' = activeCount + 1
             /\ Goto(r, "slot")
    <3>1. r \notin SlotHolders
      BY <1>0, <1>3 DEF AcquireSlot, SlotHolders, IInv, ServerInv, Placement
    <3>2. SlotHolders' = SlotHolders \cup {r}
      BY <1>0, <1>3, <2>1 DEF AcquireSlot, SlotHolders
    <3>3. Cardinality(SlotHolders') = Cardinality(SlotHolders) + 1
      BY <1>0, <3>1, <3>2, CountOne
    <3>4. SlotAccounting'
      BY <2>1, <3>3 DEF SlotAccounting, IInv
    <3>5. CountInv'
      BY <1>0, <2>1, ServerAssumption DEF CountInv, ServerAssumption
    <3> QED
      BY <3>4, <3>5
  <2>2. CASE Goto(r, "rejected") /\ UNCHANGED activeCount
    <3>1. SlotHolders' = SlotHolders
      BY <1>0, <1>3, <2>2 DEF AcquireSlot, SlotHolders
    <3> QED
      BY <2>2, <3>1, SameHolders
  <2> QED
    BY <1>3, <2>1, <2>2 DEF AcquireSlot
<1>4. ASSUME NEW r \in Requests, Upgrade(r) PROVE SlotAccounting' /\ CountInv'
  <2>1. CASE Goto(r, "upgraded") /\ UNCHANGED activeCount
    <3>1. SlotHolders' = SlotHolders
      BY <1>0, <1>4, <2>1 DEF Upgrade, SlotHolders
    <3> QED
      BY <2>1, <3>1, SameHolders
  <2>2. CASE Goto(r, "rejected") /\ activeCount' = activeCount - 1
    <3>1. r \in SlotHolders
      BY <1>4 DEF Upgrade, SlotHolders
    <3>2. SlotHolders' = SlotHolders \ {r}
      BY <1>0, <1>4, <2>2 DEF Upgrade, SlotHolders, IInv, ServerInv, Placement
    <3>3. Cardinality(SlotHolders') = Cardinality(SlotHolders) - 1
      BY <1>0, <3>1, <3>2, CountOne
    <3> QED
      BY <1>0, <2>2, <3>3, ServerAssumption
         DEF SlotAccounting, CountInv, IInv, ServerInv, ServerAssumption
  <2> QED
    BY <1>4, <2>1, <2>2 DEF Upgrade
<1>5. ASSUME NEW r \in Requests, Store(r) PROVE SlotAccounting' /\ CountInv'
  <2>1. SlotHolders' = SlotHolders
    BY <1>0, <1>5 DEF Store, SlotHolders
  <2> QED
    BY <1>5, <2>1, SameHolders DEF Store
<1>6. ASSUME NEW r \in Requests, OnConnect(r) \/ OnDisconnect(r) PROVE SlotAccounting' /\ CountInv'
  <2>1. SlotHolders' = SlotHolders
    BY <1>0, <1>6 DEF OnConnect, OnDisconnect, SlotHolders
  <2> QED
    BY <1>6, <2>1, SameHolders DEF OnConnect, OnDisconnect
<1>7. ASSUME NEW r \in Requests, CloseConnection(r) PROVE SlotAccounting' /\ CountInv'
  BY <1>7, CloseCounts DEF CloseConnection
<1>8. ASSUME NEW r \in Requests, ReadEnd(r) PROVE SlotAccounting' /\ CountInv'
  <2>1. \A q \in Requests : pc'[q] \in {"slot", "upgraded"} <=> pc[q] \in {"slot", "upgraded"}
    BY <1>0, <1>8 DEF ReadEnd
  <2> QED
    BY <1>8, <2>1, CloseCounts DEF ReadEnd
<1>9. CASE StopBegin \/ SnapshotShard \/ StopHeartbeat \/ StopShutdown
  BY <1>9, SameHolders DEF StopBegin, SnapshotShard, StopHeartbeat, StopShutdown, SlotHolders
<1>10. CASE StopCloseOne
  <2>1. PICK r \in snapshot : CloseEffect(r)
    BY <1>10 DEF StopCloseOne
  <2>2. r \in Requests /\ (r \in connections => pc[r] \in {"stored", "reading"})
    BY <2>1 DEF IInv, Typed, ServerInv, Placement
  <2>3. pc' = pc
    BY <1>10 DEF StopCloseOne
  <2> QED
    BY <2>1, <2>2, <2>3, CloseCounts
<1>11. CASE UNCHANGED vars
  BY <1>11, SameHolders DEF vars, SlotHolders
<1> QED
  BY <1>1, <1>2, <1>3, <1>4, <1>5, <1>6, <1>7, <1>8, <1>9, <1>10, <1>11
     DEF Next, HandlerStep, StopStep, Finished

-----------------------------------------------------------------------------
\* ws.go:188-223, 418-438.  The inductive invariant of the server.
THEOREM Inductive == Spec => []IInv
<1>1. Init => IInv
  <2> SUFFICES ASSUME Init PROVE IInv
    OBVIOUS
  <2> USE ServerAssumption DEF ServerAssumption
  <2>0. pc \in [Requests -> Labels]
    BY DEF Init, Labels
  <2>1. Typed /\ ServerInv
    <3>1. Typed
      <4>1. stopping \in BOOLEAN /\ heartbeatStop \in BOOLEAN /\ heartbeatDone \in BOOLEAN
        BY DEF Init
      <4>2. activeCount \in Int /\ index \in 0..ShardCount
        BY DEF Init
      <4>3. /\ connections \subseteq Requests /\ closed \subseteq Requests
            /\ snapshot \subseteq Requests /\ early \subseteq Requests
        BY DEF Init
      <4> QED
        BY <2>0, <4>1, <4>2, <4>3 DEF Init, Typed
    <3>2. Placement /\ CountInv /\ EarlyInv
      BY DEF Init, Placement, CountInv, EarlyInv
    <3> QED
      BY <3>1, <3>2 DEF ServerInv
  <2>2. SlotHolders = {}
    BY DEF Init, SlotHolders
  <2>3. SlotAccounting
    BY <2>2, FS_EmptySet DEF Init, SlotAccounting
  <2> QED
    BY <2>1, <2>3 DEF IInv
<1>2. IInv /\ [Next]_vars => IInv'
  BY TableStep, CountStep DEF IInv, ServerInv
<1> QED
  BY <1>1, <1>2, PTL DEF Spec

\* ws.go:188-193, 215-223.  activeCount is the number of slots in use, at any time.
THEOREM CounterIsExact == Spec => []SlotAccounting
<1>1. IInv => SlotAccounting
  BY DEF IInv
<1> QED
  BY <1>1, Inductive, PTL

\* Every reachable state is well typed; the counter never goes below zero.
THEOREM TypeCorrect == Spec => []TypeOK
<1>1. IInv => TypeOK
  <2> SUFFICES ASSUME IInv PROVE TypeOK
    OBVIOUS
  <2>1. SlotHolders \subseteq Requests
    BY DEF IInv, Typed, SlotHolders
  <2>2. IsFiniteSet(SlotHolders)
    BY <2>1, FS_Subset, ServerAssumption DEF ServerAssumption
  <2>3. activeCount \in Nat
    BY <2>2, FS_CardinalityType DEF IInv, SlotAccounting
  <2> QED
    BY <2>3 DEF IInv, Typed, TypeOK
<1> QED
  BY <1>1, Inductive, PTL

\* options.go:39.  Never more live connections than MaxConnections.
THEOREM LimitHolds == Spec => []WithinLimit
<1>1. IInv => WithinLimit
  <2> SUFFICES ASSUME IInv, MaxConnections > 0 PROVE Cardinality(Live) <= MaxConnections
    BY DEF WithinLimit
  <2>1. Live \subseteq SlotHolders /\ SlotHolders \subseteq Requests
    BY DEF IInv, Typed, ServerInv, Placement, Live, SlotHolders
  <2>2. IsFiniteSet(SlotHolders)
    BY <2>1, FS_Subset, ServerAssumption DEF ServerAssumption
  <2>3. IsFiniteSet(Live) /\ Cardinality(Live) <= Cardinality(SlotHolders)
    BY <2>1, <2>2, FS_Subset
  <2>4. Cardinality(SlotHolders) \in Nat /\ Cardinality(Live) \in Nat
    BY <2>2, <2>3, FS_CardinalityType
  <2>5. Cardinality(SlotHolders) <= MaxConnections
    BY DEF IInv, ServerInv, CountInv, SlotAccounting
  <2> QED
    BY <2>3, <2>4, <2>5, ServerAssumption DEF ServerAssumption
<1> QED
  BY <1>1, Inductive, PTL

\* connection.go:213-218.  onDisconnect finds its connection closed and unlisted.
THEOREM GoneWhenReported == Spec => []DisconnectedIsGone
<1>1. IInv => DisconnectedIsGone
  BY DEF IInv, ServerInv, Placement, DisconnectedIsGone
<1> QED
  BY <1>1, Inductive, PTL

\* ws.go:154-161.  Stop closes every connection stored before it set the flag.
THEOREM StopIsThorough == Spec => []StopClosesEarlier
<1>1. IInv => StopClosesEarlier
  BY DEF IInv, ServerInv, EarlyInv, StopClosesEarlier
<1> QED
  BY <1>1, Inductive, PTL

-----------------------------------------------------------------------------
\* Types, and what is still at its beginning or already over.
BTyped ==
  /\ bpc \in {"idle", "loop", "spawn", "wait", "returned"}
  /\ conns \in Seq(Targets) /\ IsInjective(conns) /\ Len(conns) <= MaxTargets
  /\ Range(conns) \cap excluded = {}
  /\ start \in Nat /\ errCh \in Nat
  /\ parts \in [0..MaxTargets -> Seq(Targets)] /\ lastErr \in [0..MaxTargets -> BOOLEAN]
  /\ spawned \subseteq 1..start /\ spawned \subseteq 1..MaxTargets /\ ended \subseteq spawned
  /\ offered \in [Targets -> Nat]
  /\ bpc = "idle" => conns = <<>>
  /\ bpc \in {"idle", "loop"} => start = 0
  /\ bpc = "wait" => start >= Len(conns)

\* Who may have something to send, at each stage of the call.
Busy(j) ==
  \/ bpc = "loop" /\ j = 0
  \/ bpc \in {"spawn", "wait"} /\ j \in spawned \ ended

\* The parts, and what is not handed out yet, are disjoint.
CutOnce ==
  /\ \A j \in 0..MaxTargets :
       /\ IsInjective(parts[j]) /\ Range(parts[j]) \subseteq Range(conns)
       /\ parts[j] # <<>> => Busy(j)
  /\ \A j, l \in 0..MaxTargets : j # l => Range(parts[j]) \cap Range(parts[l]) = {}
  /\ bpc = "spawn" => \A j \in 0..MaxTargets, n \in (start + 1)..Len(conns) :
                        conns[n] \notin Range(parts[j])

\* t is in a part, or not handed out yet.
Left(t) ==
  \/ \E j \in 0..MaxTargets : t \in Range(parts[j])
  \/ bpc = "spawn" /\ \E n \in (start + 1)..Len(conns) : conns[n] = t

\* What is no longer left has been offered the message once.
Offered == \A t \in Targets : offered[t] = IF t \in Range(conns) /\ ~Left(t) THEN 1 ELSE 0

\* A refusal is remembered by its goroutine, then by the channel, then by the result.
Errors ==
  /\ refused # {} <=> \E j \in 0..MaxTargets : lastErr[j]
  /\ \A j \in 0..MaxTargets :
       lastErr[j] => \/ bpc = "loop" /\ j = 0
                     \/ bpc \in {"spawn", "wait"} /\ j \in spawned
                     \/ bpc = "returned"
  /\ errCh > 0 <=> \E j \in ended : lastErr[j]
  /\ bpc = "returned" => (failed <=> refused # {})

BroadcastInv == BTyped /\ CutOnce /\ Offered /\ Errors

\* The snapshot is listed without repetition and fits the table of goroutines.
LEMMA Snapshot ==
  ASSUME NEW n \in 0..MaxTargets, NEW ex \in SUBSET (1..n)
  PROVE  \E rest : /\ rest = SetToSeq((1..n) \ ex)
                   /\ rest \in Seq(Targets) /\ IsInjective(rest) /\ Len(rest) <= MaxTargets
                   /\ Range(rest) \cap ex = {}
<1> PICK rest : rest = SetToSeq((1..n) \ ex)
  OBVIOUS
<1>0. MaxTargets \in Nat
  BY BroadcastAssumption DEF BroadcastAssumption
<1>1. PICK S : S = (1..n) \ ex
  OBVIOUS
<1>2. PICK c : c = Cardinality(S)
  OBVIOUS
<1>3. IsFiniteSet(1..n) /\ Cardinality(1..n) <= n
  BY <1>0, FS_Interval
<1>4. IsFiniteSet(S) /\ c \in Nat /\ c <= n
  <2>1. IsFiniteSet(S) /\ c <= Cardinality(1..n)
    BY <1>1, <1>2, <1>3, FS_Subset
  <2>2. c \in Nat /\ Cardinality(1..n) \in Nat
    BY <1>2, <1>3, <2>1, FS_CardinalityType
  <2> QED
    BY <1>0, <1>3, <2>1, <2>2
<1>5. ExistsBijection(1..c, S)
  BY <1>2, <1>4, FS_CardinalityType
<1>6. \E f \in [1..c -> S] : IsInjective(f)
  BY <1>5 DEF ExistsBijection, Bijection, Injection
<1>7. rest \in [1..c -> S] /\ IsInjective(rest)
  BY <1>1, <1>2, <1>6 DEF SetToSeq
<1>8. S \subseteq Targets /\ S \cap ex = {}
  BY <1>0, <1>1 DEF Targets
<1>9. rest \in Seq(Targets) /\ Len(rest) = c
  <2>1. \A j \in 1..c : rest[j] \in Targets
    BY <1>7, <1>8
  <2>2. rest = [j \in 1..c |-> rest[j]]
    BY <1>7
  <2>3. /\ [j \in 1..c |-> rest[j]] \in Seq(Targets)
        /\ Len([j \in 1..c |-> rest[j]]) = c
    BY <1>4, <2>1
  <2> QED
    BY <2>2, <2>3
<1>10. Range(rest) \cap ex = {}
  BY <1>7, <1>8 DEF Range
<1>11. Len(rest) <= MaxTargets
  BY <1>0, <1>4, <1>9
<1> QED
  BY <1>7, <1>9, <1>10, <1>11

\* The rest of a list without repetition lacks exactly its head.
LEMMA TailOnce ==
  ASSUME NEW S, NEW s \in Seq(S), s # <<>>, IsInjective(s)
  PROVE  /\ Tail(s) \in Seq(S) /\ IsInjective(Tail(s)) /\ Head(s) \in S
         /\ Range(s) = {Head(s)} \cup Range(Tail(s)) /\ Head(s) \notin Range(Tail(s))
<1>1. /\ Len(s) \in Nat \ {0} /\ DOMAIN s = 1..Len(s) /\ Head(s) = s[1]
      /\ Tail(s) \in Seq(S) /\ DOMAIN Tail(s) = 1..(Len(s) - 1)
      /\ \A n \in 1..(Len(s) - 1) : Tail(s)[n] = s[n + 1]
  OBVIOUS
<1>2. IsInjective(Tail(s))
  BY <1>1 DEF IsInjective
<1>3. Head(s) \notin Range(Tail(s))
  BY <1>1 DEF IsInjective, Range
<1>4. Range(s) \subseteq {Head(s)} \cup Range(Tail(s))
  <2> SUFFICES ASSUME NEW n \in 1..Len(s), n # 1 PROVE s[n] \in Range(Tail(s))
    BY <1>1 DEF Range
  <2>1. n - 1 \in 1..(Len(s) - 1) /\ Tail(s)[n - 1] = s[n]
    BY <1>1
  <2> QED
    BY <1>1, <2>1 DEF Range
<1>5. {Head(s)} \cup Range(Tail(s)) \subseteq Range(s)
  BY <1>1 DEF Range
<1> QED
  BY <1>1, <1>2, <1>3, <1>4, <1>5

\* A stretch of a list without repetition.
LEMMA StretchOnce ==
  ASSUME NEW S, NEW s \in Seq(S), IsInjective(s),
         NEW a \in Nat \ {0}, NEW e \in Nat, e <= Len(s)
  PROVE  /\ SubSeq(s, a, e) \in Seq(S) /\ IsInjective(SubSeq(s, a, e))
         /\ Range(SubSeq(s, a, e)) = {s[n] : n \in a..e}
<1>0. DOMAIN s = 1..Len(s) /\ Len(s) \in Nat
  OBVIOUS
<1>1. PICK len \in Nat : len = IF a <= e THEN e - a + 1 ELSE 0
  <2>1. (IF a <= e THEN e - a + 1 ELSE 0) \in Nat
    BY <1>0
  <2> QED
    BY <2>1
<1>2. PICK part : part = SubSeq(s, a, e)
  OBVIOUS
<1>3. /\ part \in Seq(S) /\ DOMAIN part = 1..len
      /\ \A n \in 1..len : part[n] = s[a + n - 1]
  BY <1>0, <1>1, <1>2
<1>4. \A n \in 1..len : a + n - 1 \in a..e /\ a + n - 1 \in DOMAIN s
  BY <1>0, <1>1
<1>5. IsInjective(part)
  <2> SUFFICES ASSUME NEW l \in 1..len, NEW n \in 1..len, part[l] = part[n] PROVE l = n
    BY <1>3 DEF IsInjective
  <2>1. s[a + l - 1] = s[a + n - 1]
    BY <1>3
  <2>2. a + l - 1 = a + n - 1
    BY <1>4, <2>1 DEF IsInjective
  <2> QED
    BY <2>2
<1>6. ASSUME NEW t \in Range(part) PROVE t \in {s[n] : n \in a..e}
  BY <1>3, <1>4 DEF Range
<1>7. ASSUME NEW n \in a..e PROVE s[n] \in Range(part)
  <2>1. n - a + 1 \in 1..len /\ a + (n - a + 1) - 1 = n
    BY <1>0, <1>1
  <2>2. part[n - a + 1] = s[n]
    BY <1>3, <2>1
  <2> QED
    BY <1>3, <2>1, <2>2 DEF Range
<1> QED
  BY <1>2, <1>3, <1>5, <1>6, <1>7

\* Every goroutine is given at least one connection.
LEMMA ChunkNotEmpty == ASSUME Len(conns) \in Nat \ {0} PROVE chunkSize \in Nat \ {0}
<1> DEFINE L == Len(conns)
           w == workers
           n == L + w - 1
<1>1. w \in Nat \ {0}
  BY BroadcastAssumption DEF BroadcastAssumption, workers, broadcastWorkerCount
<1> HIDE DEF w, L
<1>2. n \in Nat /\ n >= w
  BY <1>1 DEF L
<1>3. /\ n \div w \in Nat /\ n = w * (n \div w) + (n % w) /\ n % w \in 0..(w - 1)
  BY <1>1, <1>2
<1>4. n \div w # 0
  BY <1>1, <1>2, <1>3
<1> QED
  BY <1>3, <1>4 DEF chunkSize, w, L

\* Nothing is handed out, offered or refused at first.
LEMMA BroadcastInitOK == ASSUME BInit PROVE BroadcastInv
<1>0. MaxTargets \in Nat
  BY BroadcastAssumption DEF BroadcastAssumption
<1>1. /\ bpc = "idle" /\ excluded = {} /\ conns = <<>> /\ start = 0
      /\ spawned = {} /\ ended = {} /\ errCh = 0 /\ refused = {} /\ failed = FALSE
  BY DEF BInit
<1>2. /\ parts = [j \in 0..MaxTargets |-> <<>>]
      /\ lastErr = [j \in 0..MaxTargets |-> FALSE]
      /\ offered = [t \in Targets |-> 0]
  BY DEF BInit
<1>3. Range(conns) = {} /\ IsInjective(conns) /\ Len(conns) = 0 /\ conns \in Seq(Targets)
  BY <1>1 DEF Range, IsInjective
<1>4. \A j \in 0..MaxTargets : /\ parts[j] = <<>> /\ Range(parts[j]) = {}
                               /\ IsInjective(parts[j]) /\ parts[j] \in Seq(Targets)
  BY <1>2 DEF Range, IsInjective
<1>5. /\ parts \in [0..MaxTargets -> Seq(Targets)]
      /\ lastErr \in [0..MaxTargets -> BOOLEAN]
      /\ offered \in [Targets -> Nat]
  <2>1. lastErr \in [0..MaxTargets -> BOOLEAN] /\ offered \in [Targets -> Nat]
    BY <1>2
  <2> QED
    BY <1>2, <1>4, <2>1
<1>6. BTyped
  BY <1>0, <1>1, <1>3, <1>5 DEF BTyped
<1>7. CutOnce
  BY <1>1, <1>4 DEF CutOnce
<1>8. Offered
  BY <1>2, <1>3 DEF Offered
<1>9. Errors
  BY <1>1, <1>2 DEF Errors
<1> QED
  BY <1>6, <1>7, <1>8, <1>9 DEF BroadcastInv

\* BroadcastBegin hands the whole snapshot to the caller or leaves it to be cut.
LEMMA BeginStep ==
  ASSUME BroadcastInv, NEW n \in 0..MaxTargets, NEW ex \in SUBSET (1..n), BroadcastBegin(n, ex)
  PROVE  BroadcastInv'
<1>0. MaxTargets \in Nat
  BY BroadcastAssumption DEF BroadcastAssumption
<1>1. /\ bpc = "idle" /\ excluded' = ex /\ conns' = SetToSeq((1..n) \ ex)
      /\ UNCHANGED <<start, lastErr, spawned, ended, errCh, offered, refused, failed>>
  BY DEF BroadcastBegin
<1>2. /\ conns' \in Seq(Targets) /\ IsInjective(conns') /\ Len(conns') <= MaxTargets
      /\ Range(conns') \cap excluded' = {}
  <2>1. PICK rest : /\ rest = SetToSeq((1..n) \ ex)
                    /\ rest \in Seq(Targets) /\ IsInjective(rest) /\ Len(rest) <= MaxTargets
                    /\ Range(rest) \cap ex = {}
    BY Snapshot
  <2>2. conns' = rest /\ excluded' = ex
    BY <1>1, <2>1
  <2> QED
    BY <2>1, <2>2
<1>3. \A j \in 0..MaxTargets : parts[j] = <<>> /\ ~lastErr[j]
  BY <1>1 DEF BroadcastInv, CutOnce, Errors, Busy
<1>4. /\ parts \in [0..MaxTargets -> Seq(Targets)] /\ start = 0
      /\ spawned = {} /\ ended = {} /\ errCh \in Nat
      /\ lastErr \in [0..MaxTargets -> BOOLEAN] /\ offered \in [Targets -> Nat]
  BY <1>1 DEF BroadcastInv, BTyped
<1>5. \A t \in Targets : offered[t] = 0
  <2>1. Range(conns) = {}
    BY <1>1 DEF BroadcastInv, BTyped, Range
  <2> QED
    BY <2>1 DEF BroadcastInv, Offered
<1>6. Errors'
  BY <1>1, <1>3, <1>4 DEF BroadcastInv, Errors, BroadcastBegin
<1>7. Range(<<>>) = {} /\ IsInjective(<<>>)
  BY DEF Range, IsInjective
<1>8. CASE bpc' = "loop" /\ parts' = [parts EXCEPT ![0] = conns']
  <2>1. /\ parts' \in [0..MaxTargets -> Seq(Targets)] /\ parts'[0] = conns'
        /\ \A j \in 0..MaxTargets : j # 0 => parts'[j] = <<>>
    BY <1>0, <1>2, <1>3, <1>4, <1>8
  <2>2. BTyped'
    BY <1>1, <1>2, <1>4, <1>8, <2>1 DEF BTyped
  <2>3. CutOnce'
    BY <1>2, <1>7, <1>8, <2>1 DEF CutOnce, Busy
  <2>4. Offered'
    BY <1>0, <1>1, <1>5, <2>1 DEF Offered, Left
  <2> QED
    BY <1>6, <2>2, <2>3, <2>4 DEF BroadcastInv
<1>9. CASE bpc' = "spawn" /\ UNCHANGED parts
  <2>1. BTyped'
    BY <1>1, <1>2, <1>4, <1>9 DEF BTyped
  <2>2. CutOnce'
    BY <1>3, <1>7, <1>9 DEF CutOnce
  <2>3. \A t : t \in Range(conns') => \E l \in 1..Len(conns') : conns'[l] = t
    BY <1>2 DEF Range
  <2>4. \A t \in Range(conns') : Left(t)'
    <3>1. (start' + 1)..Len(conns') = 1..Len(conns')
      BY <1>1, <1>4
    <3> QED
      BY <1>9, <2>3, <3>1 DEF Left
  <2>5. Offered'
    BY <1>1, <1>5, <2>4 DEF Offered
  <2> QED
    BY <1>6, <2>1, <2>2, <2>5 DEF BroadcastInv
<1> QED
  BY <1>1, <1>8, <1>9 DEF BroadcastBegin

\* A goroutine is given the next stretch of the snapshot, which was nobody's.
LEMMA SpawnStep == ASSUME BroadcastInv, SpawnPart PROVE BroadcastInv'
<1> USE DEF BroadcastInv
<1>0. MaxTargets \in Nat
  BY BroadcastAssumption DEF BroadcastAssumption
<1>1. /\ conns \in Seq(Targets) /\ IsInjective(conns) /\ Len(conns) <= MaxTargets
      /\ Len(conns) \in Nat /\ start \in Nat /\ start < Len(conns)
      /\ parts \in [0..MaxTargets -> Seq(Targets)]
      /\ spawned \subseteq 1..start /\ ended \subseteq spawned
  BY DEF SpawnPart, BTyped
<1>2. chunkSize \in Nat \ {0}
  BY <1>1, ChunkNotEmpty
<1>3. PICK end : end = IF start + chunkSize > Len(conns) THEN Len(conns) ELSE start + chunkSize
  OBVIOUS
<1>4. /\ end \in (start + 1)..Len(conns) /\ end <= start + chunkSize
      /\ end = Len(conns) \/ end = start + chunkSize
  BY <1>1, <1>2, <1>3
<1>5. PICK part : part = SubSeq(conns, start + 1, end)
  OBVIOUS
<1>6. /\ part \in Seq(Targets) /\ IsInjective(part)
      /\ \A t : t \in Range(part) <=> \E n \in (start + 1)..end : conns[n] = t
  <2>1. start + 1 \in Nat \ {0} /\ end \in Nat /\ end <= Len(conns)
    BY <1>1, <1>4
  <2>2. conns \in Seq(Targets) /\ IsInjective(conns)
    BY <1>1
  <2>3. /\ part \in Seq(Targets) /\ IsInjective(part)
        /\ Range(part) = {conns[n] : n \in (start + 1)..end}
    BY <1>5, <2>1, <2>2, StretchOnce
  <2> QED
    BY <2>3
<1>7. /\ parts' = [parts EXCEPT ![start + 1] = part]
      /\ start' = start + chunkSize /\ spawned' = spawned \cup {start + 1} /\ bpc = "spawn"
      /\ UNCHANGED <<bpc, excluded, conns, lastErr, ended, errCh, offered, refused, failed>>
  BY <1>3, <1>5 DEF SpawnPart
<1>8. /\ start + 1 \in 0..MaxTargets /\ start + 1 \notin spawned
      /\ parts'[start + 1] = part /\ parts' \in [0..MaxTargets -> Seq(Targets)]
      /\ \A j \in 0..MaxTargets : j # start + 1 => parts'[j] = parts[j]
  BY <1>0, <1>1, <1>6, <1>7
<1>9. parts[start + 1] = <<>>
  BY <1>7, <1>8 DEF CutOnce, Busy
<1>10. BTyped'
  BY <1>1, <1>2, <1>7, <1>8 DEF BTyped
<1>11. Range(part) \subseteq Range(conns)
  <2>1. \A n \in (start + 1)..end : n \in DOMAIN conns
    BY <1>1, <1>4
  <2> QED
    BY <1>6, <2>1 DEF Range
<1>12. \* The stretch is disjoint from every part, and from what remains.
       /\ \A j \in 0..MaxTargets : Range(parts[j]) \cap Range(part) = {}
       /\ \A n \in (start' + 1)..Len(conns) : conns[n] \notin Range(part)
  <2>1. \A j \in 0..MaxTargets : Range(parts[j]) \cap Range(part) = {}
    BY <1>4, <1>6, <1>7 DEF CutOnce
  <2>2. ASSUME NEW n \in (start' + 1)..Len(conns), conns[n] \in Range(part) PROVE FALSE
    <3>1. PICK l \in (start + 1)..end : conns[l] = conns[n]
      BY <1>6, <2>2
    <3>2. n \in DOMAIN conns /\ l \in DOMAIN conns /\ l # n
      BY <1>1, <1>2, <1>4, <1>7
    <3> QED
      BY <1>1, <3>1, <3>2 DEF IsInjective
  <2> QED
    BY <2>1, <2>2
<1>13. CutOnce'
  <2>1. ASSUME NEW j \in 0..MaxTargets
        PROVE  /\ IsInjective(parts'[j]) /\ Range(parts'[j]) \subseteq Range(conns')
               /\ parts'[j] # <<>> => Busy(j)'
    BY <1>1, <1>6, <1>7, <1>8, <1>11 DEF CutOnce, Busy
  <2>2. ASSUME NEW j \in 0..MaxTargets, NEW l \in 0..MaxTargets, j # l
        PROVE  Range(parts'[j]) \cap Range(parts'[l]) = {}
    BY <1>8, <1>12, <2>2 DEF CutOnce
  <2>3. ASSUME NEW j \in 0..MaxTargets, NEW n \in (start' + 1)..Len(conns')
        PROVE  conns'[n] \notin Range(parts'[j])
    <3>1. n \in (start + 1)..Len(conns)
      BY <1>1, <1>2, <1>7
    <3> QED
      BY <1>7, <1>8, <1>12, <3>1 DEF CutOnce
  <2> QED
    BY <2>1, <2>2, <2>3 DEF CutOnce
<1>14. \A t : Left(t)' <=> Left(t)
  <2>1. ASSUME NEW t, Left(t)' PROVE Left(t)
    <3>1. CASE \E j \in 0..MaxTargets : t \in Range(parts'[j])
      <4>1. PICK j \in 0..MaxTargets : t \in Range(parts'[j])
        BY <3>1
      <4>2. CASE j = start + 1
        <5>1. PICK n \in (start + 1)..end : conns[n] = t
          BY <1>6, <1>8, <4>1, <4>2
        <5>2. n \in (start + 1)..Len(conns)
          BY <1>1, <1>4
        <5> QED
          BY <1>7, <5>1, <5>2 DEF Left
      <4>3. CASE j # start + 1
        BY <1>8, <4>1, <4>3 DEF Left
      <4> QED
        BY <4>2, <4>3
    <3>2. CASE \E n \in (start' + 1)..Len(conns') : conns'[n] = t
      <4>1. PICK n \in (start' + 1)..Len(conns') : conns'[n] = t
        BY <3>2
      <4>2. n \in (start + 1)..Len(conns) /\ conns[n] = t
        BY <1>1, <1>2, <1>7, <4>1
      <4> QED
        BY <1>7, <4>2 DEF Left
    <3> QED
      BY <2>1, <3>1, <3>2 DEF Left
  <2>2. ASSUME NEW t, Left(t) PROVE Left(t)'
    <3>1. CASE \E j \in 0..MaxTargets : t \in Range(parts[j])
      <4>1. PICK j \in 0..MaxTargets : t \in Range(parts[j])
        BY <3>1
      <4>2. j # start + 1
        BY <1>9, <4>1 DEF Range
      <4> QED
        BY <1>8, <4>1, <4>2 DEF Left
    <3>2. ASSUME NEW n \in (start + 1)..Len(conns), conns[n] = t PROVE Left(t)'
      <4>1. CASE n <= end
        <5>1. t \in Range(part)
          <6>1. n \in (start + 1)..end
            BY <1>1, <1>4, <4>1
          <6> QED
            BY <1>6, <3>2, <6>1
        <5> QED
          BY <1>8, <5>1 DEF Left
      <4>2. CASE n > end
        <5>1. n \in (start' + 1)..Len(conns')
          BY <1>1, <1>2, <1>4, <1>7, <4>2
        <5> QED
          BY <1>7, <3>2, <5>1 DEF Left
      <4>3. n <= end \/ n > end
        BY <1>1, <1>4
      <4> QED
        BY <4>1, <4>2, <4>3
    <3> QED
      BY <2>2, <3>1, <3>2 DEF Left
  <2> QED
    BY <2>1, <2>2
<1>15. Offered'
  BY <1>7, <1>14 DEF Offered
<1>16. Errors'
  BY <1>1, <1>7 DEF Errors
<1> QED
  BY <1>10, <1>13, <1>15, <1>16

\* One connection less is left, and it has now been offered the message.
LEMMA OfferStep ==
  ASSUME BroadcastInv, NEW j \in 0..MaxTargets, NEW ok \in BOOLEAN, sendBroadcastMessage(j, ok)
  PROVE  BroadcastInv'
<1> USE DEF BroadcastInv
<1>1. PICK x : x = Head(parts[j])
  OBVIOUS
<1>2. /\ parts[j] # <<>> /\ Busy(j)
      /\ offered' = [offered EXCEPT ![x] = @ + 1]
      /\ refused' = IF ok THEN refused ELSE refused \cup {x}
      /\ lastErr' = [lastErr EXCEPT ![j] = @ \/ ~ok]
      /\ parts' = [parts EXCEPT ![j] = Tail(@)]
      /\ UNCHANGED <<bpc, excluded, conns, start, spawned, ended, errCh, failed>>
  BY <1>1 DEF sendBroadcastMessage, CutOnce
<1>3. /\ parts \in [0..MaxTargets -> Seq(Targets)] /\ lastErr \in [0..MaxTargets -> BOOLEAN]
      /\ offered \in [Targets -> Nat] /\ ended \subseteq spawned /\ spawned \subseteq 1..start
      /\ bpc = "loop" => start = 0
  BY DEF BTyped
<1>4. /\ Tail(parts[j]) \in Seq(Targets) /\ IsInjective(Tail(parts[j])) /\ x \in Targets
      /\ Range(parts[j]) = {x} \cup Range(Tail(parts[j])) /\ x \notin Range(Tail(parts[j]))
  BY <1>1, <1>2, <1>3, TailOnce DEF CutOnce
<1>5. /\ parts'[j] = Tail(parts[j]) /\ parts' \in [0..MaxTargets -> Seq(Targets)]
      /\ \A l \in 0..MaxTargets : l # j => parts'[l] = parts[l]
  BY <1>2, <1>3, <1>4
<1>6. /\ lastErr' \in [0..MaxTargets -> BOOLEAN]
      /\ lastErr'[j] <=> lastErr[j] \/ ~ok
      /\ \A l \in 0..MaxTargets : l # j => lastErr'[l] = lastErr[l]
  BY <1>2, <1>3
<1>7. /\ offered' \in [Targets -> Nat] /\ offered'[x] = offered[x] + 1
      /\ \A t \in Targets : t # x => offered'[t] = offered[t]
  BY <1>2, <1>3, <1>4
<1>8. BTyped'
  BY <1>2, <1>5, <1>6, <1>7 DEF BTyped
<1>9. \A l \in 0..MaxTargets : Range(parts'[l]) = Range(parts[l]) \ {x}
  BY <1>4, <1>5 DEF CutOnce
<1>10. CutOnce'
  <2>1. ASSUME NEW l \in 0..MaxTargets
        PROVE  /\ IsInjective(parts'[l]) /\ Range(parts'[l]) \subseteq Range(conns')
               /\ parts'[l] # <<>> => Busy(l)'
    BY <1>2, <1>4, <1>5, <1>9 DEF CutOnce, Busy
  <2> QED
    BY <1>2, <1>9, <2>1 DEF CutOnce
<1>11. x \in Range(conns) /\ Left(x) /\ ~Left(x)'
  BY <1>2, <1>4, <1>9 DEF Left, CutOnce
<1>12. \A t : t # x => (Left(t)' <=> Left(t))
  BY <1>2, <1>9 DEF Left
<1>13. Offered'
  <2>1. offered'[x] = 1
    BY <1>4, <1>7, <1>11 DEF Offered
  <2> QED
    BY <1>2, <1>7, <1>11, <1>12, <2>1 DEF Offered
<1>14. j \notin ended
  BY <1>2, <1>3 DEF Busy
<1>15. Errors'
  <2>1. refused' # {} <=> \E l \in 0..MaxTargets : lastErr'[l]
    BY <1>2, <1>6 DEF Errors
  <2>2. \A l \in ended : l \in 0..MaxTargets => lastErr'[l] = lastErr[l]
    BY <1>6, <1>14
  <2> QED
    BY <1>2, <1>6, <1>14, <2>1, <2>2 DEF Errors, Busy
<1> QED
  BY <1>8, <1>10, <1>13, <1>15

\* A goroutine that has nothing left reports once.
LEMMA EndStep == ASSUME BroadcastInv, NEW j \in 0..MaxTargets, EndPart(j) PROVE BroadcastInv'
<1> USE DEF BroadcastInv
<1>1. /\ bpc \in {"spawn", "wait"} /\ j \in spawned \ ended /\ parts[j] = <<>>
      /\ errCh' = IF lastErr[j] THEN errCh + 1 ELSE errCh
      /\ ended' = ended \cup {j}
      /\ UNCHANGED <<bpc, excluded, conns, start, parts, lastErr, spawned, offered, refused, failed>>
  BY DEF EndPart
<1>2. BTyped'
  BY <1>1 DEF BTyped
<1>3. CutOnce'
  BY <1>1 DEF CutOnce, Busy
<1>4. Offered'
  BY <1>1 DEF Offered, Left
<1>5. Errors'
  <2>1. errCh \in Nat /\ (errCh > 0 <=> \E l \in ended : lastErr[l])
    BY DEF BTyped, Errors
  <2>2. errCh' > 0 <=> \E l \in ended' : lastErr'[l]
    BY <1>1, <2>1
  <2> QED
    BY <1>1, <2>2 DEF Errors
<1> QED
  BY <1>2, <1>3, <1>4, <1>5

\* wg.Wait begins when all is handed out, and Broadcast returns when all is done.
LEMMA WaitReturnStep == ASSUME BroadcastInv, WaitParts \/ BroadcastReturn PROVE BroadcastInv'
<1> USE DEF BroadcastInv
<1>1. CASE WaitParts
  <2>1. /\ bpc = "spawn" /\ bpc' = "wait" /\ start >= Len(conns)
        /\ UNCHANGED <<excluded, conns, start, parts, lastErr, spawned, ended, errCh, offered,
                       refused, failed>>
    BY <1>1 DEF WaitParts
  <2>2. BTyped'
    BY <2>1 DEF BTyped
  <2>3. CutOnce'
    BY <2>1 DEF CutOnce, Busy
  <2>4. \A t : Left(t)' <=> Left(t)
    <3>1. (start + 1)..Len(conns) = {}
      BY <2>1 DEF BTyped
    <3> QED
      BY <2>1, <3>1 DEF Left
  <2>5. Offered'
    BY <2>1, <2>4 DEF Offered
  <2>6. Errors'
    BY <2>1 DEF Errors
  <2> QED
    BY <2>2, <2>3, <2>5, <2>6
<1>2. CASE BroadcastReturn
  <2>1. /\ bpc' = "returned"
        /\ UNCHANGED <<excluded, conns, start, parts, lastErr, spawned, ended, errCh, offered,
                       refused>>
    BY <1>2 DEF BroadcastReturn
  <2>2. bpc \in {"loop", "wait"} /\ \A j \in 0..MaxTargets : parts[j] = <<>>
    BY <1>2 DEF BroadcastReturn, CutOnce, Busy
  <2>3. BTyped'
    BY <2>1 DEF BTyped
  <2>4. CutOnce'
    BY <2>1, <2>2 DEF CutOnce
  <2>5. \A t : Left(t)' <=> Left(t)
    BY <2>1, <2>2 DEF Left
  <2>6. Offered'
    BY <2>1, <2>5 DEF Offered
  <2>7. failed' <=> refused # {}
    <3>0. MaxTargets \in Nat
      BY BroadcastAssumption DEF BroadcastAssumption
    <3>1. CASE bpc = "loop" /\ failed' = lastErr[0]
      <4>1. \A j \in 0..MaxTargets : lastErr[j] => j = 0
        BY <3>1 DEF Errors
      <4> QED
        BY <3>0, <3>1, <4>1 DEF Errors
    <3>2. CASE bpc = "wait" /\ spawned = ended /\ failed' = (errCh > 0)
      <4>1. \A j \in 0..MaxTargets : lastErr[j] => j \in ended
        BY <3>2 DEF Errors
      <4>2. \A j \in ended : j \in 0..MaxTargets
        BY <3>0 DEF BTyped
      <4> QED
        BY <3>2, <4>1, <4>2 DEF Errors
    <3> QED
      BY <1>2, <3>1, <3>2 DEF BroadcastReturn
  <2>8. Errors'
    BY <2>1, <2>7 DEF Errors
  <2> QED
    BY <2>3, <2>4, <2>6, <2>8
<1> QED
  BY <1>1, <1>2

\* ws.go:245-366.  However many connections there are and however few goroutines:
\* each connection of the snapshot is sent the message exactly once, an excluded one
\* never, and the caller is told of an error exactly if some connection refused it.
THEOREM BroadcastIsExact == BSpec => []BroadcastOutcome
<1>1. BInit => BroadcastInv
  BY BroadcastInitOK
<1>2. BroadcastInv /\ [BNext]_bvars => BroadcastInv'
  <2> SUFFICES ASSUME BroadcastInv, [BNext]_bvars PROVE BroadcastInv'
    OBVIOUS
  <2>1. CASE UNCHANGED bvars
    BY <2>1 DEF bvars, BroadcastInv, BTyped, CutOnce, Busy, Offered, Left, Errors
  <2> QED
    BY <2>1, BeginStep, SpawnStep, OfferStep, EndStep, WaitReturnStep DEF BNext, BStep
<1>3. BroadcastInv => BroadcastOutcome
  <2> SUFFICES ASSUME BroadcastInv, bpc = "returned"
               PROVE  /\ \A t \in Targets : offered[t] = IF t \in Range(conns) THEN 1 ELSE 0
                      /\ Range(conns) \cap excluded = {}
                      /\ failed <=> refused # {}
    BY DEF BroadcastOutcome
  <2>1. \A j \in 0..MaxTargets : Range(parts[j]) = {}
    BY DEF BroadcastInv, CutOnce, Busy, Range
  <2>2. \A t : ~Left(t)
    BY <2>1 DEF Left
  <2>3. \A t \in Targets : offered[t] = IF t \in Range(conns) THEN 1 ELSE 0
    BY <2>2 DEF BroadcastInv, Offered
  <2> QED
    BY <2>3 DEF BroadcastInv, BTyped, Errors
<1> QED
  BY <1>1, <1>2, <1>3, PTL DEF BSpec
=============================================================================
