------------------------------ MODULE WSServer ------------------------------
(***************************************************************************)
(* The WebSocket transport of transport/ws/ws.go: connection slots, the    *)
(* sharded connection table, the handler that turns an HTTP request into a *)
(* connection, the read pump with the OnConnect and OnDisconnect           *)
(* callbacks, the heartbeat goroutine, and Start and Stop.                 *)
(*                                                                         *)
(* A connection is named by the request it was made from.  The HTTP server *)
(* (net/http) is external: it calls the handler in a goroutine per request *)
(* while it serves; Shutdown stops it and does not touch a connection that *)
(* was taken over by Upgrade.                                              *)
(***************************************************************************)
EXTENDS Integers, FiniteSets

CONSTANTS Requests,        \* incoming requests, one handler goroutine each
          MaxConnections,  \* opts.MaxConnections; 0 stands for no limit
          ShardCount       \* connectionShardCount (32)

ASSUME ServerAssumption ==
  /\ IsFiniteSet(Requests)
  /\ MaxConnections \in Nat
  /\ ShardCount \in Nat \ {0}

VARIABLES serving,        \* external http.Server: "no", "starting", "yes", "down"
          stopping,       \* s.stopping
          activeCount,    \* s.activeCount
          connections,    \* the union of the shards' maps
          shard,          \* shard an ID hashes to (connectionShard)
          pc,             \* handler, then read pump, of each request
          closed,         \* connections whose Close has run
          heartbeatStop,  \* s.heartbeatStop is closed
          heartbeatDone,  \* s.heartbeatDone is closed
          heartbeat,      \* the scheduler goroutine: "none", "running", "ended"
          stop,           \* program counter of Stop
          index,          \* snapshotConnections: next shard to read
          snapshot,       \* connections Stop has yet to close
          early           \* history: connections stored before stopping was set

table == <<activeCount, connections, shard, closed>>
life  == <<serving, stopping, heartbeatStop, heartbeatDone, heartbeat, stop, index, snapshot, early>>
vars  == <<table, pc, life>>

Init ==
  /\ serving = "no" /\ stopping = FALSE
  /\ activeCount = 0 /\ connections = {}
  /\ shard \in [Requests -> 0..(ShardCount - 1)]
  /\ pc = [r \in Requests |-> "idle"]
  /\ closed = {}
  /\ heartbeatStop = FALSE /\ heartbeatDone = FALSE /\ heartbeat = "none"
  /\ stop = "idle" /\ index = 0 /\ snapshot = {}
  /\ early = {}

Goto(r, label) == pc' = [pc EXCEPT ![r] = label]

-----------------------------------------------------------------------------
(* Start, and the two goroutines it leaves behind. *)

\* Start is called once: App.Start calls it for a transport that is not up.
Start ==
  /\ serving = "no"
  /\ serving' = "starting"
  /\ heartbeat' = "running"
  /\ UNCHANGED <<table, pc, stopping, heartbeatStop, heartbeatDone, stop, index, snapshot, early>>

\* ListenAndServe runs after Start has returned; its error is only logged.
Listen ==
  /\ serving = "starting"
  /\ serving' \in {"yes", "down"}
  /\ UNCHANGED <<table, pc, stopping, heartbeatStop, heartbeatDone, heartbeat, stop, index, snapshot, early>>

HeartbeatEnd ==
  /\ heartbeat = "running" /\ heartbeatStop
  /\ heartbeat' = "ended"
  /\ heartbeatDone' = TRUE
  /\ UNCHANGED <<table, pc, serving, stopping, heartbeatStop, stop, index, snapshot, early>>

-----------------------------------------------------------------------------
(* handleWebSocket. *)

CheckStopping(r) ==
  /\ pc[r] = "idle" /\ serving = "yes"
  /\ Goto(r, IF stopping THEN "rejected" ELSE "checked")
  /\ UNCHANGED <<table, life>>

\* Mutant: off by one at the limit.
AcquireSlotOneMore(r) ==
  /\ pc[r] = "checked"
  /\ \/ /\ MaxConnections = 0 \/ activeCount <= MaxConnections
        /\ activeCount' = activeCount + 1
        /\ Goto(r, "slot")
     \/ /\ MaxConnections # 0 /\ activeCount > MaxConnections
        /\ Goto(r, "rejected")
        /\ UNCHANGED activeCount
  /\ UNCHANGED <<connections, shard, closed, life>>

\* tryAcquireConnectionSlot.  The loop around CompareAndSwap makes reading and
\* incrementing the counter one step.
AcquireSlot(r) ==
  /\ pc[r] = "checked"
  /\ \/ /\ MaxConnections = 0 \/ activeCount < MaxConnections
        /\ activeCount' = activeCount + 1
        /\ Goto(r, "slot")
     \/ /\ MaxConnections # 0 /\ activeCount >= MaxConnections
        /\ Goto(r, "rejected")
        /\ UNCHANGED activeCount
  /\ UNCHANGED <<connections, shard, closed, life>>

\* Mutant: a failed upgrade keeps its slot.
UpgradeLeaking(r) ==
  /\ pc[r] = "slot"
  /\ pc' \in {[pc EXCEPT ![r] = "upgraded"], [pc EXCEPT ![r] = "rejected"]}
  /\ UNCHANGED <<table, life>>

\* Upgrade succeeds, or fails and releaseConnectionSlot gives the slot back.
Upgrade(r) ==
  /\ pc[r] = "slot"
  /\ \/ Goto(r, "upgraded") /\ UNCHANGED activeCount
     \/ Goto(r, "rejected") /\ activeCount' = activeCount - 1
  /\ UNCHANGED <<connections, shard, closed, life>>

\* nextConnectionID, newConnection and storeConnection.
Store(r) ==
  /\ pc[r] = "upgraded"
  /\ connections' = connections \cup {r}
  /\ early' = IF stopping THEN early ELSE early \cup {r}
  /\ Goto(r, "stored")
  /\ UNCHANGED <<activeCount, shard, closed, serving, stopping, heartbeatStop, heartbeatDone,
                 heartbeat, stop, index, snapshot>>

\* Mutant: no read pump for a connection that was closed in the meantime.
OnConnectIfOpen(r) ==
  /\ pc[r] = "stored"
  /\ Goto(r, IF r \in closed THEN "rejected" ELSE "reading")
  /\ UNCHANGED <<table, life>>

\* The onConnect callback, then the read pump is started, whatever happened to
\* the connection since it was stored.
OnConnect(r) ==
  /\ pc[r] = "stored"
  /\ Goto(r, "reading")
  /\ UNCHANGED <<table, life>>

-----------------------------------------------------------------------------
(* The end of a connection. *)

\* Connection.Close: once; removeConnection gives the slot back with the entry.
CloseEffect(r) ==
  /\ closed' = closed \cup {r}
  /\ connections' = connections \ {r}
  /\ activeCount' = IF r \in connections THEN activeCount - 1 ELSE activeCount
  /\ UNCHANGED shard

\* Close by a message handler, a callback, or a writer whose write failed.
CloseConnection(r) ==
  /\ pc[r] \in {"stored", "reading"} /\ r \notin closed
  /\ CloseEffect(r)
  /\ UNCHANGED <<pc, life>>

\* Mutant: the read pump reports the end without closing its side.
ReadEndNotClosing(r) ==
  /\ pc[r] = "reading"
  /\ Goto(r, "ended")
  /\ UNCHANGED <<table, life>>

\* ReadMessage fails, because the peer is gone, the deadline passed or somebody
\* closed the connection: readPump closes it ...
ReadEnd(r) ==
  /\ pc[r] = "reading"
  /\ Goto(r, "ended")
  /\ CloseEffect(r)
  /\ UNCHANGED life

\* ... and calls onDisconnect.
OnDisconnect(r) ==
  /\ pc[r] = "ended"
  /\ Goto(r, "gone")
  /\ UNCHANGED <<table, life>>

-----------------------------------------------------------------------------
(* Stop. *)

StopBegin ==
  /\ stop = "idle" /\ serving # "no"
  /\ stopping' = TRUE
  /\ stop' = "snapshot"
  /\ UNCHANGED <<table, pc, serving, heartbeatStop, heartbeatDone, heartbeat, index, snapshot, early>>

\* Mutant: the last shard is left out.
SnapshotShardButLast ==
  /\ stop = "snapshot"
  /\ index' = index + 1
  /\ snapshot' = IF index = ShardCount - 1 THEN snapshot
                 ELSE snapshot \cup {r \in connections : shard[r] = index}
  /\ stop' = IF index' = ShardCount THEN "closing" ELSE stop
  /\ UNCHANGED <<table, pc, serving, stopping, heartbeatStop, heartbeatDone, heartbeat, early>>

\* snapshotConnections: one shard at a time, each under its own lock.
SnapshotShard ==
  /\ stop = "snapshot"
  /\ index' = index + 1
  /\ snapshot' = snapshot \cup {r \in connections : shard[r] = index}
  /\ stop' = IF index' = ShardCount THEN "closing" ELSE stop
  /\ UNCHANGED <<table, pc, serving, stopping, heartbeatStop, heartbeatDone, heartbeat, early>>

StopCloseOne ==
  /\ stop = "closing"
  /\ \E r \in snapshot :
       /\ snapshot' = snapshot \ {r}
       /\ CloseEffect(r)
  /\ UNCHANGED <<pc, serving, stopping, heartbeatStop, heartbeatDone, heartbeat, stop, index, early>>

\* Mutant: the heartbeat goroutine is not told.
StopHeartbeatForgotten ==
  /\ stop = "closing" /\ snapshot = {}
  /\ stop' = "heartbeat"
  /\ UNCHANGED <<table, pc, serving, stopping, heartbeatStop, heartbeatDone, heartbeat, index, snapshot, early>>

\* close(s.heartbeatStop), then wait for heartbeatDone.
StopHeartbeat ==
  /\ stop = "closing" /\ snapshot = {}
  /\ heartbeatStop' = TRUE
  /\ stop' = "heartbeat"
  /\ UNCHANGED <<table, pc, serving, stopping, heartbeatDone, heartbeat, index, snapshot, early>>

\* server.Shutdown: the listener is closed; handlers still before Upgrade are given
\* ten seconds, so Stop returns whether or not they are done.
StopShutdown ==
  /\ stop = "heartbeat" /\ heartbeatDone
  /\ serving' = "down"
  /\ stop' = "returned"
  /\ UNCHANGED <<table, pc, stopping, heartbeatStop, heartbeatDone, heartbeat, index, snapshot, early>>

-----------------------------------------------------------------------------
HandlerStep(r) == AcquireSlot(r) \/ Upgrade(r) \/ Store(r) \/ OnConnect(r) \/ OnDisconnect(r)
StopStep == SnapshotShard \/ StopCloseOne \/ StopHeartbeat \/ StopShutdown

\* Everything has ended, or is an open connection of a stopped server.
Finished ==
  /\ stop = "returned"
  /\ \A r \in Requests : pc[r] \in {"idle", "rejected", "reading", "gone"}
  /\ UNCHANGED vars

Next ==
  \/ Start \/ Listen \/ HeartbeatEnd
  \/ \E r \in Requests : CheckStopping(r) \/ HandlerStep(r) \/ CloseConnection(r) \/ ReadEnd(r)
  \/ StopBegin \/ StopStep
  \/ Finished

\* Handlers and callbacks return, a read on a closed socket fails at once, and the
\* goroutines of the server are scheduled.  Nobody has to connect, to close or to
\* call Stop.
Fairness ==
  /\ \A r \in Requests : WF_vars(HandlerStep(r)) /\ WF_vars(r \in closed /\ ReadEnd(r))
  /\ WF_vars(HeartbeatEnd)
  /\ WF_vars(StopStep)

Spec     == Init /\ [][Next]_vars
FairSpec == Spec /\ Fairness

-----------------------------------------------------------------------------
Labels == {"idle", "checked", "rejected", "slot", "upgraded", "stored", "reading", "ended", "gone"}

TypeOK ==
  /\ serving \in {"no", "starting", "yes", "down"} /\ stopping \in BOOLEAN
  /\ activeCount \in Nat
  /\ connections \subseteq Requests /\ closed \subseteq Requests
  /\ shard \in [Requests -> 0..(ShardCount - 1)]
  /\ pc \in [Requests -> Labels]
  /\ heartbeatStop \in BOOLEAN /\ heartbeatDone \in BOOLEAN
  /\ heartbeat \in {"none", "running", "ended"}
  /\ stop \in {"idle", "snapshot", "closing", "heartbeat", "returned"}
  /\ index \in 0..ShardCount
  /\ snapshot \subseteq Requests /\ early \subseteq Requests

SlotHolders == {r \in Requests : pc[r] \in {"slot", "upgraded"}} \cup connections

\* ws.go:188-193, 215-223, 418-438.  The counter is exact: it counts the handlers that
\* acquired a slot and have not stored their connection, and the stored
\* connections.  No path leaks a slot or gives one back twice.
SlotAccounting == activeCount = Cardinality(SlotHolders)

Live == {r \in Requests : pc[r] \in {"upgraded", "stored", "reading"} /\ r \notin closed}

\* options.go:39, ws.go:418-434.  MaxConnections limits the concurrent live connections.
WithinLimit == MaxConnections > 0 => Cardinality(Live) <= MaxConnections

\* connection.go:213-218.  When onDisconnect is called the connection is closed and no
\* longer in the table or the count, also when Stop or a writer closed it first.
DisconnectedIsGone ==
  \A r \in Requests : pc[r] \in {"ended", "gone"} => r \in closed /\ r \notin connections

\* ws.go:154-161.  Every connection that was stored before Stop set the stopping flag
\* is closed when Stop returns, however it moved between the shards' snapshots.
StopClosesEarlier == stop = "returned" => early \subseteq closed

\* The inductive invariants behind the properties above.
\* Where connections are: in the table from Store to Close, and nowhere else.
Placement ==
  /\ \A r \in Requests : r \in connections <=> pc[r] \in {"stored", "reading"} /\ r \notin closed
  /\ \A r \in Requests : pc[r] \in {"ended", "gone"} => r \in closed
  /\ closed \cup snapshot \subseteq {r \in Requests : pc[r] \in {"stored", "reading", "ended", "gone"}}

\* The counter itself respects the limit.
CountInv == MaxConnections > 0 => activeCount <= MaxConnections

\* Stop has yet to come to an early connection that is still open: its shard is still
\* to be read, or it is in the snapshot.
EarlyInv ==
  /\ stopping <=> stop # "idle"
  /\ stop = "idle" => index = 0
  /\ stop = "snapshot" => index < ShardCount
  /\ stop \in {"heartbeat", "returned"} => snapshot = {}
  /\ \A r \in early :
       \/ r \in closed
       \/ r \in snapshot
       \/ r \in connections /\ (stop = "idle" \/ (stop = "snapshot" /\ index <= shard[r]))

\* Together inductive (see WSServerProofs).
ServerInv == Placement /\ CountInv /\ EarlyInv

\* ws.go:158 ("Close all active connections.").  When Stop has returned no connection
\* is left open.
StopClosesAll == stop = "returned" => connections = {}

\* connection.go:212-218, ws.go:206-212.  Whoever closes a connection, its onDisconnect
\* is eventually called.
ClosedIsReported == \A r \in Requests : r \in closed ~> pc[r] = "gone"

\* ws.go:146-175.  A Stop that has begun returns.
StopReturns == stop # "idle" ~> stop = "returned"
=============================================================================
