----------------------------- MODULE Broadcast -----------------------------
(***************************************************************************)
(* Broadcast and BroadcastExcept of transport/ws/ws.go: one call over a    *)
(* snapshot of the connections, sent to in the caller's loop or, from      *)
(* Threshold connections on, in parts by goroutines that report through a  *)
(* bounded error channel.  Connections are numbers, and the snapshot, read *)
(* from maps, has them in no particular order; whether one accepts the     *)
(* message (it may be closed, or its queue full) is open.  A message that  *)
(* cannot be encoded ends the call before it does anything and is left     *)
(* out.                                                                    *)
(***************************************************************************)
EXTENDS Naturals, Sequences, FiniteSets, SequencesExt

CONSTANTS
  MaxTargets,  \* bound on connections in the snapshot
  Threshold,   \* parallelBroadcastThreshold (256)
  Parallelism  \* runtime.GOMAXPROCS(0) * 4

ASSUME BroadcastAssumption ==
  MaxTargets \in Nat /\ Threshold \in Nat /\ Parallelism \in Nat \ {0}

Targets == 1..MaxTargets

VARIABLES
  bpc,               \* the caller
  excluded, conns,   \* excludeIDs; the connections to send to, in order
  start,             \* positions already handed out
  parts,             \* per goroutine (numbered by its first position): what it has left
  lastErr,           \* per goroutine: some send failed
  spawned, ended,    \* goroutines started; those that have called wg.Done
  errCh,             \* errors in the channel
  offered, refused,  \* history: sends to each connection; those that failed
  failed             \* the result: an error

bvars == <<bpc, excluded, conns, start, parts, lastErr, spawned, ended, errCh, offered, refused, failed>>

BInit ==
  /\ bpc = "idle" /\ excluded = {} /\ conns = <<>> /\ start = 0
  /\ parts = [j \in 0..MaxTargets |-> <<>>] /\ lastErr = [j \in 0..MaxTargets |-> FALSE]
  /\ spawned = {} /\ ended = {} /\ errCh = 0
  /\ offered = [t \in Targets |-> 0] /\ refused = {} /\ failed = FALSE

broadcastWorkerCount(n) == IF n <= 1 \/ Parallelism > n THEN n ELSE Parallelism
workers == broadcastWorkerCount(Len(conns))

\* Mutant: the division rounds down.
chunkSizeDown == Len(conns) \div workers

chunkSize == (Len(conns) + workers - 1) \div workers

(* The snapshot of n connections, less the excluded ones.  Goroutine 0 is  *)
(* the caller: below the threshold it has all of them as its part (and     *)
(* none if none is left, where broadcastParallel returns at once).         *)
BroadcastBegin(n, ex) ==
  LET rest == SetToSeq((1..n) \ ex) IN
  /\ bpc = "idle" /\ excluded' = ex /\ conns' = rest
  /\ IF n < Threshold \/ rest = <<>>
     THEN bpc' = "loop" /\ parts' = [parts EXCEPT ![0] = rest]
     ELSE bpc' = "spawn" /\ UNCHANGED parts
  /\ UNCHANGED <<start, lastErr, spawned, ended, errCh, offered, refused, failed>>

(* broadcastParallel: one goroutine for each chunk, then wg.Wait.          *)
SpawnPart ==
  /\ bpc = "spawn" /\ start < Len(conns)
  /\ LET end == IF start + chunkSize > Len(conns) THEN Len(conns) ELSE start + chunkSize
     IN  parts' = [parts EXCEPT ![start + 1] = SubSeq(conns, start + 1, end)]
  /\ start' = start + chunkSize /\ spawned' = spawned \cup {start + 1}
  /\ UNCHANGED <<bpc, excluded, conns, lastErr, ended, errCh, offered, refused, failed>>

WaitParts ==
  /\ bpc = "spawn" /\ start >= Len(conns) /\ bpc' = "wait"
  /\ UNCHANGED <<excluded, conns, start, parts, lastErr, spawned, ended, errCh, offered, refused, failed>>

\* Mutant: only the last send of a part counts.
sendBroadcastLast(j, ok) ==
  /\ parts[j] # <<>>
  /\ offered' = [offered EXCEPT ![Head(parts[j])] = @ + 1]
  /\ refused' = IF ok THEN refused ELSE refused \cup {Head(parts[j])}
  /\ lastErr' = [lastErr EXCEPT ![j] = ~ok]
  /\ parts' = [parts EXCEPT ![j] = Tail(@)]
  /\ UNCHANGED <<bpc, excluded, conns, start, spawned, ended, errCh, failed>>

sendBroadcastMessage(j, ok) ==
  /\ parts[j] # <<>>
  /\ offered' = [offered EXCEPT ![Head(parts[j])] = @ + 1]
  /\ refused' = IF ok THEN refused ELSE refused \cup {Head(parts[j])}
  /\ lastErr' = [lastErr EXCEPT ![j] = @ \/ ~ok]
  /\ parts' = [parts EXCEPT ![j] = Tail(@)]
  /\ UNCHANGED <<bpc, excluded, conns, start, spawned, ended, errCh, failed>>

(* A goroutine at the end of its part puts its error, if it has one, into  *)
(* the channel, and waits while that is full.                              *)
EndPart(j) ==
  /\ bpc \in {"spawn", "wait"} /\ j \in spawned \ ended /\ parts[j] = <<>>
  /\ lastErr[j] => errCh < workers
  /\ errCh' = IF lastErr[j] THEN errCh + 1 ELSE errCh
  /\ ended' = ended \cup {j}
  /\ UNCHANGED <<bpc, excluded, conns, start, parts, lastErr, spawned, offered, refused, failed>>

BroadcastReturn ==
  /\ \/ bpc = "loop" /\ parts[0] = <<>> /\ failed' = lastErr[0]
     \/ bpc = "wait" /\ spawned = ended /\ failed' = (errCh > 0)
  /\ bpc' = "returned"
  /\ UNCHANGED <<excluded, conns, start, parts, lastErr, spawned, ended, errCh, offered, refused>>

BStep ==
  \/ SpawnPart \/ WaitParts \/ BroadcastReturn
  \/ \E j \in 0..MaxTargets : EndPart(j) \/ \E ok \in BOOLEAN : sendBroadcastMessage(j, ok)

BNext ==
  \/ \E n \in 0..MaxTargets : \E ex \in SUBSET (1..n) : BroadcastBegin(n, ex)
  \/ BStep
  \/ bpc = "returned" /\ UNCHANGED bvars

(* Goroutines run, and their sends return: enqueueBroadcast does not block. *)
BFairness == WF_bvars(BStep)

BSpec == BInit /\ [][BNext]_bvars /\ BFairness

(* ws.go:245-366.  However the snapshot is cut into parts, and whatever    *)
(* the order in which they are worked off: each of its connections is sent *)
(* the message exactly once, an excluded one never, and the caller is told *)
(* of an error if and only if some connection refused the message.         *)
BroadcastOutcome ==
  bpc = "returned" =>
    /\ \A t \in Targets : offered[t] = IF t \in Range(conns) THEN 1 ELSE 0
    /\ Range(conns) \cap excluded = {}
    /\ failed <=> refused # {}

(* ws.go:325-366.  Broadcast returns: even if every part fails, no         *)
(* goroutine is left waiting for room in the error channel.                *)
BroadcastReturns == bpc # "idle" ~> bpc = "returned"
============================================================================
