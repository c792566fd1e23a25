--------------------------- MODULE RegistryBase ---------------------------
(***************************************************************************)
(* What the four service registries of registry/ have in common: the       *)
(* state behind the Registry interface (registry.go), the watchers with    *)
(* their bounded event channels, and the remote registry as the client     *)
(* libraries show it.  A behaviour runs one registry, chosen by kind.      *)
(*                                                                         *)
(* Instances are the IDs registered under one service name, which every    *)
(* watcher watches.  ops counts the calls made so far; it also serves as   *)
(* the fresh lease ID of a call.  The lock r.mu is held across the remote  *)
(* calls of Register and Deregister, so each of those is one action with   *)
(* one outcome per remote result.  Connect is not called during a Close.   *)
(***************************************************************************)
EXTENDS Integers, Sequences, FiniteSets

CONSTANTS
  Kinds,      \* the registry implementations explored
  Instances,  \* service instance IDs
  Watchers,   \* watchers that may be created
  Callers,    \* goroutines that call the registry
  Loops,      \* background goroutines: cleanup (memory), healthCheckLoop (consul)
  Buf,        \* capacity of a watcher's event channel (1024 or 100)
  MaxOps      \* bound on calls

ASSUME KindsAssumption == Kinds \subseteq {"memory", "etcd", "consul", "nacos"}
ASSUME BoundsAssumption == Buf \in Nat \ {0} /\ MaxOps \in Nat
ASSUME ProcsAssumption == Callers \cap Loops = {}
ASSUME FiniteAssumption == IsFiniteSet(Instances) /\ IsFiniteSet(Callers) /\ IsFiniteSet(Loops)

VARIABLES
  kind,        \* which NewRegistry was called with
  running,     \* r.running
  client,      \* r.client: "nil", "open" or "closed" (CloseClient called)
  stopped,     \* r.stopCh is closed
  crashed,     \* the process has panicked
  registered,  \* r.registered: lease ID per key (etcd), copies in the list (others)
  server,      \* what the registry's server holds: 0, or the lease / 1
  kept,        \* instances whose lease or check is still being renewed
  cache,       \* r.services of consul and nacos: <<form of the ID, instance>>
  watchers,    \* r.watchers
  made,        \* watchers Watch has created
  done,        \* watchers whose done channel is closed
  events,      \* all events sent to each watcher
  taken,       \* how many of them Next has returned
  full,        \* watchers that have lost an event to a full channel
  reader,      \* the goroutine that calls Next in a loop
  feed,        \* the watcher's goroutine or subscription
  queue,       \* what the server has sent it and it has not passed on
  since,       \* Len(events) when an etcd watch stream was opened
  pc, copy, evs, targets,  \* control and local state of a call
  ops, faulty, base        \* calls so far; a remote call failed; see EventBalance

life == <<running, client, stopped, crashed>>
books == <<registered, server, kept, cache>>
watch == <<watchers, made, done, taken, reader, base>>
chans == <<events, full>>
feeds == <<feed, queue, since>>
procs == <<pc, copy, evs, targets>>
vars == <<kind, life, books, watch, chans, feeds, procs, ops, faulty>>

Procs == Callers \cup Loops
Types == {"create", "update", "delete"}
Event == [type : Types, id : Instances]
None == [i \in Instances |-> 0]

Room(w) == Len(events[w]) - taken[w] < Buf

(* One event to each watcher of ws, dropped where the channel is full. *)
Deliver(ws, e) ==
  /\ events' = [w \in Watchers |-> IF w \in ws /\ Room(w)
                                   THEN Append(events[w], e) ELSE events[w]]
  /\ full' = full \cup {w \in ws : ~Room(w)}

notify(type, i) == Deliver(watchers, [type |-> type, id |-> i])

(* The server's side of a change of i to v: etcd streams it, consul and    *)
(* nacos mark the watchers' view out of date.                              *)
Serve(i, v) ==
  LET change == IF v = 0 THEN "delete" ELSE IF server[i] = 0 THEN "create" ELSE "update"
  IN /\ server' = [server EXCEPT ![i] = v]
     /\ queue' = [w \in Watchers |->
          IF feed[w] = "open" /\ v # server[i]
          THEN Append(queue[w], [type |-> change, id |-> i]) ELSE queue[w]]
     /\ feed' = [w \in Watchers |-> IF feed[w] = "current" THEN "behind" ELSE feed[w]]
     /\ UNCHANGED since

NoServe == UNCHANGED <<server, feeds>>

\* Mutant: the lock is given up before the watchers are told.
LockedNotAtAll == FALSE

(* etcd.go calls notify with the lock held, after the server has answered. *)
Locked == kind = "etcd" /\ \E c \in Callers : pc[c] = "notify"

(* Every call is made by an idle goroutine of a live process. *)
Call(c) == pc[c] = "idle" /\ ~crashed /\ ~Locked /\ ops < MaxOps /\ ops' = ops + 1

(* go r.cleanup(), go r.healthCheckLoop(): one goroutine more. *)
StartLoop ==
  /\ \E g \in Loops : pc[g] = "none"
  /\ pc' = [pc EXCEPT ![CHOOSE g \in Loops : pc[g] = "none"] = "loop"]

Closing == {c \in Callers : pc[c] \in {"closing", "closeClient"}}

Init ==
  /\ kind \in Kinds
  /\ running = FALSE /\ client = "nil" /\ stopped = FALSE /\ crashed = FALSE
  /\ registered = None /\ server = None /\ kept = {} /\ cache = {}
  /\ watchers = {} /\ made = {} /\ done = {} /\ full = {}
  /\ events = [w \in Watchers |-> <<>>]
  /\ taken = [w \in Watchers |-> 0]
  /\ reader = [w \in Watchers |-> "none"]
  /\ feed = [w \in Watchers |-> "none"]
  /\ queue = [w \in Watchers |-> <<>>]
  /\ since = [w \in Watchers |-> 0]
  /\ pc = [p \in Procs |-> IF p \in Callers THEN "idle" ELSE "none"]
  /\ copy = [p \in Procs |-> None]
  /\ evs = [p \in Procs |-> <<>>]
  /\ targets = [p \in Procs |-> {}]
  /\ ops = 0 /\ faulty = FALSE
  /\ base = [w \in Watchers |-> None]

TypeOK ==
  /\ kind \in Kinds
  /\ running \in BOOLEAN /\ client \in {"nil", "open", "closed"}
  /\ stopped \in BOOLEAN /\ crashed \in BOOLEAN /\ faulty \in BOOLEAN
  /\ registered \in [Instances -> Nat] /\ server \in [Instances -> Nat]
  /\ kept \subseteq Instances /\ cache \subseteq {"own", "remote"} \X Instances
  /\ watchers \subseteq made /\ made \subseteq Watchers /\ done \subseteq made
  /\ full \subseteq made
  /\ events \in [Watchers -> Seq(Event)] /\ queue \in [Watchers -> Seq(Event)]
  /\ taken \in [Watchers -> Nat] /\ since \in [Watchers -> Nat]
  /\ reader \in [Watchers -> {"none", "reading", "stopped"}]
  /\ feed \in [Watchers -> {"none", "get", "opening", "open", "behind", "current", "ended"}]
  /\ pc \in [Procs -> {"none", "idle", "loop", "sweep", "notify", "send", "closing",
                       "closeClient", "caching"}]
  /\ copy \in [Procs -> [Instances -> Nat]] /\ evs \in [Procs -> Seq(Event)]
  /\ targets \in [Procs -> SUBSET Watchers]
  /\ ops \in 0..MaxOps /\ base \in [Watchers -> [Instances -> Int]]

(***************************************************************************)
(* Next blocks in a select over the event channel and done; a goroutine    *)
(* calls it until it returns ErrWatcherStopped.                            *)
(***************************************************************************)
Next_Event(w) ==
  /\ reader[w] = "reading" /\ ~crashed /\ taken[w] < Len(events[w])
  /\ taken' = [taken EXCEPT ![w] = @ + 1]
  /\ UNCHANGED <<kind, life, books, watchers, made, done, reader, base, chans, feeds, procs, ops, faulty>>

Next_Stopped(w) ==
  /\ reader[w] = "reading" /\ ~crashed /\ w \in done
  /\ reader' = [reader EXCEPT ![w] = "stopped"]
  /\ UNCHANGED <<kind, life, books, watchers, made, done, chans, taken, feeds, procs, ops, faulty, base>>

(* Stop takes the watcher off the table and closes its channel; nacos also *)
(* unsubscribes, the goroutines of etcd and consul notice by themselves.   *)
Stop(w) ==
  /\ reader[w] = "reading" /\ w \notin done /\ ~crashed /\ ~Locked
  /\ watchers' = watchers \ {w} /\ done' = done \cup {w}
  /\ feed' = IF kind = "nacos" THEN [feed EXCEPT ![w] = "ended"] ELSE feed
  /\ UNCHANGED <<kind, life, books, made, chans, taken, reader, queue, since, procs, ops, faulty, base>>
============================================================================
