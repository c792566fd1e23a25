-------------------------- MODULE MemoryRegistry --------------------------
(***************************************************************************)
(* registry/memory.go: the table lives in the process (server stands for   *)
(* r.services), a change is made under the lock and reported to the        *)
(* watchers after it, and a cleanup goroutine removes what has expired.    *)
(* kept holds the instances whose TTL has not run out.                     *)
(***************************************************************************)
EXTENDS RegistryBase

IsMemory == kind = "memory"

M_Connect(c) ==
  /\ IsMemory /\ Call(c) /\ ~running
  /\ running' = TRUE
  /\ StartLoop
  /\ UNCHANGED <<kind, client, stopped, crashed, books, watch, chans, feeds,
                 copy, evs, targets, faulty>>

M_Close(c) ==
  /\ IsMemory /\ Call(c) /\ running
  /\ running' = FALSE
  /\ targets' = [targets EXCEPT ![c] = watchers] /\ watchers' = {}
  /\ server' = None /\ kept' = {}
  /\ pc' = [pc EXCEPT ![c] = "closing"]
  /\ UNCHANGED <<kind, client, stopped, crashed, registered, cache, made, done, taken, reader,
                 base, chans, feeds, copy, evs, faulty>>

M_StopWatchers(c) ==
  /\ IsMemory /\ pc[c] = "closing"
  /\ done' = done \cup targets[c]
  /\ targets' = [targets EXCEPT ![c] = {}] /\ pc' = [pc EXCEPT ![c] = "idle"]
  /\ UNCHANGED <<kind, life, books, watchers, made, taken, reader, base, chans, feeds,
                 copy, evs, ops, faulty>>

(* A registration that replaces one of the same ID is reported as an update. *)
M_Register(c, i) ==
  /\ IsMemory /\ Call(c)
  /\ server' = [server EXCEPT ![i] = 1] /\ kept' = kept \cup {i}
  /\ evs' = [evs EXCEPT ![c] =
               <<[type |-> IF server[i] = 0 THEN "create" ELSE "update", id |-> i]>>]
  /\ pc' = [pc EXCEPT ![c] = "notify"]
  /\ UNCHANGED <<kind, life, registered, cache, watch, chans, feeds, copy, targets, faulty>>

\* Mutant: the deletion of an instance that is not there is reported too.
M_DeregisterAlways(c, i) ==
  /\ IsMemory /\ Call(c)
  /\ server' = [server EXCEPT ![i] = 0] /\ kept' = kept \ {i}
  /\ evs' = [evs EXCEPT ![c] = <<[type |-> "delete", id |-> i]>>]
  /\ pc' = [pc EXCEPT ![c] = "notify"]
  /\ UNCHANGED <<kind, life, registered, cache, watch, chans, feeds, copy, targets, faulty>>

M_Deregister(c, i) ==
  /\ IsMemory /\ Call(c) /\ server[i] # 0
  /\ server' = [server EXCEPT ![i] = 0] /\ kept' = kept \ {i}
  /\ evs' = [evs EXCEPT ![c] = <<[type |-> "delete", id |-> i]>>]
  /\ pc' = [pc EXCEPT ![c] = "notify"]
  /\ UNCHANGED <<kind, life, registered, cache, watch, chans, feeds, copy, targets, faulty>>

(* notify: the watchers are read under the lock, the event sent outside it. *)
M_snapshotWatchers(p) ==
  /\ IsMemory /\ pc[p] = "notify"
  /\ targets' = [targets EXCEPT ![p] = watchers] /\ pc' = [pc EXCEPT ![p] = "send"]
  /\ UNCHANGED <<kind, life, books, watch, chans, feeds, copy, evs, ops, faulty>>

M_notify(p) ==
  /\ IsMemory /\ pc[p] = "send"
  /\ Deliver(targets[p], Head(evs[p]))
  /\ targets' = [targets EXCEPT ![p] = {}] /\ evs' = [evs EXCEPT ![p] = Tail(@)]
  /\ pc' = [pc EXCEPT ![p] = IF Len(evs[p]) > 1 THEN "notify"
                             ELSE IF p \in Loops THEN "loop" ELSE "idle"]
  /\ UNCHANGED <<kind, life, books, watch, feeds, copy, ops, faulty>>

(* Net(s, i): creations minus deletions of i in a sequence of events;      *)
(* Pending(w, i): the same balance of the events still on their way to w.  *)
Change(type, i) == [type |-> type, id |-> i]
At(s, e) == {k \in DOMAIN s : s[k] = e}
Net(s, i) == Cardinality(At(s, Change("create", i))) - Cardinality(At(s, Change("delete", i)))
OnTheWay(w) ==
  [p \in Procs |-> IF pc[p] = "send" /\ w \notin targets[p] THEN Tail(evs[p]) ELSE evs[p]]
Flying(way, e) == UNION {{p} \X At(way[p], e) : p \in Procs}
Pending(w, i) == Cardinality(Flying(OnTheWay(w), Change("create", i)))
                 - Cardinality(Flying(OnTheWay(w), Change("delete", i)))

M_Watch(w) ==
  /\ IsMemory /\ w \notin made /\ ~crashed
  /\ made' = made \cup {w} /\ watchers' = watchers \cup {w}
  /\ base' = [base EXCEPT ![w] = [i \in Instances |-> server[i] - Pending(w, i)]]
  /\ reader' = [reader EXCEPT ![w] = "reading"]
  /\ UNCHANGED <<kind, life, books, done, taken, chans, feeds, procs, ops, faulty>>

(* The TTL of an instance runs out. *)
M_Expire(i) ==
  /\ IsMemory /\ i \in kept /\ kept' = kept \ {i}
  /\ UNCHANGED <<kind, life, registered, server, cache, watch, chans, feeds, procs, ops, faulty>>

(* A tick of the cleanup goroutine reads running without the lock and ends *)
(* the goroutine when it is gone; otherwise the sweep follows.             *)
M_tick(g) ==
  /\ IsMemory /\ pc[g] = "loop"
  /\ pc' = [pc EXCEPT ![g] = IF running THEN "sweep" ELSE "none"]
  /\ UNCHANGED <<kind, life, books, watch, chans, feeds, copy, evs, targets, ops, faulty>>

M_cleanup(g) ==
  /\ IsMemory /\ pc[g] = "sweep"
  /\ LET gone == {i \in Instances : server[i] # 0 /\ i \notin kept} IN
     /\ server' = [i \in Instances |-> IF i \in gone THEN 0 ELSE server[i]]
     /\ \E s \in [1..Cardinality(gone) -> gone] :
          /\ \A i \in gone : \E k \in DOMAIN s : s[k] = i
          /\ evs' = [evs EXCEPT ![g] = [k \in DOMAIN s |-> [type |-> "delete", id |-> s[k]]]]
     /\ pc' = [pc EXCEPT ![g] = IF gone = {} THEN "loop" ELSE "notify"]
  /\ UNCHANGED <<kind, life, registered, kept, cache, watch, chans, feeds, copy, targets, ops, faulty>>

M_Next ==
  \/ \E c \in Callers : M_Connect(c) \/ M_Close(c) \/ M_StopWatchers(c)
  \/ \E c \in Callers, i \in Instances : M_Register(c, i) \/ M_Deregister(c, i)
  \/ \E p \in Procs : M_snapshotWatchers(p) \/ M_notify(p)
  \/ \E w \in Watchers : M_Watch(w)
  \/ \E i \in Instances : M_Expire(i)
  \/ \E g \in Loops : M_tick(g) \/ M_cleanup(g)
============================================================================
