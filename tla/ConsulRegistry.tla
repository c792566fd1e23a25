-------------------------- MODULE ConsulRegistry --------------------------
(***************************************************************************)
(* registry/consul.go.  registered[i] counts the entries of i in the list  *)
(* r.registered; an instance is in kept while its TTL check passes.  The   *)
(* agent knows an instance by its prefixed ID, so what GetService stores   *)
(* in the cache ("remote") is not the entry Register stores ("own").       *)
(***************************************************************************)
EXTENDS RegistryBase

IsConsul == kind = "consul" /\ ~crashed
Renewing == ~crashed /\ \E g \in Loops : pc[g] = "loop"
Healthy == {i \in Instances : server[i] # 0 /\ i \in kept}

C_Connect(c) ==
  /\ IsConsul /\ Call(c) /\ ~running /\ Closing = {}
  /\ client' = "open" /\ running' = TRUE
  /\ StartLoop
  /\ UNCHANGED <<kind, stopped, crashed, books, watch, chans, feeds, copy, evs, targets, faulty>>

\* Mutant: the stop channel is not closed.
C_CloseSilently(c) ==
  /\ IsConsul /\ Call(c) /\ running
  /\ running' = FALSE
  /\ copy' = [copy EXCEPT ![c] = registered] /\ registered' = None
  /\ watchers' = {}
  /\ pc' = [pc EXCEPT ![c] = "closing"]
  /\ UNCHANGED <<kind, client, stopped, crashed, server, kept, cache, made, done, taken, reader,
                 base, chans, feeds, evs, targets, faulty>>

C_Close(c) ==
  /\ IsConsul /\ Call(c) /\ running
  /\ running' = FALSE /\ stopped' = TRUE /\ crashed' = stopped
  /\ copy' = [copy EXCEPT ![c] = registered] /\ registered' = None
  /\ watchers' = {}
  /\ pc' = [pc EXCEPT ![c] = "closing"]
  /\ UNCHANGED <<kind, client, server, kept, cache, made, done, taken, reader, base, chans,
                 feeds, evs, targets, faulty>>

(* Close calls deregisterService for every entry it copied and ignores     *)
(* its error; it ends when none is left.                                   *)
C_CloseDeregister(c, i, ok) ==
  /\ IsConsul /\ pc[c] = "closing" /\ copy[c][i] > 0
  /\ copy' = [copy EXCEPT ![c][i] = @ - 1]
  /\ Serve(i, IF ok THEN 0 ELSE server[i])
  /\ kept' = IF ok THEN kept \ {i} ELSE kept
  /\ faulty' = (faulty \/ ~ok)
  /\ UNCHANGED <<kind, life, registered, cache, watch, chans, pc, evs, targets, ops>>

C_CloseReturn(c) ==
  /\ IsConsul /\ pc[c] = "closing" /\ copy[c] = None
  /\ pc' = [pc EXCEPT ![c] = "idle"]
  /\ UNCHANGED <<kind, life, books, watch, chans, feeds, copy, evs, targets, ops, faulty>>

(* "applied" is an error answer to a registration the agent has made; a    *)
(* registration whose first PassTTL fails ("critical") still counts.       *)
C_Register(c, i, outcome) ==
  /\ IsConsul /\ Call(c) /\ client = "open"
  /\ faulty' = (faulty \/ outcome # "passing")
  /\ IF outcome = "error" THEN NoServe ELSE Serve(i, 1)
  /\ kept' = IF outcome = "passing" THEN kept \cup {i}
             ELSE IF outcome = "error" THEN kept ELSE kept \ {i}
  /\ IF outcome \in {"passing", "critical"}
     THEN /\ registered' = [registered EXCEPT ![i] = @ + 1]
          /\ cache' = cache \cup {<<"own", i>>}
          /\ notify("create", i)
     ELSE UNCHANGED <<registered, cache, chans>>
  /\ UNCHANGED <<kind, life, watch, procs>>

(* deregisterService does nothing, successfully, before the first Connect. *)
C_Deregister(c, i, outcome) ==
  /\ IsConsul /\ Call(c) /\ (client = "nil" => outcome = "ok")
  /\ faulty' = (faulty \/ outcome # "ok")
  /\ IF outcome = "error" THEN NoServe ELSE Serve(i, 0)
  /\ kept' = IF outcome = "error" THEN kept ELSE kept \ {i}
  /\ IF outcome = "ok"
     THEN /\ registered' = [registered EXCEPT ![i] = IF @ > 0 THEN @ - 1 ELSE 0]
          /\ cache' = cache \ {<<"own", i>>}
          /\ notify("delete", i)
     ELSE UNCHANGED <<registered, cache, chans>>
  /\ UNCHANGED <<kind, life, watch, procs>>

(* GetService asks outside the lock; an empty answer or an error leaves    *)
(* the cache alone.  ListServices calls GetService for every name.         *)
C_GetService(c) ==
  /\ IsConsul /\ Call(c) /\ client = "open" /\ Healthy # {}
  /\ copy' = [copy EXCEPT ![c] = [i \in Instances |-> IF i \in Healthy THEN 1 ELSE 0]]
  /\ pc' = [pc EXCEPT ![c] = "caching"]
  /\ UNCHANGED <<kind, life, books, watch, chans, feeds, evs, targets, faulty>>

C_StoreCache(c) ==
  /\ IsConsul /\ pc[c] = "caching"
  /\ cache' = {<<"remote", i>> : i \in {j \in Instances : copy[c][j] # 0}}
  /\ copy' = [copy EXCEPT ![c] = None] /\ pc' = [pc EXCEPT ![c] = "idle"]
  /\ UNCHANGED <<kind, life, registered, server, kept, watch, chans, feeds, evs, targets,
                 ops, faulty>>

(* A tick of healthCheckLoop: any of the PassTTL calls may fail, and those *)
(* of an instance the agent no longer has do.                              *)
C_healthCheck(passed) ==
  /\ IsConsul /\ Renewing
  /\ passed \subseteq {i \in Instances : registered[i] > 0 /\ server[i] # 0}
  /\ passed \ kept # {} /\ kept' = kept \cup passed
  /\ feed' = [w \in Watchers |-> IF feed[w] = "current" THEN "behind" ELSE feed[w]]
  /\ UNCHANGED <<kind, life, registered, server, cache, watch, chans, queue, since, procs,
                 ops, faulty>>

C_healthExit(g) ==
  /\ IsConsul /\ pc[g] = "loop" /\ stopped /\ pc' = [pc EXCEPT ![g] = "none"]
  /\ UNCHANGED <<kind, life, books, watch, chans, feeds, copy, evs, targets, ops, faulty>>

(* The agent: a check not passed in time turns critical (counted in ops    *)
(* while a loop could pass it again), and a service critical for           *)
(* DeregisterCriticalServiceAfter is removed.                              *)
C_Expire(i) ==
  /\ kind = "consul" /\ i \in kept /\ kept' = kept \ {i}
  /\ \/ ~Renewing /\ UNCHANGED ops
     \/ Renewing /\ ops < MaxOps /\ ops' = ops + 1
  /\ feed' = [w \in Watchers |-> IF feed[w] = "current" THEN "behind" ELSE feed[w]]
  /\ UNCHANGED <<kind, life, registered, server, cache, watch, chans, queue, since, procs, faulty>>

C_Reap(i) ==
  /\ kind = "consul" /\ server[i] # 0 /\ i \notin kept /\ Serve(i, 0)
  /\ UNCHANGED <<kind, life, registered, kept, cache, watch, chans, procs, ops, faulty>>

C_Watch(w) ==
  /\ IsConsul /\ w \notin made /\ client # "nil"
  /\ made' = made \cup {w} /\ watchers' = watchers \cup {w}
  /\ feed' = [feed EXCEPT ![w] = "behind"]
  /\ reader' = [reader EXCEPT ![w] = "reading"]
  /\ UNCHANGED <<kind, life, books, done, taken, base, chans, queue, since, procs,
                 ops, faulty>>

(* watch: a blocking query answers when its index has moved on; what is    *)
(* healthy then is passed on as updates, one by one.                       *)
C_watchQuery(w) ==
  /\ IsConsul /\ feed[w] = "behind" /\ queue[w] = <<>>
  /\ feed' = [feed EXCEPT ![w] = "current"]
  /\ \E s \in [1..Cardinality(Healthy) -> Healthy] :
       /\ \A i \in Healthy : \E k \in DOMAIN s : s[k] = i
       /\ queue' = [queue EXCEPT ![w] = [k \in DOMAIN s |-> [type |-> "update", id |-> s[k]]]]
  /\ UNCHANGED <<kind, life, books, watch, chans, since, procs, ops, faulty>>

C_watchEvent(w) ==
  /\ IsConsul /\ feed[w] \in {"current", "behind"} /\ queue[w] # <<>>
  /\ Deliver({w}, Head(queue[w])) /\ queue' = [queue EXCEPT ![w] = Tail(@)]
  /\ UNCHANGED <<kind, life, books, watch, feed, since, procs, ops, faulty>>

C_watchExit(w) ==
  /\ IsConsul /\ feed[w] \in {"current", "behind"} /\ queue[w] = <<>>
  /\ w \in done \/ stopped
  /\ feed' = [feed EXCEPT ![w] = "ended"]
  /\ UNCHANGED <<kind, life, books, watch, chans, queue, since, procs, ops, faulty>>

C_Next ==
  \/ \E c \in Callers : \/ C_Connect(c) \/ C_Close(c) \/ C_CloseReturn(c)
                        \/ C_GetService(c) \/ C_StoreCache(c)
  \/ \E c \in Callers, i \in Instances, ok \in BOOLEAN : C_CloseDeregister(c, i, ok)
  \/ \E c \in Callers, i \in Instances, r \in {"passing", "critical", "applied", "error"} :
       C_Register(c, i, r)
  \/ \E c \in Callers, i \in Instances, r \in {"ok", "applied", "error"} : C_Deregister(c, i, r)
  \/ \E passed \in SUBSET Instances : C_healthCheck(passed)
  \/ \E g \in Loops : C_healthExit(g)
  \/ \E i \in Instances : C_Expire(i) \/ C_Reap(i)
  \/ \E w \in Watchers : C_Watch(w) \/ C_watchQuery(w) \/ C_watchEvent(w) \/ C_watchExit(w)
============================================================================
