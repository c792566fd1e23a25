--------------------------- MODULE NacosRegistry ---------------------------
(***************************************************************************)
(* registry/nacos.go.  Instances are ephemeral: the server drops them when *)
(* the client is closed, until then the SDK renews them (kept).  As with   *)
(* consul, the server's instance IDs are not the ones Register is given.   *)
(* There is no stop channel; Close closes the watchers' done channels.     *)
(***************************************************************************)
EXTENDS RegistryBase

IsNacos == kind = "nacos" /\ ~crashed

N_Connect(c) ==
  /\ IsNacos /\ Call(c) /\ ~running /\ Closing = {}
  /\ client' = "open" /\ running' = TRUE
  /\ UNCHANGED <<kind, stopped, crashed, books, watch, chans, feeds, procs, faulty>>

N_Close(c) ==
  /\ IsNacos /\ Call(c) /\ running
  /\ running' = FALSE
  /\ copy' = [copy EXCEPT ![c] = registered] /\ registered' = None
  /\ targets' = [targets EXCEPT ![c] = watchers] /\ watchers' = {}
  /\ pc' = [pc EXCEPT ![c] = "closing"]
  /\ UNCHANGED <<kind, client, stopped, crashed, server, kept, cache, made, done, taken, reader,
                 base, chans, feeds, evs, faulty>>

N_CloseDeregister(c, i, ok) ==
  /\ IsNacos /\ pc[c] = "closing" /\ copy[c][i] > 0
  /\ copy' = [copy EXCEPT ![c][i] = @ - 1]
  /\ Serve(i, IF ok THEN 0 ELSE server[i])
  /\ kept' = IF ok THEN kept \ {i} ELSE kept
  /\ faulty' = (faulty \/ ~ok)
  /\ UNCHANGED <<kind, life, registered, cache, watch, chans, pc, evs, targets, ops>>

\* Mutant: watchers are unsubscribed but not stopped.
N_CloseWatchersQuietly(c) ==
  /\ IsNacos /\ pc[c] = "closing" /\ copy[c] = None
  /\ feed' = [w \in Watchers |-> IF w \in targets[c] THEN "ended" ELSE feed[w]]
  /\ targets' = [targets EXCEPT ![c] = {}]
  /\ pc' = [pc EXCEPT ![c] = "closeClient"]
  /\ UNCHANGED <<kind, life, books, watchers, made, done, taken, reader, base, chans, queue, since,
                 copy, evs, ops, faulty>>

N_CloseWatchers(c) ==
  /\ IsNacos /\ pc[c] = "closing" /\ copy[c] = None
  /\ feed' = [w \in Watchers |-> IF w \in targets[c] THEN "ended" ELSE feed[w]]
  /\ done' = done \cup targets[c] /\ targets' = [targets EXCEPT ![c] = {}]
  /\ pc' = [pc EXCEPT ![c] = "closeClient"]
  /\ UNCHANGED <<kind, life, books, watchers, made, taken, reader, base, chans, queue, since,
                 copy, evs, ops, faulty>>

N_CloseClient(c) ==
  /\ IsNacos /\ pc[c] = "closeClient"
  /\ client' = "closed" /\ kept' = {} /\ pc' = [pc EXCEPT ![c] = "idle"]
  /\ UNCHANGED <<kind, running, stopped, crashed, registered, server, cache, watch, chans,
                 feeds, copy, evs, targets, ops, faulty>>

(* "applied": the server has the instance, the caller an error. *)
N_Register(c, i, outcome) ==
  /\ IsNacos /\ Call(c) /\ client = "open"
  /\ faulty' = (faulty \/ outcome # "ok")
  /\ IF outcome = "error" THEN NoServe ELSE Serve(i, 1)
  /\ kept' = IF outcome = "error" THEN kept ELSE kept \cup {i}
  /\ IF outcome = "ok"
     THEN /\ registered' = [registered EXCEPT ![i] = @ + 1]
          /\ cache' = cache \cup {<<"own", i>>}
          /\ notify("create", i)
     ELSE UNCHANGED <<registered, cache, chans>>
  /\ UNCHANGED <<kind, life, watch, procs>>

N_Deregister(c, i, outcome) ==
  /\ IsNacos /\ Call(c)
  /\ (client = "nil" => outcome = "ok") /\ (client = "closed" => outcome = "error")
  /\ faulty' = (faulty \/ outcome # "ok")
  /\ IF outcome = "error" THEN NoServe ELSE Serve(i, 0)
  /\ kept' = IF outcome = "error" THEN kept ELSE kept \ {i}
  /\ IF outcome = "ok"
     THEN /\ registered' = [registered EXCEPT ![i] = IF @ > 0 THEN @ - 1 ELSE 0]
          /\ cache' = cache \ {<<"own", i>>}
          /\ notify("delete", i)
     ELSE UNCHANGED <<registered, cache, chans>>
  /\ UNCHANGED <<kind, life, watch, procs>>

(* An empty answer is stored too; ListServices then has nothing to list.   *)
N_GetService(c) ==
  /\ IsNacos /\ Call(c) /\ client = "open"
  /\ copy' = [copy EXCEPT ![c] = server] /\ pc' = [pc EXCEPT ![c] = "caching"]
  /\ UNCHANGED <<kind, life, books, watch, chans, feeds, evs, targets, faulty>>

N_StoreCache(c) ==
  /\ IsNacos /\ pc[c] = "caching"
  /\ cache' = {<<"remote", i>> : i \in {j \in Instances : copy[c][j] # 0}}
  /\ copy' = [copy EXCEPT ![c] = None] /\ pc' = [pc EXCEPT ![c] = "idle"]
  /\ UNCHANGED <<kind, life, registered, server, kept, watch, chans, feeds, evs, targets,
                 ops, faulty>>

N_Expire(i) ==
  /\ kind = "nacos" /\ server[i] # 0 /\ i \notin kept /\ Serve(i, 0)
  /\ UNCHANGED <<kind, life, registered, kept, cache, watch, chans, procs, ops, faulty>>

(* The watcher is entered before it subscribes: a failed subscription      *)
(* returns an error and leaves it in the table.                            *)
N_Watch(w, ok) ==
  /\ IsNacos /\ w \notin made /\ client # "nil" /\ (client = "closed" => ~ok)
  /\ made' = made \cup {w} /\ watchers' = watchers \cup {w}
  /\ feed' = [feed EXCEPT ![w] = IF ok THEN "behind" ELSE "ended"]
  /\ reader' = [reader EXCEPT ![w] = IF ok THEN "reading" ELSE "none"]
  /\ UNCHANGED <<kind, life, books, done, taken, base, chans, queue, since, procs,
                 ops, faulty>>

(* The SDK calls the subscription back with all instances of the service.  *)
N_callback(w) ==
  /\ IsNacos /\ feed[w] = "behind" /\ queue[w] = <<>> /\ client = "open"
  /\ feed' = [feed EXCEPT ![w] = "current"]
  /\ LET there == {i \in Instances : server[i] # 0} IN
     \E s \in [1..Cardinality(there) -> there] :
       /\ \A i \in there : \E k \in DOMAIN s : s[k] = i
       /\ queue' = [queue EXCEPT ![w] = [k \in DOMAIN s |-> [type |-> "update", id |-> s[k]]]]
  /\ UNCHANGED <<kind, life, books, watch, chans, since, procs, ops, faulty>>

N_callbackEvent(w) ==
  /\ IsNacos /\ queue[w] # <<>>
  /\ Deliver({w}, Head(queue[w])) /\ queue' = [queue EXCEPT ![w] = Tail(@)]
  /\ UNCHANGED <<kind, life, books, watch, feed, since, procs, ops, faulty>>

N_Next ==
  \/ \E c \in Callers : \/ N_Connect(c) \/ N_Close(c) \/ N_CloseWatchers(c)
                        \/ N_CloseClient(c) \/ N_GetService(c) \/ N_StoreCache(c)
  \/ \E c \in Callers, i \in Instances, ok \in BOOLEAN : N_CloseDeregister(c, i, ok)
  \/ \E c \in Callers, i \in Instances, r \in {"ok", "applied", "error"} :
       N_Register(c, i, r) \/ N_Deregister(c, i, r)
  \/ \E i \in Instances : N_Expire(i)
  \/ \E w \in Watchers, ok \in BOOLEAN : N_Watch(w, ok)
  \/ \E w \in Watchers : N_callback(w) \/ N_callbackEvent(w)
============================================================================
