--------------------------- MODULE EtcdRegistry ---------------------------
(***************************************************************************)
(* registry/etcd.go.  server[i] is the lease the key of i is attached to   *)
(* (0: no key), registered[i] the lease r.registered holds for it, and i   *)
(* is in kept while the client sends keep-alives for the key's lease.  The *)
(* local cache r.services is only ever written there, and is left out.     *)
(***************************************************************************)
EXTENDS RegistryBase

IsEtcd == kind = "etcd" /\ ~crashed

E_Connect(c) ==
  /\ IsEtcd /\ Call(c) /\ ~running /\ Closing = {}
  /\ client' = "open" /\ running' = TRUE
  /\ UNCHANGED <<kind, stopped, crashed, books, watch, chans, feeds, procs, faulty>>

(* stopCh is made once, with the registry: a second Close closes it again. *)
E_Close(c) ==
  /\ IsEtcd /\ Call(c) /\ running
  /\ running' = FALSE /\ stopped' = TRUE /\ crashed' = stopped
  /\ copy' = [copy EXCEPT ![c] = registered] /\ registered' = None
  /\ watchers' = {}
  /\ pc' = [pc EXCEPT ![c] = "closing"]
  /\ UNCHANGED <<kind, client, server, kept, cache, made, done, taken, reader, base, chans,
                 feeds, evs, targets, faulty>>

(* The rest of Register or Deregister, with the lock still held. *)
ThenNotify(c, type, i) ==
  /\ pc' = [pc EXCEPT ![c] = "notify"]
  /\ evs' = [evs EXCEPT ![c] = <<[type |-> type, id |-> i]>>]

(* Revoking a lease deletes the key while it is attached to that lease.    *)
Revoked(i, lease, ok) == IF ok /\ server[i] = lease THEN 0 ELSE server[i]

E_Revoke(c, i, ok) ==
  /\ IsEtcd /\ pc[c] = "closing" /\ copy[c][i] # 0
  /\ Serve(i, Revoked(i, copy[c][i], ok))
  /\ kept' = IF server'[i] = 0 THEN kept \ {i} ELSE kept
  /\ copy' = [copy EXCEPT ![c][i] = 0]
  /\ faulty' = (faulty \/ ~ok)
  /\ UNCHANGED <<kind, life, registered, cache, watch, chans, pc, evs, targets, ops>>

(* client.Close ends its keep-alives and its watch streams. *)
E_CloseClient(c) ==
  /\ IsEtcd /\ pc[c] = "closing" /\ copy[c] = None
  /\ client' = "closed" /\ kept' = {}
  /\ pc' = [pc EXCEPT ![c] = "idle"]
  /\ UNCHANGED <<kind, running, stopped, crashed, registered, server, cache, watch, chans,
                 feeds, copy, evs, targets, ops, faulty>>

\* Mutant: a second registration of an ID leaves the first lease in the list.
E_RegisterKeepsLease(c, i, outcome) ==
  /\ IsEtcd /\ Call(c) /\ client = "open"
  /\ faulty' = (faulty \/ outcome # "ok")
  /\ IF outcome = "error" THEN NoServe ELSE Serve(i, ops')
  /\ kept' = IF outcome = "ok" THEN kept \cup {i}
             ELSE IF outcome = "put" THEN kept \ {i} ELSE kept
  /\ IF outcome = "ok"
     THEN /\ registered' = [registered EXCEPT ![i] = IF @ = 0 THEN ops' ELSE @]
          /\ ThenNotify(c, "create", i)
     ELSE UNCHANGED <<registered, pc, evs>>
  /\ UNCHANGED <<kind, life, cache, watch, chans, copy, targets>>

(* Grant, Put, KeepAlive; "put" is a failure after the key was written.    *)
E_Register(c, i, outcome) ==
  /\ IsEtcd /\ Call(c) /\ client = "open"
  /\ faulty' = (faulty \/ outcome # "ok")
  /\ IF outcome = "error" THEN NoServe ELSE Serve(i, ops')
  /\ kept' = IF outcome = "ok" THEN kept \cup {i}
             ELSE IF outcome = "put" THEN kept \ {i} ELSE kept
  /\ IF outcome = "ok"
     THEN /\ registered' = [registered EXCEPT ![i] = ops']
          /\ ThenNotify(c, "create", i)
     ELSE UNCHANGED <<registered, pc, evs>>
  /\ UNCHANGED <<kind, life, cache, watch, chans, copy, targets>>

(* The lease is revoked, the error ignored, and forgotten; then the key is *)
(* deleted, whose error ends the call before the watchers hear of it.      *)
E_Deregister(c, i, revoke, delete) ==
  /\ IsEtcd /\ Call(c) /\ client # "nil" /\ (client = "closed" => ~revoke /\ ~delete)
  /\ registered' = [registered EXCEPT ![i] = 0]
  /\ Serve(i, IF delete THEN 0
              ELSE IF registered[i] = 0 THEN server[i] ELSE Revoked(i, registered[i], revoke))
  /\ kept' = IF server'[i] = 0 THEN kept \ {i} ELSE kept
  /\ IF delete THEN ThenNotify(c, "delete", i) ELSE UNCHANGED <<pc, evs>>
  /\ faulty' = (faulty \/ ~delete \/ (registered[i] # 0 /\ ~revoke))
  /\ UNCHANGED <<kind, life, cache, watch, chans, copy, targets>>

E_notify(c) ==
  /\ IsEtcd /\ pc[c] = "notify"
  /\ Deliver(watchers, Head(evs[c]))
  /\ pc' = [pc EXCEPT ![c] = "idle"] /\ evs' = [evs EXCEPT ![c] = <<>>]
  /\ UNCHANGED <<kind, life, books, watch, feeds, copy, targets, ops, faulty>>

(* A lease nobody renews expires; so does one whose keep-alives the server *)
(* stops seeing, which the consuming goroutine only logs.  The TTL is       *)
(* taken to be longer than what a Register does after its KeepAlive.       *)
E_Expire(i) ==
  /\ kind = "etcd" /\ server[i] # 0 /\ (i \notin kept \/ crashed) /\ ~Locked
  /\ Serve(i, 0) /\ kept' = kept \ {i}
  /\ UNCHANGED <<kind, life, registered, cache, watch, chans, procs, ops, faulty>>

E_LoseKeepAlive(i) ==
  /\ IsEtcd /\ i \in kept /\ kept' = kept \ {i} /\ faulty' = TRUE
  /\ UNCHANGED <<kind, life, registered, server, cache, watch, chans, feeds, procs, ops>>

E_Watch(w) ==
  /\ IsEtcd /\ w \notin made /\ client # "nil" /\ ~Locked
  /\ made' = made \cup {w} /\ watchers' = watchers \cup {w}
  /\ feed' = [feed EXCEPT ![w] = "get"]
  /\ reader' = [reader EXCEPT ![w] = "reading"]
  /\ UNCHANGED <<kind, life, books, done, taken, base, chans, queue, since, procs, ops, faulty>>

(* watch: a Get of what is there (reported to OnEvent only), an error of   *)
(* which ends the goroutine, then a stream of what changes from then on.   *)
E_watchGet(w, ok) ==
  /\ IsEtcd /\ feed[w] = "get" /\ (client = "closed" => ~ok)
  /\ feed' = [feed EXCEPT ![w] = IF ok THEN "opening" ELSE "ended"]
  /\ UNCHANGED <<kind, life, books, watch, chans, queue, since, procs, ops, faulty>>

E_watchOpen(w) ==
  /\ IsEtcd /\ feed[w] = "opening"
  /\ feed' = [feed EXCEPT ![w] = IF client = "open" THEN "open" ELSE "ended"]
  /\ since' = [since EXCEPT ![w] = Len(events[w])]
  /\ UNCHANGED <<kind, life, books, watch, chans, queue, procs, ops, faulty>>

E_watchEvent(w) ==
  /\ IsEtcd /\ feed[w] = "open" /\ queue[w] # <<>>
  /\ Deliver({w}, Head(queue[w])) /\ queue' = [queue EXCEPT ![w] = Tail(@)]
  /\ UNCHANGED <<kind, life, books, watch, feed, since, procs, ops, faulty>>

E_watchExit(w) ==
  /\ IsEtcd /\ feed[w] = "open" /\ (w \in done \/ stopped \/ client = "closed")
  /\ feed' = [feed EXCEPT ![w] = "ended"] /\ queue' = [queue EXCEPT ![w] = <<>>]
  /\ UNCHANGED <<kind, life, books, watch, chans, since, procs, ops, faulty>>

E_Next ==
  \/ \E c \in Callers : E_Connect(c) \/ E_Close(c) \/ E_CloseClient(c) \/ E_notify(c)
  \/ \E c \in Callers, i \in Instances, ok \in BOOLEAN : E_Revoke(c, i, ok)
  \/ \E c \in Callers, i \in Instances, r \in {"ok", "put", "error"} : E_Register(c, i, r)
  \/ \E c \in Callers, i \in Instances, r, d \in BOOLEAN : E_Deregister(c, i, r, d)
  \/ \E i \in Instances : E_Expire(i) \/ E_LoseKeepAlive(i)
  \/ \E w \in Watchers : E_Watch(w) \/ E_watchOpen(w) \/ E_watchEvent(w) \/ E_watchExit(w)
  \/ \E w \in Watchers, ok \in BOOLEAN : E_watchGet(w, ok)
============================================================================
