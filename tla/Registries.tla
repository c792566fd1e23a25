---------------------------- MODULE Registries ----------------------------
(***************************************************************************)
(* The four registries behind the Registry interface, and what a caller of *)
(* NewRegistry may rely on whichever of them it is given.                  *)
(***************************************************************************)
EXTENDS MemoryRegistry, EtcdRegistry, ConsulRegistry, NacosRegistry

Next ==
  \/ M_Next \/ E_Next \/ C_Next \/ N_Next
  \/ \E w \in Watchers : Next_Event(w) \/ Next_Stopped(w) \/ Stop(w)

(***************************************************************************)
(* Goroutines run to the end of what they have begun: a Close, a           *)
(* notification, a loop told to stop, and Next where it can return.  The   *)
(* servers let what nobody renews expire.  Nobody has to call anything.    *)
(***************************************************************************)
Fairness ==
  /\ \A c \in Callers : /\ WF_vars(M_StopWatchers(c)) /\ WF_vars(E_CloseClient(c))
                        /\ WF_vars(C_CloseReturn(c)) /\ WF_vars(N_CloseWatchers(c))
                        /\ WF_vars(N_CloseClient(c)) /\ WF_vars(E_notify(c))
                        /\ WF_vars(\E i \in Instances, ok \in BOOLEAN :
                             E_Revoke(c, i, ok) \/ C_CloseDeregister(c, i, ok)
                             \/ N_CloseDeregister(c, i, ok))
  /\ \A g \in Loops : WF_vars(C_healthExit(g))
  /\ \A i \in Instances : WF_vars(E_Expire(i) \/ C_Expire(i) \/ N_Expire(i)) /\ WF_vars(C_Reap(i))
  /\ \A w \in Watchers : WF_vars(Next_Stopped(w) \/ Next_Event(w))

Spec == Init /\ [][Next]_vars /\ Fairness

Remote == kind \in {"etcd", "consul", "nacos"}
Advertised == {i \in Instances : server[i] # 0}

(* As long as no remote call has failed, whatever the server holds for     *)
(* this process is on the list Close works through, or on the copy of a    *)
(* Close under way: the book-keeping of Register, Deregister and Close,    *)
(* with repeated and concurrent calls, loses no registration.              *)
Withdrawable ==
  Remote /\ ~faulty /\ ~crashed =>
    \A i \in Advertised :
      registered[i] # 0 \/ \E c \in Closing : copy[c][i] # 0

(* A registry that stays closed, or whose process is gone, is eventually   *)
(* forgotten by the server, whatever calls failed and although a Register  *)
(* can slip in after Close has copied the list: every lease, check or      *)
(* ephemeral instance loses what renews it.                                *)
ForgottenAfterClose ==
  Remote /\ <>[](~running \/ crashed) => <>[](Advertised = {})

(* memory.go: events can overtake each other, since they are sent outside  *)
(* the lock, but none is invented, repeated or forgotten: what a watcher   *)
(* has been sent and what is on its way to it add up to the difference     *)
(* between the table now and the table when it was created.                *)
EventBalance ==
  kind = "memory" =>
    \A w \in watchers \ full, i \in Instances :
      base[w][i] + Net(events[w], i) + Pending(w, i) = server[i]

(* memory.go, nacos.go: a goroutine waiting in Next on a watcher that Stop *)
(* or Close has taken off the table gets its answer.  (The Close of etcd   *)
(* and consul drops watchers without closing them.)                        *)
DroppedIsReleased ==
  \A w \in Watchers :
    (kind \in {"memory", "nacos"} /\ ~crashed /\ reader[w] = "reading" /\ w \notin watchers)
      ~> (reader[w] # "reading")

(* etcd.go: a registration reaches a watcher twice, from notify and from   *)
(* the watch stream, in either order.  Once the stream has caught up, the  *)
(* last event about an instance since it was opened still tells whether    *)
(* the instance is there.                                                  *)
LastEventIsCurrent ==
  kind = "etcd" =>
    \A w \in watchers \ full, i \in Instances :
      LET about == {k \in since[w] + 1 .. Len(events[w]) : events[w][k].id = i}
          last == CHOOSE k \in about : \A j \in about : j <= k
      IN feed[w] = "open" /\ queue[w] = <<>> /\ about # {} =>
           (events[w][last].type = "delete" <=> server[i] = 0)
============================================================================
