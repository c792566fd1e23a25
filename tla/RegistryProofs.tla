--------------------------- MODULE RegistryProofs ---------------------------
(*************************************************************************)
(* What the four registries promise their callers and watchers, for      *)
(* every set of instances, callers, watchers and background goroutines.  *)
(*                                                                       *)
(* The books of the remote registries (Withdrawable). For etcd the lease *)
(* on the list or on a copy must be the very lease the key hangs on,     *)
(* since Close revokes leases and not keys; and a Close that has come to *)
(* closing the client has nothing left on its copy.                      *)
(*                                                                       *)
(* The watch stream of etcd (LastEventIsCurrent), and the events of the  *)
(* in-memory registry (EventBalance), follow below with what each of     *)
(* them needs.                                                           *)
(*************************************************************************)
EXTENDS Registries, FiniteSetTheorems, TLAPS

Labels == {"none", "idle", "loop", "sweep", "notify", "send", "closing", "closeClient",
           "caching"}

BooksTyped ==
  /\ registered \in [Instances -> Nat] /\ server \in [Instances -> Nat]
  /\ copy \in [Procs -> [Instances -> Nat]] /\ pc \in [Procs -> Labels] /\ ops \in Nat

(* With n on a list, a Close that works through the list removes what    *)
(* the server has under i.                                               *)
Removes(n, i) == n # 0 /\ (kind = "etcd" => n = server[i])

Listed(i) ==
  server[i] # 0 => Removes(registered[i], i) \/ \E c \in Closing : Removes(copy[c][i], i)

BooksInv ==
  Remote =>
    /\ BooksTyped
    /\ \A c \in Callers : pc[c] = "closeClient" => copy[c] = None
    /\ ~faulty /\ ~crashed => \A i \in Instances : Listed(i)

-----------------------------------------------------------------------------
(* Nothing is registered at first.                                       *)
LEMMA BooksStart == Init => BooksInv
<1> SUFFICES ASSUME Init PROVE BooksInv OBVIOUS
<1>1. None \in [Instances -> Nat] BY DEF None
<1>2. pc \in [Procs -> {"idle", "none"}] BY DEF Init
<1>3. BooksTyped BY <1>1, <1>2 DEF Init, BooksTyped, Labels
<1>4. \A c \in Callers : pc[c] # "closeClient" BY <1>2 DEF Procs
<1>5. \A i \in Instances : Listed(i) BY DEF Init, None, Listed
<1> QED BY <1>3, <1>4, <1>5 DEF BooksInv

(* Every action is guarded by the kind of registry it belongs to.        *)
LEMMA MemoryOnly == ASSUME M_Next PROVE kind = "memory" /\ kind' = kind
<1>1. ASSUME NEW c \in Callers, M_Connect(c) \/ M_Close(c) \/ M_StopWatchers(c)
      PROVE  kind = "memory" /\ kind' = kind
  BY <1>1 DEF M_Connect, M_Close, M_StopWatchers, IsMemory
<1>2. ASSUME NEW c \in Callers, NEW i \in Instances, M_Register(c, i) \/ M_Deregister(c, i)
      PROVE  kind = "memory" /\ kind' = kind
  BY <1>2 DEF M_Register, M_Deregister, IsMemory
<1>3. ASSUME NEW p \in Procs, M_snapshotWatchers(p) \/ M_notify(p)
      PROVE  kind = "memory" /\ kind' = kind
  BY <1>3 DEF M_snapshotWatchers, M_notify, IsMemory
<1>4. ASSUME NEW w \in Watchers, M_Watch(w)
      PROVE  kind = "memory" /\ kind' = kind
  BY <1>4 DEF M_Watch, IsMemory
<1>5. ASSUME NEW i \in Instances, M_Expire(i)
      PROVE  kind = "memory" /\ kind' = kind
  BY <1>5 DEF M_Expire, IsMemory
<1>6. ASSUME NEW g \in Loops, M_tick(g) \/ M_cleanup(g)
      PROVE  kind = "memory" /\ kind' = kind
  BY <1>6 DEF M_tick, M_cleanup, IsMemory
<1> QED BY <1>1, <1>2, <1>3, <1>4, <1>5, <1>6 DEF M_Next

(* The in-memory registry has no books to keep.                          *)
LEMMA MemoryStep == ASSUME M_Next PROVE BooksInv'
BY MemoryOnly DEF BooksInv, Remote

-----------------------------------------------------------------------------
(* Steps that touch neither the list, the server nor a Close under way.  *)
LEMMA BooksKept ==
  ASSUME BooksInv, Remote, UNCHANGED <<kind, registered, server>>,
         copy' \in [Procs -> [Instances -> Nat]], pc' \in [Procs -> Labels], ops' \in Nat,
         faulty => faulty', crashed => crashed',
         \A c \in Callers : \/ pc'[c] = pc[c] /\ copy'[c] = copy[c]
                            \/ ~({pc[c], pc'[c]} \cap {"closing", "closeClient"} # {})
  PROVE  BooksInv'
<1>1. BooksTyped' BY DEF BooksInv, BooksTyped
<1>2. \A c \in Callers : pc'[c] = "closeClient" => copy'[c] = None'
  BY DEF BooksInv, None
<1>3. ASSUME ~faulty', ~crashed', NEW i \in Instances PROVE Listed(i)'
  <2>1. Listed(i) BY <1>3 DEF BooksInv
  <2>2. \A c \in Closing : c \in Closing' /\ copy'[c] = copy[c] BY DEF Closing
  <2> QED BY <2>1, <2>2 DEF Listed, Removes
<1> QED BY <1>1, <1>2, <1>3 DEF BooksInv

(* The server forgets instance i by itself, or is told to.               *)
LEMMA Forgotten ==
  ASSUME BooksInv, Remote, UNCHANGED <<kind, pc>>, NEW i \in Instances,
         server' = [server EXCEPT ![i] = 0],
         registered' \in [Instances -> Nat], copy' \in [Procs -> [Instances -> Nat]], ops' \in Nat,
         \A j \in Instances \ {i} : registered'[j] = registered[j],
         \A c \in Callers : \/ copy'[c] = copy[c]
                            \/ /\ pc[c] = "closing"
                               /\ \A j \in Instances \ {i} : copy'[c][j] = copy[c][j],
         faulty => faulty', crashed => crashed'
  PROVE  BooksInv'
<1>1. BooksTyped' BY DEF BooksInv, BooksTyped
<1>2. \A c \in Callers : pc'[c] = "closeClient" => copy'[c] = None'
  BY DEF BooksInv, None
<1>3. ASSUME ~faulty', ~crashed', NEW j \in Instances PROVE Listed(j)'
  <2>1. CASE j = i BY <2>1 DEF Listed, BooksInv, BooksTyped
  <2>2. CASE j # i
    <3>1. Listed(j) BY <1>3 DEF BooksInv
    <3>2. server'[j] = server[j] BY <2>2 DEF BooksInv, BooksTyped
    <3>3. \A c \in Closing : c \in Closing' /\ copy'[c][j] = copy[c][j]
      BY <2>2 DEF Closing
    <3> QED BY <2>2, <3>1, <3>2, <3>3 DEF Listed, Removes
  <2> QED BY <2>1, <2>2
<1> QED BY <1>1, <1>2, <1>3 DEF BooksInv

(* Close moves the whole list to its copy in one critical section.       *)
LEMMA CloseCopies ==
  ASSUME BooksInv, Remote, NEW c \in Callers, pc[c] = "idle", ~crashed,
         UNCHANGED <<kind, server, faulty>>, ops' \in Nat,
         copy' = [copy EXCEPT ![c] = registered], registered' = None,
         pc' = [pc EXCEPT ![c] = "closing"]
  PROVE  BooksInv'
<1>1. c \in Procs BY DEF Procs
<1>2. BooksTyped' BY <1>1 DEF BooksInv, BooksTyped, None, Labels
<1>3. \A d \in Callers : pc'[d] = "closeClient" => copy'[d] = None'
  BY <1>1 DEF BooksInv, BooksTyped, None, Procs
<1>4. ASSUME ~faulty', NEW i \in Instances PROVE Listed(i)'
  <2>1. Listed(i) BY <1>4 DEF BooksInv
  <2>2. c \in Closing' /\ copy'[c] = registered
    BY <1>1 DEF Closing, BooksInv, BooksTyped
  <2>3. \A d \in Closing : d \in Closing' /\ copy'[d] = copy[d]
    BY <1>1 DEF Closing, BooksInv, BooksTyped, Procs
  <2> QED BY <2>1, <2>2, <2>3 DEF Listed, Removes
<1> QED BY <1>2, <1>3, <1>4 DEF BooksInv

(* A Close goes on, or returns, when its copy is worked off.             *)
LEMMA CloseGoesOn ==
  ASSUME BooksInv, Remote, NEW c \in Callers, copy[c] = None,
         UNCHANGED <<kind, server, registered, copy, ops, faulty, crashed>>,
         NEW at \in {"idle", "closeClient"}, pc' = [pc EXCEPT ![c] = at]
  PROVE  BooksInv'
<1>1. c \in Procs BY DEF Procs
<1>2. BooksTyped' BY <1>1 DEF BooksInv, BooksTyped, Labels
<1>3. \A d \in Callers : pc'[d] = "closeClient" => copy'[d] = None'
  BY <1>1 DEF BooksInv, BooksTyped, None, Procs
<1>4. ASSUME ~faulty, ~crashed, NEW i \in Instances PROVE Listed(i)'
  <2>1. Listed(i) BY <1>4 DEF BooksInv
  <2>2. ~Removes(copy[c][i], i) BY DEF Removes, None
  <2>3. \A d \in Closing \ {c} : d \in Closing'
    BY <1>1 DEF Closing, BooksInv, BooksTyped, Procs
  <2> QED BY <2>1, <2>2, <2>3 DEF Listed, Removes
<1> QED BY <1>2, <1>3, <1>4 DEF BooksInv

-----------------------------------------------------------------------------
(* What Serve does to the books.                                         *)
LEMMA ServeServer ==
  ASSUME NEW i \in Instances, NEW v, Serve(i, v)
  PROVE  server' = [server EXCEPT ![i] = v]
BY DEF Serve

(* A call is made by an idle goroutine of a live process.                *)
LEMMA CallIdle ==
  ASSUME BooksInv, Remote, NEW c \in Callers, Call(c)
  PROVE  pc[c] = "idle" /\ ~crashed /\ ops' \in Nat /\ ops' = ops + 1 /\ c \in Procs
BY DEF Call, BooksInv, BooksTyped, Procs

(* etcd.go: a new registration puts its own lease on the list; consul.go *)
(* and nacos.go: it adds an entry.                                       *)
LEMMA RegisterLists ==
  ASSUME BooksInv, Remote, NEW c \in Callers, NEW i \in Instances,
         UNCHANGED <<kind, copy>>, ~crashed, ops' \in Nat,
         NEW v \in Nat \ {0}, NEW n \in Nat \ {0},
         server' = [server EXCEPT ![i] = v], kind = "etcd" => n = v,
         registered' = [registered EXCEPT ![i] = n],
         pc' = pc \/ (pc[c] = "idle" /\ pc' = [pc EXCEPT ![c] = "notify"]),
         faulty => faulty'
  PROVE  BooksInv'
<1>1. c \in Procs BY DEF Procs
<1>2. BooksTyped' BY <1>1 DEF BooksInv, BooksTyped, Labels
<1>3. \A d \in Callers : pc'[d] = "closeClient" => copy'[d] = None'
  BY <1>1 DEF BooksInv, BooksTyped, None, Procs
<1>4. ASSUME ~faulty', NEW j \in Instances PROVE Listed(j)'
  <2>1. CASE j = i
    BY <2>1 DEF Listed, Removes, BooksInv, BooksTyped
  <2>2. CASE j # i
    <3>1. Listed(j) BY <1>4 DEF BooksInv
    <3>2. server'[j] = server[j] /\ registered'[j] = registered[j]
      BY <2>2 DEF BooksInv, BooksTyped
    <3>3. Closing \subseteq Closing'
      BY <1>1 DEF Closing, BooksInv, BooksTyped, Procs
    <3> QED BY <3>1, <3>2, <3>3 DEF Listed, Removes
  <2> QED BY <2>1, <2>2
<1> QED BY <1>2, <1>3, <1>4 DEF BooksInv

(* After a remote call has failed nothing is claimed of the list.        *)
LEMMA AfterFault ==
  ASSUME BooksInv, Remote, UNCHANGED <<kind, copy>>, faulty',
         registered' \in [Instances -> Nat], server' \in [Instances -> Nat], ops' \in Nat,
         pc' \in [Procs -> Labels],
         \A c \in Callers : pc'[c] = "closeClient" => pc[c] = "closeClient"
  PROVE  BooksInv'
<1>1. BooksTyped' BY DEF BooksInv, BooksTyped
<1>2. \A c \in Callers : pc'[c] = "closeClient" => copy'[c] = None'
  BY DEF BooksInv, None
<1> QED BY <1>1, <1>2 DEF BooksInv

-----------------------------------------------------------------------------
(* etcd.go                                                               *)
LEMMA EtcdRegisters ==
  ASSUME BooksInv, NEW c \in Callers, NEW i \in Instances,
         NEW r \in {"ok", "put", "error"}, E_Register(c, i, r)
  PROVE  BooksInv'
<1>1. Remote /\ kind = "etcd" /\ UNCHANGED <<kind, copy>> BY DEF E_Register, IsEtcd, Remote
<1>2. pc[c] = "idle" /\ ~crashed /\ ops' \in Nat /\ ops' = ops + 1 /\ c \in Procs
  BY <1>1, CallIdle DEF E_Register
<1>3. BooksTyped /\ ops' \in Nat \ {0} BY <1>1, <1>2 DEF BooksInv, BooksTyped
<1>4. CASE r = "ok"
  <2>1. server' = [server EXCEPT ![i] = ops'] BY <1>4, ServeServer DEF E_Register
  <2>2. /\ registered' = [registered EXCEPT ![i] = ops']
        /\ pc' = [pc EXCEPT ![c] = "notify"]
        /\ faulty => faulty'
    BY <1>4 DEF E_Register, ThenNotify
  <2> QED BY <1>1, <1>2, <1>3, <2>1, <2>2, RegisterLists
<1>5. CASE r # "ok"
  <2>1. faulty' /\ UNCHANGED <<registered, pc>> BY <1>5 DEF E_Register
  <2>2. server' \in [Instances -> Nat]
    <3>1. CASE r = "error" BY <1>3, <3>1 DEF E_Register, NoServe, BooksTyped
    <3>2. CASE r # "error"
      <4>1. server' = [server EXCEPT ![i] = ops'] BY <3>2, ServeServer DEF E_Register
      <4> QED BY <1>3, <4>1 DEF BooksTyped
    <3> QED BY <3>1, <3>2
  <2> QED BY <1>1, <1>2, <1>3, <2>1, <2>2, AfterFault DEF BooksTyped
<1> QED BY <1>4, <1>5

(* The lease is revoked and the key deleted.                             *)
LEMMA EtcdDeregisters ==
  ASSUME BooksInv, NEW c \in Callers, NEW i \in Instances,
         NEW r \in BOOLEAN, NEW d \in BOOLEAN, E_Deregister(c, i, r, d)
  PROVE  BooksInv'
<1>1. Remote /\ kind = "etcd" /\ UNCHANGED <<kind, copy, crashed>>
  BY DEF E_Deregister, IsEtcd, Remote, life
<1>2. pc[c] = "idle" /\ ~crashed /\ ops' \in Nat /\ c \in Procs
  BY <1>1, CallIdle DEF E_Deregister
<1>3. BooksTyped BY <1>1 DEF BooksInv
<1>4. registered' = [registered EXCEPT ![i] = 0] BY DEF E_Deregister
<1>5. registered' \in [Instances -> Nat] /\ \A j \in Instances \ {i} : registered'[j] = registered[j]
  BY <1>3, <1>4 DEF BooksTyped
<1>6. \E v \in Nat : server' = [server EXCEPT ![i] = v] /\ (d => v = 0)
  <2> DEFINE v == IF d THEN 0
                  ELSE IF registered[i] = 0 THEN server[i] ELSE Revoked(i, registered[i], r)
  <2>1. v \in Nat /\ (d => v = 0) BY <1>3 DEF BooksTyped, Revoked
  <2>2. Serve(i, v) BY DEF E_Deregister
  <2> HIDE DEF v
  <2> QED BY <2>1, <2>2, ServeServer
<1>7. CASE d
  <2>1. server' = [server EXCEPT ![i] = 0] BY <1>6, <1>7
  <2>2. pc' = [pc EXCEPT ![c] = "notify"] /\ (faulty => faulty')
    BY <1>7 DEF E_Deregister, ThenNotify
  <2>3. server' \in [Instances -> Nat] /\ pc' \in [Procs -> Labels]
    BY <1>2, <1>3, <2>1, <2>2 DEF BooksTyped, Labels
  <2>4. BooksTyped' BY <1>1, <1>2, <1>3, <1>5, <2>3 DEF BooksTyped
  <2>5. \A e \in Callers : pc'[e] = "closeClient" => copy'[e] = None'
    BY <1>1, <1>2, <1>3, <2>2 DEF BooksInv, BooksTyped, None, Procs
  <2>6. ASSUME ~faulty', NEW j \in Instances PROVE Listed(j)'
    <3>1. CASE j = i BY <2>1, <3>1, <1>3 DEF Listed, BooksTyped
    <3>2. CASE j # i
      <4>1. Listed(j) BY <1>1, <1>2, <2>2, <2>6 DEF BooksInv
      <4>2. server'[j] = server[j] /\ registered'[j] = registered[j]
        BY <2>1, <1>3, <1>5, <3>2 DEF BooksTyped
      <4>3. Closing \subseteq Closing'
        BY <1>2, <1>3, <2>2 DEF Closing, BooksTyped, Procs
      <4> QED BY <1>1, <4>1, <4>2, <4>3 DEF Listed, Removes
    <3> QED BY <3>1, <3>2
  <2> QED BY <2>4, <2>5, <2>6 DEF BooksInv
<1>8. CASE ~d
  <2>1. faulty' /\ UNCHANGED pc BY <1>8 DEF E_Deregister
  <2>2. server' \in [Instances -> Nat] BY <1>3, <1>6 DEF BooksTyped
  <2> QED BY <1>1, <1>2, <1>3, <1>5, <2>1, <2>2, AfterFault DEF BooksTyped
<1> QED BY <1>7, <1>8

(* Close revokes one of the leases it copied: the key goes with it, or   *)
(* hangs on a lease that another list still has.                         *)
LEMMA EtcdRevokes ==
  ASSUME BooksInv, NEW c \in Callers, NEW i \in Instances, NEW ok \in BOOLEAN,
         E_Revoke(c, i, ok)
  PROVE  BooksInv'
<1>1. /\ Remote /\ kind = "etcd" /\ UNCHANGED <<kind, registered, pc, ops, crashed>>
      /\ pc[c] = "closing" /\ c \in Procs /\ faulty' = (faulty \/ ~ok)
      /\ copy' = [copy EXCEPT ![c][i] = 0]
  BY DEF E_Revoke, IsEtcd, Remote, life, Procs
<1>2. BooksTyped BY <1>1 DEF BooksInv
<1>3. server' = [server EXCEPT ![i] = Revoked(i, copy[c][i], ok)]
  BY ServeServer DEF E_Revoke
<1>4. BooksTyped'
  <2>1. Revoked(i, copy[c][i], ok) \in Nat BY <1>2 DEF BooksTyped, Revoked
  <2>2. server' \in [Instances -> Nat] BY <1>2, <1>3, <2>1 DEF BooksTyped
  <2>3. copy' \in [Procs -> [Instances -> Nat]] BY <1>1, <1>2 DEF BooksTyped
  <2> QED BY <1>1, <1>2, <2>2, <2>3 DEF BooksTyped
<1>5. /\ \A e \in Callers \ {c} : copy'[e] = copy[e]
      /\ \A j \in Instances \ {i} : copy'[c][j] = copy[c][j]
  BY <1>1, <1>2 DEF BooksTyped, Procs
<1>6. \A e \in Callers : pc'[e] = "closeClient" => copy'[e] = None'
  BY <1>1, <1>5 DEF BooksInv, None
<1>7. ASSUME ~faulty', ~crashed', NEW j \in Instances PROVE Listed(j)'
  <2>1. Listed(j) BY <1>1, <1>7 DEF BooksInv
  <2>2. Closing' = Closing BY <1>1 DEF Closing
  <2>3. CASE j = i
    <3>1. server'[i] = IF server[i] = copy[c][i] THEN 0 ELSE server[i]
      BY <1>1, <1>2, <1>3, <1>7 DEF BooksTyped, Revoked
    <3>2. server'[i] # 0 => server'[i] = server[i] /\ ~Removes(copy[c][i], i)
      BY <1>1, <3>1 DEF Removes
    <3> QED BY <1>1, <1>5, <2>1, <2>2, <2>3, <3>2 DEF Listed, Removes, Closing
  <2>4. CASE j # i
    <3>1. server'[j] = server[j] BY <1>2, <1>3, <2>4 DEF BooksTyped
    <3>2. \A e \in Closing : copy'[e][j] = copy[e][j] BY <1>5, <2>4 DEF Closing
    <3> QED BY <1>1, <2>1, <2>2, <3>1, <3>2 DEF Listed, Removes
  <2> QED BY <2>3, <2>4
<1> QED BY <1>4, <1>6, <1>7 DEF BooksInv

(* Connect, notify, and the goroutines of the watchers and keep-alives   *)
(* leave the books alone; a lease that expires takes its key with it.    *)
LEMMA EtcdStep == ASSUME BooksInv, E_Next PROVE BooksInv'
<1>1. ASSUME NEW c \in Callers, E_Connect(c) \/ E_notify(c) PROVE BooksInv'
  <2>1. Remote /\ c \in Procs /\ UNCHANGED <<kind, registered, server, copy, faulty, crashed>>
    BY <1>1 DEF E_Connect, E_notify, IsEtcd, Remote, books, life, procs, Procs
  <2>2. BooksTyped BY <2>1 DEF BooksInv
  <2>3. ops' \in Nat BY <1>1, <2>1, <2>2, CallIdle DEF E_Connect, E_notify, BooksTyped
  <2>4. pc' = pc \/ (pc[c] = "notify" /\ pc' = [pc EXCEPT ![c] = "idle"])
    BY <1>1 DEF E_Connect, E_notify, procs
  <2>5. pc' \in [Procs -> Labels] BY <2>1, <2>2, <2>4 DEF BooksTyped, Labels
  <2>6. \A d \in Callers : pc'[d] = pc[d] \/ (pc[d] = "notify" /\ pc'[d] = "idle")
    BY <2>1, <2>2, <2>4 DEF BooksTyped, Procs
  <2> QED BY <2>1, <2>2, <2>3, <2>5, <2>6, BooksKept DEF BooksTyped
<1>2. ASSUME NEW c \in Callers, E_Close(c) PROVE BooksInv'
  <2>1. Remote /\ UNCHANGED <<kind, server, faulty>> BY <1>2 DEF E_Close, IsEtcd, Remote
  <2> QED BY <1>2, <2>1, CallIdle, CloseCopies DEF E_Close
<1>3. ASSUME NEW c \in Callers, E_CloseClient(c) PROVE BooksInv'
  <2>1. Remote /\ UNCHANGED <<kind, server, registered, copy, ops, faulty, crashed>>
    BY <1>3 DEF E_CloseClient, IsEtcd, Remote
  <2> QED BY <1>3, <2>1, CloseGoesOn DEF E_CloseClient
<1>4. ASSUME NEW i \in Instances, E_Expire(i) PROVE BooksInv'
  <2>1. Remote /\ UNCHANGED <<kind, pc, registered, copy, ops, faulty, crashed>>
    BY <1>4 DEF E_Expire, Remote, procs, life
  <2>2. server' = [server EXCEPT ![i] = 0] BY <1>4, ServeServer DEF E_Expire
  <2> QED BY <2>1, <2>2, Forgotten DEF BooksInv, BooksTyped
<1>5. ASSUME NEW i \in Instances, E_LoseKeepAlive(i) PROVE BooksInv'
  <2>1. Remote /\ UNCHANGED <<kind, server, registered, copy, pc, ops, crashed>> /\ faulty'
    BY <1>5 DEF E_LoseKeepAlive, IsEtcd, Remote, procs, life
  <2> QED BY <2>1, AfterFault DEF BooksInv, BooksTyped
<1>6. ASSUME NEW w \in Watchers,
             \/ E_Watch(w) \/ E_watchOpen(w) \/ E_watchEvent(w) \/ E_watchExit(w)
             \/ \E ok \in BOOLEAN : E_watchGet(w, ok)
      PROVE  BooksInv'
  <2>1. Remote /\ UNCHANGED <<kind, server, registered, copy, pc, ops, faulty, crashed>>
    BY <1>6 DEF E_Watch, E_watchOpen, E_watchEvent, E_watchExit, E_watchGet, IsEtcd, Remote,
                procs, life, books
  <2> QED BY <2>1, BooksKept DEF BooksInv, BooksTyped
<1> QED BY <1>1, <1>2, <1>3, <1>4, <1>5, <1>6, EtcdRevokes, EtcdRegisters, EtcdDeregisters
        DEF E_Next

-----------------------------------------------------------------------------
(* consul.go and nacos.go: Register adds an entry for what it puts       *)
(* there.                                                                *)
LEMMA CountingRegisters ==
  ASSUME BooksInv, NEW c \in Callers, NEW i \in Instances,
         \/ \E r \in {"passing", "critical", "applied", "error"} : C_Register(c, i, r)
         \/ \E r \in {"ok", "applied", "error"} : N_Register(c, i, r)
  PROVE  BooksInv'
<1>1. Remote /\ kind # "etcd" /\ UNCHANGED <<kind, copy, pc>>
  BY DEF C_Register, N_Register, IsConsul, IsNacos, Remote, procs
<1>2. BooksTyped BY <1>1 DEF BooksInv
<1>3. ~crashed /\ ops' \in Nat
  BY <1>1, CallIdle DEF C_Register, N_Register
<1>4. PICK r \in {"ok", "passing", "critical", "applied", "error"} :
        \/ r # "ok" /\ C_Register(c, i, r)
        \/ r \in {"ok", "applied", "error"} /\ N_Register(c, i, r)
  OBVIOUS
<1>5. faulty' = (faulty \/ r \notin {"ok", "passing"})
  BY <1>4 DEF C_Register, N_Register
<1>6. r # "error" => server' = [server EXCEPT ![i] = 1]
  BY <1>4, ServeServer DEF C_Register, N_Register
<1>7. r = "error" => server' = server
  BY <1>4 DEF C_Register, N_Register, NoServe
<1>8. CASE r \in {"ok", "passing", "critical"}
  <2> DEFINE n == registered[i] + 1
  <2>1. registered' = [registered EXCEPT ![i] = n]
    BY <1>4, <1>8 DEF C_Register, N_Register
  <2>2. n \in Nat \ {0} BY <1>2 DEF BooksTyped
  <2>3. server' = [server EXCEPT ![i] = 1] /\ 1 \in Nat \ {0} BY <1>6, <1>8
  <2>4. faulty => faulty' BY <1>5
  <2> HIDE DEF n
  <2> QED BY <1>1, <1>3, <2>1, <2>2, <2>3, <2>4, RegisterLists
<1>9. CASE r \in {"applied", "error"}
  <2>1. UNCHANGED registered BY <1>4, <1>9 DEF C_Register, N_Register
  <2>2. server' \in [Instances -> Nat] BY <1>2, <1>6, <1>7 DEF BooksTyped
  <2> QED BY <1>1, <1>2, <1>3, <1>5, <1>9, <2>1, <2>2, AfterFault DEF BooksTyped
<1> QED BY <1>8, <1>9

(* Deregister takes one entry off the list when the server has let go.   *)
LEMMA CountingDeregisters ==
  ASSUME BooksInv, NEW c \in Callers, NEW i \in Instances,
         NEW r \in {"ok", "applied", "error"}, C_Deregister(c, i, r) \/ N_Deregister(c, i, r)
  PROVE  BooksInv'
<1>1. Remote /\ UNCHANGED <<kind, copy, pc, crashed>>
  BY DEF C_Deregister, N_Deregister, IsConsul, IsNacos, Remote, procs, life
<1>2. BooksTyped BY <1>1 DEF BooksInv
<1>3. ops' \in Nat BY <1>1, CallIdle DEF C_Deregister, N_Deregister
<1>4. /\ registered' \in [Instances -> Nat]
      /\ \A j \in Instances \ {i} : registered'[j] = registered[j]
  <2>1. registered' = registered
        \/ registered' = [registered EXCEPT ![i] = IF @ > 0 THEN @ - 1 ELSE 0]
    BY DEF C_Deregister, N_Deregister
  <2> QED BY <1>2, <2>1 DEF BooksTyped
<1>5. CASE r = "ok"
  <2>1. server' = [server EXCEPT ![i] = 0] /\ (faulty => faulty')
    BY <1>5, ServeServer DEF C_Deregister, N_Deregister
  <2> QED BY <1>1, <1>2, <1>3, <1>4, <2>1, Forgotten DEF BooksTyped
<1>6. CASE r # "ok"
  <2>1. faulty' BY <1>6 DEF C_Deregister, N_Deregister
  <2>2. server' = server \/ server' = [server EXCEPT ![i] = 0]
    BY ServeServer DEF C_Deregister, N_Deregister, NoServe
  <2>3. server' \in [Instances -> Nat] BY <1>2, <2>2 DEF BooksTyped
  <2> QED BY <1>1, <1>2, <1>3, <1>4, <2>1, <2>3, AfterFault DEF BooksTyped
<1> QED BY <1>5, <1>6

(* Close takes one entry off its copy.                                   *)
LEMMA CountingCloses ==
  ASSUME BooksInv, NEW c \in Callers, NEW i \in Instances, NEW ok \in BOOLEAN,
         C_CloseDeregister(c, i, ok) \/ N_CloseDeregister(c, i, ok)
  PROVE  BooksInv'
<1>1. /\ Remote /\ UNCHANGED <<kind, registered, pc, ops, crashed>> /\ pc[c] = "closing"
      /\ faulty' = (faulty \/ ~ok) /\ c \in Procs /\ copy[c][i] > 0
      /\ copy' = [copy EXCEPT ![c][i] = @ - 1]
  BY DEF C_CloseDeregister, N_CloseDeregister, IsConsul, IsNacos, Remote, life, Procs
<1>2. BooksTyped BY <1>1 DEF BooksInv
<1>3. copy' \in [Procs -> [Instances -> Nat]] BY <1>1, <1>2 DEF BooksTyped
<1>4. /\ \A e \in Callers \ {c} : copy'[e] = copy[e]
      /\ \A j \in Instances \ {i} : copy'[c][j] = copy[c][j]
  BY <1>1, <1>2 DEF BooksTyped, Procs
<1>5. CASE ok
  <2>1. server' = [server EXCEPT ![i] = 0]
    BY <1>5, ServeServer DEF C_CloseDeregister, N_CloseDeregister
  <2> QED BY <1>1, <1>2, <1>3, <1>4, <2>1, Forgotten DEF BooksTyped
<1>6. CASE ~ok
  <2>1. Serve(i, server[i]) BY <1>6 DEF C_CloseDeregister, N_CloseDeregister
  <2>2. server' = [server EXCEPT ![i] = server[i]] BY <2>1, ServeServer
  <2>3. BooksTyped' BY <1>1, <1>2, <1>3, <2>2 DEF BooksTyped
  <2>4. \A e \in Callers : pc'[e] = "closeClient" => copy'[e] = None'
    BY <1>1, <1>4 DEF BooksInv, None
  <2> QED BY <1>1, <1>6, <2>3, <2>4 DEF BooksInv
<1> QED BY <1>5, <1>6

(* GetService keeps its answer in the caller's copy, which no Close      *)
(* reads.                                                                *)
LEMMA CountingCaches ==
  ASSUME BooksInv, NEW c \in Callers,
         \/ C_GetService(c) \/ C_StoreCache(c) \/ N_GetService(c) \/ N_StoreCache(c)
  PROVE  BooksInv'
<1>1. /\ Remote /\ c \in Procs /\ UNCHANGED <<kind, registered, server, faulty, crashed>>
      /\ pc[c] \in {"idle", "caching"}
      /\ \E at \in {"idle", "caching"} : pc' = [pc EXCEPT ![c] = at]
  BY DEF C_GetService, C_StoreCache, N_GetService, N_StoreCache, IsConsul, IsNacos, Remote,
         books, life, Procs, Call
<1>2. BooksTyped BY <1>1 DEF BooksInv
<1>3. ops' \in Nat
  BY <1>1, <1>2, CallIdle DEF C_GetService, C_StoreCache, N_GetService, N_StoreCache, BooksTyped
<1>4. PICK f \in [Instances -> Nat] : copy' = [copy EXCEPT ![c] = f]
  <2>1. None \in [Instances -> Nat] BY DEF None
  <2>2. [i \in Instances |-> IF i \in Healthy THEN 1 ELSE 0] \in [Instances -> Nat] OBVIOUS
  <2>3. server \in [Instances -> Nat] BY <1>2 DEF BooksTyped
  <2> QED BY <2>1, <2>2, <2>3 DEF C_GetService, C_StoreCache, N_GetService, N_StoreCache
<1>5. copy' \in [Procs -> [Instances -> Nat]] /\ pc' \in [Procs -> Labels]
  BY <1>1, <1>2, <1>4 DEF BooksTyped, Labels
<1>6. \A d \in Callers : \/ pc'[d] = pc[d] /\ copy'[d] = copy[d]
                         \/ {pc[d], pc'[d]} \subseteq {"idle", "caching"}
  BY <1>1, <1>2, <1>4 DEF BooksTyped, Procs
<1> QED BY <1>1, <1>3, <1>5, <1>6, BooksKept

(* The rest of consul.go.                                                *)
LEMMA ConsulStep == ASSUME BooksInv, C_Next PROVE BooksInv'
<1>1. ASSUME NEW c \in Callers, C_Close(c) PROVE BooksInv'
  <2>1. Remote /\ UNCHANGED <<kind, server, faulty>> BY <1>1 DEF C_Close, IsConsul, Remote
  <2> QED BY <1>1, <2>1, CallIdle, CloseCopies DEF C_Close
<1>2. ASSUME NEW c \in Callers, C_CloseReturn(c) PROVE BooksInv'
  <2>1. Remote /\ UNCHANGED <<kind, server, registered, copy, ops, faulty, crashed>>
    BY <1>2 DEF C_CloseReturn, IsConsul, Remote, books, life
  <2> QED BY <1>2, <2>1, CloseGoesOn DEF C_CloseReturn
<1>3. ASSUME (\E c \in Callers : C_Connect(c)) \/ (\E g \in Loops : C_healthExit(g))
      PROVE  BooksInv'
  <2>1. Remote /\ UNCHANGED <<kind, registered, server, copy, faulty, crashed>>
    BY <1>3 DEF C_Connect, C_healthExit, IsConsul, Remote, books, life
  <2>2. BooksTyped BY <2>1 DEF BooksInv
  <2>3. ops' \in Nat BY <1>3, <2>1, <2>2, CallIdle DEF C_Connect, C_healthExit, BooksTyped
  <2>4. PICK g \in Loops : \E at \in {"none", "loop"} : pc' = [pc EXCEPT ![g] = at]
    BY <1>3 DEF C_Connect, C_healthExit, StartLoop
  <2>5. pc' \in [Procs -> Labels] BY <2>2, <2>4 DEF BooksTyped, Labels, Procs
  <2>6. \A c \in Callers : pc'[c] = pc[c]
    BY <2>2, <2>4, ProcsAssumption DEF BooksTyped, Procs
  <2> QED BY <2>1, <2>2, <2>3, <2>5, <2>6, BooksKept DEF BooksTyped
<1>4. ASSUME NEW i \in Instances, C_Reap(i) PROVE BooksInv'
  <2>1. Remote /\ UNCHANGED <<kind, pc, registered, copy, ops, faulty, crashed>>
    BY <1>4 DEF C_Reap, Remote, procs, life
  <2>2. server' = [server EXCEPT ![i] = 0] BY <1>4, ServeServer DEF C_Reap
  <2> QED BY <2>1, <2>2, Forgotten DEF BooksInv, BooksTyped
<1>5. ASSUME NEW i \in Instances, C_Expire(i) PROVE BooksInv'
  <2>1. Remote /\ UNCHANGED <<kind, server, registered, copy, pc, faulty, crashed>>
    BY <1>5 DEF C_Expire, Remote, procs, life
  <2>2. BooksTyped /\ ops' \in Nat BY <1>5, <2>1 DEF C_Expire, BooksInv, BooksTyped
  <2> QED BY <2>1, <2>2, BooksKept DEF BooksTyped
<1>6. ASSUME \/ \E passed \in SUBSET Instances : C_healthCheck(passed)
             \/ \E w \in Watchers : \/ C_Watch(w) \/ C_watchQuery(w)
                                    \/ C_watchEvent(w) \/ C_watchExit(w)
      PROVE  BooksInv'
  <2>1. Remote /\ UNCHANGED <<kind, server, registered, copy, pc, ops, faulty, crashed>>
    BY <1>6 DEF C_healthCheck, C_Watch, C_watchQuery, C_watchEvent, C_watchExit, IsConsul,
                Remote, procs, life, books
  <2> QED BY <2>1, BooksKept DEF BooksInv, BooksTyped
<1> QED BY <1>1, <1>2, <1>3, <1>4, <1>5, <1>6, CountingRegisters, CountingDeregisters,
           CountingCloses, CountingCaches DEF C_Next

(* The rest of nacos.go.                                                 *)
LEMMA NacosStep == ASSUME BooksInv, N_Next PROVE BooksInv'
<1>1. ASSUME NEW c \in Callers, N_Close(c) PROVE BooksInv'
  <2>1. Remote /\ UNCHANGED <<kind, server, faulty>> BY <1>1 DEF N_Close, IsNacos, Remote
  <2> QED BY <1>1, <2>1, CallIdle, CloseCopies DEF N_Close
<1>2. ASSUME NEW c \in Callers, N_CloseWatchers(c) \/ N_CloseClient(c) PROVE BooksInv'
  <2>1. Remote /\ UNCHANGED <<kind, server, registered, copy, ops, faulty, crashed>>
    BY <1>2 DEF N_CloseWatchers, N_CloseClient, IsNacos, Remote, books, life
  <2>2. copy[c] = None BY <1>2, <2>1 DEF N_CloseWatchers, N_CloseClient, BooksInv
  <2> QED BY <1>2, <2>1, <2>2, CloseGoesOn DEF N_CloseWatchers, N_CloseClient
<1>3. ASSUME NEW c \in Callers, N_Connect(c) PROVE BooksInv'
  <2>1. Remote /\ UNCHANGED <<kind, registered, server, copy, pc, faulty, crashed>>
    BY <1>3 DEF N_Connect, IsNacos, Remote, books, procs
  <2>2. ops' \in Nat BY <1>3, <2>1, CallIdle DEF N_Connect
  <2> QED BY <2>1, <2>2, BooksKept DEF BooksInv, BooksTyped
<1>4. ASSUME NEW i \in Instances, N_Expire(i) PROVE BooksInv'
  <2>1. Remote /\ UNCHANGED <<kind, pc, registered, copy, ops, faulty, crashed>>
    BY <1>4 DEF N_Expire, Remote, procs, life
  <2>2. server' = [server EXCEPT ![i] = 0] BY <1>4, ServeServer DEF N_Expire
  <2> QED BY <2>1, <2>2, Forgotten DEF BooksInv, BooksTyped
<1>5. ASSUME NEW w \in Watchers,
             N_callback(w) \/ N_callbackEvent(w) \/ \E ok \in BOOLEAN : N_Watch(w, ok)
      PROVE  BooksInv'
  <2>1. Remote /\ UNCHANGED <<kind, server, registered, copy, pc, ops, faulty, crashed>>
    BY <1>5 DEF N_callback, N_callbackEvent, N_Watch, IsNacos, Remote, procs, life, books
  <2> QED BY <2>1, BooksKept DEF BooksInv, BooksTyped
<1> QED BY <1>1, <1>2, <1>3, <1>4, <1>5, CountingRegisters, CountingDeregisters,
           CountingCloses, CountingCaches DEF N_Next

-----------------------------------------------------------------------------
(* A step of any of the registries, or of a goroutine that calls Next.   *)
LEMMA BooksStep == ASSUME BooksInv, [Next]_vars PROVE BooksInv'
<1>1. CASE \/ UNCHANGED vars
           \/ \E w \in Watchers : Next_Event(w) \/ Next_Stopped(w) \/ Stop(w)
  <2>1. UNCHANGED <<kind, server, registered, copy, pc, ops, faulty, crashed>>
    BY <1>1 DEF vars, Next_Event, Next_Stopped, Stop, procs, life, books
  <2>2. CASE Remote BY <2>1, <2>2, BooksKept DEF BooksInv, BooksTyped
  <2>3. CASE ~Remote BY <2>1, <2>3 DEF BooksInv, Remote
  <2> QED BY <2>2, <2>3
<1> QED BY <1>1, MemoryStep, EtcdStep, ConsulStep, NacosStep DEF Next

(* What a list removes, it has.                                          *)
LEMMA BooksEnough == BooksInv => Withdrawable
BY DEF BooksInv, Withdrawable, Advertised, Listed, Removes

(* etcd.go, consul.go, nacos.go: with any number of callers registering, *)
(* deregistering, closing and connecting at once, and as long as no      *)
(* remote call has failed, what the server holds for this process is on  *)
(* the list, or on the copy of a Close that will still remove it.        *)
THEOREM RegistryWithdrawable == Spec => []Withdrawable
BY BooksStart, BooksStep, BooksEnough, PTL DEF Spec

-----------------------------------------------------------------------------
(*************************************************************************)
(* The two ways in which an etcd watcher hears of a change.  A sequence  *)
(* of events tells of i when its last event about i, after position m,   *)
(* says whether the server has i; the last one of a stream that has not  *)
(* arrived must tell, and where the stream has nothing more about i, the *)
(* last one that has arrived, by the stream or by notify.                *)
(*************************************************************************)
About(s, m, i) == {k \in m + 1 .. Len(s) : s[k].id = i}

LastTells(s, m, i, v) ==
  \E k \in About(s, m, i) : /\ \A j \in About(s, m, i) : j <= k
                            /\ s[k].type = "delete" <=> v = 0

Streamed(w, i) ==
  /\ About(queue[w], 0, i) # {} => LastTells(queue[w], 0, i, server[i])
  /\ About(queue[w], 0, i) = {} /\ About(events[w], since[w], i) # {}
       => LastTells(events[w], since[w], i, server[i])

StreamTyped ==
  /\ events \in [Watchers -> Seq(Event)] /\ queue \in [Watchers -> Seq(Event)]
  /\ feed \in [Watchers -> {"none", "get", "opening", "open", "ended"}]
  /\ since \in [Watchers -> Nat] /\ evs \in [Procs -> Seq(Event)]

(* The stream is empty unless it is open, and was opened in the past; a  *)
(* watcher that was not created has none.                                *)
StreamsOpened ==
  \A w \in Watchers : /\ since[w] <= Len(events[w])
                      /\ feed[w] # "open" => queue[w] = <<>>
                      /\ w \notin made => feed[w] = "none"

(* Leases are numbered by the calls that were granted them.              *)
LeasesPast ==
  \A i \in Instances : registered[i] <= ops /\ \A d \in Callers : copy[d][i] <= ops

(* What notify is about to report is still so: the lock keeps all others *)
(* from changing it but the Close whose loop revokes leases outside it,  *)
(* and none of the leases on its copy is the one just granted.           *)
NewsIsTrue(c) ==
  \E e \in Event : /\ evs[c] = <<e>> /\ (e.type = "delete" <=> server[e.id] = 0)
                   /\ \A d \in Callers : copy[d][e.id] # 0 => copy[d][e.id] # server[e.id]

StreamInv ==
  kind = "etcd" =>
    /\ StreamTyped
    /\ StreamsOpened
    /\ LeasesPast
    /\ \A c \in Callers : pc[c] = "notify" => NewsIsTrue(c)
    /\ \A w \in Watchers \ full : feed[w] = "open" => \A i \in Instances : Streamed(w, i)

-----------------------------------------------------------------------------
(* Events about i after position m, by name.                             *)
LEMMA AboutIs ==
  ASSUME NEW s \in Seq(Event), NEW m \in Nat, NEW i, NEW k
  PROVE  k \in About(s, m, i) <=> k \in Nat /\ m < k /\ k <= Len(s) /\ s[k].id = i
BY DEF About

(* An event that is appended is the last one about its instance ...      *)
LEMMA AppendTells ==
  ASSUME NEW s \in Seq(Event), NEW m \in Nat, m <= Len(s), NEW e \in Event, NEW v,
         e.type = "delete" <=> v = 0
  PROVE  LastTells(Append(s, e), m, e.id, v)
<1> DEFINE t == Append(s, e)
<1>1. t \in Seq(Event) /\ Len(t) = Len(s) + 1 /\ t[Len(s) + 1] = e OBVIOUS
<1>2. Len(s) \in Nat OBVIOUS
<1> HIDE DEF t
<1>3. Len(t) \in About(t, m, e.id) BY <1>1, <1>2, AboutIs
<1>4. \A j \in About(t, m, e.id) : j <= Len(t) BY <1>1, AboutIs
<1>5. LastTells(t, m, e.id, v) BY <1>1, <1>3, <1>4 DEF LastTells
<1> QED BY <1>5 DEF t

(* ... and changes nothing about the others.                             *)
LEMMA AppendOther ==
  ASSUME NEW s \in Seq(Event), NEW m \in Nat, NEW e \in Event, NEW i, e.id # i
  PROVE  /\ About(Append(s, e), m, i) = About(s, m, i)
         /\ \A v : LastTells(s, m, i, v) => LastTells(Append(s, e), m, i, v)
<1> DEFINE t == Append(s, e)
<1>1. /\ t \in Seq(Event) /\ Len(t) = Len(s) + 1 /\ t[Len(s) + 1] = e
      /\ \A k \in 1 .. Len(s) : t[k] = s[k]
  OBVIOUS
<1>2. Len(s) \in Nat OBVIOUS
<1> HIDE DEF t
<1>3. ASSUME NEW k PROVE k \in About(t, m, i) <=> k \in About(s, m, i)
  <2>1. k \in About(t, m, i) <=> k \in Nat /\ m < k /\ k <= Len(t) /\ t[k].id = i
    BY <1>1, AboutIs
  <2>2. k \in About(s, m, i) <=> k \in Nat /\ m < k /\ k <= Len(s) /\ s[k].id = i
    BY AboutIs
  <2> QED BY <1>1, <1>2, <2>1, <2>2
<1>4. About(t, m, i) = About(s, m, i) BY <1>3
<1>5. ASSUME NEW v, LastTells(s, m, i, v) PROVE LastTells(t, m, i, v)
  <2>1. PICK k \in About(s, m, i) : /\ \A j \in About(s, m, i) : j <= k
                                    /\ s[k].type = "delete" <=> v = 0
    BY <1>5 DEF LastTells
  <2>2. t[k] = s[k] BY <1>1, <1>2, AboutIs
  <2> QED BY <1>4, <2>1, <2>2 DEF LastTells
<1> QED BY <1>4, <1>5 DEF t

(* What the tail of a stream has about i, and what its head was if that  *)
(* is nothing.                                                           *)
LEMMA TailTells ==
  ASSUME NEW s \in Seq(Event), s # <<>>, NEW i, NEW v
  PROVE  /\ Tail(s) \in Seq(Event) /\ Head(s) \in Event
         /\ About(s, 0, i) = {} => About(Tail(s), 0, i) = {} /\ Head(s).id # i
         /\ LastTells(s, 0, i, v) =>
              IF About(Tail(s), 0, i) # {}
              THEN LastTells(Tail(s), 0, i, v)
              ELSE Head(s).id = i /\ (Head(s).type = "delete" <=> v = 0)
<1> DEFINE t == Tail(s)
<1>1. /\ t \in Seq(Event) /\ Len(s) = Len(t) + 1 /\ Head(s) = s[1] /\ Head(s) \in Event
      /\ \A k \in 1 .. Len(t) : t[k] = s[k + 1]
  OBVIOUS
<1>2. Len(t) \in Nat BY <1>1
<1> HIDE DEF t
<1>3. ASSUME NEW k \in Nat \ {0} PROVE k \in About(t, 0, i) <=> k + 1 \in About(s, 0, i)
  <2>1. k \in About(t, 0, i) <=> k \in Nat /\ 0 < k /\ k <= Len(t) /\ t[k].id = i
    BY <1>1, AboutIs
  <2>2. k + 1 \in About(s, 0, i) <=> k + 1 \in Nat /\ 0 < k + 1 /\ k + 1 <= Len(s) /\ s[k + 1].id = i
    BY AboutIs
  <2> QED BY <1>1, <1>2, <2>1, <2>2
<1>4. \A k \in About(t, 0, i) : k \in Nat \ {0} BY <1>1, AboutIs
<1>5. \A k \in About(s, 0, i) : k = 1 \/ (k \in Nat /\ k - 1 \in Nat \ {0} /\ k = (k - 1) + 1)
  BY AboutIs
<1>6. 1 \in About(s, 0, i) <=> Head(s).id = i BY <1>1, <1>2, AboutIs
<1>7. About(s, 0, i) = {} => About(t, 0, i) = {} /\ Head(s).id # i
  BY <1>3, <1>4, <1>6
<1>8. ASSUME LastTells(s, 0, i, v)
      PROVE  IF About(t, 0, i) # {}
             THEN LastTells(t, 0, i, v)
             ELSE Head(s).id = i /\ (Head(s).type = "delete" <=> v = 0)
  <2>1. PICK k \in About(s, 0, i) : /\ \A j \in About(s, 0, i) : j <= k
                                    /\ s[k].type = "delete" <=> v = 0
    BY <1>8 DEF LastTells
  <2>2. CASE k = 1
    <3>1. About(t, 0, i) = {}
      <4>1. ASSUME NEW n \in About(t, 0, i) PROVE FALSE
        <5>1. n \in Nat \ {0} /\ n + 1 \in About(s, 0, i) BY <1>3, <1>4
        <5>2. n + 1 <= 1 BY <2>1, <2>2, <5>1
        <5> QED BY <5>1, <5>2
      <4> QED BY <4>1
    <3> QED BY <1>1, <1>6, <2>1, <2>2, <3>1
  <2>3. CASE k # 1
    <3>1. k \in Nat /\ k - 1 \in Nat \ {0} /\ k = (k - 1) + 1 BY <1>5, <2>3
    <3>2. k - 1 \in About(t, 0, i) BY <1>3, <3>1
    <3>3. \A j \in About(t, 0, i) : j <= k - 1
      <4>1. ASSUME NEW j \in About(t, 0, i) PROVE j <= k - 1
        <5>1. j \in Nat \ {0} /\ j + 1 \in About(s, 0, i) BY <1>3, <1>4
        <5>2. j + 1 <= k BY <2>1, <5>1
        <5> QED BY <3>1, <5>1, <5>2
      <4> QED BY <4>1
    <3>4. t[k - 1] = s[k]
      <4>1. k - 1 <= Len(t) BY <1>1, <3>2, AboutIs
      <4> QED BY <1>1, <1>2, <3>1, <4>1
    <3>5. LastTells(t, 0, i, v) BY <2>1, <3>2, <3>3, <3>4 DEF LastTells
    <3> QED BY <3>2, <3>5
  <2> QED BY <2>2, <2>3
<1> QED BY <1>1, <1>7, <1>8 DEF t

(* Every action is guarded by the kind of registry it belongs to.        *)
LEMMA ConsulNacosOnly ==
  ASSUME C_Next \/ N_Next PROVE kind \in {"consul", "nacos"} /\ kind' = kind
<1>1. CASE C_Next
  BY <1>1 DEF C_Next, C_Connect, C_Close, C_CloseReturn, C_GetService, C_StoreCache,
     C_CloseDeregister, C_Register, C_Deregister, C_healthCheck, C_healthExit, C_Expire,
     C_Reap, C_Watch, C_watchQuery, C_watchEvent, C_watchExit, IsConsul
<1>2. CASE N_Next
  BY <1>2 DEF N_Next, N_Connect, N_Close, N_CloseWatchers, N_CloseClient, N_GetService,
     N_StoreCache, N_CloseDeregister, N_Register, N_Deregister, N_Expire, N_Watch, N_callback,
     N_callbackEvent, IsNacos
<1> QED BY <1>1, <1>2

-----------------------------------------------------------------------------
(* What a change on the server adds to the streams.                      *)
LEMMA ServeStreams ==
  ASSUME StreamTyped, BooksTyped, NEW i \in Instances, NEW v \in Nat, Serve(i, v)
  PROVE  /\ server' = [server EXCEPT ![i] = v]
         /\ UNCHANGED <<feed, since>> /\ queue' \in [Watchers -> Seq(Event)]
         /\ \A w \in Watchers :
              IF feed[w] = "open" /\ v # server[i]
              THEN \E e \in Event : /\ e.id = i /\ (e.type = "delete" <=> v = 0)
                                    /\ queue'[w] = Append(queue[w], e)
              ELSE queue'[w] = queue[w]
<1> DEFINE change == IF v = 0 THEN "delete" ELSE IF server[i] = 0 THEN "create" ELSE "update"
           e == [type |-> change, id |-> i]
<1>1. e \in Event /\ e.id = i /\ (e.type = "delete" <=> v = 0) BY DEF Event, Types
<1>2. queue' = [w \in Watchers |-> IF feed[w] = "open" /\ v # server[i]
                                   THEN Append(queue[w], e) ELSE queue[w]]
  BY DEF Serve
<1>3. feed' = feed BY DEF Serve, StreamTyped
<1>4. server' = [server EXCEPT ![i] = v] /\ since' = since BY DEF Serve
<1> HIDE DEF e
<1>5. queue' \in [Watchers -> Seq(Event)] BY <1>1, <1>2 DEF StreamTyped
<1> QED BY <1>1, <1>2, <1>3, <1>4, <1>5

(* A change on the server leaves every stream telling the truth.         *)
LEMMA ServeKeeps ==
  ASSUME StreamInv, kind = "etcd", BooksTyped, NEW i \in Instances, NEW v \in Nat, Serve(i, v),
         UNCHANGED <<events, full, made>>, evs' \in [Procs -> Seq(Event)]
  PROVE  /\ StreamTyped' /\ StreamsOpened'
         /\ \A w \in Watchers \ full' :
              feed'[w] = "open" => \A j \in Instances : Streamed(w, j)'
<1>1. StreamTyped BY DEF StreamInv
<1>2. /\ server' = [server EXCEPT ![i] = v]
      /\ UNCHANGED <<feed, since>> /\ queue' \in [Watchers -> Seq(Event)]
      /\ \A w \in Watchers :
           IF feed[w] = "open" /\ v # server[i]
           THEN \E e \in Event : /\ e.id = i /\ (e.type = "delete" <=> v = 0)
                                 /\ queue'[w] = Append(queue[w], e)
           ELSE queue'[w] = queue[w]
  BY <1>1, ServeStreams
<1>3. StreamTyped' BY <1>1, <1>2 DEF StreamTyped
<1>4. StreamsOpened' BY <1>2 DEF StreamInv, StreamsOpened
<1>5. ASSUME NEW w \in Watchers, w \notin full, feed[w] = "open", NEW j \in Instances
      PROVE  Streamed(w, j)'
  <2>1. Streamed(w, j) BY <1>5 DEF StreamInv
  <2>2. queue[w] \in Seq(Event) /\ 0 \in Nat /\ 0 <= Len(queue[w])
    BY <1>1 DEF StreamTyped
  <2>3. server'[i] = v /\ (j # i => server'[j] = server[j]) BY <1>2 DEF BooksTyped
  <2>4. CASE v = server[i]
    <3>1. queue'[w] = queue[w] /\ server'[j] = server[j] BY <1>2, <2>3, <2>4
    <3> QED BY <1>2, <2>1, <3>1 DEF Streamed
  <2>5. CASE v # server[i]
    <3>1. PICK e \in Event : /\ e.id = i /\ (e.type = "delete" <=> v = 0)
                             /\ queue'[w] = Append(queue[w], e)
      BY <1>2, <1>5, <2>5
    <3>2. CASE j = i
      <4>1. LastTells(queue'[w], 0, i, v) BY <2>2, <3>1, AppendTells
      <4>2. About(queue'[w], 0, i) # {} BY <4>1 DEF LastTells
      <4> QED BY <2>3, <3>2, <4>1, <4>2 DEF Streamed
    <3>3. CASE j # i
      <4>1. e.id # j BY <3>1, <3>3
      <4>2. /\ About(Append(queue[w], e), 0, j) = About(queue[w], 0, j)
            /\ LastTells(queue[w], 0, j, server[j])
                 => LastTells(Append(queue[w], e), 0, j, server[j])
        BY <2>2, <4>1, AppendOther
      <4> QED BY <1>2, <2>1, <2>3, <3>1, <3>3, <4>2 DEF Streamed
    <3> QED BY <3>2, <3>3
  <2> QED BY <2>4, <2>5
<1> QED BY <1>2, <1>3, <1>4, <1>5

(* What a delivery does to one watcher.                                  *)
LEMMA DeliverOne ==
  ASSUME StreamTyped, NEW ws, NEW e \in Event, Deliver(ws, e)
  PROVE  /\ events' \in [Watchers -> Seq(Event)] /\ full \subseteq full'
         /\ \A w \in Watchers : events'[w] = events[w] \/ events'[w] = Append(events[w], e)
         /\ \A w \in ws \cap Watchers : w \notin full' => events'[w] = Append(events[w], e)
         /\ \A w \in Watchers \ ws : events'[w] = events[w]
BY DEF Deliver, StreamTyped

(* notify reports what is so to whom it can.                             *)
LEMMA NotifyKeeps ==
  ASSUME StreamInv, kind = "etcd", NEW e \in Event, Deliver(watchers, e),
         e.type = "delete" <=> server[e.id] = 0,
         UNCHANGED <<server, feeds, made>>, evs' \in [Procs -> Seq(Event)]
  PROVE  /\ StreamTyped' /\ StreamsOpened'
         /\ \A w \in Watchers \ full' :
              feed'[w] = "open" => \A j \in Instances : Streamed(w, j)'
<1>1. StreamTyped BY DEF StreamInv
<1>2. /\ events' \in [Watchers -> Seq(Event)] /\ full \subseteq full'
      /\ \A w \in Watchers : events'[w] = events[w] \/ events'[w] = Append(events[w], e)
  BY <1>1, DeliverOne
<1>3. StreamTyped' BY <1>1, <1>2 DEF StreamTyped, feeds
<1>4. StreamsOpened'
  <2>1. \A w \in Watchers : since[w] <= Len(events'[w])
    <3> SUFFICES ASSUME NEW w \in Watchers PROVE since[w] <= Len(events'[w]) OBVIOUS
    <3>1. events[w] \in Seq(Event) /\ since[w] \in Nat /\ since[w] <= Len(events[w])
      BY <1>1 DEF StreamInv, StreamTyped, StreamsOpened
    <3>2. Len(Append(events[w], e)) = Len(events[w]) + 1 /\ Len(events[w]) \in Nat BY <3>1
    <3>3. Len(events'[w]) \in {Len(events[w]), Len(events[w]) + 1} BY <1>2, <3>2
    <3> QED BY <3>1, <3>2, <3>3
  <2> QED BY <2>1 DEF StreamInv, StreamsOpened, feeds
<1>5. ASSUME NEW w \in Watchers, w \notin full', feed[w] = "open", NEW j \in Instances
      PROVE  Streamed(w, j)'
  <2>1. Streamed(w, j) BY <1>2, <1>5 DEF StreamInv
  <2>2. CASE events'[w] = events[w] BY <2>1, <2>2 DEF Streamed, feeds
  <2>3. CASE events'[w] = Append(events[w], e)
    <3>1. events[w] \in Seq(Event) /\ since[w] \in Nat /\ since[w] <= Len(events[w])
      BY <1>1 DEF StreamInv, StreamTyped, StreamsOpened
    <3>2. CASE j = e.id
      <4>1. LastTells(events'[w], since[w], j, server[j]) BY <2>3, <3>1, <3>2, AppendTells
      <4> QED BY <2>1, <4>1 DEF Streamed, feeds
    <3>3. CASE j # e.id
      <4>1. /\ About(events'[w], since[w], j) = About(events[w], since[w], j)
            /\ LastTells(events[w], since[w], j, server[j])
                 => LastTells(events'[w], since[w], j, server[j])
        BY <2>3, <3>1, <3>3, AppendOther
      <4> QED BY <2>1, <4>1 DEF Streamed, feeds
    <3> QED BY <3>2, <3>3
  <2> QED BY <1>2, <2>2, <2>3
<1> QED BY <1>3, <1>4, <1>5 DEF feeds

(* The watcher's goroutine passes the head of its stream on.             *)
LEMMA PassedOn ==
  ASSUME StreamInv, kind = "etcd", NEW u \in Watchers, queue[u] # <<>>, feed[u] = "open",
         Deliver({u}, Head(queue[u])), queue' = [queue EXCEPT ![u] = Tail(@)],
         UNCHANGED <<server, feed, since, evs, made>>
  PROVE  /\ StreamTyped' /\ StreamsOpened'
         /\ \A w \in Watchers \ full' :
              feed'[w] = "open" => \A j \in Instances : Streamed(w, j)'
<1> DEFINE e == Head(queue[u])
<1>1. StreamTyped /\ queue[u] \in Seq(Event) BY DEF StreamInv, StreamTyped
<1>2. Tail(queue[u]) \in Seq(Event) /\ e \in Event BY <1>1, TailTells
<1>3. /\ events' \in [Watchers -> Seq(Event)] /\ full \subseteq full'
      /\ \A w \in Watchers : events'[w] = events[w] \/ events'[w] = Append(events[w], e)
      /\ u \notin full' => events'[u] = Append(events[u], e)
      /\ \A w \in Watchers \ {u} : events'[w] = events[w]
  BY <1>1, <1>2, DeliverOne
<1>4. queue'[u] = Tail(queue[u]) /\ \A w \in Watchers \ {u} : queue'[w] = queue[w]
  BY <1>1 DEF StreamTyped
<1>5. StreamTyped'
  <2>1. queue' \in [Watchers -> Seq(Event)] BY <1>1, <1>2 DEF StreamTyped
  <2> QED BY <1>1, <1>3, <2>1 DEF StreamTyped
<1>6. StreamsOpened'
  <2>1. \A w \in Watchers : since[w] <= Len(events'[w])
    <3> SUFFICES ASSUME NEW w \in Watchers PROVE since[w] <= Len(events'[w]) OBVIOUS
    <3>1. events[w] \in Seq(Event) /\ since[w] \in Nat /\ since[w] <= Len(events[w])
      BY <1>1 DEF StreamInv, StreamTyped, StreamsOpened
    <3>2. Len(events'[w]) \in {Len(events[w]), Len(events[w]) + 1} BY <1>2, <1>3, <3>1
    <3> QED BY <3>1, <3>2
  <2> QED BY <1>4, <2>1 DEF StreamInv, StreamsOpened
<1>7. ASSUME NEW w \in Watchers, w \notin full', feed[w] = "open", NEW j \in Instances
      PROVE  Streamed(w, j)'
  <2>1. Streamed(w, j) BY <1>3, <1>7 DEF StreamInv
  <2>2. CASE w # u
    <3>1. queue'[w] = queue[w] /\ events'[w] = events[w] BY <1>3, <1>4, <2>2
    <3> QED BY <2>1, <3>1 DEF Streamed
  <2>3. CASE w = u
    <3>1. events[u] \in Seq(Event) /\ since[u] \in Nat /\ since[u] <= Len(events[u])
      BY <1>1 DEF StreamInv, StreamTyped, StreamsOpened
    <3>2. events'[u] = Append(events[u], e) BY <1>3, <1>7, <2>3
    <3>3. CASE About(queue'[u], 0, j) # {}
      <4>1. LastTells(queue[u], 0, j, server[j])
        BY <1>1, <1>4, <2>1, <2>3, <3>3, TailTells DEF Streamed
      <4>2. LastTells(queue'[u], 0, j, server[j]) BY <1>1, <1>4, <3>3, <4>1, TailTells
      <4> QED BY <2>3, <3>3, <4>2 DEF Streamed
    <3>4. CASE About(queue'[u], 0, j) = {}
      <4>1. CASE About(queue[u], 0, j) # {}
        <5>1. LastTells(queue[u], 0, j, server[j]) BY <2>1, <2>3, <4>1 DEF Streamed
        <5>2. e.id = j /\ (e.type = "delete" <=> server[j] = 0)
          BY <1>1, <1>4, <3>4, <5>1, TailTells
        <5>3. LastTells(events'[u], since[u], j, server[j])
          BY <1>2, <3>1, <3>2, <5>2, AppendTells
        <5> QED BY <2>3, <3>4, <5>3 DEF Streamed
      <4>2. CASE About(queue[u], 0, j) = {}
        <5>1. e.id # j BY <1>1, <4>2, TailTells
        <5>2. /\ About(Append(events[u], e), since[u], j) = About(events[u], since[u], j)
              /\ LastTells(events[u], since[u], j, server[j])
                   => LastTells(Append(events[u], e), since[u], j, server[j])
          <6> HIDE DEF e
          <6> QED BY <1>2, <3>1, <5>1, AppendOther
        <5> QED BY <2>1, <2>3, <3>2, <3>4, <4>2, <5>2 DEF Streamed
      <4> QED BY <4>1, <4>2
    <3> QED BY <3>3, <3>4
  <2> QED BY <2>2, <2>3
<1> QED BY <1>5, <1>6, <1>7

-----------------------------------------------------------------------------
(* The streams are empty, and nobody is at notify, at first.             *)
LEMMA StreamStarts == Init => StreamInv
<1> SUFFICES ASSUME Init PROVE StreamInv OBVIOUS
<1>1. /\ events \in [Watchers -> Seq(Event)] /\ queue \in [Watchers -> Seq(Event)]
      /\ evs \in [Procs -> Seq(Event)]
  BY DEF Init
<1>2. StreamTyped BY <1>1 DEF Init, StreamTyped
<1>3. StreamsOpened BY DEF Init, StreamsOpened
<1>4. LeasesPast BY DEF Init, LeasesPast, None, Procs
<1>5. \A c \in Callers : pc[c] # "notify" BY DEF Init, Procs
<1>6. \A w \in Watchers : feed[w] # "open" BY DEF Init
<1> QED BY <1>2, <1>3, <1>4, <1>5, <1>6 DEF StreamInv

(* Steps that touch neither events, streams, the server nor the news.    *)
LEMMA StreamKept ==
  ASSUME StreamInv, kind = "etcd", UNCHANGED <<kind, events, full, feeds, server, made>>,
         LeasesPast', evs' = evs,
         \A c \in Callers : pc'[c] = "notify" => pc[c] = "notify",
         \A c \in Callers : pc[c] = "notify" => UNCHANGED copy
  PROVE  StreamInv'
<1>1. StreamTyped' BY DEF StreamInv, StreamTyped, feeds
<1>2. StreamsOpened' BY DEF StreamInv, StreamsOpened, feeds
<1>3. ASSUME NEW c \in Callers, pc'[c] = "notify" PROVE NewsIsTrue(c)'
  <2>1. NewsIsTrue(c) /\ UNCHANGED copy BY <1>3 DEF StreamInv
  <2> QED BY <2>1 DEF NewsIsTrue
<1>4. \A w \in Watchers \ full' : feed'[w] = "open" => \A i \in Instances : Streamed(w, i)'
  BY DEF StreamInv, Streamed, feeds
<1> QED BY <1>1, <1>2, <1>3, <1>4 DEF StreamInv

(* With the lock free, nobody is at notify.                              *)
LEMMA LockFree ==
  ASSUME kind = "etcd", ~Locked
  PROVE  \A c \in Callers : pc[c] # "notify"
BY DEF Locked

(* Register: the lease just granted is on nobody's copy.                 *)
LEMMA StreamRegister ==
  ASSUME BooksInv, StreamInv, NEW c \in Callers, NEW i \in Instances,
         NEW r \in {"ok", "put", "error"}, E_Register(c, i, r)
  PROVE  StreamInv'
<1>1. /\ kind = "etcd" /\ Remote /\ c \in Procs
      /\ UNCHANGED <<kind, copy, events, full, made>> /\ ~Locked /\ ops' = ops + 1
  BY DEF E_Register, IsEtcd, Remote, Call, chans, watch, Procs
<1>2. BooksTyped BY <1>1 DEF BooksInv
<1>3. ops \in Nat /\ ops' \in Nat BY <1>1, <1>2 DEF BooksTyped
<1>4. \A d \in Callers : pc[d] # "notify" BY <1>1, LockFree
<1>5. \A d \in Callers : \A j \in Instances : copy[d][j] \in Nat /\ copy[d][j] <= ops
  BY <1>1, <1>2 DEF StreamInv, LeasesPast, BooksTyped, Procs
<1>6. LeasesPast'
  <2>1. \A j \in Instances : registered'[j] <= ops'
    <3>1. registered' = registered \/ registered' = [registered EXCEPT ![i] = ops']
      BY DEF E_Register
    <3>2. \A j \in Instances : registered[j] \in Nat /\ registered[j] <= ops
      BY <1>1, <1>2 DEF StreamInv, LeasesPast, BooksTyped
    <3> QED BY <1>1, <1>2, <1>3, <3>1, <3>2 DEF BooksTyped
  <2>2. \A d \in Callers : \A j \in Instances : copy'[d][j] <= ops' BY <1>1, <1>3, <1>5
  <2> QED BY <2>1, <2>2 DEF LeasesPast
<1>7. CASE r = "error"
  <2>1. UNCHANGED <<server, feeds, evs, pc>> BY <1>7 DEF E_Register, NoServe
  <2> QED BY <1>1, <1>4, <1>6, <2>1, StreamKept
<1>8. CASE r # "error"
  <2>1. Serve(i, ops') BY <1>8 DEF E_Register
  <2>2. evs' \in [Procs -> Seq(Event)]
    <3>1. CASE r = "ok"
      <4>1. [type |-> "create", id |-> i] \in Event BY DEF Event, Types
      <4>2. evs' = [evs EXCEPT ![c] = <<[type |-> "create", id |-> i]>>]
        BY <3>1 DEF E_Register, ThenNotify
      <4> QED BY <1>1, <4>1, <4>2 DEF StreamInv, StreamTyped
    <3>2. CASE r # "ok" BY <1>1, <3>2 DEF E_Register, StreamInv, StreamTyped
    <3> QED BY <3>1, <3>2
  <2>3. /\ StreamTyped' /\ StreamsOpened'
        /\ \A w \in Watchers \ full' :
             feed'[w] = "open" => \A j \in Instances : Streamed(w, j)'
    BY <1>1, <1>2, <1>3, <2>1, <2>2, ServeKeeps
  <2>4. ASSUME NEW d \in Callers, pc'[d] = "notify" PROVE NewsIsTrue(d)'
    <3> DEFINE e == [type |-> "create", id |-> i]
    <3>1. r = "ok" BY <1>4, <2>4 DEF E_Register
    <3>2. pc' = [pc EXCEPT ![c] = "notify"] /\ evs' = [evs EXCEPT ![c] = <<e>>]
      BY <3>1 DEF E_Register, ThenNotify
    <3>3. d = c BY <1>1, <1>2, <1>4, <2>4, <3>2 DEF BooksTyped, Procs
    <3>4. evs'[c] = <<e>> BY <1>1, <3>2 DEF StreamInv, StreamTyped
    <3>5. e \in Event /\ e.id = i /\ e.type # "delete" BY DEF Event, Types
    <3>6. server'[i] = ops' BY <1>2, <2>1, ServeServer DEF BooksTyped
    <3>7. \A b \in Callers : copy'[b][i] # server'[i] BY <1>1, <1>3, <1>5, <3>6
    <3>8. server'[i] # 0 BY <1>1, <1>3, <3>6
    <3> HIDE DEF e
    <3> QED BY <3>3, <3>4, <3>5, <3>7, <3>8 DEF NewsIsTrue
  <2> QED BY <1>6, <2>3, <2>4 DEF StreamInv
<1> QED BY <1>7, <1>8

(* Deregister: the key is gone when its deletion is reported.            *)
LEMMA StreamDeregister ==
  ASSUME BooksInv, StreamInv, NEW c \in Callers, NEW i \in Instances,
         NEW r \in BOOLEAN, NEW d \in BOOLEAN, E_Deregister(c, i, r, d)
  PROVE  StreamInv'
<1>1. /\ kind = "etcd" /\ Remote /\ c \in Procs
      /\ UNCHANGED <<kind, copy, events, full, made>> /\ ~Locked /\ ops' = ops + 1
  BY DEF E_Deregister, IsEtcd, Remote, Call, chans, watch, Procs
<1>2. BooksTyped BY <1>1 DEF BooksInv
<1>3. \A b \in Callers : pc[b] # "notify" BY <1>1, LockFree
<1>4. LeasesPast'
  <2>1. registered' = [registered EXCEPT ![i] = 0] BY DEF E_Deregister
  <2>2. \A j \in Instances : registered'[j] \in {0, registered[j]}
    BY <1>2, <2>1 DEF BooksTyped
  <2>3. \A j \in Instances : registered[j] \in Nat /\ registered[j] <= ops
    BY <1>1, <1>2 DEF StreamInv, LeasesPast, BooksTyped
  <2>4. \A b \in Callers : \A j \in Instances : copy[b][j] \in Nat /\ copy[b][j] <= ops
    BY <1>1, <1>2 DEF StreamInv, LeasesPast, BooksTyped, Procs
  <2>5. ops \in Nat BY <1>2 DEF BooksTyped
  <2>6. \A j \in Instances : registered'[j] <= ops' BY <1>1, <2>2, <2>3, <2>5
  <2>7. \A b \in Callers : \A j \in Instances : copy'[b][j] <= ops' BY <1>1, <2>4, <2>5
  <2> QED BY <2>6, <2>7 DEF LeasesPast
<1> DEFINE v == IF d THEN 0
                ELSE IF registered[i] = 0 THEN server[i] ELSE Revoked(i, registered[i], r)
           e == [type |-> "delete", id |-> i]
<1>5. v \in Nat /\ (d => v = 0) BY <1>2 DEF BooksTyped, Revoked
<1>6. Serve(i, v) BY DEF E_Deregister
<1>7. e \in Event /\ e.id = i /\ e.type = "delete" BY DEF Event, Types
<1>8. IF d THEN pc' = [pc EXCEPT ![c] = "notify"] /\ evs' = [evs EXCEPT ![c] = <<e>>]
           ELSE UNCHANGED <<pc, evs>>
  BY DEF E_Deregister, ThenNotify
<1> HIDE DEF v, e
<1>9. evs' \in [Procs -> Seq(Event)]
  <2>1. evs \in [Procs -> Seq(Event)] /\ <<e>> \in Seq(Event)
    BY <1>1, <1>7 DEF StreamInv, StreamTyped
  <2>2. CASE d BY <1>1, <1>8, <2>1, <2>2
  <2>3. CASE ~d BY <1>8, <2>1, <2>3
  <2> QED BY <2>2, <2>3
<1>10. /\ StreamTyped' /\ StreamsOpened'
       /\ \A w \in Watchers \ full' :
            feed'[w] = "open" => \A j \in Instances : Streamed(w, j)'
  BY <1>1, <1>2, <1>5, <1>6, <1>9, ServeKeeps
<1>11. ASSUME NEW b \in Callers, pc'[b] = "notify" PROVE NewsIsTrue(b)'
  <2>1. d BY <1>3, <1>8, <1>11
  <2>2. b = c BY <1>1, <1>2, <1>3, <1>8, <1>11, <2>1 DEF BooksTyped, Procs
  <2>3. evs'[c] = <<e>> BY <1>1, <1>8, <2>1 DEF StreamInv, StreamTyped
  <2>4. server' = [server EXCEPT ![i] = v] BY <1>6, ServeServer
  <2>5. server'[i] = 0 BY <1>2, <1>5, <2>1, <2>4 DEF BooksTyped
  <2> QED BY <1>7, <2>2, <2>3, <2>5 DEF NewsIsTrue
<1> QED BY <1>4, <1>10, <1>11 DEF StreamInv

(* Close revokes a lease, outside the lock: not one that is being        *)
(* reported.                                                             *)
LEMMA StreamRevoke ==
  ASSUME BooksInv, StreamInv, NEW c \in Callers, NEW i \in Instances, NEW ok \in BOOLEAN,
         E_Revoke(c, i, ok)
  PROVE  StreamInv'
<1>1. /\ kind = "etcd" /\ Remote /\ c \in Procs /\ copy[c][i] # 0
      /\ UNCHANGED <<kind, registered, events, full, made, pc, evs, ops>>
      /\ copy' = [copy EXCEPT ![c][i] = 0]
  BY DEF E_Revoke, IsEtcd, Remote, chans, watch, Procs
<1>2. BooksTyped BY <1>1 DEF BooksInv
<1>3. \A d \in Callers : \A j \in Instances : copy'[d][j] \in {0, copy[d][j]}
  BY <1>1, <1>2 DEF BooksTyped, Procs
<1>4. LeasesPast'
  <2>1. \A d \in Callers : \A j \in Instances : copy[d][j] \in Nat /\ copy[d][j] <= ops
    BY <1>1, <1>2 DEF StreamInv, LeasesPast, BooksTyped, Procs
  <2>2. ops \in Nat BY <1>2 DEF BooksTyped
  <2>3. \A d \in Callers : \A j \in Instances : copy'[d][j] <= ops' BY <1>1, <1>3, <2>1, <2>2
  <2> QED BY <1>1, <2>3 DEF StreamInv, LeasesPast
<1> DEFINE v == Revoked(i, copy[c][i], ok)
<1>5. v \in Nat /\ v = (IF ok /\ server[i] = copy[c][i] THEN 0 ELSE server[i])
  BY <1>2 DEF BooksTyped, Revoked
<1>6. Serve(i, v) BY DEF E_Revoke
<1> HIDE DEF v
<1>7. evs' \in [Procs -> Seq(Event)] BY <1>1 DEF StreamInv, StreamTyped
<1>8. /\ StreamTyped' /\ StreamsOpened'
      /\ \A w \in Watchers \ full' :
           feed'[w] = "open" => \A j \in Instances : Streamed(w, j)'
  BY <1>1, <1>2, <1>5, <1>6, <1>7, ServeKeeps
<1>9. ASSUME NEW b \in Callers, pc'[b] = "notify" PROVE NewsIsTrue(b)'
  <2>1. NewsIsTrue(b) BY <1>1, <1>9 DEF StreamInv
  <2>2. PICK e \in Event :
          /\ evs[b] = <<e>> /\ (e.type = "delete" <=> server[e.id] = 0)
          /\ \A d \in Callers : copy[d][e.id] # 0 => copy[d][e.id] # server[e.id]
    BY <2>1 DEF NewsIsTrue
  <2>3. e.id \in Instances BY DEF Event
  <2>4. server' = [server EXCEPT ![i] = v] BY <1>6, ServeServer
  <2>5. server'[e.id] = server[e.id]
    <3>1. CASE e.id = i BY <1>1, <1>2, <1>5, <2>2, <2>4, <3>1 DEF BooksTyped
    <3>2. CASE e.id # i BY <1>2, <2>3, <2>4, <3>2 DEF BooksTyped
    <3> QED BY <3>1, <3>2
  <2>6. \A d \in Callers : copy'[d][e.id] # 0 => copy'[d][e.id] # server'[e.id]
    BY <1>3, <2>2, <2>3, <2>5
  <2> QED BY <1>1, <2>2, <2>5, <2>6 DEF NewsIsTrue
<1> QED BY <1>4, <1>8, <1>9 DEF StreamInv

(* A lease runs out while the lock is free.                              *)
LEMMA StreamExpire ==
  ASSUME BooksInv, StreamInv, NEW i \in Instances, E_Expire(i)
  PROVE  StreamInv'
<1>1. /\ kind = "etcd" /\ Remote /\ ~Locked /\ Serve(i, 0)
      /\ UNCHANGED <<kind, registered, copy, events, full, made, pc, evs, ops>>
  BY DEF E_Expire, Remote, chans, watch, procs
<1>2. BooksTyped BY <1>1 DEF BooksInv
<1>3. \A b \in Callers : pc'[b] # "notify" BY <1>1, LockFree
<1>4. LeasesPast' BY <1>1 DEF StreamInv, LeasesPast
<1>5. evs' \in [Procs -> Seq(Event)] BY <1>1 DEF StreamInv, StreamTyped
<1>6. /\ StreamTyped' /\ StreamsOpened'
      /\ \A w \in Watchers \ full' :
           feed'[w] = "open" => \A j \in Instances : Streamed(w, j)'
  BY <1>1, <1>2, <1>5, ServeKeeps
<1> QED BY <1>3, <1>4, <1>6 DEF StreamInv

(* The calls that change what is on the server, and the Close whose copy *)
(* is worked off, aside: Connect, Close, notify.                         *)
LEMMA StreamCalls ==
  ASSUME BooksInv, StreamInv, NEW c \in Callers,
         E_Connect(c) \/ E_Close(c) \/ E_CloseClient(c) \/ E_notify(c)
  PROVE  StreamInv'
<1>1. kind = "etcd" /\ Remote /\ c \in Procs
  BY DEF E_Connect, E_Close, E_CloseClient, E_notify, IsEtcd, Remote, Procs
<1>2. BooksTyped BY <1>1 DEF BooksInv
<1>3. /\ \A j \in Instances : registered[j] \in Nat /\ registered[j] <= ops
      /\ \A d \in Callers : \A j \in Instances : copy[d][j] \in Nat /\ copy[d][j] <= ops
      /\ ops \in Nat
  BY <1>1, <1>2 DEF StreamInv, LeasesPast, BooksTyped, Procs
<1>4. CASE E_Connect(c)
  <2>1. /\ UNCHANGED <<kind, events, full, feeds, server, made, registered, copy, evs, pc>>
        /\ ops' = ops + 1
    BY <1>4 DEF E_Connect, Call, books, watch, chans, procs
  <2>2. LeasesPast' BY <1>3, <2>1 DEF LeasesPast
  <2> QED BY <1>1, <2>1, <2>2, StreamKept
<1>5. CASE E_Close(c)
  <2>1. /\ UNCHANGED <<kind, events, full, feeds, server, made, evs>>
        /\ ops' = ops + 1 /\ ~Locked /\ pc' = [pc EXCEPT ![c] = "closing"]
        /\ copy' = [copy EXCEPT ![c] = registered] /\ registered' = None
    BY <1>5 DEF E_Close, Call, chans
  <2>2. \A b \in Callers : pc[b] # "notify" BY <1>1, <2>1, LockFree
  <2>3. \A b \in Callers : pc'[b] # "notify" BY <1>1, <1>2, <2>1, <2>2 DEF BooksTyped, Procs
  <2>4. \A d \in Callers : \A j \in Instances : copy'[d][j] \in {copy[d][j], registered[j]}
    BY <1>1, <1>2, <2>1 DEF BooksTyped, Procs
  <2>5. \A d \in Callers : \A j \in Instances : copy'[d][j] <= ops'
    BY <1>3, <2>1, <2>4
  <2>6. \A j \in Instances : registered'[j] <= ops' BY <1>3, <2>1 DEF None
  <2>7. LeasesPast' BY <2>5, <2>6 DEF LeasesPast
  <2> QED BY <1>1, <2>1, <2>2, <2>3, <2>7, StreamKept
<1>6. CASE E_CloseClient(c)
  <2>1. /\ UNCHANGED <<kind, events, full, feeds, server, made, registered, copy, evs, ops>>
        /\ pc' = [pc EXCEPT ![c] = "idle"]
    BY <1>6 DEF E_CloseClient, watch, chans
  <2>2. LeasesPast' BY <2>1, <1>1 DEF StreamInv, LeasesPast
  <2>3. \A b \in Callers : pc'[b] = "notify" => pc[b] = "notify"
    BY <1>1, <1>2, <2>1 DEF BooksTyped, Procs
  <2> QED BY <1>1, <2>1, <2>2, <2>3, StreamKept
<1>7. CASE E_notify(c)
  <2>1. /\ UNCHANGED <<kind, feeds, server, made, registered, copy, ops>>
        /\ pc[c] = "notify" /\ Deliver(watchers, Head(evs[c]))
        /\ pc' = [pc EXCEPT ![c] = "idle"] /\ evs' = [evs EXCEPT ![c] = <<>>]
    BY <1>7 DEF E_notify, books, watch
  <2>2. PICK e \in Event : evs[c] = <<e>> /\ (e.type = "delete" <=> server[e.id] = 0)
    BY <1>1, <2>1 DEF StreamInv, NewsIsTrue
  <2>3. Deliver(watchers, e) BY <2>1, <2>2
  <2>4. evs' \in [Procs -> Seq(Event)] BY <1>1, <2>1 DEF StreamInv, StreamTyped
  <2>5. /\ StreamTyped' /\ StreamsOpened'
        /\ \A w \in Watchers \ full' :
             feed'[w] = "open" => \A j \in Instances : Streamed(w, j)'
    BY <1>1, <2>1, <2>2, <2>3, <2>4, NotifyKeeps
  <2>6. LeasesPast' BY <1>1, <2>1 DEF StreamInv, LeasesPast
  <2>7. ASSUME NEW b \in Callers, pc'[b] = "notify" PROVE NewsIsTrue(b)'
    <3>1. b # c /\ pc[b] = "notify" BY <1>1, <1>2, <2>1, <2>7 DEF BooksTyped, Procs
    <3>2. evs'[b] = evs[b] BY <1>1, <2>1, <3>1 DEF StreamInv, StreamTyped, Procs
    <3>3. NewsIsTrue(b) BY <1>1, <3>1 DEF StreamInv
    <3> QED BY <2>1, <3>2, <3>3 DEF NewsIsTrue
  <2> QED BY <2>5, <2>6, <2>7 DEF StreamInv
<1> QED BY <1>4, <1>5, <1>6, <1>7

(* The watcher's own steps: a stream starts empty, and is gone when it   *)
(* ends.                                                                 *)
LEMMA StreamWatch ==
  ASSUME StreamInv, NEW w \in Watchers,
         \/ E_Watch(w) \/ E_watchOpen(w) \/ E_watchEvent(w) \/ E_watchExit(w)
         \/ \E ok \in BOOLEAN : E_watchGet(w, ok)
  PROVE  StreamInv'
<1>1. kind = "etcd" /\ UNCHANGED <<kind, server, registered, copy, pc, ops, evs>>
  BY DEF E_Watch, E_watchOpen, E_watchEvent, E_watchExit, E_watchGet, IsEtcd, books, procs
<1>2. StreamTyped /\ StreamsOpened BY <1>1 DEF StreamInv
<1>3. LeasesPast' BY <1>1 DEF StreamInv, LeasesPast
<1>4. \A b \in Callers : pc'[b] = "notify" => NewsIsTrue(b)'
  BY <1>1 DEF StreamInv, NewsIsTrue
<1>5. CASE E_watchEvent(w)
  <2>1. UNCHANGED <<server, feed, since, evs, made>> BY <1>1, <1>5 DEF E_watchEvent, watch
  <2>2. /\ StreamTyped' /\ StreamsOpened'
        /\ \A u \in Watchers \ full' :
             feed'[u] = "open" => \A j \in Instances : Streamed(u, j)'
    BY <1>1, <1>5, <2>1, PassedOn DEF E_watchEvent
  <2> QED BY <1>3, <1>4, <2>2 DEF StreamInv
<1>6. CASE ~E_watchEvent(w)
  <2>1. /\ UNCHANGED <<events, full>> /\ made \subseteq made'
        /\ made' \subseteq made \cup {w}
        /\ \E at \in {"get", "opening", "open", "ended"} :
             /\ feed' = [feed EXCEPT ![w] = at]
             /\ at = "open" => feed[w] = "opening" /\ since' = [since EXCEPT ![w] = Len(events[w])]
        /\ UNCHANGED since \/ since' = [since EXCEPT ![w] = Len(events[w])]
        /\ UNCHANGED queue \/ queue' = [queue EXCEPT ![w] = <<>>]
        /\ feed[w] = "open" => queue' = [queue EXCEPT ![w] = <<>>]
    BY <1>2, <1>6 DEF E_Watch, E_watchOpen, E_watchExit, E_watchGet, chans, watch, StreamsOpened
  <2>2. w \in made' BY <1>2, <1>6
    DEF E_Watch, E_watchOpen, E_watchExit, E_watchGet, watch, StreamsOpened
  <2>3. StreamTyped'
    <3>1. queue' \in [Watchers -> Seq(Event)]
      <4>1. queue \in [Watchers -> Seq(Event)] /\ <<>> \in Seq(Event) BY <1>2 DEF StreamTyped
      <4> QED BY <2>1, <4>1
    <3>2. since' \in [Watchers -> Nat] BY <1>2, <2>1 DEF StreamTyped
    <3>3. feed' \in [Watchers -> {"none", "get", "opening", "open", "ended"}]
      BY <1>2, <2>1 DEF StreamTyped
    <3> QED BY <1>1, <1>2, <2>1, <3>1, <3>2, <3>3 DEF StreamTyped
  <2>4. queue'[w] = <<>>
    BY <1>2, <2>1 DEF StreamTyped, StreamsOpened
  <2>5. \A u \in Watchers \ {w} : queue'[u] = queue[u] /\ feed'[u] = feed[u] /\ since'[u] = since[u]
    BY <1>2, <2>1 DEF StreamTyped
  <2>6. since'[w] <= Len(events[w]) /\ (feed'[w] = "open" => since'[w] = Len(events[w]))
    <3>1. Len(events[w]) \in Nat /\ since[w] <= Len(events[w])
      BY <1>2 DEF StreamTyped, StreamsOpened
    <3>2. feed'[w] = "open" => since' = [since EXCEPT ![w] = Len(events[w])]
      BY <1>2, <2>1 DEF StreamTyped
    <3> QED BY <1>2, <2>1, <3>1, <3>2 DEF StreamTyped
  <2>7. StreamsOpened'
    <3> SUFFICES ASSUME NEW u \in Watchers
                 PROVE  /\ since'[u] <= Len(events[u])
                        /\ feed'[u] # "open" => queue'[u] = <<>>
                        /\ u \notin made' => feed'[u] = "none"
      BY <2>1 DEF StreamsOpened
    <3>1. CASE u = w BY <2>2, <2>4, <2>6, <3>1
    <3>2. CASE u # w BY <1>2, <2>1, <2>5, <3>2 DEF StreamsOpened
    <3> QED BY <3>1, <3>2
  <2>8. ASSUME NEW u \in Watchers, u \notin full', feed'[u] = "open", NEW j \in Instances
        PROVE  Streamed(u, j)'
    <3>1. CASE u = w
      <4>1. About(queue'[w], 0, j) = {} BY <2>4 DEF About
      <4>2. About(events'[w], since'[w], j) = {}
        <5>1. since'[w] = Len(events'[w]) /\ Len(events'[w]) \in Nat
          BY <1>2, <2>1, <2>6, <2>8, <3>1 DEF StreamTyped
        <5> QED BY <5>1 DEF About
      <4> QED BY <3>1, <4>1, <4>2 DEF Streamed
    <3>2. CASE u # w
      <4>1. Streamed(u, j) BY <1>1, <2>1, <2>5, <2>8, <3>2 DEF StreamInv
      <4> QED BY <1>1, <2>1, <2>5, <3>2, <4>1 DEF Streamed
    <3> QED BY <3>1, <3>2
  <2> QED BY <1>3, <1>4, <2>3, <2>7, <2>8 DEF StreamInv
<1> QED BY <1>5, <1>6

(* A step of any of the registries keeps the streams telling.            *)
LEMMA StreamStep == ASSUME BooksInv, StreamInv, [Next]_vars PROVE StreamInv'
<1>1. CASE \/ UNCHANGED vars
           \/ \E w \in Watchers : Next_Event(w) \/ Next_Stopped(w) \/ Stop(w)
           \/ \E i \in Instances : E_LoseKeepAlive(i)
  <2>1. /\ UNCHANGED <<kind, server, registered, copy, pc, evs, ops, events, full, made, since, queue>>
        /\ kind = "etcd" => UNCHANGED feed
    BY <1>1 DEF vars, Next_Event, Next_Stopped, Stop, E_LoseKeepAlive, procs, books, chans, watch, feeds
  <2>2. CASE kind = "etcd"
    <3>1. LeasesPast' BY <2>1, <2>2 DEF StreamInv, LeasesPast
    <3> QED BY <2>1, <2>2, <3>1, StreamKept DEF feeds
  <2>3. CASE kind # "etcd" BY <2>1, <2>3 DEF StreamInv
  <2> QED BY <2>2, <2>3
<1>2. CASE M_Next \/ C_Next \/ N_Next
  BY <1>2, MemoryOnly, ConsulNacosOnly DEF StreamInv
<1>3. CASE E_Next /\ ~\E i \in Instances : E_LoseKeepAlive(i)
  BY <1>3, StreamCalls, StreamRevoke, StreamRegister, StreamDeregister, StreamExpire, StreamWatch
     DEF E_Next
<1> QED BY <1>1, <1>2, <1>3 DEF Next

(* Only created watchers are on the table.                               *)
LEMMA WatchersKnown ==
  ASSUME kind = "etcd" => watchers \subseteq Watchers, [Next]_vars
  PROVE  kind' = "etcd" => watchers' \subseteq Watchers
<1>1. CASE UNCHANGED vars BY <1>1 DEF vars, watch
<1>2. CASE M_Next \/ C_Next \/ N_Next BY <1>2, MemoryOnly, ConsulNacosOnly
<1>3. CASE \E w \in Watchers : Next_Event(w) \/ Next_Stopped(w) \/ Stop(w)
  BY <1>3 DEF Next_Event, Next_Stopped, Stop
<1>4. CASE E_Next
  BY <1>4 DEF E_Next, E_Connect, E_Close, E_CloseClient, E_notify, E_Revoke, E_Register,
     E_Deregister, E_Expire, E_LoseKeepAlive, E_Watch, E_watchOpen, E_watchEvent, E_watchExit,
     E_watchGet, IsEtcd, watch
<1> QED BY <1>1, <1>2, <1>3, <1>4 DEF Next

(* The last event about i, of a stream that has caught up, is the one    *)
(* the invariant speaks of.                                              *)
LEMMA StreamEnough ==
  ASSUME StreamInv, kind = "etcd" => watchers \subseteq Watchers
  PROVE  LastEventIsCurrent
<1> SUFFICES ASSUME kind = "etcd", NEW w \in watchers \ full, NEW i \in Instances,
                    feed[w] = "open", queue[w] = <<>>,
                    About(events[w], since[w], i) # {}
             PROVE  LET last == CHOOSE k \in About(events[w], since[w], i) :
                                  \A j \in About(events[w], since[w], i) : j <= k
                    IN  events[w][last].type = "delete" <=> server[i] = 0
  BY DEF LastEventIsCurrent, About
<1> DEFINE S == About(events[w], since[w], i)
           last == CHOOSE k \in S : \A j \in S : j <= k
<1>1. w \in Watchers OBVIOUS
<1>2. About(queue[w], 0, i) = {} BY DEF About
<1>3. LastTells(events[w], since[w], i, server[i]) BY <1>1, <1>2 DEF StreamInv, Streamed
<1>4. PICK k \in S : /\ \A j \in S : j <= k
                     /\ events[w][k].type = "delete" <=> server[i] = 0
  BY <1>3 DEF LastTells
<1>5. S \subseteq Nat
  <2>1. events[w] \in Seq(Event) /\ since[w] \in Nat BY <1>1 DEF StreamInv, StreamTyped
  <2> QED BY <2>1, AboutIs
<1> HIDE DEF S
<1>6. last \in S /\ \A j \in S : j <= last BY <1>4
<1> HIDE DEF last
<1>7. last <= k /\ k <= last /\ last \in Nat /\ k \in Nat BY <1>4, <1>5, <1>6
<1>8. last = k BY <1>7
<1>9. events[w][last].type = "delete" <=> server[i] = 0 BY <1>4, <1>8
<1> QED BY <1>9 DEF last, S

(* etcd.go:142-250, 344-440: with any number of callers, instances and   *)
(* watchers, notify and the watch stream may report a change in either   *)
(* order; once the stream has caught up, the last event a watcher        *)
(* without losses has about an instance tells whether the instance is    *)
(* there.                                                                *)
THEOREM RegistryLastEventIsCurrent == Spec => []LastEventIsCurrent
<1> DEFINE Known == kind = "etcd" => watchers \subseteq Watchers
<1>1. Init => BooksInv /\ StreamInv /\ Known
  BY BooksStart, StreamStarts DEF Init
<1>2. BooksInv /\ StreamInv /\ Known /\ [Next]_vars => BooksInv' /\ StreamInv' /\ Known'
  BY BooksStep, StreamStep, WatchersKnown
<1>3. StreamInv /\ Known => LastEventIsCurrent BY StreamEnough
<1> HIDE DEF Known
<1> QED BY <1>1, <1>2, <1>3, PTL DEF Spec

-----------------------------------------------------------------------------
(*************************************************************************)
(* memory.go: the events on their way to a watcher, counted. A goroutine *)
(* has each instance at most once on its list of events to send          *)
(* (OneEach), so what it contributes to the balance of an instance is    *)
(* -1, 0 or 1 (Sign), and a step of one goroutine changes the sum over   *)
(* all of them by the change of its own contribution. The parts of the   *)
(* state that the in-memory registry uses. A watcher that has not been   *)
(* created has been sent nothing.                                        *)
(*************************************************************************)
MemTyped ==
  /\ pc \in [Procs -> Labels] /\ evs \in [Procs -> Seq(Event)]
  /\ targets \in [Procs -> SUBSET made]
  /\ server \in [Instances -> {0, 1}]
  /\ events \in [Watchers -> Seq(Event)]
  /\ base \in [Watchers -> [Instances -> Int]]
  /\ watchers \subseteq made /\ made \subseteq Watchers
  /\ \A w \in Watchers \ made : events[w] = <<>>

(* No instance occurs twice.                                             *)
Distinct(s) == \A k, l \in DOMAIN s : s[k].id = s[l].id => k = l

(* A goroutine has events exactly while it is reporting them.            *)
OneEach ==
  \A p \in Procs : /\ pc[p] \in {"notify", "send"} <=> evs[p] # <<>>
                   /\ Distinct(evs[p])

MemInv == kind = "memory" => MemTyped /\ OneEach /\ EventBalance

Has(s, e) == IF At(s, e) = {} THEN 0 ELSE 1

(* There are finitely many goroutines.                                   *)
LEMMA ProcsFinite == IsFiniteSet(Procs)
BY FiniteAssumption, FS_Union DEF FiniteAssumption, Procs

(* Nobody has the event twice.                                           *)
Once(way, e) == \A p \in Procs : \A k, l \in At(way[p], e) : k = l

(* Then it is on its way as often as somebody has it.                    *)
LEMMA FlyingCount ==
  ASSUME NEW way, NEW e, Once(way, e)
  PROVE  /\ Cardinality(Flying(way, e)) = Cardinality({p \in Procs : At(way[p], e) # {}})
         /\ Cardinality(Flying(way, e)) \in Nat
<1> DEFINE C == {p \in Procs : At(way[p], e) # {}}
           place(p) == CHOOSE k \in At(way[p], e) : TRUE
           f == [p \in C |-> <<p, place(p)>>]
<1>1. IsFiniteSet(C)
  BY ProcsFinite, FS_Subset
<1>2. \A p \in C : place(p) \in At(way[p], e)
  OBVIOUS
<1> HIDE DEF place
<1>3. \A p \in C : <<p, place(p)>> \in Flying(way, e)
  BY <1>2 DEF Flying
<1>4. ASSUME NEW d \in Flying(way, e) PROVE \E p \in C : d = <<p, place(p)>>
  <2>1. PICK p \in Procs : d \in {p} \X At(way[p], e)
    BY DEF Flying
  <2>2. p \in C /\ d[2] \in At(way[p], e) /\ d = <<p, d[2]>>
    BY <2>1
  <2> QED
    BY <1>2, <2>2 DEF Once
<1>5. f \in [C -> Flying(way, e)] /\ \A p, q \in C : f[p] = f[q] => p = q
  BY <1>3
<1>6. \A d \in Flying(way, e) : \E p \in C : f[p] = d
  BY <1>4
<1>7. f \in Bijection(C, Flying(way, e))
  <2>1. f \in Injection(C, Flying(way, e))
    BY <1>5 DEF Injection, IsInjective
  <2>2. f \in Surjection(C, Flying(way, e))
    BY <1>5, <1>6 DEF Surjection
  <2> QED
    BY <2>1, <2>2 DEF Bijection
<1>8. ExistsBijection(C, Flying(way, e))
  BY <1>7 DEF ExistsBijection
<1> HIDE DEF C, f
<1>9. Cardinality(Flying(way, e)) = Cardinality(C) /\ IsFiniteSet(Flying(way, e))
  BY <1>1, <1>8, FS_Bijection
<1> QED
  BY <1>1, <1>9, FS_CardinalityType DEF C

(* When what one goroutine has changes, the number of events on their    *)
(* way changes with it.                                                  *)
LEMMA FlyingMoves ==
  ASSUME NEW way, NEW way2, NEW e, NEW q \in Procs,
         Once(way, e), Once(way2, e), \A p \in Procs \ {q} : way2[p] = way[p]
  PROVE  /\ Cardinality(Flying(way, e)) \in Nat /\ Cardinality(Flying(way2, e)) \in Nat
         /\ Cardinality(Flying(way2, e))
              = Cardinality(Flying(way, e)) + Has(way2[q], e) - Has(way[q], e)
<1> DEFINE R == {p \in Procs \ {q} : At(way[p], e) # {}}
           C1 == {p \in Procs : At(way[p], e) # {}}
           C2 == {p \in Procs : At(way2[p], e) # {}}
<1>1. IsFiniteSet(R) /\ q \notin R
  <2>1. R \in SUBSET Procs
    OBVIOUS
  <2> QED
    BY <2>1, ProcsFinite, FS_Subset
<1>2. Cardinality(R) \in Nat /\ Cardinality(R \cup {q}) = Cardinality(R) + 1
  BY <1>1, FS_AddElement, FS_CardinalityType
<1>3. C1 = IF At(way[q], e) = {} THEN R ELSE R \cup {q}
  OBVIOUS
<1>4. C2 = IF At(way2[q], e) = {} THEN R ELSE R \cup {q}
  OBVIOUS
<1>5. Cardinality(Flying(way, e)) = Cardinality(C1)
  BY FlyingCount
<1>6. Cardinality(Flying(way2, e)) = Cardinality(C2)
  BY FlyingCount
<1> HIDE DEF R, C1, C2
<1>7. Cardinality(C1) = Cardinality(R) + Has(way[q], e)
  BY <1>2, <1>3 DEF Has
<1>8. Cardinality(C2) = Cardinality(R) + Has(way2[q], e)
  BY <1>2, <1>4 DEF Has
<1>9. Has(way[q], e) \in {0, 1} /\ Has(way2[q], e) \in {0, 1}
  BY DEF Has
<1> QED
  BY <1>2, <1>5, <1>6, <1>7, <1>8, <1>9

(* One event more in a watcher's channel.                                *)
LEMMA AppendCount ==
  ASSUME NEW S, NEW s \in Seq(S), NEW x \in S, NEW e
  PROVE  /\ Cardinality(At(s, e)) \in Nat
         /\ Cardinality(At(Append(s, x), e)) = Cardinality(At(s, e)) + IF x = e THEN 1 ELSE 0
<1>1. IsFiniteSet(At(s, e))
  <2>1. IsFiniteSet(1..Len(s)) /\ At(s, e) \in SUBSET (1..Len(s))
    BY FS_Interval DEF At
  <2> QED
    BY <2>1, FS_Subset
<1>2. Len(s) + 1 \notin At(s, e)
  BY DEF At
<1>3. At(Append(s, x), e) = IF x = e THEN At(s, e) \cup {Len(s) + 1} ELSE At(s, e)
  BY DEF At
<1>4. Cardinality(At(s, e)) \in Nat
  BY <1>1, FS_CardinalityType
<1>5. Cardinality(At(s, e) \cup {Len(s) + 1}) = Cardinality(At(s, e)) + 1
  BY <1>1, <1>2, FS_AddElement
<1> QED
  BY <1>3, <1>4, <1>5

(* The balance of one goroutine, where every instance occurs once, and   *)
(* of all of them.                                                       *)
Sign(s, i) == Has(s, Change("create", i)) - Has(s, Change("delete", i))
Balance(way, i) == Cardinality(Flying(way, Change("create", i)))
                   - Cardinality(Flying(way, Change("delete", i)))

(* Where no instance occurs twice, no event does.                        *)
LEMMA DistinctOnce ==
  ASSUME NEW s, Distinct(s), NEW e PROVE \A k, l \in At(s, e) : k = l
BY DEF Distinct, At

(* One goroutine moves the balance of an instance by one at most.        *)
LEMMA SignType == ASSUME NEW s, NEW i PROVE Sign(s, i) \in {-1, 0, 1}
<1>1. \A e : Has(s, e) \in {0, 1}
  BY DEF Has
<1> QED
  BY <1>1 DEF Sign

(* A step of one goroutine moves the balance by what it contributes.     *)
LEMMA BalanceMoves ==
  ASSUME NEW way, NEW way2, NEW i, NEW q \in Procs,
         \A p \in Procs : Distinct(way[p]), Distinct(way2[q]),
         \A p \in Procs \ {q} : way2[p] = way[p]
  PROVE  /\ Balance(way, i) \in Int
         /\ Balance(way2, i) = Balance(way, i) + Sign(way2[q], i) - Sign(way[q], i)
<1>1. \A p \in Procs : Distinct(way2[p])
  OBVIOUS
<1>2. ASSUME NEW e
      PROVE  /\ Cardinality(Flying(way, e)) \in Nat /\ Cardinality(Flying(way2, e)) \in Nat
             /\ Cardinality(Flying(way2, e))
                  = Cardinality(Flying(way, e)) + Has(way2[q], e) - Has(way[q], e)
  <2>1. Once(way, e) /\ Once(way2, e)
    BY <1>1, DistinctOnce DEF Once
  <2>2. \A p \in Procs \ {q} : way2[p] = way[p]
    OBVIOUS
  <2> QED
    BY <2>1, <2>2, FlyingMoves
<1>3. \A t, e : Has(t, e) \in {0, 1}
  BY DEF Has
<1> QED
  BY <1>2, <1>3 DEF Balance, Sign

(* An event that arrives counts as it did on its way.                    *)
LEMMA NetAppend ==
  ASSUME NEW s \in Seq(Event), NEW x \in Event, NEW i
  PROVE  Net(s, i) \in Int /\ Net(Append(s, x), i) = Net(s, i) + Sign(<<x>>, i)
<1>1. ASSUME NEW e PROVE Has(<<x>>, e) = IF x = e THEN 1 ELSE 0
  BY DEF Has, At
<1>2. ASSUME NEW e
      PROVE  /\ Cardinality(At(s, e)) \in Nat
             /\ Cardinality(At(Append(s, x), e)) = Cardinality(At(s, e)) + Has(<<x>>, e)
  BY <1>1, AppendCount
<1>3. \A e : Has(<<x>>, e) \in {0, 1}
  BY DEF Has
<1> QED
  BY <1>2, <1>3 DEF Net, Sign

(* No events, no balance.                                                *)
LEMMA SignEmpty == ASSUME NEW i PROVE Sign(<<>>, i) = 0 /\ Distinct(<<>>)
<1>1. \A e : At(<<>>, e) = {}
  BY DEF At
<1> QED
  BY <1>1 DEF Sign, Has, Distinct

(* A creation counts 1, a deletion -1, an update 0.                      *)
LEMMA SignOne ==
  ASSUME NEW type \in Types, NEW j, NEW i
  PROVE  /\ Sign(<<Change(type, j)>>, i)
              = IF i # j THEN 0 ELSE IF type = "create" THEN 1 ELSE IF type = "delete" THEN -1 ELSE 0
         /\ Distinct(<<Change(type, j)>>)
<1>1. \A e : Has(<<Change(type, j)>>, e) = IF Change(type, j) = e THEN 1 ELSE 0
  BY DEF Has, At
<1>2. /\ Change(type, j) = Change("create", i) <=> type = "create" /\ i = j
      /\ Change(type, j) = Change("delete", i) <=> type = "delete" /\ i = j
  BY DEF Change
<1>3. /\ Has(<<Change(type, j)>>, Change("create", i)) = IF type = "create" /\ i = j THEN 1 ELSE 0
      /\ Has(<<Change(type, j)>>, Change("delete", i)) = IF type = "delete" /\ i = j THEN 1 ELSE 0
  BY <1>1, <1>2
<1>4. Distinct(<<Change(type, j)>>)
  BY DEF Distinct
<1> QED
  BY <1>3, <1>4 DEF Sign, Types

(* The event that is sent next and the ones that follow it.              *)
LEMMA SignHeadTail ==
  ASSUME NEW s \in Seq(Event), s # <<>>, Distinct(s), NEW i
  PROVE  /\ Sign(s, i) = Sign(<<Head(s)>>, i) + Sign(Tail(s), i)
         /\ Distinct(Tail(s)) /\ Head(s) \in Event /\ Tail(s) \in Seq(Event)
<1>1. /\ Len(s) \in Nat \ {0} /\ DOMAIN s = 1..Len(s) /\ Head(s) = s[1]
      /\ Head(s) \in Event /\ Tail(s) \in Seq(Event) /\ DOMAIN Tail(s) = 1..(Len(s) - 1)
      /\ \A n \in 1..(Len(s) - 1) : Tail(s)[n] = s[n + 1]
  OBVIOUS
<1>2. Distinct(Tail(s))
  BY <1>1 DEF Distinct
<1>3. ASSUME NEW e PROVE Has(s, e) = Has(<<Head(s)>>, e) + Has(Tail(s), e)
  <2>1. Has(<<Head(s)>>, e) = IF s[1] = e THEN 1 ELSE 0
    BY <1>1 DEF Has, At
  <2>2. CASE s[1] = e
    <3>1. At(Tail(s), e) = {}
      <4> SUFFICES ASSUME NEW n \in 1..(Len(s) - 1), s[n + 1] = e PROVE FALSE
        BY <1>1 DEF At
      <4>1. s[n + 1].id = s[1].id /\ n + 1 \in DOMAIN s /\ 1 \in DOMAIN s
        BY <1>1, <2>2
      <4>2. n + 1 = 1
        BY <4>1 DEF Distinct
      <4> QED
        BY <4>2
    <3>2. 1 \in At(s, e)
      BY <1>1, <2>2 DEF At
    <3> QED
      BY <2>1, <2>2, <3>1, <3>2 DEF Has
  <2>3. CASE s[1] # e
    <3>1. ASSUME NEW n \in At(s, e) PROVE n - 1 \in At(Tail(s), e)
      <4>1. n - 1 \in 1..(Len(s) - 1) /\ (n - 1) + 1 = n /\ s[n] = e
        BY <1>1, <2>3 DEF At
      <4> QED
        BY <1>1, <4>1 DEF At
    <3>2. ASSUME NEW n \in At(Tail(s), e) PROVE n + 1 \in At(s, e)
      BY <1>1 DEF At
    <3>3. At(s, e) = {} <=> At(Tail(s), e) = {}
      BY <3>1, <3>2
    <3> QED
      BY <2>1, <2>3, <3>3 DEF Has
  <2> QED
    BY <2>2, <2>3
<1>4. \A t, e : Has(t, e) \in {0, 1}
  BY DEF Has
<1>5. Sign(s, i) = Sign(<<Head(s)>>, i) + Sign(Tail(s), i)
  BY <1>3, <1>4 DEF Sign
<1> QED
  BY <1>1, <1>2, <1>5

(* What is on its way differs at q alone.                                *)
OnlyAt(q, way, way2) ==
  /\ \A p \in Procs : Distinct(way[p])
  /\ Distinct(way2[q])
  /\ \A p \in Procs \ {q} : way2[p] = way[p]

(* BalanceMoves, with names for the integers in it.                      *)
LEMMA BalanceShifts ==
  ASSUME NEW way, NEW way2, NEW i, NEW q \in Procs, OnlyAt(q, way, way2)
  PROVE  \E x \in Int, y \in Int, z \in Int :
           /\ x = Balance(way, i) /\ y = Sign(way[q], i) /\ z = Sign(way2[q], i)
           /\ Balance(way2, i) = x + z - y
<1>1. /\ Balance(way, i) \in Int
      /\ Balance(way2, i) = Balance(way, i) + Sign(way2[q], i) - Sign(way[q], i)
  BY BalanceMoves DEF OnlyAt
<1>2. Sign(way[q], i) \in {-1, 0, 1} /\ Sign(way2[q], i) \in {-1, 0, 1}
  BY SignType
<1> QED
  BY <1>1, <1>2

(* A balance is an integer.                                              *)
LEMMA BalanceType ==
  ASSUME NEW way, NEW i, \A p \in Procs : Distinct(way[p])
  PROVE  Balance(way, i) \in Int
<1>1. \A e : Once(way, e)
  BY DistinctOnce DEF Once
<1>2. ASSUME NEW e PROVE Cardinality(Flying(way, e)) \in Nat
  <2>1. Once(way, e)
    BY <1>1
  <2> QED
    BY <2>1, FlyingCount
<1> QED
  BY <1>2 DEF Balance

(* What a watcher has been sent adds up to an integer.                   *)
LEMMA NetType == ASSUME NEW s \in Seq(Event), NEW i PROVE Net(s, i) \in Int
<1>1. ASSUME NEW e PROVE Cardinality(At(s, e)) \in Nat
  <2>1. IsFiniteSet(1..Len(s)) /\ At(s, e) \in SUBSET (1..Len(s))
    BY FS_Interval DEF At
  <2> QED
    BY <2>1, FS_Subset, FS_CardinalityType
<1> QED
  BY <1>1 DEF Net

(* The equation of EventBalance, for one watcher and one instance.       *)
Balanced(w, i) == base[w][i] + Net(events[w], i) + Balance(OnTheWay(w), i) = server[i]

(* EventBalance is that equation for every watcher without losses.       *)
LEMMA BalanceIs ==
  EventBalance <=> (kind = "memory" => \A w \in watchers \ full, i \in Instances : Balanced(w, i))
BY DEF EventBalance, Balanced, Pending, Balance

(* On the way to a watcher, too, a goroutine has no instance twice.      *)
LEMMA WayDistinct ==
  ASSUME MemTyped, OneEach, NEW w
  PROVE  \A p \in Procs : Distinct(OnTheWay(w)[p])
<1> SUFFICES ASSUME NEW p \in Procs PROVE Distinct(OnTheWay(w)[p])
  OBVIOUS
<1>1. CASE pc[p] = "send" /\ w \notin targets[p]
  <2>1. evs[p] \in Seq(Event) /\ evs[p] # <<>> /\ Distinct(evs[p])
    BY <1>1 DEF MemTyped, OneEach
  <2>2. Distinct(Tail(evs[p]))
    BY <2>1, SignHeadTail
  <2> QED
    BY <1>1, <2>2 DEF OnTheWay
<1>2. CASE ~(pc[p] = "send" /\ w \notin targets[p])
  BY <1>2 DEF OnTheWay, OneEach
<1> QED
  BY <1>1, <1>2

(* At first nothing is on its way.                                       *)
LEMMA MemStarts == ASSUME Init PROVE MemInv
<1>1. pc \in [Procs -> {"idle", "none"}] /\ evs = [p \in Procs |-> <<>>]
  BY DEF Init
<1>2. None \in [Instances -> {0, 1}] /\ None \in [Instances -> Int]
  BY DEF None
<1>3. <<>> \in Seq(Event)
  OBVIOUS
<1>4. /\ evs \in [Procs -> Seq(Event)] /\ events \in [Watchers -> Seq(Event)]
      /\ \A w \in Watchers : events[w] = <<>>
  BY <1>1, <1>3 DEF Init
<1>5. /\ targets \in [Procs -> SUBSET made] /\ watchers \subseteq made /\ made \subseteq Watchers
      /\ watchers = {}
  BY DEF Init
<1>6. MemTyped
  BY <1>1, <1>2, <1>4, <1>5 DEF Init, MemTyped, Labels
<1>7. OneEach
  BY <1>1, SignEmpty DEF OneEach
<1>8. EventBalance
  BY <1>5 DEF EventBalance
<1> QED
  BY <1>6, <1>7, <1>8 DEF MemInv

(* Steps that send nothing and change nothing in the table. Reading the  *)
(* watchers is one of them: whoever is on the table is read.             *)
LEMMA MemKept ==
  ASSUME MemTyped, OneEach, EventBalance, kind = "memory",
         UNCHANGED <<kind, evs, server, base, events, made>>,
         pc' \in [Procs -> Labels], targets' \in [Procs -> SUBSET made],
         \A p \in Procs : pc'[p] \in {"notify", "send"} <=> pc[p] \in {"notify", "send"},
         \A w \in watchers', p \in Procs :
            pc'[p] = "send" /\ w \notin targets'[p] <=> pc[p] = "send" /\ w \notin targets[p],
         watchers' \subseteq watchers, full \subseteq full'
  PROVE  MemInv'
<1>1. MemTyped'
  BY DEF MemTyped
<1>2. OneEach'
  BY DEF OneEach
<1>3. \A w \in watchers' : OnTheWay(w)' = OnTheWay(w)
  BY DEF OnTheWay
<1>4. \A w \in watchers \ full, i \in Instances : Balanced(w, i)
  BY BalanceIs
<1>5. \A w \in watchers' \ full', i \in Instances : Balanced(w, i)'
  BY <1>3, <1>4 DEF Balanced
<1>6. EventBalance'
  BY <1>5 DEF EventBalance, Balanced, Pending, Balance
<1> QED
  BY <1>1, <1>2, <1>6 DEF MemInv

(* A change of the table under the lock puts the events that tell of it  *)
(* on the list of the goroutine that made it.                            *)
LEMMA MemReports ==
  ASSUME MemTyped, OneEach, EventBalance, kind = "memory", NEW q \in Procs,
         pc[q] \notin {"notify", "send"}, NEW s \in Seq(Event), Distinct(s),
         NEW at \in Labels \ {"send"}, at = "notify" <=> s # <<>>,
         pc' = [pc EXCEPT ![q] = at], evs' = [evs EXCEPT ![q] = s],
         server' \in [Instances -> {0, 1}],
         \A i \in Instances : server'[i] = server[i] + Sign(s, i),
         UNCHANGED <<kind, targets, base, events, made, watchers, full>>
  PROVE  MemInv'
<1>1. MemTyped'
  BY DEF MemTyped
<1>2. /\ pc'[q] = at /\ evs'[q] = s /\ evs[q] = <<>>
      /\ \A p \in Procs \ {q} : pc'[p] = pc[p] /\ evs'[p] = evs[p]
  BY DEF MemTyped, OneEach
<1>3. OneEach'
  BY <1>2 DEF OneEach
<1>4. ASSUME NEW w \in watchers \ full, NEW i \in Instances PROVE Balanced(w, i)'
  <2>1. Balanced(w, i)
    BY BalanceIs
  <2>2. w \in Watchers /\ events[w] \in Seq(Event)
    BY DEF MemTyped
  <2>3. /\ Net(events[w], i) \in Int /\ base[w][i] \in Int
        /\ server[i] \in Int /\ server'[i] \in Int
    BY <2>2, NetType DEF MemTyped
  <2>4. PICK way : way = OnTheWay(w)
    OBVIOUS
  <2>5. PICK way2 : way2 = OnTheWay(w)'
    OBVIOUS
  <2>6. way[q] = <<>> /\ way2[q] = s /\ \A p \in Procs \ {q} : way2[p] = way[p]
    BY <1>2, <2>4, <2>5 DEF OnTheWay
  <2>7. \A p \in Procs : Distinct(way[p])
    BY <2>4, WayDistinct
  <2>8. Distinct(way2[q])
    BY <2>6
  <2>9. OnlyAt(q, way, way2)
    BY <2>6, <2>7, <2>8 DEF OnlyAt
  <2>10. PICK x \in Int, y \in Int, z \in Int :
           /\ x = Balance(way, i) /\ y = Sign(way[q], i) /\ z = Sign(way2[q], i)
           /\ Balance(way2, i) = x + z - y
    BY <2>9, BalanceShifts
  <2>11. y = 0 /\ server'[i] = server[i] + z
    BY <2>6, <2>10, SignEmpty
  <2>12. base[w][i] + Net(events[w], i) + Balance(way2, i) = server'[i]
    <3>1. base[w][i] + Net(events[w], i) + x = server[i]
      BY <2>1, <2>4, <2>10 DEF Balanced
    <3>2. Balance(way2, i) = x + z
      BY <2>10, <2>11
    <3> QED
      BY <2>3, <2>11, <3>1, <3>2
  <2>13. (base[w][i] + Net(events[w], i) + Balance(OnTheWay(w), i) = server[i])'
    BY <2>5, <2>12 DEF Balance, Flying, Net, Change
  <2> QED
    BY <2>13 DEF Balanced
<1>5. EventBalance'
  BY <1>4 DEF EventBalance, Balanced, Pending, Balance
<1> QED
  BY <1>1, <1>3, <1>5 DEF MemInv

(* The event moves from the list into the channels of the watchers read  *)
(* before; for the others it is gone already.                            *)
LEMMA MemNotify ==
  ASSUME MemTyped, OneEach, EventBalance, kind = "memory", NEW q \in Procs, M_notify(q)
  PROVE  MemInv'
<1>1. /\ pc[q] = "send" /\ UNCHANGED <<kind, server, base, made, watchers>>
      /\ Deliver(targets[q], Head(evs[q]))
      /\ targets' = [targets EXCEPT ![q] = {}] /\ evs' = [evs EXCEPT ![q] = Tail(evs[q])]
      /\ \E at \in {"notify", "loop", "idle"} :
           pc' = [pc EXCEPT ![q] = at] /\ (at = "notify" <=> Len(evs[q]) > 1)
  BY DEF M_notify, books, watch, MemTyped
<1>2. PICK s, e : s = evs[q] /\ e = Head(evs[q])
  OBVIOUS
<1>3. s \in Seq(Event) /\ s # <<>> /\ Distinct(s)
  BY <1>1, <1>2 DEF MemTyped, OneEach
<1>4. /\ e \in Event /\ Tail(s) \in Seq(Event) /\ Distinct(Tail(s))
      /\ \A i : Sign(s, i) = Sign(<<e>>, i) + Sign(Tail(s), i)
  BY <1>2, <1>3, SignHeadTail
<1>5. /\ pc'[q] # "send" /\ (pc'[q] = "notify" <=> Tail(s) # <<>>) /\ evs'[q] = Tail(s)
      /\ \A p \in Procs \ {q} : pc'[p] = pc[p] /\ evs'[p] = evs[p] /\ targets'[p] = targets[p]
      /\ pc' \in [Procs -> Labels]
  <2>1. Len(s) > 1 <=> Tail(s) # <<>>
    BY <1>3
  <2> QED
    BY <1>1, <1>2, <2>1 DEF MemTyped, Labels
<1>6. ASSUME NEW w \in Watchers
      PROVE  events'[w] = IF w \in targets[q] /\ Room(w) THEN Append(events[w], e) ELSE events[w]
  BY <1>1, <1>2 DEF Deliver
<1>7. MemTyped'
  <2>1. events' \in [Watchers -> Seq(Event)]
    <3>1. DOMAIN events' = Watchers /\ events' = [w \in Watchers |-> events'[w]]
      BY <1>1 DEF Deliver
    <3>2. ASSUME NEW w \in Watchers PROVE events'[w] \in Seq(Event)
      <4>1. events[w] \in Seq(Event)
        BY DEF MemTyped
      <4>2. Append(events[w], e) \in Seq(Event)
        BY <1>4, <4>1
      <4> QED
        BY <1>6, <4>1, <4>2
    <3> QED
      BY <3>1, <3>2
  <2>2. \A w \in Watchers \ made : events'[w] = <<>>
    BY <1>6 DEF MemTyped
  <2>3. targets' \in [Procs -> SUBSET made] /\ evs' \in [Procs -> Seq(Event)]
    BY <1>1, <1>2, <1>4 DEF MemTyped
  <2> QED
    BY <1>1, <1>5, <2>1, <2>2, <2>3 DEF MemTyped
<1>8. OneEach'
  BY <1>4, <1>5 DEF OneEach
<1>9. ASSUME NEW w \in watchers \ full', NEW i \in Instances PROVE Balanced(w, i)'
  <2>1. w \in Watchers /\ w \notin full /\ events[w] \in Seq(Event)
    BY <1>1, <1>9 DEF MemTyped, Deliver
  <2>2. Balanced(w, i)
    BY <2>1, BalanceIs
  <2>3. Net(events[w], i) \in Int /\ base[w][i] \in Int /\ server[i] \in Int
    BY <2>1, NetType DEF MemTyped
  <2>4. PICK way : way = OnTheWay(w)
    OBVIOUS
  <2>5. PICK way2 : way2 = OnTheWay(w)'
    OBVIOUS
  <2>6. /\ way[q] = (IF w \in targets[q] THEN s ELSE Tail(s)) /\ way2[q] = Tail(s)
        /\ \A p \in Procs \ {q} : way2[p] = way[p]
    BY <1>1, <1>2, <1>5, <2>4, <2>5 DEF OnTheWay
  <2>7. \A p \in Procs : Distinct(way[p])
    BY <2>4, WayDistinct
  <2>8. OnlyAt(q, way, way2)
    BY <1>4, <2>6, <2>7 DEF OnlyAt
  <2>9. PICK x \in Int, y \in Int, z \in Int :
           /\ x = Balance(way, i) /\ y = Sign(way[q], i) /\ z = Sign(way2[q], i)
           /\ Balance(way2, i) = x + z - y
    BY <2>8, BalanceShifts
  <2>10. PICK n2 \in Int : n2 = Net(events'[w], i) /\ n2 + z = Net(events[w], i) + y
    <3>1. CASE w \in targets[q]
      <4>1. Room(w)
        BY <1>1, <1>9, <3>1 DEF Deliver
      <4>2. events'[w] = Append(events[w], e)
        BY <1>6, <2>1, <3>1, <4>1
      <4>3. Net(Append(events[w], e), i) = Net(events[w], i) + Sign(<<e>>, i)
        BY <1>4, <2>1, NetAppend
      <4>4. Sign(<<e>>, i) \in {-1, 0, 1}
        BY SignType
      <4>5. y = Sign(<<e>>, i) + z
        BY <1>4, <2>6, <2>9, <3>1
      <4>6. PICK n \in Int, d \in Int : n = Net(events[w], i) /\ d = Sign(<<e>>, i)
        BY <2>3, <4>4
      <4>7. Net(events'[w], i) = n + d /\ y = d + z
        BY <4>2, <4>3, <4>5, <4>6
      <4>8. n + d \in Int /\ (n + d) + z = n + y
        BY <4>7
      <4> QED
        BY <4>6, <4>7, <4>8
    <3>2. CASE w \notin targets[q]
      <4>1. events'[w] = events[w]
        BY <1>6, <2>1, <3>2
      <4>2. y = z
        BY <2>6, <2>9, <3>2
      <4> QED
        BY <2>3, <4>1, <4>2
    <3> QED
      BY <3>1, <3>2
  <2>11. base[w][i] + n2 + Balance(way2, i) = server[i]
    <3>1. base[w][i] + Net(events[w], i) + x = server[i]
      BY <2>2, <2>4, <2>9 DEF Balanced
    <3> QED
      BY <2>3, <2>9, <2>10, <3>1
  <2>12. (base[w][i] + Net(events[w], i) + Balance(OnTheWay(w), i) = server[i])'
    BY <1>1, <2>5, <2>10, <2>11 DEF Balance, Flying, Net, Change
  <2> QED
    BY <2>12 DEF Balanced
<1>10. EventBalance'
  BY <1>1, <1>9 DEF EventBalance, Balanced, Pending, Balance
<1> QED
  BY <1>7, <1>8, <1>10 DEF MemInv

(* Register and Deregister report the change they make.                  *)
LEMMA MemChange ==
  ASSUME MemTyped, OneEach, EventBalance, kind = "memory", NEW c \in Callers, NEW i \in Instances,
         M_Register(c, i) \/ M_Deregister(c, i)
  PROVE  MemInv'
<1>1. /\ c \in Procs /\ pc[c] = "idle"
      /\ UNCHANGED <<kind, targets, base, events, made, watchers, full>>
      /\ pc' = [pc EXCEPT ![c] = "notify"]
  BY DEF M_Register, M_Deregister, Call, Procs, watch, chans
<1>2. PICK type \in Types, v \in {0, 1} :
        /\ evs' = [evs EXCEPT ![c] = <<Change(type, i)>>] /\ server' = [server EXCEPT ![i] = v]
        /\ v = server[i] + (IF type = "create" THEN 1 ELSE IF type = "delete" THEN -1 ELSE 0)
  <2>1. server[i] \in {0, 1}
    BY DEF MemTyped
  <2>2. CASE M_Register(c, i)
    <3>1. CASE server[i] = 0
      BY <2>2, <3>1 DEF M_Register, Change, Types
    <3>2. CASE server[i] = 1
      BY <2>2, <3>2 DEF M_Register, Change, Types
    <3> QED
      BY <2>1, <3>1, <3>2
  <2>3. CASE M_Deregister(c, i)
    <3>1. server[i] = 1
      BY <2>1, <2>3 DEF M_Deregister
    <3> QED
      BY <2>3, <3>1 DEF M_Deregister, Change, Types
  <2> QED
    BY <2>2, <2>3
<1>3. PICK s : s = <<Change(type, i)>>
  OBVIOUS
<1>4. s \in Seq(Event) /\ s # <<>> /\ Distinct(s)
  <2>1. Change(type, i) \in Event
    BY DEF Change, Event
  <2> QED
    BY <1>3, <2>1, SignOne
<1>5. server' \in [Instances -> {0, 1}]
  BY <1>2 DEF MemTyped
<1>6. ASSUME NEW j \in Instances PROVE server'[j] = server[j] + Sign(s, j)
  <2>1. server[j] \in {0, 1} /\ server'[j] = IF j = i THEN v ELSE server[j]
    BY <1>2 DEF MemTyped
  <2>2. Sign(s, j) = IF j # i THEN 0 ELSE IF type = "create" THEN 1
                     ELSE IF type = "delete" THEN -1 ELSE 0
    BY <1>3, SignOne
  <2> QED
    BY <1>2, <2>1, <2>2
<1>7. "notify" \in Labels \ {"send"}
  BY DEF Labels
<1> QED
  BY <1>1, <1>2, <1>3, <1>4, <1>5, <1>6, <1>7, MemReports

(* A new watcher starts from the table as it is, less what it will still *)
(* hear of changes made before.                                          *)
LEMMA MemWatch ==
  ASSUME MemTyped, OneEach, EventBalance, kind = "memory", NEW w \in Watchers, M_Watch(w)
  PROVE  MemInv'
<1>1. /\ w \notin made /\ made' = made \cup {w} /\ watchers' = watchers \cup {w}
      /\ base' = [base EXCEPT ![w] = [i \in Instances |-> server[i] - Pending(w, i)]]
      /\ UNCHANGED <<kind, server, events, full, pc, evs, targets>>
  BY DEF M_Watch, books, chans, procs
<1>2. ASSUME NEW i \in Instances PROVE Pending(w, i) \in Int /\ Pending(w, i) = Balance(OnTheWay(w), i)
  <2>1. PICK way : way = OnTheWay(w)
    OBVIOUS
  <2>2. Balance(way, i) \in Int
    BY <2>1, WayDistinct, BalanceType
  <2> QED
    BY <2>1, <2>2 DEF Pending, Balance
<1>3. [i \in Instances |-> server[i] - Pending(w, i)] \in [Instances -> Int]
  <2>1. ASSUME NEW i \in Instances PROVE server[i] - Pending(w, i) \in Int
    <3>1. server[i] \in Int
      BY DEF MemTyped
    <3> QED
      BY <1>2, <3>1
  <2> QED
    BY <2>1
<1>4. MemTyped'
  <2>1. base' \in [Watchers -> [Instances -> Int]]
    BY <1>1, <1>3 DEF MemTyped
  <2> QED
    BY <1>1, <2>1 DEF MemTyped
<1>5. OneEach'
  BY <1>1 DEF OneEach
<1>6. \A u : OnTheWay(u)' = OnTheWay(u)
  BY <1>1 DEF OnTheWay
<1>7. ASSUME NEW u \in watchers' \ full', NEW i \in Instances PROVE Balanced(u, i)'
  <2>1. CASE u = w
    <3>1. events[w] = <<>> /\ base'[w][i] = server[i] - Pending(w, i) /\ server[i] \in Int
      BY <1>1 DEF MemTyped
    <3>2. Net(<<>>, i) = 0
      <4>1. \A e : At(<<>>, e) = {}
        BY DEF At
      <4>2. Cardinality({}) = 0
        BY FS_EmptySet
      <4>3. \A e : Cardinality(At(<<>>, e)) = 0
        BY <4>1, <4>2
      <4> QED
        BY <4>3 DEF Net
    <3>3. base'[w][i] + Net(events[w], i) + Balance(OnTheWay(w), i) = server[i]
      BY <1>2, <3>1, <3>2
    <3> QED
      BY <1>1, <1>6, <2>1, <3>3 DEF Balanced
  <2>2. CASE u # w
    <3>1. u \in watchers \ full /\ u \in Watchers
      BY <1>1, <1>7, <2>2 DEF MemTyped
    <3>2. Balanced(u, i)
      BY <3>1, BalanceIs
    <3>3. base'[u] = base[u]
      BY <1>1, <2>2, <3>1 DEF MemTyped
    <3> QED
      BY <1>1, <1>6, <3>2, <3>3 DEF Balanced
  <2> QED
    BY <2>1, <2>2
<1>8. EventBalance'
  BY <1>7 DEF EventBalance, Balanced, Pending, Balance
<1> QED
  BY <1>4, <1>5, <1>8 DEF MemInv

(* cleanup reports every instance it removes, and each one once.         *)
LEMMA MemCleanup ==
  ASSUME MemTyped, OneEach, EventBalance, kind = "memory", NEW g \in Loops, M_cleanup(g)
  PROVE  MemInv'
<1> DEFINE gone == {i \in Instances : server[i] # 0 /\ i \notin kept}
<1>1. /\ g \in Procs /\ pc[g] = "sweep"
      /\ server' = [i \in Instances |-> IF i \in gone THEN 0 ELSE server[i]]
      /\ pc' = [pc EXCEPT ![g] = IF gone = {} THEN "loop" ELSE "notify"]
      /\ UNCHANGED <<kind, targets, base, events, made, watchers, full>>
  BY DEF M_cleanup, Procs, watch, chans
<1>2. PICK f \in [1..Cardinality(gone) -> gone] :
        /\ \A i \in gone : \E k \in DOMAIN f : f[k] = i
        /\ evs' = [evs EXCEPT ![g] = [k \in DOMAIN f |-> [type |-> "delete", id |-> f[k]]]]
  BY DEF M_cleanup
<1>3. IsFiniteSet(gone) /\ gone \in SUBSET Instances
  <2>1. gone \in SUBSET Instances
    OBVIOUS
  <2> QED
    BY <2>1, FiniteAssumption, FS_Subset DEF FiniteAssumption
<1>4. \A i \in Instances : server[i] \in {0, 1} /\ (i \in gone => server[i] = 1)
  BY DEF MemTyped
<1> HIDE DEF gone
<1>5. PICK n \in Nat : n = Cardinality(gone) /\ (gone = {} <=> n = 0)
  BY <1>3, FS_CardinalityType, FS_EmptySet
<1>6. \A k, l \in 1..n : f[k] = f[l] => k = l
  <2>1. IsFiniteSet(1..n) /\ Cardinality(1..n) = n
    BY FS_Interval
  <2>2. f \in Surjection(1..n, gone)
    BY <1>2, <1>5 DEF Surjection
  <2>3. f \in Injection(1..n, gone)
    BY <1>5, <2>1, <2>2, FS_Surjection
  <2> QED
    BY <2>3 DEF Injection, IsInjective
<1>7. PICK s : s = [k \in 1..n |-> Change("delete", f[k])]
  OBVIOUS
<1>8. evs' = [evs EXCEPT ![g] = s] /\ DOMAIN s = 1..n
  BY <1>2, <1>5, <1>7 DEF Change
<1>9. \A k \in 1..n : s[k] = Change("delete", f[k]) /\ s[k] \in Event /\ s[k].id = f[k]
  BY <1>2, <1>3, <1>5, <1>7 DEF Change, Event, Types
<1>10. s \in Seq(Event) /\ (s # <<>> <=> gone # {})
  <2>1. s \in Seq(Event) /\ Len(s) = n
    BY <1>7, <1>9
  <2> QED
    BY <1>5, <2>1
<1>11. Distinct(s)
  BY <1>6, <1>8, <1>9 DEF Distinct
<1>12. ASSUME NEW i \in Instances PROVE Sign(s, i) = IF i \in gone THEN -1 ELSE 0
  <2>1. At(s, Change("create", i)) = {}
    BY <1>8, <1>9 DEF At, Change
  <2>2. At(s, Change("delete", i)) = {} <=> i \notin gone
    <3>1. ASSUME NEW k \in 1..n PROVE s[k] = Change("delete", i) <=> f[k] = i
      <4>1. s[k] = Change("delete", f[k]) /\ Change("delete", i).id = i /\ s[k].id = f[k]
        BY <1>9 DEF Change
      <4> QED
        BY <4>1
    <3>2. \A k \in 1..n : f[k] \in gone
      BY <1>2, <1>5
    <3>3. i \in gone => \E k \in 1..n : f[k] = i
      BY <1>2, <1>5
    <3> QED
      BY <1>8, <3>1, <3>2, <3>3 DEF At
  <2> QED
    BY <2>1, <2>2 DEF Sign, Has
<1>13. server' \in [Instances -> {0, 1}] /\ \A i \in Instances : server'[i] = server[i] + Sign(s, i)
  BY <1>1, <1>4, <1>12
<1>14. PICK at \in {"loop", "notify"} : pc' = [pc EXCEPT ![g] = at] /\ (at = "notify" <=> gone # {})
  BY <1>1
<1>15. at \in Labels \ {"send"} /\ (at = "notify" <=> s # <<>>)
  BY <1>10, <1>14 DEF Labels
<1> QED
  BY <1>1, <1>8, <1>10, <1>11, <1>13, <1>14, <1>15, MemReports

(* The steps that neither change the table nor send.                     *)
LEMMA MemQuiet ==
  ASSUME MemTyped, OneEach, EventBalance, kind = "memory",
         \/ UNCHANGED vars
         \/ \E w \in Watchers : Next_Event(w) \/ Next_Stopped(w) \/ Stop(w)
         \/ \E c \in Callers : M_Connect(c) \/ M_StopWatchers(c)
         \/ \E p \in Procs : M_snapshotWatchers(p)
         \/ \E i \in Instances : M_Expire(i)
         \/ \E g \in Loops : M_tick(g)
  PROVE  MemInv'
<1>1. CASE UNCHANGED vars \/ (\E w \in Watchers : Next_Event(w) \/ Next_Stopped(w) \/ Stop(w))
           \/ \E i \in Instances : M_Expire(i)
  <2>1. /\ UNCHANGED <<kind, evs, server, base, events, made, full, pc, targets>>
        /\ watchers' \subseteq watchers
    BY <1>1 DEF vars, Next_Event, Next_Stopped, Stop, M_Expire, books, chans, procs, watch
  <2> QED
    BY <2>1, MemKept DEF MemTyped
<1>2. ASSUME NEW q \in Procs, NEW at \in {"loop", "idle", "sweep", "none"},
             pc[q] \notin {"notify", "send"}, pc' = [pc EXCEPT ![q] = at],
             targets' = targets \/ targets' = [targets EXCEPT ![q] = {}],
             UNCHANGED <<kind, evs, server, base, events, made, full, watchers>>
      PROVE  MemInv'
  <2>1. pc' \in [Procs -> Labels] /\ targets' \in [Procs -> SUBSET made]
    BY <1>2 DEF MemTyped, Labels
  <2>2. /\ pc'[q] = at
        /\ \A p \in Procs \ {q} : pc'[p] = pc[p] /\ targets'[p] = targets[p]
    BY <1>2 DEF MemTyped
  <2> QED
    BY <1>2, <2>1, <2>2, MemKept
<1>3. CASE \E c \in Callers : M_Connect(c) \/ M_StopWatchers(c)
  <2>1. PICK c \in Callers : M_Connect(c) \/ M_StopWatchers(c)
    BY <1>3
  <2>2. CASE M_Connect(c)
    <3>1. PICK g \in Loops : pc[g] = "none" /\ pc' = [pc EXCEPT ![g] = "loop"]
      BY <2>2 DEF M_Connect, StartLoop
    <3>2. UNCHANGED <<kind, evs, server, base, events, made, full, watchers, targets>>
      BY <2>2 DEF M_Connect, books, watch, chans
    <3> QED
      BY <1>2, <3>1, <3>2 DEF Procs
  <2>3. CASE M_StopWatchers(c)
    <3>1. /\ c \in Procs /\ pc[c] = "closing" /\ pc' = [pc EXCEPT ![c] = "idle"]
          /\ targets' = [targets EXCEPT ![c] = {}]
          /\ UNCHANGED <<kind, evs, server, base, events, made, full, watchers>>
      BY <2>3 DEF M_StopWatchers, books, chans, Procs
    <3> QED
      BY <1>2, <3>1
  <2> QED
    BY <2>1, <2>2, <2>3
<1>4. CASE \E g \in Loops : M_tick(g)
  <2>1. PICK g \in Loops : M_tick(g)
    BY <1>4
  <2>2. /\ g \in Procs /\ pc[g] = "loop"
        /\ \E at \in {"sweep", "none"} : pc' = [pc EXCEPT ![g] = at]
        /\ UNCHANGED <<kind, evs, server, base, events, made, full, watchers, targets>>
    BY <2>1 DEF M_tick, books, watch, chans, Procs
  <2> QED
    BY <1>2, <2>2
<1>5. CASE \E p \in Procs : M_snapshotWatchers(p)
  <2>1. PICK q \in Procs : M_snapshotWatchers(q)
    BY <1>5
  <2>2. /\ pc[q] = "notify" /\ pc' = [pc EXCEPT ![q] = "send"]
        /\ targets' = [targets EXCEPT ![q] = watchers]
        /\ UNCHANGED <<kind, evs, server, base, events, made, full, watchers>>
    BY <2>1 DEF M_snapshotWatchers, books, watch, chans
  <2>3. pc' \in [Procs -> Labels] /\ targets' \in [Procs -> SUBSET made]
    BY <2>2 DEF MemTyped, Labels
  <2>4. /\ pc'[q] = "send" /\ targets'[q] = watchers
        /\ \A p \in Procs \ {q} : pc'[p] = pc[p] /\ targets'[p] = targets[p]
    BY <2>2 DEF MemTyped
  <2>5. \A w \in watchers', p \in Procs :
           pc'[p] = "send" /\ w \notin targets'[p] <=> pc[p] = "send" /\ w \notin targets[p]
    BY <2>2, <2>4
  <2>6. \A p \in Procs : pc'[p] \in {"notify", "send"} <=> pc[p] \in {"notify", "send"}
    BY <2>2, <2>4
  <2> QED
    BY <2>2, <2>3, <2>5, <2>6, MemKept
<1> QED
  BY <1>1, <1>3, <1>4, <1>5

(* Close takes every watcher off the table.                              *)
LEMMA MemClose ==
  ASSUME MemTyped, OneEach, kind = "memory", NEW c \in Callers, M_Close(c)
  PROVE  MemInv'
<1>1. /\ c \in Procs /\ pc[c] = "idle" /\ pc' = [pc EXCEPT ![c] = "closing"]
      /\ targets' = [targets EXCEPT ![c] = watchers] /\ watchers' = {} /\ server' = None
      /\ UNCHANGED <<kind, evs, base, events, made, full>>
  BY DEF M_Close, Call, Procs, chans
<1>2. None \in [Instances -> {0, 1}]
  BY DEF None
<1>3. MemTyped'
  BY <1>1, <1>2 DEF MemTyped, Labels
<1>4. pc'[c] = "closing" /\ \A p \in Procs \ {c} : pc'[p] = pc[p]
  BY <1>1 DEF MemTyped
<1>5. OneEach'
  BY <1>1, <1>4 DEF OneEach
<1>6. EventBalance'
  BY <1>1 DEF EventBalance
<1> QED
  BY <1>3, <1>5, <1>6 DEF MemInv

(* The other registries' actions are guarded by their kind.              *)
LEMMA OthersOnly ==
  ASSUME E_Next \/ C_Next \/ N_Next PROVE kind # "memory" /\ kind' = kind
<1>1. CASE C_Next \/ N_Next
  BY <1>1, ConsulNacosOnly
<1>2. CASE E_Next
  BY <1>2 DEF E_Next, E_Connect, E_Close, E_CloseClient, E_notify, E_Revoke, E_Register,
     E_Deregister, E_Expire, E_LoseKeepAlive, E_Watch, E_watchOpen, E_watchEvent, E_watchExit,
     E_watchGet, IsEtcd
<1> QED
  BY <1>1, <1>2

(* Every step keeps the balance.                                         *)
LEMMA MemStep == ASSUME MemInv, [Next]_vars PROVE MemInv'
<1>1. CASE kind # "memory"
  <2>1. kind' = kind
    BY <1>1, MemoryOnly, OthersOnly DEF Next, vars, Next_Event, Next_Stopped, Stop
  <2> QED
    BY <1>1, <2>1 DEF MemInv
<1>2. CASE kind = "memory"
  <2>1. MemTyped /\ OneEach /\ EventBalance
    BY <1>2 DEF MemInv
  <2>2. ~(E_Next \/ C_Next \/ N_Next)
    BY <1>2, OthersOnly
  <2> QED
    BY <1>2, <2>1, <2>2, MemQuiet, MemClose, MemChange, MemWatch, MemCleanup, MemNotify
       DEF Next, M_Next
<1> QED
  BY <1>1, <1>2

(* memory.go:88-137, 199-262: with any number of callers, instances,     *)
(* watchers and cleanup goroutines, events sent outside the lock may     *)
(* overtake each other, but what a watcher without losses has been sent  *)
(* and what is on its way to it add up to the difference between the     *)
(* table now and the table when it was created.                          *)
THEOREM RegistryEventBalance == Spec => []EventBalance
<1>1. MemInv => EventBalance
  BY DEF MemInv, EventBalance
<1> QED
  BY <1>1, MemStarts, MemStep, PTL DEF Spec
=============================================================================
