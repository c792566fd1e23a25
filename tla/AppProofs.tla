------------------------------ MODULE AppProofs ------------------------------
(***************************************************************************)
(* The safety properties of the application lifecycle, for every number of *)
(* callers and calls and every sequence of transports.  OneStart holds     *)
(* whatever the callers do.  The other properties hold while no Start or   *)
(* Stop began beside another one: then one caller at most is at work, and  *)
(* Phase says, for each point of Start, rollback and Stop, which of the    *)
(* transports listen and what the registry may advertise.                  *)
(***************************************************************************)
EXTENDS App, Integers, TLAPS

\* TypeOK but for the heartbeat goroutines, which no property here reads; only gRPC
\* transports load credentials when they start.
AppType ==
  /\ running \in BOOLEAN /\ starting \in BOOLEAN
  /\ pc \in [Callers -> Labels] /\ at \in [Callers -> 0..(N + 1)]
  /\ connected \in [Callers -> BOOLEAN] /\ failed \in [Callers -> BOOLEAN]
  /\ registry \in BOOLEAN /\ registered \subseteq T /\ busClosed \in BOOLEAN
  /\ built \subseteq T /\ listening \in [T -> {"no", "current", "orphan"}]
  /\ crashed \in BOOLEAN /\ raced \in BOOLEAN /\ tlsFailed \subseteq {t \in T : Kinds[t] = "grpc"}

\* Start and Stop have an index while they go through the transports, and it is that
\* of a transport when Start registers.
Reached ==
  \A c \in Callers : /\ pc[c] = "register" => at[c] \in T
                     /\ InStart(c) \/ pc[c] \in {"stopTransports", "stopWait"} => at[c] # 0

Clean(t) == listening[t] = "no" \/ (listening[t] = "orphan" /\ t \in tlsFailed)
Up(i)    == \A t \in T : t < i => listening[t] = "current"
Down(i)  == \A t \in T : t >= i => Clean(t)

\* Only what a transport's server field refers to listens, or a listener that the
\* failing credentials left open.
Owned == \A t \in T : /\ listening[t] = "current" => t \in built
                      /\ listening[t] = "orphan" => t \in tlsFailed

\* No call is under way.
Settled ==
  IF running THEN Up(N + 1) /\ ~busClosed
  ELSE Down(1) /\ registered = {} /\ ~registry

Disconnected(c) == ~connected[c] => registered = {} /\ ~registry
Before(i) == registered \subseteq {t \in T : t < i}

Phase(c) ==
  /\ pc[c] \in {"prepare", "connect"} => at[c] = 1 /\ Down(1) /\ registered = {} /\ ~registry
  /\ pc[c] = "startTransports" => Up(at[c]) /\ Down(at[c]) /\ Before(at[c]) /\ Disconnected(c)
  /\ pc[c] = "register" => Up(at[c] + 1) /\ Down(at[c] + 1) /\ Before(at[c]) /\ Disconnected(c)
  /\ pc[c] = "finish" => /\ Up(at[c]) /\ Down(at[c]) /\ Before(at[c]) /\ Disconnected(c)
                         /\ ~failed[c] => at[c] = N + 1 /\ ~busClosed
  /\ pc[c] \in {"rollback", "rollbackWait"} => Down(at[c] + 1) /\ Disconnected(c)
  /\ pc[c] = "closeRegistry" => Up(N + 1)
  /\ pc[c] \in {"stopTransports", "stopWait"} =>
       (\A t \in T : t < at[c] => Clean(t)) /\ registered = {} /\ ~registry

Alone == \A c, d \in Callers : pc[c] # "idle" /\ pc[d] # "idle" => c = d

Orderly ==
  /\ Alone /\ Owned
  /\ (\A c \in Callers : pc[c] = "idle") => Settled
  /\ \A c \in Callers : pc[c] # "idle" => ~running /\ Phase(c)

Quiet == ~raced /\ ~crashed => Orderly

AppInv == AppType /\ Reached /\ OneStart /\ Quiet

-----------------------------------------------------------------------------
\* The transports are numbered from 1 to N.
LEMMA Indices == N \in Nat /\ T = 1..N
BY AppAssumption DEF N, T

\* A new application is at rest.
LEMMA AInitInv == Init => AppInv
<1> SUFFICES ASSUME Init PROVE AppInv
  OBVIOUS
<1>1. AppType
  <2>1. pc \in [Callers -> Labels] /\ at \in [Callers -> 0..(N + 1)]
    BY Indices DEF Init, Labels
  <2>2. connected \in [Callers -> BOOLEAN] /\ failed \in [Callers -> BOOLEAN]
    BY DEF Init
  <2>3. listening \in [T -> {"no", "current", "orphan"}]
    BY DEF Init
  <2> QED
    BY <2>1, <2>2, <2>3 DEF Init, AppType
<1>2. Reached /\ OneStart
  BY DEF Init, Reached, OneStart, InStart
<1>3. Quiet
  BY DEF Init, Quiet, Orderly, Alone, Owned, Settled, Down, Clean
<1> QED
  BY <1>1, <1>2, <1>3 DEF AppInv

\* A step of one caller that changes no flag and neither enters nor leaves Start.
LEMMA FlagsKept ==
  ASSUME AppInv, UNCHANGED flags,
         \A d \in Callers : InStart(d)' <=> InStart(d)
  PROVE  OneStart'
BY DEF AppInv, OneStart, flags

\* A step of the one caller that is at work: what it must establish to keep the order.
LEMMA OneCallerMoves ==
  ASSUME AppInv, NEW c \in Callers, pc[c] # "idle", ~crashed, raced' = raced,
         NEW l \in Labels, pc' = [pc EXCEPT ![c] = l],
         ~raced /\ ~crashed' /\ Owned /\ ~running /\ Phase(c) =>
           /\ Owned'
           /\ l # "idle" => ~running' /\ Phase(c)'
           /\ l = "idle" => Settled'
  PROVE  Quiet'
<1> SUFFICES ASSUME ~raced, ~crashed' PROVE Orderly'
  BY DEF Quiet
<1>1. Orderly
  BY DEF AppInv, Quiet
<1>2. \A d \in Callers : d # c => pc[d] = "idle" /\ pc'[d] = "idle"
  BY <1>1 DEF AppInv, AppType, Orderly, Alone
<1>3. pc'[c] = l
  BY DEF AppInv, AppType
<1>4. Owned' /\ (l # "idle" => ~running' /\ Phase(c)') /\ (l = "idle" => Settled')
  BY <1>1 DEF Orderly
<1>5. Alone'
  BY <1>2 DEF Alone
<1>6. \A d \in Callers : pc'[d] # "idle" => ~running' /\ Phase(d)'
  <2> SUFFICES ASSUME NEW d \in Callers, pc'[d] # "idle" PROVE ~running' /\ Phase(d)'
    OBVIOUS
  <2>1. d = c
    BY <1>2
  <2> QED
    BY <2>1, <1>3, <1>4
<1> QED
  BY <1>3, <1>4, <1>5, <1>6 DEF Orderly

\* A step that changes neither listeners nor what Phase reads of them.
LEMMA ListenersKept ==
  ASSUME UNCHANGED <<listening, tlsFailed, built>>
  PROVE  /\ Owned => Owned'
         /\ \A i \in Int : Up(i)' <=> Up(i)
         /\ \A i \in Int : Down(i)' <=> Down(i)
         /\ \A t \in T : Clean(t)' <=> Clean(t)
BY DEF Owned, Up, Down, Clean, T

\* Start passes its guard, or returns at once.
LEMMA StartBeginInv ==
  ASSUME AppInv, NEW c \in Callers, StartBegin(c), ~crashed
  PROVE  AppInv'
<1> USE DEF frame, reg, trans
<1>1. pc[c] = "idle" /\ UNCHANGED <<running, reg, busClosed, trans>>
  BY DEF StartBegin
<1>2. CASE UNCHANGED <<starting, frame, raced>>
  <2>1. AppType' /\ Reached' /\ OneStart'
    BY <1>1, <1>2 DEF AppInv, AppType, Reached, OneStart, InStart, T, N
  <2>2. Quiet'
    BY <1>1, <1>2 DEF AppInv, Quiet, Orderly, Alone, Owned, Settled, Phase, Up, Down, Clean, Before,
                      Disconnected, T, N
  <2> QED
    BY <2>1, <2>2 DEF AppInv
<1>3. CASE /\ ~running /\ ~starting /\ starting' = TRUE /\ Enter(c, "prepare")
           /\ at' = [at EXCEPT ![c] = 1]
           /\ connected' = [connected EXCEPT ![c] = FALSE]
           /\ failed' = [failed EXCEPT ![c] = FALSE]
  <2>1. pc' = [pc EXCEPT ![c] = "prepare"] /\ raced' = (raced \/ Busy # {})
    BY <1>3 DEF Enter, Goto
  <2>2. AppType'
    <3>1. pc' \in [Callers -> Labels] /\ at' \in [Callers -> 0..(N + 1)]
      BY <1>3, <2>1, Indices DEF AppInv, AppType, Labels
    <3>2. connected' \in [Callers -> BOOLEAN] /\ failed' \in [Callers -> BOOLEAN]
      BY <1>3 DEF AppInv, AppType
    <3>3. raced' \in BOOLEAN
      BY <2>1 DEF AppInv, AppType
    <3> QED
      BY <1>1, <1>3, <3>1, <3>2, <3>3 DEF AppInv, AppType, T, N
  <2>3. Reached'
    BY <1>3, <2>1 DEF AppInv, AppType, Reached, InStart, T
  <2>4. OneStart'
    BY <1>1, <1>3, <2>1 DEF AppInv, AppType, OneStart, InStart
  <2>5. Quiet'
    <3> SUFFICES ASSUME ~raced', ~crashed' PROVE Orderly'
      BY DEF Quiet
    <3>1. ~raced /\ \A d \in Callers : pc[d] = "idle"
      BY <2>1 DEF Busy
    <3>2. Settled /\ Owned
      BY <1>1, <3>1 DEF AppInv, Quiet, Orderly
    <3>3. \A d \in Callers : d # c => pc'[d] = "idle"
      BY <3>1, <2>1 DEF AppInv, AppType
    <3>4. pc'[c] = "prepare" /\ at'[c] = 1
      BY <2>1, <1>3 DEF AppInv, AppType
    <3>5. Down(1) /\ registered = {} /\ ~registry
      BY <3>2, <1>3 DEF Settled
    <3>6. Phase(c)'
      BY <3>4, <3>5, <1>1, ListenersKept DEF Phase
    <3>7. Alone' /\ Owned' /\ ~running'
      BY <3>2, <3>3, <1>1, <1>3, ListenersKept DEF Alone
    <3> QED
      BY <3>3, <3>4, <3>6, <3>7 DEF Orderly
  <2> QED
    BY <2>2, <2>3, <2>4, <2>5 DEF AppInv
<1> QED
  BY <1>2, <1>3 DEF StartBegin

\* Stop passes its guard, or returns at once.
LEMMA StopBeginInv ==
  ASSUME AppInv, NEW c \in Callers, StopBegin(c), ~crashed
  PROVE  AppInv'
<1> USE DEF reg, trans
<1>1. pc[c] = "idle" /\ UNCHANGED <<starting, at, connected, failed, reg, busClosed, trans>>
  BY DEF StopBegin
<1>2. CASE UNCHANGED <<running, pc, raced>>
  <2>1. AppType' /\ Reached' /\ OneStart'
    BY <1>1, <1>2 DEF AppInv, AppType, Reached, OneStart, InStart, T, N
  <2>2. Quiet'
    BY <1>1, <1>2 DEF AppInv, Quiet, Orderly, Alone, Owned, Settled, Phase, Up, Down, Clean, Before,
                      Disconnected, T, N
  <2> QED
    BY <2>1, <2>2 DEF AppInv
<1>3. CASE running /\ running' = FALSE /\ Enter(c, "closeRegistry")
  <2>1. pc' = [pc EXCEPT ![c] = "closeRegistry"] /\ raced' = (raced \/ Busy # {})
    BY <1>3 DEF Enter, Goto
  <2>2. AppType'
    <3>1. pc' \in [Callers -> Labels]
      BY <2>1 DEF AppInv, AppType, Labels
    <3>2. raced' \in BOOLEAN
      BY <2>1 DEF AppInv, AppType
    <3> QED
      BY <1>1, <1>3, <3>1, <3>2 DEF AppInv, AppType, T, N
  <2>3. Reached'
    BY <1>1, <2>1 DEF AppInv, AppType, Reached, InStart, T
  <2>4. OneStart'
    BY <1>1, <1>3, <2>1 DEF AppInv, AppType, OneStart, InStart
  <2>5. Quiet'
    <3> SUFFICES ASSUME ~raced', ~crashed' PROVE Orderly'
      BY DEF Quiet
    <3>1. ~raced /\ \A d \in Callers : pc[d] = "idle"
      BY <2>1 DEF Busy
    <3>2. Settled /\ Owned
      BY <1>1, <3>1 DEF AppInv, Quiet, Orderly
    <3>3. \A d \in Callers : d # c => pc'[d] = "idle"
      BY <3>1, <2>1 DEF AppInv, AppType
    <3>4. pc'[c] = "closeRegistry"
      BY <2>1 DEF AppInv, AppType
    <3>5. Up(N + 1) /\ N + 1 \in Int
      BY <3>2, <1>3, Indices DEF Settled
    <3>6. Phase(c)'
      BY <3>4, <3>5, <1>1, ListenersKept DEF Phase, N
    <3>7. Alone' /\ Owned' /\ ~running'
      BY <3>2, <3>3, <1>1, <1>3, ListenersKept DEF Alone
    <3> QED
      BY <3>3, <3>4, <3>6, <3>7 DEF Orderly
  <2> QED
    BY <2>2, <2>3, <2>4, <2>5 DEF AppInv
<1> QED
  BY <1>2, <1>3 DEF StopBegin

\* logger.New and the before-start hooks.
LEMMA StartPrepareInv ==
  ASSUME AppInv, NEW c \in Callers, StartPrepare(c), ~crashed
  PROVE  AppInv'
<1> USE DEF flags, reg, trans
<1>1. pc[c] = "prepare" /\ UNCHANGED <<flags, at, connected, reg, busClosed, trans, raced>>
  BY DEF StartPrepare
<1>2. PICK l \in {"connect", "finish"} :
        /\ pc' = [pc EXCEPT ![c] = l]
        /\ failed' \in [Callers -> BOOLEAN] /\ (l = "finish" => failed'[c])
  BY DEF StartPrepare, Goto, AppInv, AppType
<1>3. l \in Labels /\ pc'[c] = l /\ \A d \in Callers : d # c => pc'[d] = pc[d]
  BY <1>2 DEF AppInv, AppType, Labels
<1>4. AppType'
  BY <1>1, <1>2, <1>3 DEF AppInv, AppType, T, N
<1>5. OneStart'
  BY <1>1, <1>2, <1>3, FlagsKept DEF InStart
<1>6. Quiet'
  <2> SUFFICES ASSUME ~raced, Owned, ~running, Phase(c)
               PROVE  Owned' /\ ~running' /\ Phase(c)'
    BY <1>1, <1>2, <1>3, OneCallerMoves
  <2>1. at[c] = 1 /\ Down(1) /\ registered = {} /\ ~registry
    BY <1>1 DEF Phase
  <2>2. Owned' /\ Up(1)' /\ Down(1)'
    BY <2>1, <1>1, ListenersKept, Indices DEF Up
  <2> QED
    BY <1>1, <1>2, <1>3, <2>1, <2>2 DEF Phase, Before, Disconnected
<1>7. Reached'
  BY <1>1, <1>3 DEF AppInv, Reached, InStart, T
<1> QED
  BY <1>4, <1>5, <1>6, <1>7 DEF AppInv

\* registry.Connect.
LEMMA StartConnectInv ==
  ASSUME AppInv, NEW c \in Callers, StartConnect(c), ~crashed
  PROVE  AppInv'
<1> USE DEF flags, trans
<1>1. /\ pc[c] = "connect" /\ UNCHANGED <<flags, at, failed, registered, busClosed, trans, raced>>
      /\ pc' = [pc EXCEPT ![c] = "startTransports"]
  BY DEF StartConnect, Goto
<1>2. connected' \in [Callers -> BOOLEAN] /\ registry' \in BOOLEAN /\ (connected'[c] \/ UNCHANGED registry)
  BY DEF StartConnect, AppInv, AppType
<1>3. pc'[c] = "startTransports" /\ \A d \in Callers : d # c => pc'[d] = pc[d]
  BY <1>1 DEF AppInv, AppType
<1>4. AppType'
  BY <1>1, <1>2, <1>3 DEF AppInv, AppType, Labels, T, N
<1>5. OneStart'
  BY <1>1, <1>3, FlagsKept DEF InStart
<1>6. Quiet'
  <2>0. "startTransports" \in Labels
    BY DEF Labels
  <2> SUFFICES ASSUME ~raced, Owned, ~running, Phase(c)
               PROVE  Owned' /\ ~running' /\ Phase(c)'
    BY <2>0, <1>1, <1>3, OneCallerMoves
  <2>1. at[c] = 1 /\ Down(1) /\ registered = {} /\ ~registry
    BY <1>1 DEF Phase
  <2>2. Owned' /\ Up(1)' /\ Down(1)'
    BY <2>1, <1>1, ListenersKept, Indices DEF Up
  <2> QED
    BY <1>1, <1>2, <1>3, <2>1, <2>2 DEF Phase, Before, Disconnected
<1>7. Reached'
  BY <1>1, <1>3 DEF AppInv, Reached, InStart, T
<1> QED
  BY <1>4, <1>5, <1>6, <1>7 DEF AppInv

\* A transport that has been started listens, if nothing did before; one that failed
\* leaves at most the listener of its credentials.
LEMMA TransportStarted ==
  ASSUME AppInv, NEW t \in T, NEW ok \in BOOLEAN,
         \/ ok /\ (StartHTTP(t) \/ StartWS(t) \/ StartGRPC(t))
         \/ ~ok /\ StartGRPCFails(t)
  PROVE  /\ listening' \in [T -> {"no", "current", "orphan"}] /\ built' \subseteq T /\ crashed' = crashed
         /\ tlsFailed' \subseteq {u \in T : Kinds[u] = "grpc"}
         /\ tlsFailed \subseteq tlsFailed' /\ built \subseteq built'
         /\ \A u \in T : u # t => listening'[u] = listening[u]
         /\ ok /\ Clean(t) => t \in built' /\ listening'[t] = "current"
         /\ ~ok /\ Clean(t) => Clean(t)'
<1>1. CASE StartGRPCFails(t) /\ ~ok
  BY <1>1 DEF AppInv, AppType, StartGRPCFails, Clean, T
<1>2. CASE ok /\ (StartHTTP(t) \/ StartWS(t) \/ StartGRPC(t))
  <2>1. /\ built' = built \cup {t} /\ UNCHANGED <<tlsFailed, crashed>>
        /\ listening' = [listening EXCEPT ![t] = IF listening[t] = "no" THEN "current" ELSE "orphan"]
    BY <1>2 DEF StartHTTP, StartWS, StartGRPC, Listen
  <2>2. Clean(t) => listening[t] = "no"
    BY <1>2 DEF StartHTTP, StartWS, StartGRPC, Clean, AppInv, AppType
  <2> QED
    BY <1>2, <2>1, <2>2 DEF AppInv, AppType
<1> QED
  BY <1>1, <1>2

\* Start of the next transport.
LEMMA StartTransportInv ==
  ASSUME AppInv, NEW c \in Callers, StartTransport(c), ~crashed
  PROVE  AppInv'
<1> USE DEF flags, reg
<1>1. /\ pc[c] = "startTransports" /\ at[c] \in T
      /\ UNCHANGED <<flags, at, connected, reg, busClosed, raced>>
  BY DEF StartTransport
<1>2. PICK ok \in BOOLEAN :
        /\ \/ ok /\ (StartHTTP(at[c]) \/ StartWS(at[c]) \/ StartGRPC(at[c]))
           \/ ~ok /\ StartGRPCFails(at[c])
        /\ pc' = [pc EXCEPT ![c] = IF ok THEN "register" ELSE "finish"]
        /\ failed' \in [Callers -> BOOLEAN] /\ (~ok => failed'[c])
  <2>1. CASE /\ StartHTTP(at[c]) \/ StartWS(at[c]) \/ StartGRPC(at[c])
             /\ Goto(c, "register") /\ UNCHANGED failed
    <3> WITNESS TRUE \in BOOLEAN
    <3> QED
      BY <2>1 DEF Goto, AppInv, AppType
  <2>2. CASE StartGRPCFails(at[c]) /\ Goto(c, "finish") /\ failed' = [failed EXCEPT ![c] = TRUE]
    <3> WITNESS FALSE \in BOOLEAN
    <3> QED
      BY <2>2 DEF Goto, AppInv, AppType
  <2> QED
    BY <2>1, <2>2 DEF StartTransport
<1> DEFINE l == IF ok THEN "register" ELSE "finish"
<1>3. l \in Labels /\ pc'[c] = l /\ \A d \in Callers : d # c => pc'[d] = pc[d]
  BY <1>2 DEF AppInv, AppType, Labels
<1>4. /\ listening' \in [T -> {"no", "current", "orphan"}] /\ built' \subseteq T /\ crashed' = crashed
      /\ tlsFailed' \subseteq {u \in T : Kinds[u] = "grpc"}
      /\ tlsFailed \subseteq tlsFailed' /\ built \subseteq built'
      /\ \A u \in T : u # at[c] => listening'[u] = listening[u]
      /\ ok /\ Clean(at[c]) => at[c] \in built' /\ listening'[at[c]] = "current"
      /\ ~ok /\ Clean(at[c]) => /\ at[c] \in T
                                /\ listening'[at[c]] = "no"
                                   \/ (listening'[at[c]] = "orphan" /\ at[c] \in tlsFailed')
  <2> DEFINE t == at[c]
  <2>1. ASSUME NEW t1 \in T, t1 = t PROVE Clean(t1)' <=> listening'[t1] = "no" \/ (listening'[t1] = "orphan" /\ t1 \in tlsFailed')
    BY DEF Clean
  <2> QED
    BY <1>1, <1>2, <2>1, TransportStarted
<1>5. AppType'
  <2>1. pc' \in [Callers -> Labels]
    BY <1>2, <1>3 DEF AppInv, AppType
  <2> QED
    BY <1>1, <1>2, <1>4, <2>1 DEF AppInv, AppType, T, N
<1>6. OneStart'
  <2>1. \A d \in Callers : InStart(d)' <=> InStart(d)
    BY <1>1, <1>3 DEF InStart
  <2> QED
    BY <1>1, <2>1, FlagsKept
<1>7. Reached'
  BY <1>1, <1>3 DEF AppInv, Reached, InStart, T
<1>8. Quiet'
  <2> HIDE DEF l
  <2>0. l # "idle"
    BY DEF l
  <2> SUFFICES ASSUME ~raced, Owned, ~running, Phase(c)
               PROVE  Owned' /\ ~running' /\ Phase(c)'
    BY <2>0, <1>1, <1>2, <1>3, OneCallerMoves DEF l
  <2> DEFINE t == at[c]
  <2>1. /\ Up(t) /\ Down(t) /\ Before(t) /\ Disconnected(c) /\ t \in T /\ t \in Int
        /\ t \in Nat
    BY <1>1, Indices DEF Phase
  <2>2. Clean(t)
    BY <2>1 DEF Down
  <2>3. at'[c] = t /\ UNCHANGED <<registered, registry, connected, running>>
    BY <1>1
  <2>4. Before(t)' /\ Disconnected(c)'
    BY <2>1, <2>3, <1>1 DEF Before, Disconnected, T
  <2> HIDE DEF t
  <2>5. CASE ok
    <3>1. t \in built' /\ listening'[t] = "current"
      BY <2>2, <2>5, <1>4 DEF t
    <3>2. \A u \in T : u < t + 1 => listening'[u] = "current"
      BY <2>1, <3>1, <1>4, Indices DEF Up, t
    <3>3. \A u \in T : u >= t + 1 => listening'[u] = "no" \/ (listening'[u] = "orphan" /\ u \in tlsFailed')
      BY <2>1, <1>4, Indices DEF Down, Clean, t
    <3>4. Owned'
      BY <3>1, <1>4 DEF Owned, t, T
    <3>5. pc'[c] = "register"
      BY <2>5, <1>3 DEF l
    <3> QED
      BY <3>2, <3>3, <3>4, <3>5, <2>3, <2>4 DEF Phase, Up, Down, Clean, t, T
  <2>6. CASE ~ok
    <3>1. listening'[t] = "no" \/ (listening'[t] = "orphan" /\ t \in tlsFailed')
      BY <2>2, <2>6, <1>4 DEF t
    <3>2. \A u \in T : u < t => listening'[u] = "current"
      BY <2>1, <1>4, Indices DEF Up, t
    <3>3. \A u \in T : u >= t => listening'[u] = "no" \/ (listening'[u] = "orphan" /\ u \in tlsFailed')
      BY <2>1, <3>1, <1>4, Indices DEF Down, Clean, t
    <3>4. Owned'
      BY <3>1, <1>4 DEF Owned, t, T
    <3>5. pc'[c] = "finish" /\ failed'[c]
      BY <2>6, <1>2, <1>3 DEF l
    <3> QED
      BY <3>2, <3>3, <3>4, <3>5, <2>3, <2>4 DEF Phase, Up, Down, Clean, t, T
  <2> QED
    BY <2>5, <2>6
<1> QED
  BY <1>5, <1>6, <1>7, <1>8 DEF AppInv

\* registry.Register of the transport just started.
LEMMA StartRegisterInv ==
  ASSUME AppInv, NEW c \in Callers, StartRegister(c), ~crashed
  PROVE  AppInv'
<1> USE DEF flags, trans
<1>1. /\ pc[c] = "register" /\ UNCHANGED <<flags, connected, failed, registry, busClosed, trans, raced>>
      /\ pc' = [pc EXCEPT ![c] = "startTransports"] /\ at' = [at EXCEPT ![c] = @ + 1]
  BY DEF StartRegister, Goto
<1>2. at[c] \in T /\ at[c] \in Nat /\ at[c] + 1 \in 1..(N + 1)
  BY <1>1, Indices DEF AppInv, Reached
<1>3. /\ registered' \subseteq registered \cup {at[c]}
      /\ registered' # registered => registry
  BY DEF StartRegister
<1>4. /\ pc'[c] = "startTransports" /\ at'[c] = at[c] + 1
      /\ \A d \in Callers : d # c => pc'[d] = pc[d] /\ at'[d] = at[d]
  BY <1>1 DEF AppInv, AppType
<1>5. AppType'
  <2>1. pc' \in [Callers -> Labels]
    BY <1>1 DEF AppInv, AppType, Labels
  <2>2. at' \in [Callers -> 0..(N + 1)]
    BY <1>1, <1>2, Indices DEF AppInv, AppType
  <2>3. registered' \subseteq T
    BY <1>2, <1>3 DEF AppInv, AppType
  <2> QED
    BY <1>1, <2>1, <2>2, <2>3 DEF AppInv, AppType, T, N
<1>6. OneStart'
  BY <1>1, <1>4, FlagsKept DEF InStart
<1>7. Reached'
  BY <1>2, <1>4 DEF AppInv, Reached, InStart, T
<1>8. Quiet'
  <2>0. "startTransports" \in Labels
    BY DEF Labels
  <2> SUFFICES ASSUME ~raced, Owned, ~running, Phase(c)
               PROVE  Owned' /\ ~running' /\ Phase(c)'
    BY <2>0, <1>1, OneCallerMoves
  <2> DEFINE i == at[c] + 1
  <2>1. Up(i) /\ Down(i) /\ Before(at[c]) /\ Disconnected(c) /\ i \in Int
    BY <1>1, <1>2 DEF Phase
  <2>2. Owned' /\ ~running'
    BY <1>1, ListenersKept
  <2>3. registered' \subseteq {t \in T : t < i}
    BY <2>1, <1>2, <1>3, Indices DEF Before
  <2>4. Disconnected(c)'
    BY <2>1, <1>1, <1>3 DEF Disconnected
  <2> HIDE DEF i
  <2>5. \A t \in T : t < i => listening'[t] = "current"
    BY <2>1, <1>1 DEF Up
  <2>6. \A t \in T : t >= i => listening'[t] = "no" \/ (listening'[t] = "orphan" /\ t \in tlsFailed')
    BY <2>1, <1>1 DEF Down, Clean
  <2>7. at'[c] = i
    BY <1>4 DEF i
  <2> QED
    BY <1>4, <2>2, <2>3, <2>4, <2>5, <2>6, <2>7 DEF Phase, Up, Down, Clean, Before, T
<1> QED
  BY <1>5, <1>6, <1>7, <1>8 DEF AppInv

\* The start event, which a closed bus refuses.
LEMMA StartPublishInv ==
  ASSUME AppInv, NEW c \in Callers, StartPublish(c), ~crashed
  PROVE  AppInv'
<1> USE DEF flags, reg, trans
<1>1. /\ pc[c] = "startTransports" /\ at[c] \notin T
      /\ UNCHANGED <<flags, at, connected, reg, busClosed, trans, raced>>
      /\ pc' = [pc EXCEPT ![c] = "finish"] /\ failed' = [failed EXCEPT ![c] = busClosed]
  BY DEF StartPublish, Goto
<1>2. at[c] = N + 1 /\ at[c] \in Int
  <2>1. at[c] \in 0..(N + 1) /\ at[c] # 0
    BY <1>1 DEF AppInv, AppType, Reached, InStart
  <2> QED
    BY <2>1, <1>1, Indices
<1>3. pc'[c] = "finish" /\ failed'[c] = busClosed /\ \A d \in Callers : d # c => pc'[d] = pc[d]
  BY <1>1 DEF AppInv, AppType
<1>4. AppType'
  <2>1. pc' \in [Callers -> Labels] /\ failed' \in [Callers -> BOOLEAN]
    BY <1>1 DEF AppInv, AppType, Labels
  <2> QED
    BY <1>1, <2>1 DEF AppInv, AppType, T, N
<1>5. OneStart'
  BY <1>1, <1>3, FlagsKept DEF InStart
<1>6. Reached'
  BY <1>1, <1>3 DEF AppInv, Reached, InStart, T
<1>7. Quiet'
  <2>0. "finish" \in Labels
    BY DEF Labels
  <2> SUFFICES ASSUME ~raced, Owned, ~running, Phase(c)
               PROVE  Owned' /\ ~running' /\ Phase(c)'
    BY <2>0, <1>1, OneCallerMoves
  <2>1. Up(at[c]) /\ Down(at[c]) /\ Before(at[c]) /\ Disconnected(c)
    BY <1>1 DEF Phase
  <2>2. Owned' /\ ~running'
    BY <1>1, ListenersKept
  <2> QED
    BY <1>1, <1>2, <1>3, <2>1, <2>2 DEF Phase, Up, Down, Clean, Before, Disconnected, T, N
<1> QED
  BY <1>4, <1>5, <1>6, <1>7 DEF AppInv

\* The deferred function of Start: the application runs, or is rolled back.
LEMMA StartFinishInv ==
  ASSUME AppInv, NEW c \in Callers, StartFinish(c), ~crashed
  PROVE  AppInv'
<1> USE DEF reg, trans
<1> DEFINE l == IF failed[c] THEN "rollback" ELSE "idle"
           i == IF failed[c] THEN at[c] - 1 ELSE 0
<1>1. /\ pc[c] = "finish" /\ starting' = FALSE /\ running' = ~failed[c]
      /\ UNCHANGED <<connected, failed, reg, busClosed, trans, raced>>
      /\ pc' = [pc EXCEPT ![c] = l] /\ at' = [at EXCEPT ![c] = i]
  BY DEF StartFinish, Goto
<1>2. at[c] \in 1..(N + 1) /\ i \in 0..N /\ at[c] \in Int /\ failed[c] \in BOOLEAN
  <2>1. at[c] \in 0..(N + 1) /\ at[c] # 0 /\ failed[c] \in BOOLEAN
    BY <1>1 DEF AppInv, AppType, Reached, InStart
  <2> QED
    BY <2>1, Indices
<1>3. /\ pc'[c] = l /\ at'[c] = i /\ l \in Labels /\ l \in {"rollback", "idle"}
      /\ \A d \in Callers : d # c => pc'[d] = pc[d] /\ at'[d] = at[d]
  BY <1>1 DEF AppInv, AppType, Labels
<1> HIDE DEF l, i
<1>4. AppType'
  <2>1. pc' \in [Callers -> Labels]
    BY <1>1, <1>3 DEF AppInv, AppType
  <2>2. at' \in [Callers -> 0..(N + 1)]
    BY <1>1, <1>2, Indices DEF AppInv, AppType
  <2>3. running' \in BOOLEAN
    BY <1>1, <1>2
  <2> QED
    BY <1>1, <2>1, <2>2, <2>3 DEF AppInv, AppType, T, N
<1>5. OneStart'
  <2>1. \A d \in Callers : ~InStart(d)'
    BY <1>1, <1>3 DEF AppInv, OneStart, InStart
  <2> QED
    BY <1>1, <2>1 DEF OneStart
<1>6. Reached'
  BY <1>3 DEF AppInv, Reached, InStart, T
<1>7. Quiet'
  <2> SUFFICES ASSUME ~raced, Owned, ~running, Phase(c)
               PROVE  /\ Owned' /\ (l # "idle" => ~running' /\ Phase(c)')
                      /\ l = "idle" => Settled'
    BY <1>1, <1>3, OneCallerMoves
  <2>1. /\ Up(at[c]) /\ Down(at[c]) /\ Before(at[c]) /\ Disconnected(c)
        /\ ~failed[c] => at[c] = N + 1 /\ ~busClosed
    BY <1>1 DEF Phase
  <2>2. Owned'
    BY <1>1, ListenersKept
  <2>3. CASE failed[c]
    <3>1. i + 1 = at[c] /\ l = "rollback"
      BY <2>3, <1>2 DEF i, l
    <3>2. Down(i + 1)
      BY <3>1, <2>1
    <3>3. Down(at[c] + 1)' /\ Disconnected(c)'
      BY <3>1, <3>2, <2>1, <1>1, <1>3 DEF Down, Clean, Disconnected, T
    <3> QED
      BY <2>2, <2>3, <3>1, <3>3, <1>1, <1>3 DEF Phase
  <2>4. CASE ~failed[c]
    <3>1. l = "idle" /\ running' /\ ~busClosed'
      BY <2>1, <2>4, <1>1 DEF l
    <3>2. Up(N + 1)'
      BY <2>1, <2>4, <1>1 DEF Up, T, N
    <3> QED
      BY <2>2, <3>1, <3>2 DEF Settled
  <2> QED
    BY <2>3, <2>4
<1> QED
  BY <1>4, <1>5, <1>6, <1>7 DEF AppInv

\* What the Stop of transport t does to the listeners: t's own one is gone when Stop
\* returns, and no other is touched.
Stopped(t, returned) ==
  /\ UNCHANGED <<built, tlsFailed>> /\ crashed' \in BOOLEAN
  /\ listening' \in [T -> {"no", "current", "orphan"}]
  /\ \A u \in T : listening'[u] = listening[u] \/ (u = t /\ listening'[u] = "no")
  /\ returned /\ t \in T /\ t \in built => listening'[t] # "current"

\* Stop of a transport has that effect, in Stop and in the rollback of Start.
LEMMA StopEffect ==
  ASSUME AppInv, NEW c \in Callers, NEW t, NEW l \in Labels, NEW i, ~crashed,
         StopTransport(c, t, /\ at' = [at EXCEPT ![c] = i]
                             /\ Goto(c, l)
                             /\ UNCHANGED <<connected, failed>>)
  PROVE  /\ UNCHANGED <<connected, failed>>
         /\ \/ Stopped(t, TRUE) /\ at' = [at EXCEPT ![c] = i] /\ pc' = [pc EXCEPT ![c] = l]
            \/ /\ Stopped(t, FALSE) /\ at' = at /\ pc[c] \in {"stopTransports", "rollback"}
               /\ pc' = [pc EXCEPT ![c] = IF pc[c] = "rollback" THEN "rollbackWait" ELSE "stopWait"]
<1> DEFINE next == /\ at' = [at EXCEPT ![c] = i] /\ pc' = [pc EXCEPT ![c] = l]
                   /\ UNCHANGED <<connected, failed>>
<1>0. listening \in [T -> {"no", "current", "orphan"}] /\ crashed \in BOOLEAN
  BY DEF AppInv, AppType
<1>1. CASE t \notin built /\ next /\ UNCHANGED trans
  BY <1>0, <1>1 DEF Stopped, trans, T
<1>2. CASE /\ Unlisten(t) /\ next
           /\ UNCHANGED <<built, heartbeats, heartbeatStop, heartbeatDone, crashed, tlsFailed>>
  <2>1. Stopped(t, TRUE)
    BY <1>0, <1>2 DEF Stopped, Unlisten, T
  <2> QED
    BY <1>2, <2>1
<1>3. CASE /\ pc[c] \in {"stopTransports", "rollback"}
           /\ crashed' = (t \in heartbeatStop)
           /\ Goto(c, IF pc[c] = "rollback" THEN "rollbackWait" ELSE "stopWait")
           /\ UNCHANGED <<built, listening, heartbeats, heartbeatDone, tlsFailed, at, connected, failed>>
  <2>1. Stopped(t, FALSE)
    BY <1>0, <1>3 DEF Stopped, T
  <2> QED
    BY <1>3, <2>1 DEF Goto
<1> QED
  BY <1>1, <1>2, <1>3 DEF StopTransport, Goto

\* A transport that was stopped is clean, and the clean ones stay so.
LEMMA StoppedClean ==
  ASSUME AppInv, Owned, NEW t, NEW returned \in BOOLEAN, Stopped(t, returned)
  PROVE  /\ Owned'
         /\ \A u \in T : Clean(u) => Clean(u)'
         /\ returned => \A u \in T : u = t => Clean(u)'
<1>1. Owned'
  BY DEF Stopped, Owned, T
<1>2. \A u \in T : Clean(u) => Clean(u)'
  BY DEF Stopped, Clean
<1>3. ASSUME returned, NEW u \in T, u = t PROVE Clean(u)'
  <2>1. listening[u] \in {"no", "current", "orphan"} /\ listening'[u] \in {"no", "current", "orphan"}
    BY DEF AppInv, AppType, Stopped
  <2>2. listening'[u] # "current"
    BY <1>3, <2>1 DEF Stopped, Owned
  <2> QED
    BY <2>1, <2>2, <1>1 DEF Owned, Clean, T
<1> QED
  BY <1>1, <1>2, <1>3

\* The rollback stops the started transports in reverse.
LEMMA RollbackTransportInv ==
  ASSUME AppInv, NEW c \in Callers, RollbackTransport(c), ~crashed
  PROVE  AppInv'
<1> USE DEF flags, reg
<1> DEFINE t == at[c]
<1>1. /\ pc[c] \in {"rollback", "rollbackWait"} /\ t \in 1..(N + 1) /\ t \in Int
      /\ UNCHANGED <<flags, reg, busClosed, raced>>
  BY Indices DEF RollbackTransport, AppInv, AppType
<1>2. PICK l \in {"rollback", "rollbackWait"}, returned \in BOOLEAN :
        /\ UNCHANGED <<connected, failed>> /\ Stopped(t, returned)
        /\ pc' = [pc EXCEPT ![c] = l]
        /\ at' = [at EXCEPT ![c] = IF returned THEN t - 1 ELSE t]
  <2>0. "rollback" \in Labels
    BY DEF Labels
  <2>1. StopTransport(c, t, /\ at' = [at EXCEPT ![c] = t - 1]
                            /\ Goto(c, "rollback")
                            /\ UNCHANGED <<connected, failed>>)
    BY DEF RollbackTransport
  <2>2. /\ UNCHANGED <<connected, failed>>
        /\ \/ Stopped(t, TRUE) /\ at' = [at EXCEPT ![c] = t - 1] /\ pc' = [pc EXCEPT ![c] = "rollback"]
           \/ /\ Stopped(t, FALSE) /\ at' = at /\ pc[c] \in {"stopTransports", "rollback"}
              /\ pc' = [pc EXCEPT ![c] = IF pc[c] = "rollback" THEN "rollbackWait" ELSE "stopWait"]
    BY <2>0, <2>1, StopEffect
  <2>3. CASE Stopped(t, TRUE) /\ at' = [at EXCEPT ![c] = t - 1] /\ pc' = [pc EXCEPT ![c] = "rollback"]
    <3> WITNESS "rollback" \in {"rollback", "rollbackWait"}, TRUE \in BOOLEAN
    <3> QED
      BY <2>2, <2>3
  <2>4. CASE /\ Stopped(t, FALSE) /\ at' = at /\ pc[c] \in {"stopTransports", "rollback"}
             /\ pc' = [pc EXCEPT ![c] = IF pc[c] = "rollback" THEN "rollbackWait" ELSE "stopWait"]
    <3>1. pc' = [pc EXCEPT ![c] = "rollbackWait"]
      BY <2>4, <1>1
    <3>2. at' = [at EXCEPT ![c] = t]
      BY <2>4 DEF AppInv, AppType
    <3> WITNESS "rollbackWait" \in {"rollback", "rollbackWait"}, FALSE \in BOOLEAN
    <3> QED
      BY <2>2, <2>4, <3>1, <3>2
  <2> QED
    BY <2>2, <2>3, <2>4
<1> DEFINE i == IF returned THEN t - 1 ELSE t
<1>3. /\ pc'[c] = l /\ at'[c] = i /\ l \in Labels /\ i \in 0..(N + 1) /\ i \in Int
      /\ \A d \in Callers : d # c => pc'[d] = pc[d] /\ at'[d] = at[d]
  BY <1>1, <1>2, Indices DEF AppInv, AppType, Labels
<1>a. returned => i = t - 1
  OBVIOUS
<1>b. ~returned => i = t
  OBVIOUS
<1>c. at' = [at EXCEPT ![c] = i]
  BY <1>2
<1> HIDE DEF i, t
<1>4. AppType'
  <2>1. pc' \in [Callers -> Labels]
    BY <1>2, <1>3 DEF AppInv, AppType
  <2>2. at' \in [Callers -> 0..(N + 1)]
    BY <1>3, <1>c DEF AppInv, AppType
  <2> QED
    BY <1>1, <1>2, <2>1, <2>2 DEF AppInv, AppType, Stopped, T, N
<1>5. OneStart'
  BY <1>1, <1>3, FlagsKept DEF InStart
<1>6. Reached'
  BY <1>1, <1>3 DEF AppInv, Reached, InStart, T
<1>7. Quiet'
  <2> SUFFICES ASSUME ~raced, Owned, ~running, Phase(c)
               PROVE  Owned' /\ ~running' /\ Phase(c)'
    BY <1>1, <1>2, <1>3, OneCallerMoves
  <2>1. Down(t + 1) /\ Disconnected(c)
    BY <1>1 DEF Phase, t
  <2>2. Owned' /\ (\A u \in T : Clean(u) => Clean(u)') /\ (returned => \A u \in T : u = t => Clean(u)')
    BY <1>2, StoppedClean
  <2>3. \A u \in T : u >= i + 1 => Clean(u)'
    <3>1. CASE returned
      <4>1. \A u \in T : u >= i + 1 => u = t \/ u >= t + 1
        BY <3>1, <1>1, <1>a, Indices
      <4> QED
        BY <3>1, <4>1, <2>1, <2>2 DEF Down
    <3>2. CASE ~returned
      BY <3>2, <1>b, <2>1, <2>2 DEF Down
    <3> QED
      BY <3>1, <3>2
  <2>4. Disconnected(c)'
    BY <2>1, <1>1, <1>2 DEF Disconnected
  <2>5. Down(at[c] + 1)'
    BY <2>3, <1>3 DEF Down, T
  <2> QED
    BY <1>1, <1>2, <1>3, <2>2, <2>4, <2>5 DEF Phase
<1> QED
  BY <1>4, <1>5, <1>6, <1>7 DEF AppInv

\* The rollback closes the registry, if this Start connected it.
LEMMA RollbackRegistryInv ==
  ASSUME AppInv, NEW c \in Callers, RollbackRegistry(c), ~crashed
  PROVE  AppInv'
<1> USE DEF flags, reg, trans
<1>1. /\ pc[c] = "rollback" /\ at[c] = 0
      /\ UNCHANGED <<flags, at, connected, failed, busClosed, trans, raced>>
      /\ pc' = [pc EXCEPT ![c] = "idle"]
      /\ (registry' = FALSE /\ registered' = {}) \/ (~connected[c] /\ UNCHANGED <<registry, registered>>)
  BY DEF RollbackRegistry, Goto
<1>2. pc'[c] = "idle" /\ \A d \in Callers : d # c => pc'[d] = pc[d]
  BY <1>1 DEF AppInv, AppType
<1>3. AppType'
  <2>1. pc' \in [Callers -> Labels]
    BY <1>1 DEF AppInv, AppType, Labels
  <2>2. registry' \in BOOLEAN /\ registered' \subseteq T
    BY <1>1 DEF AppInv, AppType
  <2> QED
    BY <1>1, <2>1, <2>2 DEF AppInv, AppType, T, N
<1>4. OneStart'
  BY <1>1, <1>2, FlagsKept DEF InStart
<1>5. Reached'
  BY <1>1, <1>2 DEF AppInv, Reached, InStart, T
<1>6. Quiet'
  <2>0. "idle" \in Labels
    BY DEF Labels
  <2> SUFFICES ASSUME ~raced, Owned, ~running, Phase(c)
               PROVE  Owned' /\ Settled'
    BY <2>0, <1>1, OneCallerMoves
  <2>1. Down(1) /\ Disconnected(c)
    BY <1>1 DEF Phase
  <2>2. Owned' /\ Down(1)'
    BY <2>1, <1>1, ListenersKept
  <2>3. registered' = {} /\ ~registry' /\ ~running'
    BY <2>1, <1>1 DEF Disconnected
  <2> QED
    BY <2>2, <2>3 DEF Settled
<1> QED
  BY <1>3, <1>4, <1>5, <1>6 DEF AppInv

\* Stop closes the registry before it stops a transport.
LEMMA StopRegistryInv ==
  ASSUME AppInv, NEW c \in Callers, StopRegistry(c), ~crashed
  PROVE  AppInv'
<1> USE DEF flags, trans
<1>1. /\ pc[c] = "closeRegistry"
      /\ UNCHANGED <<flags, connected, failed, busClosed, trans, raced>>
      /\ pc' = [pc EXCEPT ![c] = "stopTransports"] /\ at' = [at EXCEPT ![c] = 1]
      /\ registry' = FALSE /\ registered' = {}
  BY DEF StopRegistry, Goto
<1>2. /\ pc'[c] = "stopTransports" /\ at'[c] = 1
      /\ \A d \in Callers : d # c => pc'[d] = pc[d] /\ at'[d] = at[d]
  BY <1>1 DEF AppInv, AppType
<1>3. AppType'
  <2>1. pc' \in [Callers -> Labels] /\ at' \in [Callers -> 0..(N + 1)]
    BY <1>1, Indices DEF AppInv, AppType, Labels
  <2> QED
    BY <1>1, <2>1 DEF AppInv, AppType, T, N
<1>4. OneStart'
  BY <1>1, <1>2, FlagsKept DEF InStart
<1>5. Reached'
  BY <1>2 DEF AppInv, Reached, InStart, T
<1>6. Quiet'
  <2>0. "stopTransports" \in Labels
    BY DEF Labels
  <2> SUFFICES ASSUME ~raced, Owned, ~running, Phase(c)
               PROVE  Owned' /\ ~running' /\ Phase(c)'
    BY <2>0, <1>1, OneCallerMoves
  <2>1. Owned' /\ ~running'
    BY <1>1, ListenersKept
  <2>2. \A t \in T : ~(t < 1)
    BY Indices
  <2> QED
    BY <1>1, <1>2, <2>1, <2>2 DEF Phase, T
<1> QED
  BY <1>3, <1>4, <1>5, <1>6 DEF AppInv

\* Stop stops the transports in order.
LEMMA StopTransportsInv ==
  ASSUME AppInv, NEW c \in Callers, StopTransports(c), ~crashed
  PROVE  AppInv'
<1> USE DEF flags, reg
<1> DEFINE t == at[c]
<1>1. /\ pc[c] \in {"stopTransports", "stopWait"} /\ t \in T /\ t \in Int
      /\ UNCHANGED <<flags, reg, busClosed, raced>>
  BY Indices DEF StopTransports
<1>2. PICK l \in {"stopTransports", "stopWait"}, returned \in BOOLEAN :
        /\ UNCHANGED <<connected, failed>> /\ Stopped(t, returned)
        /\ pc' = [pc EXCEPT ![c] = l]
        /\ at' = [at EXCEPT ![c] = IF returned THEN t + 1 ELSE t]
  <2>0. "stopTransports" \in Labels
    BY DEF Labels
  <2>1. StopTransport(c, t, /\ at' = [at EXCEPT ![c] = t + 1]
                            /\ Goto(c, "stopTransports")
                            /\ UNCHANGED <<connected, failed>>)
    BY DEF StopTransports
  <2>2. /\ UNCHANGED <<connected, failed>>
        /\ \/ Stopped(t, TRUE) /\ at' = [at EXCEPT ![c] = t + 1] /\ pc' = [pc EXCEPT ![c] = "stopTransports"]
           \/ /\ Stopped(t, FALSE) /\ at' = at /\ pc[c] \in {"stopTransports", "rollback"}
              /\ pc' = [pc EXCEPT ![c] = IF pc[c] = "rollback" THEN "rollbackWait" ELSE "stopWait"]
    BY <2>0, <2>1, StopEffect
  <2>3. CASE Stopped(t, TRUE) /\ at' = [at EXCEPT ![c] = t + 1] /\ pc' = [pc EXCEPT ![c] = "stopTransports"]
    <3> WITNESS "stopTransports" \in {"stopTransports", "stopWait"}, TRUE \in BOOLEAN
    <3> QED
      BY <2>2, <2>3
  <2>4. CASE /\ Stopped(t, FALSE) /\ at' = at /\ pc[c] \in {"stopTransports", "rollback"}
             /\ pc' = [pc EXCEPT ![c] = IF pc[c] = "rollback" THEN "rollbackWait" ELSE "stopWait"]
    <3>1. pc' = [pc EXCEPT ![c] = "stopWait"]
      BY <2>4, <1>1
    <3>2. at' = [at EXCEPT ![c] = t]
      BY <2>4 DEF AppInv, AppType
    <3> WITNESS "stopWait" \in {"stopTransports", "stopWait"}, FALSE \in BOOLEAN
    <3> QED
      BY <2>2, <2>4, <3>1, <3>2
  <2> QED
    BY <2>2, <2>3, <2>4
<1> DEFINE i == IF returned THEN t + 1 ELSE t
<1>3. /\ pc'[c] = l /\ at'[c] = i /\ l \in Labels /\ i \in 1..(N + 1) /\ i \in Int
      /\ \A d \in Callers : d # c => pc'[d] = pc[d] /\ at'[d] = at[d]
  BY <1>1, <1>2, Indices DEF AppInv, AppType, Labels
<1>a. returned => i = t + 1
  OBVIOUS
<1>b. ~returned => i = t
  OBVIOUS
<1>c. at' = [at EXCEPT ![c] = i]
  BY <1>2
<1> HIDE DEF i, t
<1>4. AppType'
  <2>1. pc' \in [Callers -> Labels]
    BY <1>2, <1>3 DEF AppInv, AppType
  <2>2. at' \in [Callers -> 0..(N + 1)]
    BY <1>3, <1>c, Indices DEF AppInv, AppType
  <2> QED
    BY <1>1, <1>2, <2>1, <2>2 DEF AppInv, AppType, Stopped, T, N
<1>5. OneStart'
  BY <1>1, <1>3, FlagsKept DEF InStart
<1>6. Reached'
  BY <1>1, <1>3, Indices DEF AppInv, Reached, InStart, T
<1>7. Quiet'
  <2> SUFFICES ASSUME ~raced, Owned, ~running, Phase(c)
               PROVE  Owned' /\ ~running' /\ Phase(c)'
    BY <1>1, <1>2, <1>3, OneCallerMoves
  <2>1. (\A u \in T : u < t => Clean(u)) /\ registered = {} /\ ~registry
    BY <1>1 DEF Phase, t
  <2>2. Owned' /\ (\A u \in T : Clean(u) => Clean(u)') /\ (returned => \A u \in T : u = t => Clean(u)')
    BY <1>2, StoppedClean
  <2>3. \A u \in T : u < i => Clean(u)'
    <3>1. CASE returned
      <4>1. \A u \in T : u < i => u = t \/ u < t
        BY <3>1, <1>1, <1>a, Indices
      <4> QED
        BY <3>1, <4>1, <2>1, <2>2
    <3>2. CASE ~returned
      BY <3>2, <1>b, <2>1, <2>2
    <3> QED
      BY <3>1, <3>2
  <2>4. ~running' /\ registered' = {} /\ ~registry'
    BY <2>1, <1>1
  <2> QED
    BY <1>2, <1>3, <2>2, <2>3, <2>4 DEF Phase, T
<1> QED
  BY <1>4, <1>5, <1>6, <1>7 DEF AppInv

\* Stop closes the event bus last.
LEMMA StopBusInv ==
  ASSUME AppInv, NEW c \in Callers, StopBus(c), ~crashed
  PROVE  AppInv'
<1> USE DEF flags, reg, trans
<1>1. /\ pc[c] = "stopTransports" /\ at[c] \notin T
      /\ UNCHANGED <<flags, connected, failed, reg, trans, raced>>
      /\ pc' = [pc EXCEPT ![c] = "idle"] /\ at' = [at EXCEPT ![c] = 0] /\ busClosed' = TRUE
  BY DEF StopBus, Goto
<1>2. at[c] = N + 1
  <2>1. at[c] \in 0..(N + 1) /\ at[c] # 0
    BY <1>1 DEF AppInv, AppType, Reached
  <2> QED
    BY <2>1, <1>1, Indices
<1>3. /\ pc'[c] = "idle"
      /\ \A d \in Callers : d # c => pc'[d] = pc[d] /\ at'[d] = at[d]
  BY <1>1 DEF AppInv, AppType
<1>4. AppType'
  <2>1. pc' \in [Callers -> Labels] /\ at' \in [Callers -> 0..(N + 1)]
    BY <1>1, Indices DEF AppInv, AppType, Labels
  <2> QED
    BY <1>1, <2>1 DEF AppInv, AppType, T, N
<1>5. OneStart'
  BY <1>1, <1>3, FlagsKept DEF InStart
<1>6. Reached'
  BY <1>3 DEF AppInv, Reached, InStart, T
<1>7. Quiet'
  <2>0. "idle" \in Labels
    BY DEF Labels
  <2> SUFFICES ASSUME ~raced, Owned, ~running, Phase(c)
               PROVE  Owned' /\ Settled'
    BY <2>0, <1>1, OneCallerMoves
  <2>1. (\A t \in T : t < at[c] => Clean(t)) /\ registered = {} /\ ~registry
    BY <1>1 DEF Phase
  <2>2. Down(1)
    BY <2>1, <1>2, Indices DEF Down
  <2>3. Owned' /\ Down(1)'
    BY <2>2, <1>1, ListenersKept
  <2> QED
    BY <2>1, <2>3, <1>1 DEF Settled
<1> QED
  BY <1>4, <1>5, <1>6, <1>7 DEF AppInv

\* Steps that none of the invariant reads: a heartbeat goroutine ends, or nothing moves.
LEMMA Aside ==
  ASSUME AppInv, ~crashed,
         UNCHANGED <<flags, frame, reg, busClosed, built, listening, tlsFailed, raced>>,
         crashed' \in BOOLEAN
  PROVE  AppInv'
<1> USE DEF flags, frame, reg
<1>1. AppType' /\ Reached' /\ OneStart'
  BY DEF AppInv, AppType, Reached, OneStart, InStart, T, N
<1>2. Quiet'
  BY DEF AppInv, Quiet, Orderly, Alone, Owned, Settled, Phase, Up, Down, Clean, Before, Disconnected, T, N
<1> QED
  BY <1>1, <1>2 DEF AppInv

\* Every step of the application preserves the invariant.
LEMMA AStepInv ==
  ASSUME AppInv, [Next]_vars
  PROVE  AppInv'
<1>1. CASE UNCHANGED vars
  <2> USE DEF vars, flags, frame, reg, trans
  <2>1. AppType' /\ Reached' /\ OneStart'
    BY <1>1 DEF AppInv, AppType, Reached, OneStart, InStart, T, N
  <2>2. Quiet'
    BY <1>1 DEF AppInv, Quiet, Orderly, Alone, Owned, Settled, Phase, Up, Down, Clean, Before,
                Disconnected, T, N
  <2> QED
    BY <2>1, <2>2 DEF AppInv
<1>2. ASSUME NEW c \in Callers, CallStep(c), ~crashed PROVE AppInv'
  BY <1>2, StartPrepareInv, StartConnectInv, StartTransportInv, StartRegisterInv, StartPublishInv,
     StartFinishInv, RollbackTransportInv, RollbackRegistryInv, StopRegistryInv, StopTransportsInv,
     StopBusInv DEF CallStep
<1>3. ASSUME NEW t \in T, HeartbeatEnd(t), ~crashed PROVE AppInv'
  BY <1>3, Aside DEF HeartbeatEnd
<1> QED
  BY <1>1, <1>2, <1>3, StartBeginInv, StopBeginInv DEF Next, Finished

\* What the invariant says of the properties.
LEMMA AInvImplies ==
  ASSUME AppInv
  PROVE  OneStart /\ NothingLeftBehind /\ RunningMeansServing /\ AdvertisedIsServing
<1>1. NothingLeftBehind
  <2> SUFFICES ASSUME Busy = {}, ~running, ~raced, ~crashed
               PROVE  (\A t \in T : Clean(t)) /\ registered = {}
    BY DEF NothingLeftBehind, Clean
  <2> QED
    BY Indices DEF AppInv, Quiet, Orderly, Settled, Down, Busy
<1>2. RunningMeansServing
  <2> SUFFICES ASSUME Busy = {}, running, ~raced, ~crashed
               PROVE  ~busClosed /\ \A t \in T : listening[t] = "current"
    BY DEF RunningMeansServing
  <2> QED
    BY Indices DEF AppInv, Quiet, Orderly, Settled, Up, Busy
<1>3. AdvertisedIsServing
  <2> SUFFICES ASSUME ~raced, ~crashed, \A c \in Callers : ~RollingBack(c), NEW t \in registered
               PROVE  listening[t] = "current"
    BY DEF AdvertisedIsServing
  <2>0. t \in T /\ t \in 1..N /\ N \in Nat /\ Orderly
    BY Indices DEF AppInv, AppType, Quiet
  <2>1. CASE \A c \in Callers : pc[c] = "idle"
    BY <2>0, <2>1 DEF Orderly, Settled, Up
  <2>2. CASE \E c \in Callers : pc[c] # "idle"
    <3>1. PICK c \in Callers : pc[c] # "idle"
      BY <2>2
    <3>2. Phase(c) /\ pc[c] \in Labels \ {"idle", "rollback", "rollbackWait"} /\ at[c] \in Int
      BY <2>0, <3>1, Indices DEF Orderly, AppInv, AppType, RollingBack
    <3>3. CASE pc[c] \in {"startTransports", "finish"}
      BY <2>0, <3>2, <3>3 DEF Phase, Before, Up
    <3>4. CASE pc[c] = "register"
      BY <2>0, <3>2, <3>4 DEF Phase, Before, Up
    <3>5. CASE pc[c] = "closeRegistry"
      BY <2>0, <3>2, <3>5 DEF Phase, Up
    <3>6. CASE pc[c] \in {"prepare", "connect", "stopTransports", "stopWait"}
      BY <2>0, <3>2, <3>6 DEF Phase
    <3> QED
      BY <3>2, <3>3, <3>4, <3>5, <3>6 DEF Labels
  <2> QED
    BY <2>1, <2>2
<1> QED
  BY <1>1, <1>2, <1>3 DEF AppInv

\* grodyia.go:235-253: two Starts never proceed together, and `starting` says whether
\* one does.
THEOREM AppOneStart == Spec => []OneStart
BY AInitInv, AStepInv, AInvImplies, PTL DEF Spec

\* grodyia.go:244-265, 342-393: a failed Start and a Stop leave nothing listening and
\* nothing advertised.
THEOREM AppNothingLeftBehind == Spec => []NothingLeftBehind
BY AInitInv, AStepInv, AInvImplies, PTL DEF Spec

\* grodyia.go:405-410: an application that says it runs has every transport listening.
THEOREM AppRunningMeansServing == Spec => []RunningMeansServing
BY AInitInv, AStepInv, AInvImplies, PTL DEF Spec

\* grodyia.go:363-377: outside a rollback only what listens is advertised.
THEOREM AppAdvertisedIsServing == Spec => []AdvertisedIsServing
BY AInitInv, AStepInv, AInvImplies, PTL DEF Spec
=============================================================================
