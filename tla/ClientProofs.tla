---------------------------- MODULE ClientProofs ----------------------------
(***************************************************************************)
(* Theorems about the two reconnecting clients, for every number of        *)
(* goroutines, dials and retries.                                          *)
(***************************************************************************)
EXTENDS WSClient, GRPCClient, FiniteSetTheorems, TLAPS

(***************************************************************************)
(* GRPCClient.  That no connection is overwritten while open is inductive  *)
(* only together with the discipline of the flag: the goroutine between    *)
(* drop and leave of Reconnect is the only one there, and c.conn stays nil *)
(* from its drop to its dial.                                              *)
(***************************************************************************)
GLabels == {"idle", "swap", "drop", "dial", "leave", "state", "reconnect", "end",
            "closeLook", "closeStop", "closeConn", "call"}

GTypeOK ==
  /\ greconnecting \in BOOLEAN
  /\ gdials \in Nat \ {0} /\ gconn \in Nat /\ gopen \subseteq Nat \ {0}
  /\ gpc \in [GProcs -> GLabels]

\* Goroutines that own the flag c.reconnecting.
HoldsFlag(p) == gpc[p] \in {"drop", "dial", "leave"}

FlagInv ==
  /\ \A p \in GProcs : HoldsFlag(p) => greconnecting
  /\ \A p, q \in GProcs : HoldsFlag(p) /\ HoldsFlag(q) => p = q

NilWhileDialling == \A p \in GProcs : gpc[p] = "dial" => gconn = 0

GInv == GTypeOK /\ FlagInv /\ NilWhileDialling /\ NoConnectionLeaked

\* NewClient leaves one open connection and a free flag.
LEMMA GInitInv == GInit(TRUE) => GInv
<1> SUFFICES ASSUME GInit(TRUE) PROVE GInv
  OBVIOUS
<1>1. gpc = [p \in GProcs |-> "idle"]
  BY DEF GInit
<1>2. \A p \in GProcs : gpc[p] = "idle"
  BY <1>1
<1>3. gconn = 1 /\ gdials = 1 /\ gopen = {1} /\ greconnecting = FALSE
  BY DEF GInit
<1>4. GTypeOK
  <2>1. gpc \in [GProcs -> GLabels]
    BY <1>1 DEF GLabels
  <2>2. gdials \in Nat \ {0} /\ gconn \in Nat /\ gopen \subseteq Nat \ {0}
    BY <1>3
  <2> QED
    BY <1>3, <2>1, <2>2 DEF GTypeOK
<1>5. FlagInv /\ NilWhileDialling /\ NoConnectionLeaked
  BY <1>2, <1>3 DEF FlagInv, HoldsFlag, NilWhileDialling, NoConnectionLeaked
<1> QED
  BY <1>4, <1>5 DEF GInv

\* Steps that neither take nor give up the flag and touch no connection.
LEMMA GMoveKeepsInv ==
  ASSUME GInv, NEW p \in GProcs, NEW at \in GLabels \ {"drop", "dial", "leave"},
         ~HoldsFlag(p), GGoto(p, at), UNCHANGED <<gconn, greconnecting, gdials, gopen>>
  PROVE  GInv'
BY DEF GInv, GTypeOK, FlagInv, HoldsFlag, NilWhileDialling, NoConnectionLeaked, GGoto

\* Every step preserves the invariant.
LEMMA GStepInv ==
  ASSUME GInv, [GNext]_gvars
  PROVE  GInv'
<1> USE DEF gvars, gfields, gnet
<1>1. ASSUME NEW p \in GProcs, GReconnect(p)
      PROVE  GInv'
  BY <1>1, GMoveKeepsInv DEF GReconnect, GLabels, HoldsFlag
<1>2. ASSUME NEW p \in GProcs, GReconnectSwap(p)
      PROVE  GInv'
  BY <1>2 DEF GReconnectSwap, GGoto, GInv, GTypeOK, GLabels, FlagInv, HoldsFlag, NilWhileDialling, NoConnectionLeaked
<1>3. ASSUME NEW p \in GProcs, GReconnectDrop(p)
      PROVE  GInv'
  BY <1>3 DEF GReconnectDrop, GGoto, GInv, GTypeOK, GLabels, FlagInv, HoldsFlag, NilWhileDialling, NoConnectionLeaked
<1>4. ASSUME NEW p \in GProcs, connect(p)
      PROVE  GInv'
  <2>1. gopen = {}
    BY <1>4 DEF connect, GInv, GTypeOK, NilWhileDialling, NoConnectionLeaked
  <2>2. \A q \in GProcs : q # p => gpc[q] # "dial"
    BY <1>4 DEF connect, GInv, FlagInv, HoldsFlag
  <2> QED
    BY <1>4, <2>1, <2>2 DEF connect, GGoto, GInv, GTypeOK, GLabels, FlagInv, HoldsFlag, NilWhileDialling,
      NoConnectionLeaked
<1>5. ASSUME NEW p \in GProcs, GReconnectLeave(p)
      PROVE  GInv'
  BY <1>5 DEF GReconnectLeave, GGoto, GInv, GTypeOK, GLabels, FlagInv, HoldsFlag, NilWhileDialling, NoConnectionLeaked
<1>6. ASSUME MonitorTick \/ MonitorState \/ MonitorStop
      PROVE  GInv'
  <2>1. Monitor \in GProcs
    BY DEF GProcs
  <2> QED
    BY <1>6, <2>1, GMoveKeepsInv DEF MonitorTick, MonitorState, MonitorStop, GLabels, HoldsFlag
<1>7. ASSUME NEW p \in GProcs, GClose(p) \/ GCloseLook(p) \/ GCloseStop(p) \/ Call(p)
      PROVE  GInv'
  BY <1>7, GMoveKeepsInv DEF GClose, GCloseLook, GCloseStop, Call, GLabels, HoldsFlag
<1>8. ASSUME NEW p \in GProcs, GCloseConn(p)
      PROVE  GInv'
  BY <1>8 DEF GCloseConn, GGoto, GInv, GTypeOK, GLabels, FlagInv, HoldsFlag, NilWhileDialling, NoConnectionLeaked
<1>9. ASSUME NEW p \in GProcs, CallAttempt(p)
      PROVE  GInv'
  <2>1. CASE gpc' = gpc
    BY <1>9, <2>1 DEF CallAttempt, GInv, GTypeOK, FlagInv, HoldsFlag, NilWhileDialling, NoConnectionLeaked
  <2>2. CASE GGoto(p, "idle")
    BY <1>9, <2>2, GMoveKeepsInv DEF CallAttempt, GLabels, HoldsFlag
  <2> QED
    BY <1>9, <2>1, <2>2 DEF CallAttempt
<1>10. ASSUME UNCHANGED gvars \/ \E s \in 1..MaxDials : GFail(s)
       PROVE  GInv'
  BY <1>10 DEF GFail, GInv, GTypeOK, FlagInv, HoldsFlag, NilWhileDialling, NoConnectionLeaked
<1> QED
  BY <1>1, <1>2, <1>3, <1>4, <1>5, <1>6, <1>7, <1>8, <1>9, <1>10 DEF GNext, GReconnector, GProcs

\* client/grpc/client.go:195-213.  However Reconnects, the monitor and Close
\* interleave, no open connection is lost.
THEOREM GRPCNoLeak == GSpec => []NoConnectionLeaked
<1>1. GInv => NoConnectionLeaked
  BY DEF GInv
<1> QED
  BY GInitInv, GStepInv, <1>1, PTL DEF GSpec
-----------------------------------------------------------------------------
(***************************************************************************)
(* WSClient.  The sockets are in order by themselves; the refinement of    *)
(* Session also needs that readPumps start where none has been, and that   *)
(* Close reaches its last step once.                                       *)
(***************************************************************************)
Reads == {"none", "setup", "read", "reading", "disconnect", "disconnect2", "handler", "handler2", "end"}
UserLabels == {"idle", "connect", "closeDone", "closeConn", "send"}

\* The readPumps that are about to call the disconnect handler.
Owing == {k \in Socks : rd[k] \in {"handler", "handler2"}}

WTypeOK ==
  /\ closed \in BOOLEAN /\ connected \in BOOLEAN /\ shut \in BOOLEAN
  /\ dialled \in 0..MaxConns
  /\ rd \in [Socks -> Reads] /\ user \in [Users -> UserLabels]

FreshSocks == \A k \in Socks : k > dialled => rd[k] = "none"

\* One goroutine at most is on its way through Close, and before its last step.
CloseOnce ==
  /\ \A u \in Users : user[u] \in {"closeDone", "closeConn"} => closed /\ ~shut
  /\ \A u, v \in Users : user[u] \in {"closeDone", "closeConn"} /\ user[v] \in {"closeDone", "closeConn"} => u = v
  /\ shut => closed

WInv == WTypeOK /\ FreshSocks /\ CloseOnce /\ OpenIffConnected

\* A new client has no socket and no readPump.
LEMMA WInitInv == WSInit => WInv
<1> SUFFICES ASSUME WSInit PROVE WInv
  OBVIOUS
<1>1. WTypeOK
  <2>1. rd \in [Socks -> Reads] /\ user \in [Users -> UserLabels]
    BY DEF WSInit, Reads, UserLabels
  <2>2. dialled \in 0..MaxConns
    BY ClientAssumption DEF WSInit
  <2> QED
    BY <2>1, <2>2 DEF WSInit, WTypeOK
<1>2. FreshSocks /\ CloseOnce /\ OpenIffConnected
  BY DEF WSInit, FreshSocks, CloseOnce, OpenIffConnected
<1> QED
  BY <1>1, <1>2 DEF WInv

\* A step that moves one readPump past its start, and nothing else of the invariant.
LEMMA ReaderMoves ==
  ASSUME WInv, NEW k \in Socks, rd[k] # "none", NEW at \in Reads, rd' = [rd EXCEPT ![k] = at],
         UNCHANGED <<closed, shut, dialled, user, connected, conn, open>>
  PROVE  WInv'
BY DEF WInv, WTypeOK, FreshSocks, CloseOnce, OpenIffConnected

\* A dial that succeeds opens the one socket and starts a readPump where none has been.
LEMMA DialledKeepsInv ==
  ASSUME WInv, Dialled, user' \in [Users -> UserLabels],
         \A u \in Users : user'[u] \in {"closeDone", "closeConn"} => user'[u] = user[u]
  PROVE  WInv'
<1>1. dialled + 1 \in Socks /\ dialled' = dialled + 1
  BY ClientAssumption DEF Dialled, WInv, WTypeOK, Socks
<1>2. WTypeOK'
  BY <1>1 DEF Dialled, WInv, WTypeOK, Reads, Socks
<1>3. FreshSocks'
  BY <1>1 DEF Dialled, WInv, WTypeOK, FreshSocks, Socks
<1>4. CloseOnce'
  BY DEF Dialled, WInv, CloseOnce
<1>5. OpenIffConnected'
  BY DEF Dialled, WInv, OpenIffConnected
<1> QED
  BY <1>2, <1>3, <1>4, <1>5 DEF WInv

\* A step of an application goroutine or a reconnect that leaves connections and pumps alone.
LEMMA UserMoves ==
  ASSUME WInv, UNCHANGED <<closed, shut, dialled, rd, connected, conn, open>>,
         user' \in [Users -> UserLabels],
         \A u \in Users : user'[u] \in {"closeDone", "closeConn"} => user[u] \in {"closeDone", "closeConn"}
  PROVE  WInv'
BY DEF WInv, WTypeOK, FreshSocks, CloseOnce, OpenIffConnected

\* Connect, Close, and the reconnect goroutine preserve the invariant.
LEMMA UserStepInv ==
  ASSUME WInv, NEW u \in Users,
         \/ Connect(u) \/ ConnectDial(u) \/ Close(u) \/ CloseDone(u) \/ CloseConn(u)
         \/ Send(u) \/ SendQueue(u)
  PROVE  WInv'
<1> USE DEF fields, net, pumps
<1>0. user \in [Users -> UserLabels]
  BY DEF WInv, WTypeOK
<1>1. CASE Connect(u) \/ Send(u) \/ SendQueue(u) \/ CloseDone(u)
  <2>1. PICK at \in {"connect", "send", "idle", "closeConn"} :
          user' = [user EXCEPT ![u] = at] /\ (at = "closeConn" => user[u] = "closeDone")
    BY <1>1 DEF Connect, Send, SendQueue, CloseDone
  <2>2. UNCHANGED <<closed, shut, dialled, rd, connected, conn, open>>
    BY <1>1 DEF Connect, Send, SendQueue, CloseDone
  <2> QED
    BY <1>0, <2>1, <2>2, UserMoves DEF UserLabels
<1>2. CASE ConnectDial(u)
  <2>1. user' = [user EXCEPT ![u] = "idle"]
    BY <1>2 DEF ConnectDial
  <2>2. CASE Dialled
    BY <1>0, <2>1, <2>2, DialledKeepsInv DEF UserLabels
  <2>3. CASE NotDialled
    BY <1>0, <2>1, <2>3, UserMoves DEF UserLabels, NotDialled
  <2> QED
    BY <1>2, <2>2, <2>3 DEF ConnectDial
<1>3. CASE Close(u)
  BY <1>3 DEF Close, WInv, WTypeOK, UserLabels, FreshSocks, CloseOnce, OpenIffConnected
<1>4. CASE CloseConn(u)
  BY <1>4 DEF CloseConn, WInv, WTypeOK, UserLabels, FreshSocks, CloseOnce, OpenIffConnected
<1> QED
  BY <1>1, <1>2, <1>3, <1>4

\* Every step of the client preserves the invariant.
LEMMA WStepInv ==
  ASSUME WInv, [WSNext]_wsvars
  PROVE  WInv'
<1> USE DEF wsvars, fields, net, pumps
<1>0. user \in [Users -> UserLabels]
  BY DEF WInv, WTypeOK
<1>1. ASSUME NEW k \in Socks, ReadUse(k) \/ ReadMessage(k) \/ ReadError(k) \/ onDisconnect(k)
      PROVE  WInv'
  BY <1>1, ReaderMoves DEF ReadUse, ReadMessage, ReadError, onDisconnect, Returned, Reads
<1>2. ASSUME NEW k \in Socks, handleDisconnect(k)
      PROVE  WInv'
  BY <1>2 DEF handleDisconnect, Returned, Reads, WInv, WTypeOK, FreshSocks, CloseOnce, OpenIffConnected
<1>3. ASSUME NEW k \in Socks,
             \/ WriteTake(k) \/ WriteStart(k) \/ WriteEnd(k) \/ WriteDone(k) \/ Fail(k)
             \/ ReconnectStart(k) \/ ReconnectCheck(k) \/ ReconnectRaise(k) \/ ReconnectLeave(k)
      PROVE  WInv'
  <2>1. UNCHANGED <<closed, shut, dialled, rd, connected, conn, open, user>>
    BY <1>3 DEF WriteTake, WriteStart, WriteEnd, WriteDone, Fail, ReconnectStart, ReconnectCheck, ReconnectRaise,
      ReconnectLeave
  <2> QED
    BY <1>0, <2>1, UserMoves
<1>4. ASSUME NEW q \in Socks, ReconnectDial(q)
      PROVE  WInv'
  BY <1>0, <1>4, DialledKeepsInv, UserMoves DEF ReconnectDial, NotDialled
<1>5. CASE UNCHANGED wsvars
  BY <1>0, <1>5, UserMoves
<1> QED
  BY <1>1, <1>2, <1>3, <1>4, <1>5, UserStepInv DEF WSNext, Reader, Reconnector

\* client/ws/client.go:107-166, 303-315.  No socket is overwritten while open, and none is
\* open while IsConnected says false.
THEOREM WSOpenIffConnected == WSSpec => []OpenIffConnected
<1>1. WInv => OpenIffConnected
  BY DEF WInv
<1> QED
  BY WInitInv, WStepInv, <1>1, PTL DEF WSSpec

-----------------------------------------------------------------------------
(***************************************************************************)
(* The refinement.  The number of disconnect handlers owed changes by one  *)
(* when a readPump finds its client connected, and when it has called.     *)
(***************************************************************************)
\* Only finitely many readPumps can owe a report.
LEMMA OwingFinite == IsFiniteSet(Owing)
<1>1. IsFiniteSet(Socks)
  BY FS_Interval, ClientAssumption DEF Socks
<1> QED
  BY <1>1, FS_Subset DEF Owing

\* What a step can do to the set of readPumps that owe a report, and to its size.
LEMMA OwingMoves ==
  ASSUME WInv, NEW k \in Socks, NEW at \in Reads, rd' = [rd EXCEPT ![k] = at]
  PROVE  /\ k \notin Owing /\ at \in {"handler", "handler2"} => Cardinality(Owing') = Cardinality(Owing) + 1
         /\ k \in Owing /\ at \notin {"handler", "handler2"} =>
              Cardinality(Owing) > 0 /\ Cardinality(Owing') = Cardinality(Owing) - 1
         /\ k \notin Owing /\ at \notin {"handler", "handler2"} => Owing' = Owing
<1>1. rd \in [Socks -> Reads]
  BY DEF WInv, WTypeOK
<1>2. Owing' = IF at \in {"handler", "handler2"} THEN Owing \cup {k} ELSE Owing \ {k}
  BY <1>1 DEF Owing
<1>3. IsFiniteSet(Owing) /\ Cardinality(Owing) \in Nat
  BY OwingFinite, FS_CardinalityType
<1>4. k \notin Owing => Cardinality(Owing \cup {k}) = Cardinality(Owing) + 1
  BY <1>3, FS_AddElement
<1>5. k \in Owing => Cardinality(Owing \ {k}) = Cardinality(Owing) - 1
  BY <1>3, FS_RemoveElement
<1>6. k \in Owing => Cardinality(Owing) # 0
  BY <1>3, FS_EmptySet
<1> QED
  BY <1>2, <1>3, <1>4, <1>5, <1>6

\* A new client is a new session.
LEMMA SessionInit == WSInit => Sess!Init
<1> SUFFICES ASSUME WSInit PROVE Sess!Init
  OBVIOUS
<1>1. Owing = {}
  BY DEF WSInit, Owing
<1> QED
  BY <1>1, FS_EmptySet DEF WSInit, Sess!Init, Owing

\* Every step of the client is one of Session's, or none.
LEMMA SessionStep ==
  ASSUME WInv, [WSNext]_wsvars
  PROVE  [Sess!Next]_<<connected, Cardinality(Owing), shut>>
<1> USE DEF wsvars, fields, net, pumps
<1> DEFINE Same == UNCHANGED <<connected, Cardinality(Owing), shut>>
<1>1. ASSUME Dialled
      PROVE  Sess!Open
  <2>1. dialled + 1 \in Socks /\ rd[dialled + 1] = "none"
    BY <1>1, ClientAssumption DEF Dialled, WInv, WTypeOK, FreshSocks, Socks
  <2>2. rd' = [rd EXCEPT ![dialled + 1] = "setup"] /\ ~connected /\ connected' /\ shut' = shut
    BY <1>1 DEF Dialled
  <2>3. Owing' = Owing
    BY <2>1, <2>2, OwingMoves DEF Owing, Reads
  <2> QED
    BY <2>2, <2>3 DEF Sess!Open, Owing
<1>2. ASSUME NEW u \in Users, CloseConn(u)
      PROVE  Sess!Shut
  BY <1>2 DEF CloseConn, WInv, CloseOnce, Sess!Shut
<1>3. ASSUME NEW k \in Socks, handleDisconnect(k), connected
      PROVE  Sess!Lose
  BY <1>3, OwingMoves DEF handleDisconnect, Sess!Lose, Owing, Reads
<1>4. ASSUME NEW k \in Socks, handleDisconnect(k), ~connected
      PROVE  Same
  <2>1. PICK at \in {"disconnect2", "end"} : rd' = [rd EXCEPT ![k] = at]
    BY <1>4 DEF handleDisconnect, Returned
  <2>2. k \notin Owing
    BY <1>4 DEF handleDisconnect, Owing
  <2>3. Owing' = Owing
    BY <2>1, <2>2, OwingMoves DEF Reads
  <2>4. connected = FALSE
    BY <1>4 DEF WInv, WTypeOK
  <2> QED
    BY <1>4, <2>3, <2>4 DEF handleDisconnect
<1>5. ASSUME NEW k \in Socks, onDisconnect(k)
      PROVE  Sess!Report
  BY <1>5, OwingMoves DEF onDisconnect, Returned, Sess!Report, Owing, Reads
<1>6. ASSUME NEW k \in Socks, ReadUse(k) \/ ReadMessage(k) \/ ReadError(k)
      PROVE  Same
  BY <1>6, OwingMoves DEF ReadUse, ReadMessage, ReadError, Owing, Reads
<1>7. ASSUME UNCHANGED <<connected, rd, shut>>
      PROVE  Same
  BY <1>7 DEF Owing
<1>8. ASSUME NEW u \in Users, Connect(u) \/ Close(u) \/ CloseDone(u) \/ Send(u) \/ SendQueue(u)
      PROVE  Same
  BY <1>7, <1>8 DEF Connect, Close, CloseDone, Send, SendQueue
<1>9. ASSUME NEW k \in Socks,
             \/ WriteTake(k) \/ WriteStart(k) \/ WriteEnd(k) \/ WriteDone(k) \/ Fail(k)
             \/ ReconnectStart(k) \/ ReconnectCheck(k) \/ ReconnectRaise(k) \/ ReconnectLeave(k)
      PROVE  Same
  BY <1>7, <1>9 DEF WriteTake, WriteStart, WriteEnd, WriteDone, Fail, ReconnectStart, ReconnectCheck,
    ReconnectRaise, ReconnectLeave
<1>10. ASSUME NotDialled \/ UNCHANGED wsvars
       PROVE  Same
  BY <1>7, <1>10 DEF NotDialled
<1> QED
  BY <1>1, <1>2, <1>3, <1>4, <1>5, <1>6, <1>8, <1>9, <1>10
    DEF WSNext, Reader, Reconnector, ConnectDial, ReconnectDial, Sess!Next

\* client/ws/client.go:96-166, 237-332.  The client implements Session: every connection lost
\* is reported exactly once, and only the one that Close takes down is not.
THEOREM WSImplementsSession == WSSpec => ImplementsSession
<1>1. WSSpec => []WInv
  BY WInitInv, WStepInv, PTL DEF WSSpec
<1> QED
  BY <1>1, SessionInit, SessionStep, PTL DEF WSSpec, ImplementsSession, Sess!Spec, Owing
=============================================================================
