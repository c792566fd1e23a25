------------------------------ MODULE WSClient ------------------------------
(***************************************************************************)
(* client/ws/client.go: one reconnecting WebSocket client.  connect starts *)
(* a readPump and a writePump, numbered like the socket that was dialled;  *)
(* both look c.conn up again, without the lock, each time they use it.     *)
(* handleDisconnect and reconnect run beside them, and the application     *)
(* calls Connect, Send and Close.  Messages are counted, not told apart;   *)
(* nothing here depends on what they say.  A use of a nil connection, or   *)
(* of one that another pump is seen writing to, ends the process.          *)
(***************************************************************************)
EXTENDS Naturals, FiniteSets

CONSTANTS
  Users,         \* goroutines of the application
  MaxConns,      \* bound on successful dials
  MaxReconnectAttempts,
  SendBuf        \* capacity of c.send (256)

ASSUME ClientAssumption ==
  /\ MaxConns \in Nat \ {0} /\ SendBuf \in Nat \ {0}
  /\ MaxReconnectAttempts \in Nat \ {0}  \* 0, no limit, is not explored

Socks == 1..MaxConns

VARIABLES
  closed, doneClosed,     \* c.closed; c.done is closed
  connected, conn,        \* c.connected; c.conn as a socket number, 0 for nil
  reconnecting, count,    \* c.reconnecting, c.reconnectCount
  sendq,                  \* messages in c.send
  dialled,                \* sockets made so far
  open, alive,            \* sockets not closed here; sockets whose peer answers
  rd, rsock,              \* readPump k: control, socket it reads
  wr, wsock,              \* writePump k: control, socket it writes
  rc,                     \* reconnect goroutines
  user,                   \* control of the application's goroutines
  shut, crashed           \* Close has closed the connection; a panic

fields == <<closed, doneClosed, connected, conn, reconnecting, count, shut>>
net == <<dialled, open, alive>>
pumps == <<rd, rsock, wr, wsock>>
wsvars == <<fields, sendq, net, pumps, rc, user, crashed>>

WSInit ==
  /\ closed = FALSE /\ doneClosed = FALSE /\ connected = FALSE /\ conn = 0
  /\ reconnecting = FALSE /\ count = 0 /\ sendq = 0 /\ shut = FALSE /\ crashed = FALSE
  /\ dialled = 0 /\ open = {} /\ alive = {}
  /\ rd = [k \in Socks |-> "none"] /\ rsock = [k \in Socks |-> 0]
  /\ wr = [k \in Socks |-> "none"] /\ wsock = [k \in Socks |-> 0]
  /\ rc = [q \in Socks |-> "none"]
  /\ user = [u \in Users |-> "idle"]

(***************************************************************************)
(* connect holds the lock while it dials.  It does not look at closed.     *)
(***************************************************************************)
\* Mutant: connected is not looked at again under the lock.
DialledAgain ==
  /\ dialled < MaxConns
  /\ dialled' = dialled + 1
  /\ open' = open \cup {dialled'} /\ alive' = alive \cup {dialled'}
  /\ conn' = dialled' /\ connected' = TRUE /\ count' = 0
  /\ rd' = [rd EXCEPT ![dialled'] = "setup"] /\ wr' = [wr EXCEPT ![dialled'] = "loop"]
  /\ UNCHANGED <<closed, doneClosed, reconnecting, shut, sendq, rsock, wsock, crashed>>

Dialled ==
  /\ ~connected /\ dialled < MaxConns
  /\ dialled' = dialled + 1
  /\ open' = open \cup {dialled'} /\ alive' = alive \cup {dialled'}
  /\ conn' = dialled' /\ connected' = TRUE /\ count' = 0
  /\ rd' = [rd EXCEPT ![dialled'] = "setup"] /\ wr' = [wr EXCEPT ![dialled'] = "loop"]
  /\ UNCHANGED <<closed, doneClosed, reconnecting, shut, sendq, rsock, wsock, crashed>>

NotDialled == UNCHANGED <<fields, sendq, net, pumps, crashed>>

(* Connect: closed is looked at under the lock, connect takes it again.    *)
Connect(u) ==
  /\ user[u] = "idle" /\ ~closed /\ ~crashed
  /\ user' = [user EXCEPT ![u] = "connect"]
  /\ UNCHANGED <<fields, sendq, net, pumps, rc, crashed>>

ConnectDial(u) ==
  /\ user[u] = "connect" /\ ~crashed
  /\ Dialled \/ NotDialled
  /\ user' = [user EXCEPT ![u] = "idle"]
  /\ UNCHANGED rc

(* Close, in its three critical sections. *)
Close(u) ==
  /\ user[u] = "idle" /\ ~closed /\ ~crashed
  /\ closed' = TRUE /\ user' = [user EXCEPT ![u] = "closeDone"]
  /\ UNCHANGED <<doneClosed, connected, conn, reconnecting, count, shut, sendq, net, pumps, rc, crashed>>

\* Mutant: done is not closed.
CloseDoneForgotten(u) ==
  /\ user[u] = "closeDone" /\ ~crashed
  /\ user' = [user EXCEPT ![u] = "closeConn"]
  /\ UNCHANGED <<fields, sendq, net, pumps, rc, crashed>>

CloseDone(u) ==
  /\ user[u] = "closeDone" /\ ~crashed
  /\ doneClosed' = TRUE /\ user' = [user EXCEPT ![u] = "closeConn"]
  /\ UNCHANGED <<closed, connected, conn, reconnecting, count, shut, sendq, net, pumps, rc, crashed>>

CloseConn(u) ==
  /\ user[u] = "closeConn" /\ ~crashed
  /\ open' = open \ {conn} /\ connected' = FALSE /\ shut' = TRUE
  /\ user' = [user EXCEPT ![u] = "idle"]
  /\ UNCHANGED <<closed, doneClosed, conn, reconnecting, count, sendq, dialled, alive, pumps, rc, crashed>>

(* Send and SendRaw: connected is read first, then the message is queued,  *)
(* or refused because the client is closed or the buffer full.             *)
Send(u) ==
  /\ user[u] = "idle" /\ connected /\ ~crashed
  /\ user' = [user EXCEPT ![u] = "send"]
  /\ UNCHANGED <<fields, sendq, net, pumps, rc, crashed>>

SendQueue(u) ==
  /\ user[u] = "send" /\ ~crashed
  /\ \/ sendq < SendBuf /\ sendq' = sendq + 1
     \/ (doneClosed \/ sendq = SendBuf) /\ UNCHANGED sendq
  /\ user' = [user EXCEPT ![u] = "idle"]
  /\ UNCHANGED <<fields, net, pumps, rc, crashed>>

(***************************************************************************)
(* readPump and handleDisconnect, which it calls on a read error and again *)
(* from its deferred function.                                             *)
(***************************************************************************)
ReadUse(k) ==
  /\ rd[k] \in {"setup", "read"} /\ ~crashed
  /\ crashed' = (conn = 0)
  /\ rd' = [rd EXCEPT ![k] = IF rd[k] = "setup" THEN "read" ELSE "reading"]
  /\ rsock' = [rsock EXCEPT ![k] = IF rd[k] = "read" THEN conn ELSE 0]
  /\ UNCHANGED <<fields, sendq, net, wr, wsock, rc, user>>

ReadMessage(k) ==
  /\ rd[k] = "reading" /\ rsock[k] \in open \cap alive /\ ~crashed
  /\ rd' = [rd EXCEPT ![k] = "read"] /\ rsock' = [rsock EXCEPT ![k] = 0]
  /\ UNCHANGED <<fields, sendq, net, wr, wsock, rc, user, crashed>>

ReadError(k) ==
  /\ rd[k] = "reading" /\ rsock[k] \notin open \cap alive /\ ~crashed
  /\ rd' = [rd EXCEPT ![k] = "disconnect"] /\ rsock' = [rsock EXCEPT ![k] = 0]
  /\ UNCHANGED <<fields, sendq, net, wr, wsock, rc, user, crashed>>

Returned(k) == IF rd[k] \in {"disconnect", "handler"} THEN "disconnect2" ELSE "end"

\* Mutant: wasConnected is not looked at.
handleDisconnectTwice(k) ==
  /\ rd[k] \in {"disconnect", "disconnect2"} /\ ~crashed
  /\ open' = open \ {conn} /\ conn' = 0 /\ connected' = FALSE
  /\ rd' = [rd EXCEPT ![k] = IF rd[k] = "disconnect" THEN "handler" ELSE "handler2"]
  /\ UNCHANGED <<closed, doneClosed, reconnecting, count, shut, sendq, dialled, alive, rsock,
                 wr, wsock, rc, user, crashed>>

handleDisconnect(k) ==
  /\ rd[k] \in {"disconnect", "disconnect2"} /\ ~crashed
  /\ open' = open \ {conn} /\ conn' = 0 /\ connected' = FALSE
  /\ rd' = [rd EXCEPT ![k] = IF ~connected THEN Returned(k)
                             ELSE IF rd[k] = "disconnect" THEN "handler" ELSE "handler2"]
  /\ UNCHANGED <<closed, doneClosed, reconnecting, count, shut, sendq, dialled, alive, rsock,
                 wr, wsock, rc, user, crashed>>

(* The handler runs, c.closed is read, and a reconnect goroutine begins.   *)
onDisconnect(k) ==
  /\ rd[k] \in {"handler", "handler2"} /\ ~crashed
  /\ rd' = [rd EXCEPT ![k] = Returned(k)]
  /\ rc' = IF closed THEN rc
           ELSE [rc EXCEPT ![CHOOSE q \in Socks : rc[q] = "none"] = "start"]
  /\ UNCHANGED <<fields, sendq, net, rsock, wr, wsock, user, crashed>>

(***************************************************************************)
(* writePump: a message or a tick is written to whatever c.conn is then.   *)
(***************************************************************************)
WriteTake(k) ==
  /\ wr[k] = "loop" /\ ~crashed
  /\ sendq' \in {sendq, sendq - 1} \cap Nat  \* a tick, or a message
  /\ wr' = [wr EXCEPT ![k] = "got"]
  /\ UNCHANGED <<fields, net, rd, rsock, wsock, rc, user, crashed>>

(* gorilla panics on the overlapping writes that it notices. *)
Overlap(s) == IF \E j \in Socks : wr[j] = "writing" /\ wsock[j] = s THEN BOOLEAN ELSE {FALSE}

WriteStart(k) ==
  /\ wr[k] = "got" /\ ~crashed
  /\ crashed' \in IF conn = 0 THEN {TRUE} ELSE Overlap(conn)
  /\ wr' = [wr EXCEPT ![k] = "writing"] /\ wsock' = [wsock EXCEPT ![k] = conn]
  /\ UNCHANGED <<fields, sendq, net, rd, rsock, rc, user>>

WriteEnd(k) ==
  /\ wr[k] = "writing" /\ ~crashed
  /\ \/ wsock[k] \in open /\ wr' = [wr EXCEPT ![k] = "loop"]
     \/ wsock[k] \notin open \cap alive /\ wr' = [wr EXCEPT ![k] = "end"]
  /\ wsock' = [wsock EXCEPT ![k] = 0]
  /\ UNCHANGED <<fields, sendq, net, rd, rsock, rc, user, crashed>>

WriteDone(k) ==
  /\ wr[k] = "loop" /\ doneClosed /\ ~crashed
  /\ wr' = [wr EXCEPT ![k] = "end"]
  /\ UNCHANGED <<fields, sendq, net, rd, rsock, wsock, rc, user, crashed>>

(***************************************************************************)
(* reconnect                                                               *)
(***************************************************************************)
ReconnectStart(q) ==
  /\ rc[q] = "start" /\ ~crashed
  /\ IF reconnecting \/ closed
     THEN rc' = [rc EXCEPT ![q] = "none"] /\ UNCHANGED reconnecting
     ELSE rc' = [rc EXCEPT ![q] = "check"] /\ reconnecting' = TRUE
  /\ UNCHANGED <<closed, doneClosed, connected, conn, count, shut, sendq, net, pumps, user, crashed>>

ReconnectCheck(q) ==
  /\ rc[q] = "check" /\ ~crashed
  /\ rc' = [rc EXCEPT ![q] = IF closed \/ count >= MaxReconnectAttempts THEN "leave" ELSE "raise"]
  /\ UNCHANGED <<fields, sendq, net, pumps, user, crashed>>

(* The count is raised in a critical section of its own; then the sleep.   *)
ReconnectRaise(q) ==
  /\ rc[q] = "raise" /\ ~crashed
  /\ count' = count + 1 /\ rc' = [rc EXCEPT ![q] = "dial"]
  /\ UNCHANGED <<closed, doneClosed, connected, conn, reconnecting, shut, sendq, net, pumps, user, crashed>>

ReconnectDial(q) ==
  /\ rc[q] = "dial" /\ ~crashed
  /\ \/ Dialled /\ rc' = [rc EXCEPT ![q] = "leave"]
     \/ NotDialled /\ rc' = [rc EXCEPT ![q] = IF connected THEN "leave" ELSE "check"]
  /\ UNCHANGED user

ReconnectLeave(q) ==
  /\ rc[q] = "leave" /\ ~crashed
  /\ reconnecting' = FALSE /\ rc' = [rc EXCEPT ![q] = "none"]
  /\ UNCHANGED <<closed, doneClosed, connected, conn, count, shut, sendq, net, pumps, user, crashed>>

(* The peer goes away, or nothing arrives within ReadTimeout. *)
Fail(s) ==
  /\ s \in alive /\ ~crashed /\ alive' = alive \ {s}
  /\ UNCHANGED <<fields, sendq, dialled, open, pumps, rc, user, crashed>>

Reader(k) == \/ ReadUse(k) \/ ReadError(k) \/ handleDisconnect(k)
             \/ onDisconnect(k)
Reconnector(q) == \/ ReconnectStart(q) \/ ReconnectCheck(q) \/ ReconnectRaise(q)
                  \/ ReconnectDial(q) \/ ReconnectLeave(q)

WSNext ==
  \/ \E u \in Users : \/ Connect(u) \/ ConnectDial(u) \/ Close(u) \/ CloseDone(u) \/ CloseConn(u)
                      \/ Send(u) \/ SendQueue(u)
  \/ \E k \in Socks : \/ Reader(k) \/ ReadMessage(k) \/ Fail(k) \/ Reconnector(k)
                      \/ WriteTake(k) \/ WriteStart(k) \/ WriteEnd(k) \/ WriteDone(k)

(***************************************************************************)
(* Goroutines run.  A select with several cases ready takes each of them   *)
(* sooner or later, so a writePump that comes back to its select again and *)
(* again sees done (SF).                                                   *)
(***************************************************************************)
WSFairness ==
  /\ \A u \in Users : WF_wsvars(ConnectDial(u) \/ CloseDone(u) \/ CloseConn(u) \/ SendQueue(u))
  /\ \A k \in Socks : /\ WF_wsvars(Reader(k)) /\ WF_wsvars(Reconnector(k))
                      /\ WF_wsvars(WriteStart(k) \/ WriteEnd(k)) /\ SF_wsvars(WriteDone(k))

WSSpec == WSInit /\ [][WSNext]_wsvars /\ WSFairness

(* The sockets that are open are exactly the one c.conn holds while        *)
(* c.connected says so: although pumps of earlier connections live on and  *)
(* disconnect, connect and Close interleave, no socket is ever overwritten *)
(* and left open, and none is open while IsConnected says false.           *)
OpenIffConnected == open = IF connected THEN {conn} ELSE {}

(* Every connection lost is reported to onDisconnect exactly once, and     *)
(* only the one Close takes down is not: WSClient implements Session.      *)
Sess == INSTANCE Session WITH
  up <- connected,
  owed <- Cardinality({k \in Socks : rd[k] \in {"handler", "handler2"}}),
  shut <- shut

ImplementsSession == Sess!Spec

(* After Close every writePump and every reconnect goroutine ends, those   *)
(* started by a connect that Close did not see included.                   *)
CloseEndsLoops ==
  closed ~> [](crashed \/ \A k \in Socks : wr[k] \in {"none", "end"} /\ rc[k] = "none")

(* "AutoReconnect enables automatic reconnection": a client that loses its *)
(* connection goes on to dial again, it does not bring the process down.   *)
SurvivesDisconnect == ~crashed
============================================================================
