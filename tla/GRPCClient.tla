---------------------------- MODULE GRPCClient ----------------------------
(***************************************************************************)
(* client/grpc/client.go: a gRPC connection with a monitor that replaces   *)
(* it when it has failed.  Connections are numbered as they are dialled.   *)
(* Both the monitor and the application call Reconnect; the application    *)
(* also calls Close and, through the helper Call, the service.  Every      *)
(* goroutine is one process; the monitor is one of them.                   *)
(***************************************************************************)
EXTENDS Naturals, FiniteSets

CONSTANTS
  GCallers,     \* goroutines of the application
  Monitor,      \* the goroutine of connectionMonitor
  MaxDials,     \* bound on connections made
  MaxRetries    \* opts.MaxRetries of Call

ASSUME GRPCAssumption ==
  Monitor \notin GCallers /\ MaxDials \in Nat \ {0} /\ MaxRetries \in Nat

GProcs == GCallers \cup {Monitor}

VARIABLES
  gclosed, gstop,      \* c.closed; c.stopCh is closed
  gconn,               \* c.conn as a number, 0 for nil
  greconnecting,       \* c.reconnecting
  gdials, gopen, gbad, \* connections made, not closed, in TransientFailure
  gpc, gtry,           \* control; attempts made by a Call
  gseen,               \* the connection the monitor has taken
  gcrashed

gfields == <<gclosed, gstop, gconn, greconnecting>>
gnet == <<gdials, gopen, gbad>>
gvars == <<gfields, gnet, gpc, gtry, gseen, gcrashed>>

(* NewClient has dialled and, with AutoReconnect, started the monitor. *)
GInit(auto) ==
  /\ gclosed = FALSE /\ gstop = FALSE /\ gconn = 1 /\ greconnecting = FALSE
  /\ gdials = 1 /\ gopen = {1} /\ gbad = {}
  /\ gpc = [p \in GProcs |-> IF p = Monitor /\ ~auto THEN "end" ELSE "idle"]
  /\ gtry = [p \in GProcs |-> 0] /\ gseen = 0 /\ gcrashed = FALSE

(* The end of Reconnect: the application is idle, the monitor at its select. *)
GGoto(p, at) == gpc' = [gpc EXCEPT ![p] = at]

(* Reconnect: closed is read, then the flag is taken with a CompareAndSwap. *)
GReconnect(p) ==
  /\ gpc[p] \in {"idle", "reconnect"} /\ (p = Monitor => gpc[p] = "reconnect") /\ ~gcrashed
  /\ GGoto(p, IF gclosed THEN "idle" ELSE "swap")
  /\ UNCHANGED <<gfields, gnet, gtry, gseen, gcrashed>>

\* Mutant: the flag is set without looking at it.
GReconnectSwapUnchecked(p) ==
  /\ gpc[p] = "swap" /\ ~gcrashed
  /\ GGoto(p, "drop") /\ greconnecting' = TRUE
  /\ UNCHANGED <<gclosed, gstop, gconn, gnet, gtry, gseen, gcrashed>>

GReconnectSwap(p) ==
  /\ gpc[p] = "swap" /\ ~gcrashed
  /\ GGoto(p, IF greconnecting THEN "idle" ELSE "drop") /\ greconnecting' = TRUE
  /\ UNCHANGED <<gclosed, gstop, gconn, gnet, gtry, gseen, gcrashed>>

GReconnectDrop(p) ==
  /\ gpc[p] = "drop" /\ ~gcrashed
  /\ gopen' = gopen \ {gconn} /\ gconn' = 0 /\ GGoto(p, "dial")
  /\ UNCHANGED <<gclosed, gstop, greconnecting, gdials, gbad, gtry, gseen, gcrashed>>

(* connect: a failed dial leaves c.conn nil. *)
connect(p) ==
  /\ gpc[p] = "dial" /\ ~gcrashed /\ GGoto(p, "leave")
  /\ \/ /\ gdials < MaxDials /\ gdials' = gdials + 1
        /\ gconn' = gdials' /\ gopen' = gopen \cup {gdials'}
     \/ UNCHANGED <<gdials, gconn, gopen>>
  /\ UNCHANGED <<gclosed, gstop, greconnecting, gbad, gtry, gseen, gcrashed>>

\* Mutant: the deferred Store(false) is missing.
GReconnectLeaveFlagged(p) ==
  /\ gpc[p] = "leave" /\ ~gcrashed /\ GGoto(p, "idle")
  /\ UNCHANGED <<gfields, gnet, gtry, gseen, gcrashed>>

GReconnectLeave(p) ==
  /\ gpc[p] = "leave" /\ ~gcrashed
  /\ greconnecting' = FALSE /\ GGoto(p, "idle")
  /\ UNCHANGED <<gclosed, gstop, gconn, gnet, gtry, gseen, gcrashed>>

(* connectionMonitor: at a tick it takes c.conn, and looks at its state    *)
(* later: nil, failed or shut down means Reconnect, whatever c.conn is by  *)
(* then.  A closed client or stop channel ends the monitor.                *)
MonitorTick ==
  /\ gpc[Monitor] = "idle" /\ ~gcrashed
  /\ GGoto(Monitor, IF gclosed THEN "end" ELSE IF gconn = 0 THEN "reconnect" ELSE "state")
  /\ gseen' = IF gclosed THEN 0 ELSE gconn
  /\ UNCHANGED <<gfields, gnet, gtry, gcrashed>>

MonitorState ==
  /\ gpc[Monitor] = "state" /\ ~gcrashed
  /\ GGoto(Monitor, IF gseen \notin gopen \ gbad THEN "reconnect" ELSE "idle") /\ gseen' = 0
  /\ UNCHANGED <<gfields, gnet, gtry, gcrashed>>

MonitorStop ==
  /\ gpc[Monitor] = "idle" /\ gstop /\ ~gcrashed /\ GGoto(Monitor, "end")
  /\ UNCHANGED <<gfields, gnet, gtry, gseen, gcrashed>>

(* Close: the flag, a look at the stop channel, its closing, the connection. *)
GClose(p) ==
  /\ p \in GCallers /\ gpc[p] = "idle" /\ ~gcrashed
  /\ gclosed' = TRUE /\ GGoto(p, "closeLook")
  /\ UNCHANGED <<gstop, gconn, greconnecting, gnet, gtry, gseen, gcrashed>>

GCloseLook(p) ==
  /\ gpc[p] = "closeLook" /\ ~gcrashed /\ GGoto(p, IF gstop THEN "closeConn" ELSE "closeStop")
  /\ UNCHANGED <<gfields, gnet, gtry, gseen, gcrashed>>

GCloseStop(p) ==
  /\ gpc[p] = "closeStop" /\ ~gcrashed
  /\ gcrashed' = gstop /\ gstop' = TRUE /\ GGoto(p, "closeConn")
  /\ UNCHANGED <<gclosed, gconn, greconnecting, gnet, gtry, gseen>>

GCloseConn(p) ==
  /\ gpc[p] = "closeConn" /\ ~gcrashed
  /\ gopen' = gopen \ {gconn} /\ GGoto(p, "idle")
  /\ UNCHANGED <<gfields, gdials, gbad, gtry, gseen, gcrashed>>

(* Call: up to MaxRetries + 1 attempts, each on the connection of its time; *)
(* the generated code cannot use a nil one.                                *)
Call(p) ==
  /\ p \in GCallers /\ gpc[p] = "idle" /\ ~gcrashed /\ GGoto(p, "call")
  /\ UNCHANGED <<gfields, gnet, gtry, gseen, gcrashed>>

CallAttempt(p) ==
  /\ gpc[p] = "call" /\ ~gcrashed /\ gcrashed' = (gconn = 0)
  /\ \/ /\ gtry[p] < MaxRetries /\ gtry' = [gtry EXCEPT ![p] = @ + 1]
        /\ UNCHANGED gpc
     \/ /\ gconn \in gopen \ gbad \/ gtry[p] = MaxRetries
        /\ gtry' = [gtry EXCEPT ![p] = 0] /\ GGoto(p, "idle")
  /\ UNCHANGED <<gfields, gnet, gseen>>

(* The network: an open connection fails or recovers by itself. *)
GFail(s) ==
  /\ s \in gopen /\ gbad' \in {gbad \cup {s}, gbad \ {s}} /\ ~gcrashed
  /\ UNCHANGED <<gfields, gdials, gopen, gpc, gtry, gseen, gcrashed>>

GReconnector(p) == \/ GReconnectSwap(p) \/ GReconnectDrop(p) \/ connect(p) \/ GReconnectLeave(p)

GNext ==
  \/ \E p \in GProcs : GReconnect(p) \/ GReconnector(p)
  \/ \E p \in GCallers : \/ GClose(p) \/ GCloseLook(p) \/ GCloseStop(p) \/ GCloseConn(p)
                         \/ Call(p) \/ CallAttempt(p)
  \/ MonitorTick \/ MonitorState \/ MonitorStop
  \/ \E s \in 1..MaxDials : GFail(s)

(* Goroutines run, and the ticker of the monitor ticks. *)
GFairness ==
  /\ WF_gvars(MonitorTick \/ MonitorState \/ MonitorStop \/ GReconnect(Monitor))
  /\ \A p \in GProcs : WF_gvars(GReconnector(p))
  /\ \A p \in GCallers : WF_gvars(GCloseLook(p) \/ GCloseStop(p) \/ GCloseConn(p))

GSpec == GInit(TRUE) /\ [][GNext]_gvars /\ GFairness

(* Reconnect drops the old connection and dials a new one in two critical  *)
(* sections, with calls of several goroutines and Close in between; no     *)
(* connection is ever overwritten and left open: the one c.conn holds is   *)
(* the only one that can be.                                               *)
NoConnectionLeaked == gopen \subseteq {gconn}

Stuck == /\ gconn # 0 /\ gconn \notin gopen \ gbad
         /\ ~gclosed /\ ~gcrashed

(* A connection that has failed or was shut down does not stay c.conn of   *)
(* an open client for ever: however Reconnects by several goroutines and   *)
(* the flag they share interleave, one of them drops it or it recovers.    *)
FailedIsReplaced == []<>~Stuck
============================================================================
