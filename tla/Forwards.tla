------------------------------ MODULE Forwards ------------------------------
(***************************************************************************)
(* internal/mesh/forward.go and its handlers in internal/api/proxy.go:     *)
(* local listeners that carry TCP connections through the mesh to a port   *)
(* of a node.  Requests start forwards while a user, the deletion of a     *)
(* network, the idle reaper and the shutdown stop them, and clients come   *)
(* and go.  Each of the four stoppers drains its forwards one by one.      *)
(***************************************************************************)
EXTENDS Naturals, FiniteSets

CONSTANTS
  Networks,
  Fwds,        \* the forwards that may be started, each once
  Clients      \* the connections clients may make, each once

Stoppers == {"user", "delete", "reaper", "shutdown"}

VARIABLES
  inst,     \* inst[n]: network n has a mesh instance
  fwd,      \* the forwards: where Start stands, in the table or out of it
  conn,     \* the connections
  stp       \* the stoppers: forwards still to drain, the one being drained

vars == <<inst, fwd, conn, stp>>

NoFwd == [pc |-> "none", net |-> 0, open |-> FALSE, ctx |-> TRUE, active |-> 0, idle |-> FALSE]
NoConn == [pc |-> "none", fwd |-> 0, out |-> FALSE, in |-> FALSE]

\* The shape of the state; active counts exactly the connections with a handler, so
\* that the reaper's test for "no connection" means it.
TypeOK ==
  /\ inst \in [Networks -> BOOLEAN]
  /\ fwd \in [Fwds -> [pc : {"none", "starting", "listed", "removed"}, net : Networks \cup {0},
                       open : BOOLEAN, ctx : BOOLEAN, active : 0..Cardinality(Clients),
                       idle : BOOLEAN]]
  /\ conn \in [Clients -> [pc : {"none", "queued", "accepted", "dial", "open", "closed"},
                           fwd : Fwds \cup {0}, out : BOOLEAN, in : BOOLEAN]]
  /\ stp \in [Stoppers -> [todo : SUBSET Fwds, cur : Fwds \cup {0}, net : Networks \cup {0},
                           over : BOOLEAN]]
  /\ \A f \in Fwds :
       fwd[f].active = Cardinality({c \in Clients : conn[c].fwd = f /\ conn[c].pc \in {"dial", "open"}})

Init ==
  /\ inst = [n \in Networks |-> TRUE]
  /\ fwd = [f \in Fwds |-> NoFwd] /\ conn = [c \in Clients |-> NoConn]
  /\ stp = [s \in Stoppers |-> [todo |-> {}, cur |-> 0, net |-> 0, over |-> FALSE]]

----------------------------------------------------------------------------
\* Start.

\* StartPortForward and the first half of Start: the network has an instance, the
\* local port is free (another outcome ends the request and changes nothing).
Listen(f, n) ==
  /\ fwd[f].pc = "none" /\ inst[n]
  /\ fwd' = [fwd EXCEPT ![f] = [NoFwd EXCEPT !.pc = "starting", !.net = n, !.open = TRUE]]
  /\ UNCHANGED <<inst, conn, stp>>

\* The second half: lastActivity is now, the forward enters the table.
Register(f) ==
  /\ fwd[f].pc = "starting"
  /\ fwd' = [fwd EXCEPT ![f].pc = "listed"]
  /\ UNCHANGED <<inst, conn, stp>>

----------------------------------------------------------------------------
\* The stoppers take forwards out of the table under the lock, then drain them.

Free(s) == stp[s].todo = {} /\ stp[s].cur = 0

Listed(n) == {f \in Fwds : fwd[f].pc = "listed" /\ (n = 0 \/ fwd[f].net = n)}

Removed(S) == [f \in Fwds |-> IF f \in S THEN [fwd[f] EXCEPT !.pc = "removed", !.idle = FALSE] ELSE fwd[f]]

TakeOut(s, S) ==
  /\ fwd' = Removed(S)
  /\ stp' = [stp EXCEPT ![s].todo = S]
  /\ UNCHANGED <<inst, conn>>

\* A plausible bug: the entry is deleted before the network is compared.
StopForNetworkDeletesFirst(n, f) ==
  /\ Free("user") /\ fwd[f].pc = "listed"
  /\ fwd' = Removed({f})
  /\ stp' = [stp EXCEPT !["user"].todo = IF fwd[f].net = n THEN {f} ELSE {}]
  /\ UNCHANGED <<inst, conn>>

\* StopPortForward: by id, for the network in the request's path.
StopForNetwork(n, f) ==
  /\ Free("user") /\ fwd[f].pc = "listed" /\ fwd[f].net = n
  /\ TakeOut("user", {f})

\* DeleteNetwork: StopAllForNetwork, then (NetworkStopped) StopNetwork.
StopAllForNetwork(n) ==
  /\ Free("delete") /\ inst[n] /\ stp["delete"].net = 0
  /\ fwd' = Removed(Listed(n))
  /\ stp' = [stp EXCEPT !["delete"].todo = Listed(n), !["delete"].net = n]
  /\ UNCHANGED <<inst, conn>>

NetworkStopped ==
  /\ Free("delete") /\ stp["delete"].net # 0
  /\ inst' = [inst EXCEPT ![stp["delete"].net] = FALSE]
  /\ stp' = [stp EXCEPT !["delete"].net = 0]
  /\ UNCHANGED <<fwd, conn>>

StopAll ==
  /\ Free("shutdown") /\ ~stp["shutdown"].over
  /\ fwd' = Removed(Listed(0))
  /\ stp' = [stp EXCEPT !["shutdown"].todo = Listed(0), !["shutdown"].over = TRUE]
  /\ UNCHANGED <<inst, conn>>

Idle == {f \in Listed(0) : fwd[f].active = 0 /\ fwd[f].idle}

\* The reaper's ticks that find nothing change nothing.
ReapIdle == Free("reaper") /\ Idle # {} /\ TakeOut("reaper", Idle)

\* drain: cancel and close the listener; connections not yet accepted are reset.
Drain(s, f) ==
  /\ stp[s].cur = 0 /\ f \in stp[s].todo
  /\ stp' = [stp EXCEPT ![s].todo = @ \ {f}, ![s].cur = f]
  /\ fwd' = [fwd EXCEPT ![f].ctx = FALSE, ![f].open = FALSE]
  /\ conn' = [c \in Clients |-> IF conn[c].fwd = f /\ conn[c].pc = "queued"
                                THEN [NoConn EXCEPT !.pc = "closed"] ELSE conn[c]]
  /\ UNCHANGED inst

\* A plausible bug: drain waits for its connections only.
DrainedNoTimeout(f, timeout) == fwd[f].active = 0

\* The wait in drain ends with the last connection or after three seconds.
Drained(f, timeout) == timeout \/ fwd[f].active = 0

DrainReturns(s, timeout) ==
  /\ stp[s].cur # 0 /\ Drained(stp[s].cur, timeout)
  /\ stp' = [stp EXCEPT ![s].cur = 0]
  /\ UNCHANGED <<inst, fwd, conn>>

----------------------------------------------------------------------------
\* The connections.

Connect(c, f) ==
  /\ conn[c].pc = "none" /\ fwd[f].open
  /\ conn' = [conn EXCEPT ![c].pc = "queued", ![c].fwd = f]
  /\ UNCHANGED <<inst, fwd, stp>>

\* acceptLoop runs once the forward is in the table: Accept ...
Accept(c) ==
  /\ conn[c].pc = "queued" /\ fwd[conn[c].fwd].pc # "starting"
  /\ conn' = [conn EXCEPT ![c].pc = "accepted"]
  /\ UNCHANGED <<inst, fwd, stp>>

\* ... and then lastActivity, connWg.Add and active.Add.
Count(c) ==
  LET f == conn[c].fwd IN
  /\ conn[c].pc = "accepted"
  /\ fwd' = [fwd EXCEPT ![f].idle = FALSE, ![f].active = @ + 1]
  /\ conn' = [conn EXCEPT ![c].pc = "dial"]
  /\ UNCHANGED <<inst, stp>>

\* The dial runs under the forward's context, which drain cancels.
DialContext(f) == fwd[f].ctx

\* handleConn: GetInstance and DialPort succeed, the two copies start.
DialPort(c) ==
  /\ conn[c].pc = "dial" /\ DialContext(conn[c].fwd) /\ inst[fwd[conn[c].fwd].net]
  /\ conn' = [conn EXCEPT ![c].pc = "open", ![c].out = TRUE, ![c].in = TRUE]
  /\ UNCHANGED <<inst, fwd, stp>>

\* The deferred connWg.Done and active.Add(-1).
Finished(f) == [fwd EXCEPT ![f].active = @ - 1]

\* No instance, or the dial fails: refused, timed out or cancelled.
DialFails(c) ==
  /\ conn[c].pc = "dial"
  /\ fwd' = Finished(conn[c].fwd)
  /\ conn' = [conn EXCEPT ![c] = [NoConn EXCEPT !.pc = "closed"]]
  /\ UNCHANGED <<inst, stp>>

\* The client or the node closes, or the mesh goes away: a copy ends and half-closes
\* the other side.
CopyEnds(c, way) ==
  /\ conn[c].pc = "open" /\ conn[c][way]
  /\ conn' = [conn EXCEPT ![c][way] = FALSE]
  /\ UNCHANGED <<inst, fwd, stp>>

\* handleConn returns after both copies and closes both ends.
HandlerReturns(c) ==
  /\ conn[c].pc = "open" /\ ~conn[c].out /\ ~conn[c].in
  /\ fwd' = Finished(conn[c].fwd)
  /\ conn' = [conn EXCEPT ![c] = [NoConn EXCEPT !.pc = "closed"]]
  /\ UNCHANGED <<inst, stp>>

\* Ten minutes without a new connection.
TimePasses(f) ==
  /\ fwd[f].pc = "listed" /\ ~fwd[f].idle
  /\ fwd' = [fwd EXCEPT ![f].idle = TRUE]
  /\ UNCHANGED <<inst, conn, stp>>

----------------------------------------------------------------------------
Handler(c) == Accept(c) \/ Count(c) \/ DialPort(c) \/ DialFails(c) \/ HandlerReturns(c)

Draining(s) ==
  \/ \E f \in Fwds : Drain(s, f)
  \/ \E timeout \in BOOLEAN : DrainReturns(s, timeout)

Next ==
  \/ \E f \in Fwds : Register(f) \/ TimePasses(f)
  \/ \E f \in Fwds, n \in Networks : Listen(f, n) \/ StopForNetwork(n, f)
  \/ \E n \in Networks : StopAllForNetwork(n)
  \/ NetworkStopped
  \/ StopAll
  \/ ReapIdle
  \/ \E s \in Stoppers : Draining(s)
  \/ \E c \in Clients, f \in Fwds : Connect(c, f)
  \/ \E c \in Clients : Handler(c)
  \/ \E c \in Clients, way \in {"out", "in"} : CopyEnds(c, way)

\* The goroutines run, the ticker of the reaper fires, clocks advance; a client or a
\* node need never close, and a network need never be deleted.
Fairness ==
  /\ WF_vars(ReapIdle)
  /\ \A f \in Fwds : WF_vars(Register(f)) /\ WF_vars(TimePasses(f))
  /\ \A c \in Clients : WF_vars(Handler(c))
  /\ \A s \in Stoppers : WF_vars(Draining(s))

Spec == Init /\ [][Next]_vars /\ Fairness

----------------------------------------------------------------------------
\* A listening socket always belongs to a forward that the table lists, that Start is
\* about to list or that a stopper is going to drain: none is left that no request can
\* find (StopForNetwork, StopAllForNetwork, StopAll, reapIdle).
ListenerOwned ==
  \A f \in Fwds : fwd[f].open =>
    \/ fwd[f].pc \in {"starting", "listed"}
    \/ \E s \in Stoppers : f \in stp[s].todo

\* Whoever stops forwards gets done with all of them in the end, also when clients keep
\* their connections for ever: a request, the deletion and the shutdown return (drain).
StopsReturn == (\E s \in Stoppers : ~Free(s)) ~> (\A s \in Stoppers : Free(s))

=============================================================================
