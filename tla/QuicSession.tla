---------------------------- MODULE QuicSession ----------------------------
(***************************************************************************)
(* The reconnecting QUIC session and the migration probe that drives it    *)
(* (internal/quictransport/session.go, probe.go).  A session owns at most  *)
(* one connection.  The probe's loop sends a datagram per tick; a send     *)
(* that fails starts reconnectAsync in a goroutine of its own, and so does *)
(* a change of the host's addresses with Reconnect.  One atomic flag lets  *)
(* a single reconnect run; the others return at once.  The probe ends at   *)
(* any time, and its deferred calls close the session, cancel the          *)
(* receivers and close the socket while a dial may be under way.           *)
(*                                                                         *)
(* A connection is an element of Conns, taken again once nothing refers to *)
(* it.  Payloads, sequence numbers, statistics, the generation counter     *)
(* (no caller uses it) and the forced reconnect of the diagnostics are     *)
(* left out.                                                               *)
(***************************************************************************)
EXTENDS Naturals

CONSTANTS
  Callers,      \* goroutines that may be inside a reconnect at once
  Conns,        \* connection identities
  MaxChanges    \* bound: how often the network goes down or comes back

VARIABLES
  up,           \* the network delivers packets
  changes,      \* how often the addresses of the host have changed
  lastAddrs,    \* the change the probe last looked at
  sock,         \* the probe's UDP socket is open
  open,         \* connections that are alive
  conn,         \* Session.conn: a set with the connection, or empty
  reconnecting, closed,   \* the atomic flags of Session
  pc,           \* where every reconnecting goroutine is
  withCtx,      \* those that run under the context of the probe
  ctxDone,      \* that context is cancelled
  dialed,       \* the connection it has dialed and not stored
  sending,      \* a SendDatagram under way, and the connection it has read
  receivers,    \* connections with a runReceiver goroutine
  rxCancelled,  \* rxCtx is done
  probe         \* where the probe is: its loop or its deferred calls

net == <<up, changes>>
session == <<conn, reconnecting, closed>>
context == <<withCtx, ctxDone>>
vars == <<up, changes, lastAddrs, sock, open, conn, reconnecting, closed, pc,
          withCtx, ctxDone, dialed, sending, receivers, rxCancelled, probe>>

TypeOK ==
  /\ up \in BOOLEAN
  /\ changes \in 0..MaxChanges /\ lastAddrs \in 0..changes
  /\ sock \in BOOLEAN /\ rxCancelled \in BOOLEAN
  /\ open \subseteq Conns /\ receivers \subseteq Conns
  /\ conn \subseteq Conns /\ \A c, d \in conn : c = d
  /\ reconnecting \in BOOLEAN /\ closed \in BOOLEAN
  /\ pc \in [Callers -> {"idle", "swap", "teardown", "check", "dial",
                         "store", "release"}]
  /\ withCtx \subseteq Callers /\ ctxDone \in BOOLEAN
  /\ dialed \in [Callers -> SUBSET Conns]
  /\ sending.now \in BOOLEAN /\ sending.on \subseteq Conns
  /\ probe \in {"loop", "close", "closeConn", "cancel", "socket", "done"}

Silent == [now |-> FALSE, on |-> {}]

\* NewSession has dialed, and the probe has started the first receiver.
Init ==
  \E c \in Conns :
    /\ c = CHOOSE d \in Conns : TRUE
    /\ up = TRUE /\ changes = 0 /\ lastAddrs = 0
    /\ sock = TRUE /\ open = {c} /\ conn = {c} /\ receivers = {c}
    /\ reconnecting = FALSE /\ closed = FALSE /\ rxCancelled = FALSE
    /\ withCtx = {} /\ ctxDone = FALSE
    /\ pc = [g \in Callers |-> "idle"] /\ dialed = [g \in Callers |-> {}]
    /\ sending = Silent /\ probe = "loop"

(***************************************************************************)
(* The network and quic-go.                                                *)
(***************************************************************************)
\* Addresses appear or disappear with the network.
NetChanges ==
  /\ changes < MaxChanges
  /\ up' = ~up /\ changes' = changes + 1
  /\ UNCHANGED <<context, lastAddrs, sock, open, session, pc, dialed, sending,
                 receivers, rxCancelled, probe>>

\* A write error or the idle timeout ends a connection for good.
ConnDies ==
  /\ ~up /\ open # {}
  /\ open' = {}
  /\ UNCHANGED <<net, context, lastAddrs, sock, session, pc, dialed, sending,
                 receivers, rxCancelled, probe>>

(***************************************************************************)
(* A reconnect, from the call to the return.                               *)
(***************************************************************************)
\* reconnectAsync runs under the background context, Reconnect under the
\* context of the probe.
Spawn(g, underCtx) ==
  /\ pc[g] = "idle"
  /\ pc' = [pc EXCEPT ![g] = "swap"]
  /\ withCtx' = IF underCtx THEN withCtx \cup {g} ELSE withCtx \ {g}

\* A plausible bug: the flag is not looked at.
NeverInFlight == FALSE

\* The compare-and-swap fails: another reconnect is under way.
InFlight == reconnecting

CompareAndSwap(g) ==
  /\ pc[g] = "swap"
  /\ pc' = [pc EXCEPT ![g] = IF InFlight THEN "idle" ELSE "teardown"]
  /\ reconnecting' = TRUE
  /\ UNCHANGED <<net, context, lastAddrs, sock, open, conn, closed, dialed, sending,
                 receivers, rxCancelled, probe>>

\* reconnectLoop first takes the old connection out and closes it.
TearDown(g) ==
  /\ pc[g] = "teardown"
  /\ conn' = {} /\ open' = open \ conn
  /\ pc' = [pc EXCEPT ![g] = "check"]
  /\ UNCHANGED <<net, context, lastAddrs, sock, reconnecting, closed, dialed, sending,
                 receivers, rxCancelled, probe>>

\* A plausible bug: only the context ends the loop.
NeverGivesUp == FALSE

\* The loop leaves when the session has been closed.
GivesUp == closed

LoopCheck(g) ==
  /\ pc[g] = "check"
  /\ pc' = [pc EXCEPT ![g] = IF GivesUp THEN "release" ELSE "dial"]
  /\ UNCHANGED <<net, context, lastAddrs, sock, open, session, dialed, sending,
                 receivers, rxCancelled, probe>>

\* Connections something still refers to.
Referred == open \cup conn \cup receivers \cup sending.on
            \cup UNION {dialed[g] : g \in Callers}

DialSucceeds(g) ==
  /\ pc[g] = "dial" /\ up /\ sock
  /\ Conns \ Referred # {}
  /\ LET c == CHOOSE d \in Conns \ Referred : TRUE IN
       /\ open' = open \cup {c}
       /\ dialed' = [dialed EXCEPT ![g] = {c}]
  /\ pc' = [pc EXCEPT ![g] = "store"]
  /\ UNCHANGED <<net, context, lastAddrs, sock, session, sending, receivers,
                 rxCancelled, probe>>

\* The dial fails or times out; after the back-off the loop starts over,
\* unless the caller's context is done.
DialFails(g) ==
  /\ pc[g] = "dial"
  /\ ~up \/ ~sock \/ (ctxDone /\ g \in withCtx)
  /\ pc' = [pc EXCEPT ![g] = IF ctxDone /\ g \in withCtx THEN "release"
                             ELSE "check"]
  /\ UNCHANGED <<net, context, lastAddrs, sock, open, session, dialed, sending,
                 receivers, rxCancelled, probe>>

\* The new connection is stored and OnReconnect starts its receiver.
Store(g) ==
  /\ pc[g] = "store"
  /\ conn' = dialed[g] /\ receivers' = receivers \cup dialed[g]
  /\ dialed' = [dialed EXCEPT ![g] = {}]
  /\ pc' = [pc EXCEPT ![g] = "release"]
  /\ UNCHANGED <<net, context, lastAddrs, sock, open, reconnecting, closed, sending,
                 rxCancelled, probe>>

\* The deferred reset of the flag.
Released == FALSE

Release(g) ==
  /\ pc[g] = "release"
  /\ reconnecting' = Released
  /\ pc' = [pc EXCEPT ![g] = "idle"]
  /\ UNCHANGED <<net, context, lastAddrs, sock, open, conn, closed, dialed, sending,
                 receivers, rxCancelled, probe>>

Reconnecting(g) ==
  \/ CompareAndSwap(g) \/ TearDown(g) \/ LoopCheck(g)
  \/ DialSucceeds(g) \/ DialFails(g) \/ Store(g) \/ Release(g)

(***************************************************************************)
(* The probe's loop and its receivers.                                     *)
(***************************************************************************)
\* A tick: SendDatagram checks the flag and reads the connection ...
SendReads ==
  /\ probe = "loop" /\ ~sending.now /\ ~closed
  /\ sending' = [now |-> TRUE, on |-> conn]
  /\ UNCHANGED <<net, context, lastAddrs, sock, open, session, pc, dialed,
                 receivers, rxCancelled, probe>>

\* ... and sends on it: without a live connection it starts a reconnect.
SendDatagram ==
  /\ sending.now
  /\ sending' = Silent
  /\ IF sending.on # {} /\ sending.on \subseteq open
       THEN UNCHANGED <<pc, withCtx>>
       ELSE \E g \in Callers : Spawn(g, FALSE)
  /\ UNCHANGED <<net, ctxDone, lastAddrs, sock, open, session, dialed,
                 receivers, rxCancelled, probe>>

\* The 2-second check of the addresses: a change asks for a reconnect.
NetCheck ==
  /\ probe = "loop" /\ ~sending.now /\ lastAddrs # changes
  /\ lastAddrs' = changes
  /\ \E g \in Callers : Spawn(g, TRUE)
  /\ UNCHANGED <<net, ctxDone, sock, open, session, dialed, sending,
                 receivers, rxCancelled, probe>>

\* runReceiver returns when its connection ends, when rxCtx is done and
\* when nothing arrives for 30 seconds.
ReceiverExits(c) ==
  /\ c \in receivers
  /\ c \notin open \/ rxCancelled \/ ~up
  /\ receivers' = receivers \ {c}
  /\ UNCHANGED <<net, context, lastAddrs, sock, open, session, pc, dialed,
                 sending, rxCancelled, probe>>

\* The duration is over, or the context was cancelled.
ProbeEnds ==
  /\ probe = "loop" /\ ~sending.now
  /\ probe' = "close" /\ ctxDone' \in BOOLEAN
  /\ UNCHANGED <<net, withCtx, lastAddrs, sock, open, session, pc, dialed,
                 sending, receivers, rxCancelled>>

\* Session.Close sets the flag, then takes the connection out and closes it.
CloseFlag ==
  /\ probe = "close"
  /\ closed' = TRUE /\ probe' = "closeConn"
  /\ UNCHANGED <<net, context, lastAddrs, sock, open, conn, reconnecting, pc,
                 dialed, sending, receivers, rxCancelled>>

CloseConn ==
  /\ probe = "closeConn"
  /\ open' = open \ conn /\ conn' = {} /\ probe' = "cancel"
  /\ UNCHANGED <<net, context, lastAddrs, sock, reconnecting, closed, pc,
                 dialed, sending, receivers, rxCancelled>>

\* The remaining deferred calls: rxCancel, then udpConn.Close.
CancelReceivers ==
  /\ probe = "cancel"
  /\ rxCancelled' = TRUE /\ probe' = "socket"
  /\ UNCHANGED <<net, context, lastAddrs, sock, open, session, pc, dialed,
                 sending, receivers>>

CloseSocket ==
  /\ probe = "socket"
  /\ sock' = FALSE /\ open' = {} /\ probe' = "done"
  /\ UNCHANGED <<net, context, lastAddrs, session, pc, dialed, sending,
                 receivers, rxCancelled>>

Deferred == CloseFlag \/ CloseConn \/ CancelReceivers \/ CloseSocket

Next ==
  \/ NetChanges \/ ConnDies
  \/ \E g \in Callers : Reconnecting(g)
  \/ SendReads \/ SendDatagram \/ NetCheck
  \/ \E c \in Conns : ReceiverExits(c)
  \/ ProbeEnds \/ Deferred

\* Goroutines run, the ticker ticks and a dial on a working network ends;
\* nothing says when the network changes or the probe ends.
Fairness ==
  /\ \A g \in Callers : WF_vars(Reconnecting(g))
  /\ WF_vars(SendReads) /\ WF_vars(SendDatagram) /\ WF_vars(Deferred)
  /\ \A c \in Conns : WF_vars(ReceiverExits(c))

Spec == Init /\ [][Next]_vars /\ Fairness

(***************************************************************************)
(* Properties.                                                             *)
(***************************************************************************)
\* However many goroutines ask for a reconnect, a stale one included, the
\* session never has two connections open to the server: the single-flight
\* flag and the closing of the old connection before the dial
\* (session.go 161-188).
OneConnection == \A c, d \in open : c = d

\* What a probe started is gone after it: no reconnect keeps running, no
\* receiver waits and no connection stays open, also when Close met a dial
\* that was under way (session.go 193-195, probe.go 107-132).
NothingOutlives ==
  probe = "done" ~> [](/\ open = {} /\ receivers = {} /\ ~reconnecting
                       /\ \A g \in Callers : pc[g] = "idle")
=============================================================================
