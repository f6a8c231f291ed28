----------------------------- MODULE NodeStatus -----------------------------
(***************************************************************************)
(* The status of nodes in the control plane (internal/db/nodes.go,         *)
(* internal/db/status_sweeper.go, internal/api/renew.go): heartbeats are   *)
(* buffered in memory and flushed in batches; a sweeper marks silent nodes *)
(* offline; the pruner deletes nodes that have long been offline; changes  *)
(* of status go to the log of network events.                              *)
(*                                                                         *)
(* Time is discrete.  A unit is longer than a request, a flush or a sweep, *)
(* so the clock ticks only between them, but within a unit their steps     *)
(* interleave in any order.  Instead of time stamps the model keeps ages.  *)
(***************************************************************************)
EXTENDS Naturals

CONSTANTS
    Nodes,
    Handlers,   \* request goroutines
    Sweeper,    \* the goroutine of the status sweeper
    Beat,       \* longest time between two heartbeats (normalInterval 60 s, jitter)
    Flush,      \* heartbeatFlushInterval (5 s)
    MaxLost,    \* heartbeats in a row that may be missed or dropped
    Stale,      \* nodeStaleThreshold (180 s)
    PruneAge    \* pruneAge (7 days)

Gap == Beat + Flush

VARIABLES
    agent,    \* "asleep", "waking" (not seen yet since it woke up), "seen"
    since,    \* time since the agent's last heartbeat
    status,   \* nodes.status, "none" when there is no row
    age,      \* now - nodes.last_seen_at, as far as it matters
    buf,      \* NodeStore.heartbeats: the nodes with a buffered heartbeat
    wait,     \* how long a buffered heartbeat has been waiting
    batch,    \* heartbeats taken out by a flush and not written yet
    lost,     \* heartbeats missed or dropped since the last one written
    logged,   \* NodeStore.lastLoggedStatus, "none" when absent
    last,     \* status of the node's last event since the server started
    th,       \* per goroutine: program counter, node, new status
    todo      \* stale nodes the sweeper has still to visit

vars == <<agent, since, status, age, buf, wait, batch, lost, logged, last, th, todo>>

Threads == Handlers \cup {Sweeper}

Idle == [pc |-> "idle", node |-> "none", new |-> "none"]

At(t, pc) == th[t].pc = pc

Goto(t, pc) == th' = [th EXCEPT ![t] = IF pc = "idle" THEN Idle ELSE [th[t] EXCEPT !.pc = pc]]

Init ==
    /\ agent = [n \in Nodes |-> "asleep"]
    /\ since = [n \in Nodes |-> 0]
    /\ status = [n \in Nodes |-> "none"]
    /\ age = [n \in Nodes |-> PruneAge + 1]
    /\ buf = {}
    /\ wait = [n \in Nodes |-> 0]
    /\ batch = {}
    /\ lost = [n \in Nodes |-> 0]
    /\ logged = [n \in Nodes |-> "none"]
    /\ last = [n \in Nodes |-> "none"]
    /\ th = [t \in Threads |-> Idle]
    /\ todo = {}

-----------------------------------------------------------------------------
\* Time and the agents.

\* A running agent beats at least every Beat, the flusher runs every Flush.
Tick ==
    /\ \A t \in Threads : At(t, "idle")
    /\ batch = {} /\ todo = {}
    /\ \A n \in Nodes : agent[n] # "asleep" /\ status[n] # "none" => since[n] < Beat
    /\ \A n \in buf : wait[n] < Flush
    /\ since' = [n \in Nodes |-> IF since[n] < Beat THEN since[n] + 1 ELSE since[n]]
    /\ age' = [n \in Nodes |-> IF age[n] <= PruneAge THEN age[n] + 1 ELSE age[n]]
    /\ wait' = [n \in Nodes |-> IF n \in buf THEN wait[n] + 1 ELSE 0]
    /\ UNCHANGED <<agent, status, buf, batch, lost, logged, last, th, todo>>

\* CompleteEnrollment.  Every enrollment makes a row with a fresh id, so a name is
\* reused only when nothing refers to the deleted row any more.
CompleteEnrollment(n) ==
    /\ status[n] = "none" /\ agent[n] = "asleep"
    /\ n \notin buf \cup batch \cup todo
    /\ \A t \in Threads : At(t, "idle") \/ th[t].node # n
    /\ status' = [status EXCEPT ![n] = "enrolled"]
    /\ age' = [age EXCEPT ![n] = PruneAge + 1]
    /\ lost' = [lost EXCEPT ![n] = 0]
    /\ logged' = [logged EXCEPT ![n] = "none"]
    /\ last' = [last EXCEPT ![n] = "none"]
    /\ UNCHANGED <<agent, since, buf, wait, batch, th, todo>>

\* runHeartbeat starts, or the machine wakes up; its first beat is due at once.
Wake(n) ==
    /\ agent[n] = "asleep" /\ status[n] # "none"
    /\ agent' = [agent EXCEPT ![n] = "waking"]
    /\ since' = [since EXCEPT ![n] = Beat]
    /\ UNCHANGED <<status, age, buf, wait, batch, lost, logged, last, th, todo>>

Sleep(n) ==
    /\ agent[n] # "asleep"
    /\ agent' = [agent EXCEPT ![n] = "asleep"]
    /\ UNCHANGED <<since, status, age, buf, wait, batch, lost, logged, last, th, todo>>

\* A dropped or missed heartbeat of each of the nodes.
Lose(ns) ==
    /\ \A n \in ns : lost[n] < MaxLost
    /\ lost' = [n \in Nodes |-> IF n \in ns THEN lost[n] + 1 ELSE lost[n]]

\* runHeartbeat: a beat that does not get through is retried within Beat.
Miss(n) ==
    /\ agent[n] # "asleep"
    /\ Lose({n})
    /\ since' = [since EXCEPT ![n] = 0]
    /\ UNCHANGED <<agent, status, age, buf, wait, batch, logged, last, th, todo>>

-----------------------------------------------------------------------------
\* Requests.

\* RecordHeartbeat: a beat that is already buffered is coalesced.
RecordHeartbeat(n) ==
    /\ buf' = buf \cup {n}
    /\ wait' = IF n \in buf THEN wait ELSE [wait EXCEPT ![n] = 0]

\* Heartbeat: the node is loaded (a missing row is answered with 401) and the
\* beat buffered, which nothing can come between to any effect.
Heartbeat(t, n) ==
    /\ t \in Handlers /\ At(t, "idle")
    /\ agent[n] # "asleep" /\ status[n] # "none"
    /\ RecordHeartbeat(n)
    /\ since' = [since EXCEPT ![n] = 0]
    /\ th' = [th EXCEPT ![t] = [pc |-> "load", node |-> n, new |-> "online"]]
    /\ UNCHANGED <<agent, status, age, batch, lost, logged, last, todo>>

\* NodeHealth: a probe of the agent over the mesh.  RecordProxyActivity is throttled.
NodeHealth(t, n) ==
    /\ t \in Handlers /\ At(t, "idle")
    /\ agent[n] # "asleep" /\ status[n] # "none"
    /\ RecordHeartbeat(n) \/ UNCHANGED <<buf, wait>>
    /\ th' = [th EXCEPT ![t] = [pc |-> "load", node |-> n, new |-> "online"]]
    /\ UNCHANGED <<agent, since, status, age, batch, lost, logged, last, todo>>

\* Renew, and proxied shells, commands and forwards, count as signs of life only.
Renew(n) ==
    /\ agent[n] # "asleep" /\ status[n] # "none"
    /\ RecordHeartbeat(n)
    /\ UNCHANGED <<agent, since, status, age, batch, lost, logged, last, th, todo>>

\* StatusTransition: LoadOrStore ...
StatusTransition(t) ==
    LET n == th[t].node  new == th[t].new
    IN  /\ At(t, "load")
        /\ logged' = [logged EXCEPT ![n] = IF @ = "none" THEN new ELSE @]
        /\ Goto(t, CASE logged[n] = "none" -> "log"
                     [] logged[n] = new -> "idle"
                     [] OTHER -> "store")
        /\ UNCHANGED <<agent, since, status, age, buf, wait, batch, lost, last, todo>>

\* ... and, when the status differs, a separate Store.
StatusStore(t) ==
    /\ At(t, "store")
    /\ logged' = [logged EXCEPT ![th[t].node] = th[t].new]
    /\ Goto(t, "log")
    /\ UNCHANGED <<agent, since, status, age, buf, wait, batch, lost, last, todo>>

\* Events.Record.
Record(t) ==
    /\ At(t, "log")
    /\ last' = [last EXCEPT ![th[t].node] = th[t].new]
    /\ Goto(t, "idle")
    /\ UNCHANGED <<agent, since, status, age, buf, wait, batch, lost, logged, todo>>

-----------------------------------------------------------------------------
\* FlushHeartbeats: drain the buffer ...
FlushDrain ==
    /\ batch = {} /\ buf # {}
    /\ batch' = buf
    /\ buf' = {}
    /\ UNCHANGED <<agent, since, status, age, wait, lost, logged, last, th, todo>>

\* Mutant: the flush sets the status only.
FlushCommitStatusOnly ==
    /\ batch # {}
    /\ status' = [n \in Nodes |-> IF n \in batch /\ status[n] # "none" THEN "online"
                                  ELSE status[n]]
    /\ agent' = [n \in Nodes |-> IF n \in batch /\ agent[n] = "waking" THEN "seen"
                                 ELSE agent[n]]
    /\ lost' = [n \in Nodes |-> IF n \in batch THEN 0 ELSE lost[n]]
    /\ batch' = {}
    /\ UNCHANGED <<since, age, buf, wait, logged, last, th, todo>>

\* Mutant: the flush sets the time only.
FlushCommitTimeOnly ==
    /\ batch # {}
    /\ age' = [n \in Nodes |-> IF n \in batch /\ status[n] # "none" THEN 0 ELSE age[n]]
    /\ agent' = [n \in Nodes |-> IF n \in batch /\ agent[n] = "waking" THEN "seen"
                                 ELSE agent[n]]
    /\ lost' = [n \in Nodes |-> IF n \in batch THEN 0 ELSE lost[n]]
    /\ batch' = {}
    /\ UNCHANGED <<since, status, buf, wait, logged, last, th, todo>>

\* ... and write all of it in one transaction.  HeartbeatNode sets last_seen_at to
\* the time of the flush, and is no error when the row is gone.
FlushCommit ==
    /\ batch # {}
    /\ status' = [n \in Nodes |-> IF n \in batch /\ status[n] # "none" THEN "online"
                                  ELSE status[n]]
    /\ age' = [n \in Nodes |-> IF n \in batch /\ status[n] # "none" THEN 0 ELSE age[n]]
    /\ agent' = [n \in Nodes |-> IF n \in batch /\ agent[n] = "waking" THEN "seen"
                                 ELSE agent[n]]
    /\ lost' = [n \in Nodes |-> IF n \in batch THEN 0 ELSE lost[n]]
    /\ batch' = {}
    /\ UNCHANGED <<since, buf, wait, logged, last, th, todo>>

\* An error of Begin, of one update or of Commit drops the whole batch.
FlushFails ==
    /\ batch # {}
    /\ Lose(batch)
    /\ batch' = {}
    /\ UNCHANGED <<agent, since, status, age, buf, wait, logged, last, th, todo>>

-----------------------------------------------------------------------------
\* runStatusSweep: the scan (an error ends the sweep, which is no step) ...
ScanStaleOnlineNodes ==
    /\ At(Sweeper, "idle") /\ todo = {}
    /\ todo' = {n \in Nodes : status[n] = "online" /\ age[n] > Stale}
    /\ todo' # {}
    /\ UNCHANGED <<agent, since, status, age, buf, wait, batch, lost, logged, last, th>>

\* Mutant: the row is not written.
MarkOfflineOnStaleUnwritten(n) ==
    /\ At(Sweeper, "idle") /\ n \in todo
    /\ todo' = todo \ {n}
    /\ th' = [th EXCEPT ![Sweeper] = [pc |-> "load", node |-> n, new |-> "offline"]]
    /\ UNCHANGED <<agent, since, status, age, buf, wait, batch, lost, logged, last>>

\* ... then MarkOfflineOnStale for every node found: UpdateNodeStatus by id,
\* whatever the row says by now.
MarkOfflineOnStale(n) ==
    /\ At(Sweeper, "idle") /\ n \in todo
    /\ todo' = todo \ {n}
    /\ status' = [status EXCEPT ![n] = IF @ = "none" THEN @ ELSE "offline"]
    /\ th' = [th EXCEPT ![Sweeper] = [pc |-> "load", node |-> n, new |-> "offline"]]
    /\ UNCHANGED <<agent, since, age, buf, wait, batch, lost, logged, last>>

\* The update failed: the node is left to the next sweep.
MarkOfflineFails(n) ==
    /\ At(Sweeper, "idle") /\ n \in todo
    /\ todo' = todo \ {n}
    /\ UNCHANGED <<agent, since, status, age, buf, wait, batch, lost, logged, last, th>>

\* Rows that are offline and older than the cutoff.
Prunable(older) == {n \in Nodes : status[n] = "offline" /\ age[n] > older}

\* Deleted rows; the agents of deleted nodes are rejected from now on.
DeleteRows(ns) ==
    /\ ns # {}
    /\ status' = [n \in Nodes |-> IF n \in ns THEN "none" ELSE status[n]]
    /\ UNCHANGED <<agent, since, age, buf, wait, batch, lost, logged, last, th, todo>>

\* Delete: an administrator removes a node, or its whole network is deleted.
Delete(n) == status[n] # "none" /\ DeleteRows({n})

\* The hourly sweep.
PruneOfflineSinceAllNetworks == DeleteRows(Prunable(PruneAge))

\* The administrator's clean-up; by default everything offline goes.
PruneOfflineNodes == \E older \in {0, Stale} : DeleteRows(Prunable(older))

\* The server stops or crashes, and starts again.  Buffered heartbeats, requests
\* and the memory of logged statuses are gone (main flushes once, but before the
\* HTTP server stops taking requests).
Restart ==
    /\ Lose(buf \cup batch)
    /\ buf' = {} /\ batch' = {} /\ todo' = {}
    /\ logged' = [n \in Nodes |-> "none"]
    /\ last' = [n \in Nodes |-> "none"]
    /\ th' = [t \in Threads |-> Idle]
    /\ UNCHANGED <<agent, since, status, age, wait>>

-----------------------------------------------------------------------------
Request(t) == \E n \in Nodes : Heartbeat(t, n) \/ NodeHealth(t, n)

Transition(t) == StatusTransition(t) \/ StatusStore(t) \/ Record(t)

Agent(n) == CompleteEnrollment(n) \/ Wake(n) \/ Sleep(n) \/ Miss(n) \/ Renew(n)

Sweep == ScanStaleOnlineNodes \/ \E n \in Nodes : MarkOfflineOnStale(n) \/ MarkOfflineFails(n)

Prune == PruneOfflineSinceAllNetworks \/ PruneOfflineNodes \/ \E n \in Nodes : Delete(n)

Next ==
    \/ Tick
    \/ \E t \in Handlers : Request(t)
    \/ \E t \in Threads : Transition(t)
    \/ \E n \in Nodes : Agent(n)
    \/ FlushDrain \/ FlushCommit \/ FlushFails
    \/ Sweep \/ Prune \/ Restart

Spec == Init /\ [][Next]_vars

\* Time passes, requests go on, both tickers run, a running agent beats in time,
\* and updates do not fail for ever.
FairSpec ==
    /\ Spec
    /\ WF_vars(Tick)
    /\ \A t \in Threads : WF_vars(Transition(t))
    /\ WF_vars(FlushDrain) /\ WF_vars(FlushCommit)
    /\ WF_vars(ScanStaleOnlineNodes)
    /\ \A n \in Nodes :
          /\ SF_vars(MarkOfflineOnStale(n))
          /\ SF_vars(\E t \in Handlers : Heartbeat(t, n))

-----------------------------------------------------------------------------
Statuses == {"none", "enrolled", "online", "offline"}

\* Types; ages stay within what the thresholds tell apart.
TypeOK ==
    /\ agent \in [Nodes -> {"asleep", "waking", "seen"}]
    /\ since \in [Nodes -> 0..Beat]
    /\ status \in [Nodes -> Statuses]
    /\ age \in [Nodes -> 0..(PruneAge + 1)]
    /\ buf \subseteq Nodes /\ batch \subseteq Nodes /\ todo \subseteq Nodes
    /\ wait \in [Nodes -> 0..Flush]
    /\ lost \in [Nodes -> 0..MaxLost]
    /\ logged \in [Nodes -> Statuses] /\ last \in [Nodes -> Statuses]
    /\ th \in [Threads -> [pc : {"idle", "load", "store", "log"},
                           node : Nodes \cup {"none"}, new : Statuses]]

\* effectiveStatus: what lists of nodes show.
effectiveStatus(n) ==
    IF status[n] = "online" /\ age[n] > Stale THEN "offline" ELSE status[n]

\* nodeStaleThreshold avoids "flapping on a single missed beat": a node whose agent
\* runs is never found stale by effectiveStatus or the sweeper, although heartbeats
\* wait in a buffer and up to MaxLost in a row are missed or dropped with a batch.
LiveNotStale ==
    \A n \in Nodes : agent[n] = "seen" /\ status[n] # "none" =>
        age[n] <= Stale /\ effectiveStatus(n) = status[n]

\* A node that is running again is shown online again, even when the sweeper has
\* overwritten a newer heartbeat.
LiveComesOnline ==
    \A n \in Nodes : agent[n] # "asleep" ~>
        (status[n] \in {"online", "none"} \/ agent[n] = "asleep")

\* A node that stays silent is marked offline.
SilentGoesOffline ==
    \A n \in Nodes : agent[n] = "asleep" /\ status[n] = "online" ~>
        (status[n] # "online" \/ agent[n] # "asleep")
=============================================================================
