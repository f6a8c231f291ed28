--------------------------- MODULE AgentLifecycle ---------------------------
(***************************************************************************)
(* The life of one enrollment inside the agent (internal/client): connect, *)
(* disconnect, Start and Stop (client.go, api.go), the certificate         *)
(* renewal's reload and its background retry (renew.go), the network       *)
(* watcher (nebula.go) and the watchdogs (keepalive.go,                    *)
(* watcher_watchdog.go, renew.go) that call connect to recover.            *)
(*                                                                         *)
(* A meshInstance is an object that goroutines and the registry point to.  *)
(* All of an enrollment's Nebula services bind the same UDP listen port,   *)
(* so at most one of them is open: a pointer to a service is "none",       *)
(* "open" (the one that holds the port) or "closed" (one shut down since). *)
(* inst.svcMu and the registry's lock each cover one step.                 *)
(***************************************************************************)
EXTENDS Naturals, FiniteSets

CONSTANTS
    Threads,       \* goroutines: API requests, renewals, retries, watchdogs
    Insts,         \* meshInstance objects; an unreachable one is reused
    NoInst,        \* the nil *meshInstance
    MaxAttempts,   \* attempts of connect (4 in the code)
    MaxRetries,    \* length of retryReloadBackoff (10 in the code)
    EscalateAfter  \* escalateAfterN (3 in the code)

ASSUME InstsAssumption == NoInst \notin Insts
ASSUME BoundsAssumption ==
    MaxAttempts \in Nat \ {0} /\ MaxRetries \in Nat \ {0} /\ EscalateAfter \in Nat \ {0}

VARIABLES
    started,   \* Client.started; c.runCtx is live exactly while it is TRUE
    reg,       \* c.instances.byName[name]
    insts,     \* the meshInstance objects
    port,      \* the UDP listen port: "free", bound by a "service", or "lost" to a
               \* Nebula that nothing refers to
    th         \* per goroutine: program counter, continuation, locals

vars == <<started, reg, insts, port, th>>

\* A meshInstance before startInstance: run is its runCtx ("bare": made, but no
\* goroutine runs under it), parent whether its parentCtx is live, svc the service,
\* watcher the control the current watcher goroutine uses, stray whether a watcher
\* lost its cancel function, fails the failed restarts in a row.
Blank == [run |-> "unset", parent |-> FALSE, svc |-> "none", watcher |-> "none",
          stray |-> FALSE, fails |-> 0]

\* svc is the goroutine's pointer to a service, own the instance a watchdog
\* belongs to, n counts attempts, ret is where it goes on after a call.
Idle == [op |-> "none", pc |-> "idle", ret |-> "idle", inst |-> NoInst,
         own |-> NoInst, svc |-> "none", n |-> 0]

At(t, pc) == th[t].pc = pc

Become(t, local) == th' = [th EXCEPT ![t] = local]

Goto(t, pc) == Become(t, [th[t] EXCEPT !.pc = pc])

Done(t) == Become(t, Idle)

Call(t, op, pc, i) == Become(t, [Idle EXCEPT !.op = op, !.pc = pc, !.inst = i])

\* inst.runCtx is neither cancelled by close nor by the agent's context.
Live(i) == insts[i].run = "live" /\ insts[i].parent

\* No goroutine and no registry entry leads to the object any more.
Unreachable(i) ==
    /\ reg # i /\ ~Live(i)
    /\ insts[i].svc = "none" /\ insts[i].watcher = "none" /\ ~insts[i].stray
    /\ \A t \in Threads : th[t].inst # i /\ th[t].own # i

Init ==
    /\ started = FALSE
    /\ reg = NoInst
    /\ insts = [i \in Insts |-> Blank]
    /\ port = "free"
    /\ th = [t \in Threads |-> Idle]

-----------------------------------------------------------------------------
\* Requests and triggers: each starts a call in an idle goroutine.

\* Client.Start: runs once, then connects the enrollment.
Start(t) ==
    /\ At(t, "idle") /\ ~started
    /\ started' = TRUE
    /\ Call(t, "connect", "lookup", NoInst)
    /\ UNCHANGED <<reg, insts, port>>

\* Client.Stop: cancel the agent's context, and with it the watchers, then
\* closeAll.
Stop(t) ==
    /\ At(t, "idle") /\ started
    /\ started' = FALSE
    /\ insts' = [i \in Insts |-> [insts[i] EXCEPT !.parent = FALSE, !.watcher = "none",
                                                 !.stray = FALSE]]
    /\ Call(t, "stop", "remove", NoInst)
    /\ UNCHANGED <<reg, port>>

\* handleConnect, Client.Connect.
Connect(t) ==
    /\ At(t, "idle") /\ started
    /\ Call(t, "connect", "lookup", NoInst)
    /\ UNCHANGED <<started, reg, insts, port>>

\* handleDisconnect, handleLeave, Client.Disconnect.
Disconnect(t) ==
    /\ At(t, "idle") /\ started
    /\ Call(t, "disconnect", "remove", NoInst)
    /\ UNCHANGED <<started, reg, insts, port>>

\* handleForceRenew looks the instance up and runs renewCert on it.
ForceRenew(t) ==
    /\ At(t, "idle") /\ started /\ reg # NoInst
    /\ Call(t, "force", "reload", reg)
    /\ UNCHANGED <<started, reg, insts, port>>

\* runCertRenewal: the loop of a live instance finds its certificate due; the
\* POST succeeds and renewCert goes on to reloadNebula.
Renew(t, i) ==
    /\ At(t, "idle") /\ Live(i)
    /\ \A u \in Threads : th[u].op = "renew" => th[u].inst # i
    /\ Call(t, "renew", "reload", i)
    /\ UNCHANGED <<started, reg, insts, port>>

\* watchNetworkChanges sees its TUN device down, starts reloadNebula in a new
\* goroutine and exits.
TriggerReload(t, i) ==
    /\ At(t, "idle")
    /\ insts[i].svc # "none"
    /\ \/ /\ insts[i].watcher # "none"
          /\ insts' = [insts EXCEPT ![i].watcher = "none"]
       \/ /\ insts[i].stray
          /\ \E more \in BOOLEAN : insts' = [insts EXCEPT ![i].stray = more]
    /\ Call(t, "watcher", "reload", i)
    /\ UNCHANGED <<started, reg, port>>

\* A watchdog of a live instance trips and calls restartFn, that is connect.
WatchdogTrip(t, i) ==
    /\ At(t, "idle") /\ Live(i)
    /\ \A u \in Threads : th[u].own # i
    /\ Become(t, [Idle EXCEPT !.op = "watchdog", !.pc = "lookup", !.own = i])
    /\ UNCHANGED <<started, reg, insts, port>>

-----------------------------------------------------------------------------
\* connect.

\* connect returned: a watchdog goes on to record the outcome.
Return(t, outcome) ==
    IF th[t].op = "watchdog"
    THEN Become(t, [Idle EXCEPT !.op = "watchdog", !.pc = outcome, !.own = th[t].own])
    ELSE Done(t)

ConnectLookup(t) ==
    /\ At(t, "lookup")
    /\ Become(t, [th[t] EXCEPT !.inst = reg,
                               !.pc = IF reg = NoInst THEN "evict" ELSE "check"])
    /\ UNCHANGED <<started, reg, insts, port>>

\* existing.control() != nil: already up.
ConnectCheck(t) ==
    /\ At(t, "check")
    /\ IF insts[th[t].inst].svc # "none" THEN Return(t, "restarted") ELSE Goto(t, "evict")
    /\ UNCHANGED <<started, reg, insts, port>>

\* Whatever is registered by now is removed and closed.
ConnectEvict(t) ==
    /\ At(t, "evict")
    /\ reg' = NoInst
    /\ Become(t, [th[t] EXCEPT !.inst = reg, !.ret = "try",
                               !.pc = IF reg = NoInst THEN "try" ELSE "cancel"])
    /\ UNCHANGED <<started, insts, port>>

\* try: newMeshInstance and instances.add, which overwrites an entry.
TryAdd(t) ==
    /\ At(t, "try")
    /\ \E i \in Insts :
          /\ Unreachable(i)
          /\ insts' = [insts EXCEPT ![i] = Blank]
          /\ reg' = i
          /\ Become(t, [th[t] EXCEPT !.pc = "launch", !.inst = i, !.n = @ + 1])
    /\ UNCHANGED <<started, port>>

\* startInstance: the contexts, then renewal, heartbeat and watchdogs are spawned.
\* A token that cannot be read is an error before that, and is not retried.
LaunchInstance(t) ==
    /\ At(t, "launch")
    /\ \E run \in {"live", "bare"} :
          /\ insts' = [insts EXCEPT ![th[t].inst].run = run,
                                    ![th[t].inst].parent = started]
          /\ IF run = "live" THEN Goto(t, "start")
             ELSE Become(t, [th[t] EXCEPT !.pc = "drop", !.n = MaxAttempts])
    /\ UNCHANGED <<started, reg, port>>

\* A start of Nebula that fails: nebula.Main fails, or service.New does after
\* nebula.Main has bound the port, and startNebula returns without stopping it.
StartFails == UNCHANGED port \/ (port = "free" /\ port' = "lost")

\* startMeshWithError: nebula.Main binds the port, or the start fails; without a
\* service startInstance returns nil all the same.
StartMesh(t) ==
    /\ At(t, "start")
    /\ \/ /\ port = "free"
          /\ port' = "service"
          /\ Become(t, [th[t] EXCEPT !.pc = "set", !.ret = "listen", !.svc = "open"])
       \/ StartFails /\ Goto(t, "verify")
    /\ UNCHANGED <<started, reg, insts>>

\* startMeshListener on the new service may fail, retryably or not.
Listen(t) ==
    /\ At(t, "listen")
    /\ \/ Goto(t, "verify")
       \/ \E n \in {th[t].n, MaxAttempts} : Become(t, [th[t] EXCEPT !.pc = "drop", !.n = n])
    /\ UNCHANGED <<started, reg, insts, port>>

\* inst.control() == nil decides whether the attempt counts as a failure.
TryVerify(t) ==
    /\ At(t, "verify")
    /\ IF insts[th[t].inst].svc # "none" THEN Return(t, "restarted") ELSE Goto(t, "drop")
    /\ UNCHANGED <<started, reg, insts, port>>

\* Mutant: a failed attempt leaves its instance registered.
TryFailedKeepsEntry(t) ==
    /\ At(t, "drop")
    /\ Become(t, [th[t] EXCEPT !.pc = "cancel", !.ret = "again"])
    /\ UNCHANGED <<started, reg, insts, port>>

\* A failed attempt removes what is registered under the name, not necessarily
\* its own instance, and closes its own.
TryFailed(t) ==
    /\ At(t, "drop")
    /\ reg' = NoInst
    /\ Become(t, [th[t] EXCEPT !.pc = "cancel", !.ret = "again"])
    /\ UNCHANGED <<started, insts, port>>

TryAgain(t) ==
    /\ At(t, "again")
    /\ IF th[t].n < MaxAttempts THEN Goto(t, "try") ELSE Return(t, "failed")
    /\ UNCHANGED <<started, reg, insts, port>>

\* recordRestartSuccess.
RestartSucceeded(t) ==
    /\ At(t, "restarted")
    /\ insts' = [insts EXCEPT ![th[t].own].fails = 0]
    /\ Done(t)
    /\ UNCHANGED <<started, reg, port>>

\* recordRestartFailure: after EscalateAfter failures in a row the process exits
\* and its supervisor respawns it.
RestartFailed(t) ==
    /\ At(t, "failed")
    /\ IF insts[th[t].own].fails + 1 >= EscalateAfter
       THEN /\ started' = FALSE /\ reg' = NoInst /\ port' = "free"
            /\ insts' = [i \in Insts |-> Blank]
            /\ th' = [u \in Threads |-> Idle]
       ELSE /\ insts' = [insts EXCEPT ![th[t].own].fails = @ + 1]
            /\ Done(t)
            /\ UNCHANGED <<started, reg, port>>

-----------------------------------------------------------------------------
\* disconnect and closeAll remove the entry first ...
Remove(t) ==
    /\ At(t, "remove")
    /\ reg' = NoInst
    /\ Become(t, IF reg = NoInst THEN Idle
                 ELSE [th[t] EXCEPT !.inst = reg, !.pc = "cancel", !.ret = "idle"])
    /\ UNCHANGED <<started, insts, port>>

\* ... and meshInstance.close cancels runCtx (when startInstance has made one)
\* and the watcher,
CloseCancel(t) ==
    /\ At(t, "cancel")
    /\ insts' = [insts EXCEPT ![th[t].inst].run = IF @ = "unset" THEN @ ELSE "closed",
                              ![th[t].inst].watcher = "none"]
    /\ Goto(t, "take")
    /\ UNCHANGED <<started, reg, port>>

\* Mutant: close does not clear inst.svc.
CloseTakeKeeps(t) ==
    /\ At(t, "take")
    /\ Become(t, [th[t] EXCEPT !.svc = insts[th[t].inst].svc, !.pc = "close"])
    /\ UNCHANGED <<started, reg, insts, port>>

\* takes the service under svcMu
CloseTake(t) ==
    /\ At(t, "take")
    /\ insts' = [insts EXCEPT ![th[t].inst].svc = "none"]
    /\ Become(t, [th[t] EXCEPT !.svc = insts[th[t].inst].svc, !.pc = "close"])
    /\ UNCHANGED <<started, reg, port>>

\* A pointer after the open service was closed.
Stale(p) == IF p = "open" THEN "closed" ELSE p

\* and shuts it down, in close as in reloadNebula: the port is free and every
\* pointer to the service is stale.
SvcClose(t) ==
    LET open == th[t].svc = "open"
    IN  /\ At(t, "close")
        /\ port' = IF open THEN "free" ELSE port
        /\ insts' = IF open
                    THEN [i \in Insts |-> [insts[i] EXCEPT !.svc = Stale(@),
                                                           !.watcher = Stale(@)]]
                    ELSE insts
        /\ th' = [u \in Threads |->
                    IF u = t
                    THEN IF th[t].ret = "idle" THEN Idle
                         ELSE [th[t] EXCEPT !.pc = th[t].ret, !.svc = "none",
                                            !.inst = IF th[t].ret = "restart" THEN @
                                                     ELSE NoInst]
                    ELSE IF open THEN [th[u] EXCEPT !.svc = Stale(@)] ELSE th[u]]
        /\ UNCHANGED <<started, reg>>

-----------------------------------------------------------------------------
\* reloadNebula.

\* Under svcMu: without a service it is a cold start, otherwise the watcher is
\* stopped and the service taken, to be closed next.
Reload(t) ==
    LET i == th[t].inst
    IN  /\ At(t, "reload")
        /\ IF insts[i].svc = "none"
           THEN Goto(t, "cold") /\ UNCHANGED insts
           ELSE /\ insts' = [insts EXCEPT ![i].svc = "none", ![i].watcher = "none"]
                /\ Become(t, [th[t] EXCEPT !.svc = insts[i].svc, !.pc = "close",
                                           !.ret = "restart"])
        /\ UNCHANGED <<started, reg, port>>

\* startNebulaByMode: the port is bound and the goroutine goes on at pc, or the
\* start fails.
NebulaStart(t, pc, failed) ==
    \/ /\ port = "free"
       /\ port' = "service"
       /\ Become(t, [th[t] EXCEPT !.pc = pc, !.ret = "idle", !.svc = "open"])
    \/ StartFails /\ Become(t, failed)

ColdStart(t) ==
    /\ At(t, "cold")
    /\ NebulaStart(t, "set", Idle)
    /\ UNCHANGED <<started, reg, insts>>

\* The hot restart; scheduleRetryReload on failure.
Restart(t) ==
    /\ At(t, "restart")
    /\ NebulaStart(t, "set", [th[t] EXCEPT !.op = "retry", !.pc = "retry", !.n = 1])
    /\ UNCHANGED <<started, reg, insts>>

\* One round of the retry goroutine: it ends with parentCtx, or when the instance
\* has a service again.
RetryWake(t) ==
    /\ At(t, "retry")
    /\ IF ~insts[th[t].inst].parent \/ insts[th[t].inst].svc # "none"
       THEN Done(t) ELSE Goto(t, "retryStart")
    /\ UNCHANGED <<started, reg, insts, port>>

RetryStart(t) ==
    /\ At(t, "retryStart")
    /\ NebulaStart(t, "swap", IF th[t].n < MaxRetries
                              THEN [th[t] EXCEPT !.pc = "retry", !.n = @ + 1] ELSE Idle)
    /\ UNCHANGED <<started, reg, insts>>

\* The retry stops the watcher and clears inst.svc before it installs its own
\* service.  (There is no service to close: its own holds the port.)
RetrySwap(t) ==
    /\ At(t, "swap")
    /\ insts' = [insts EXCEPT ![th[t].inst].svc = "none", ![th[t].inst].watcher = "none"]
    /\ Goto(t, "set")
    /\ UNCHANGED <<started, reg, port>>

\* setSvc.
SetSvc(t) ==
    /\ At(t, "set")
    /\ insts' = [insts EXCEPT ![th[t].inst].svc = th[t].svc]
    /\ Goto(t, "unwatch")
    /\ UNCHANGED <<started, reg, port>>

\* startWatcher: cancel the current watcher ...
StartWatcher(t) ==
    /\ At(t, "unwatch")
    /\ insts' = [insts EXCEPT ![th[t].inst].watcher = "none"]
    /\ Goto(t, "watch")
    /\ UNCHANGED <<started, reg, port>>

\* ... and spawn one on the new control.  Nothing orders this with another
\* startWatcher, whose watcher loses its cancel function.  A watcher under a
\* cancelled parentCtx exits at once.
SpawnWatcher(t) ==
    LET i == th[t].inst
        w == IF insts[i].parent THEN th[t].svc ELSE "none"
    IN  /\ At(t, "watch")
        /\ insts' = [insts EXCEPT ![i].stray = @ \/ insts[i].watcher # "none",
                                  ![i].watcher = w]
        /\ IF th[t].ret = "idle" THEN Done(t)
           ELSE Become(t, [th[t] EXCEPT !.pc = th[t].ret, !.svc = "none"])
        /\ UNCHANGED <<started, reg, port>>

-----------------------------------------------------------------------------
Step(t) ==
    \/ ConnectLookup(t) \/ ConnectCheck(t) \/ ConnectEvict(t)
    \/ TryAdd(t) \/ LaunchInstance(t) \/ StartMesh(t) \/ Listen(t)
    \/ TryVerify(t) \/ TryFailed(t) \/ TryAgain(t)
    \/ RestartSucceeded(t) \/ RestartFailed(t)
    \/ Remove(t) \/ CloseCancel(t) \/ CloseTake(t) \/ SvcClose(t)
    \/ Reload(t) \/ ColdStart(t) \/ Restart(t)
    \/ RetryWake(t) \/ RetryStart(t) \/ RetrySwap(t)
    \/ SetSvc(t) \/ StartWatcher(t) \/ SpawnWatcher(t)

Request(t) == Start(t) \/ Stop(t) \/ Connect(t) \/ Disconnect(t) \/ ForceRenew(t)

Trigger(t, i) == Renew(t, i) \/ TriggerReload(t, i) \/ WatchdogTrip(t, i)

Next ==
    \E t \in Threads : Step(t) \/ Request(t) \/ \E i \in Insts : Trigger(t, i)

Spec == Init /\ [][Next]_vars
-----------------------------------------------------------------------------
Pcs == {"idle", "lookup", "check", "evict", "try", "launch", "start", "listen",
        "verify", "drop", "again", "restarted", "failed", "remove", "cancel", "take",
        "close", "reload", "cold", "restart", "retry", "retryStart", "swap", "set",
        "unwatch", "watch"}
Rets == {"idle", "try", "again", "restart", "listen"}
Ops == {"none", "stop", "connect", "disconnect", "force", "renew", "retry", "watcher",
        "watchdog"}
Pointers == {"none", "open", "closed"}

InstStates ==
    [run : {"unset", "bare", "live", "closed"}, parent : BOOLEAN, svc : Pointers,
     watcher : Pointers, stray : BOOLEAN, fails : 0..(EscalateAfter - 1)]

ThreadStates ==
    [op : Ops, pc : Pcs, ret : Rets, inst : Insts \cup {NoInst},
     own : Insts \cup {NoInst}, svc : Pointers, n : Nat]

\* Types; the failures of restartFn never reach the count that ends the process.
TypeOK ==
    /\ started \in BOOLEAN
    /\ reg \in Insts \cup {NoInst}
    /\ insts \in [Insts -> InstStates]
    /\ port \in {"free", "service", "lost"}
    /\ th \in [Threads -> ThreadStates]

\* A goroutine is responsible for a service between its start and setSvc, and
\* between taking it from the instance and closing it.
Owns(t) == th[t].svc # "none" /\ th[t].pc \in {"set", "swap", "close"}

\* A service holds the UDP port exactly as long as one owner, an instance or a
\* goroutine, is responsible for it: whatever close, reload, retry and connect do at
\* the same time, no service is leaked but by a service.New that fails.
PortHasOwner ==
    port = "service" <=> \/ \E i \in Insts : insts[i].svc # "none"
                         \/ \E t \in Threads : Owns(t)

\* No service has two owners, so none is closed twice and no newer service is
\* overwritten by setSvc.
OneOwner ==
    /\ \A i, j \in Insts : insts[i].svc # "none" /\ insts[j].svc # "none" => i = j
    /\ \A t, u \in Threads : Owns(t) /\ Owns(u) => t = u
    /\ \A i \in Insts, t \in Threads : ~(insts[i].svc # "none" /\ Owns(t))

\* inst.svc never points to a service that was shut down: control() hands out
\* controls of running Nebulas only.
SvcIsOpen ==
    /\ \A i \in Insts : insts[i].svc # "closed"
    /\ \A t \in Threads : Owns(t) => th[t].svc = "open"

\* The registry never leads to an instance that was closed: a closed instance
\* would make connect, status and renewal work on a dead object.
RegisteredNotClosed == reg # NoInst => insts[reg].run # "closed"
=============================================================================
