------------------------ MODULE AgentLifecycleProofs ------------------------
(***************************************************************************)
(* The safety properties of AgentLifecycle for any number of goroutines,   *)
(* instances, attempts and retries.                                        *)
(***************************************************************************)
EXTENDS AgentLifecycle, TLAPS

\* The points at which a goroutine works on an instance.
Working == {"check", "launch", "start", "listen", "verify", "drop", "cancel", "take",
            "close", "reload", "cold", "restart", "retry", "retryStart", "swap", "set",
            "unwatch", "watch"}

\* What a goroutine knows at each point.
Locals ==
    \A t \in Threads :
        /\ th[t].pc \in Working => th[t].inst \in Insts
        /\ th[t].pc \in {"set", "swap"} => th[t].svc = "open"
        /\ th[t].op = "watchdog" => th[t].own \in Insts
        /\ th[t].pc \in {"restarted", "failed"} => th[t].own \in Insts

\* close runs on an instance that has left the registry.
Unregistered == \A t \in Threads : th[t].pc = "cancel" => reg # th[t].inst

\* An instance that is about to be launched has no context yet, and one launcher.
Launching ==
    \A t \in Threads : th[t].pc = "launch" =>
        /\ insts[th[t].inst].run = "unset"
        /\ \A u \in Threads : th[u].pc = "launch" /\ th[u].inst = th[t].inst => u = t

\* After closing a service a goroutine goes on as connect, or restarts Nebula.
Closing == \A t \in Threads : th[t].pc \in {"cancel", "take", "close"} => th[t].ret # "listen"

IInv ==
    /\ TypeOK
    /\ Locals
    /\ Closing
    /\ PortHasOwner
    /\ OneOwner
    /\ SvcIsOpen
    /\ Unregistered
    /\ Launching
    /\ RegisteredNotClosed

-----------------------------------------------------------------------------
\* How the records of goroutines and instances change.

\* Only goroutine t moves, and the records keep their type.
Moves(t) ==
    /\ th' \in [Threads -> ThreadStates]
    /\ \A u \in Threads : u # t => th'[u] = th[u]

\* Only instance i changes, and the records keep their type.
Changes(i) ==
    /\ insts' \in [Insts -> InstStates]
    /\ \A j \in Insts : j # i => insts'[j] = insts[j]

\* A new meshInstance is well-typed.
LEMMA BlankType == Blank \in InstStates /\ Blank.svc = "none" /\ Blank.run = "unset"
  BY BoundsAssumption DEF Blank, InstStates, Pointers

\* Assigning one instance leaves the others alone.
LEMMA AssignChanges ==
    ASSUME TypeOK, NEW i \in Insts, NEW v \in InstStates, insts' = [insts EXCEPT ![i] = v]
    PROVE  Changes(i) /\ insts'[i] = v
  BY Zenon DEF TypeOK, Changes

\* A goroutine that has ended is well-typed and owns nothing.
LEMMA IdleType ==
    /\ Idle \in ThreadStates
    /\ Idle.pc = "idle" /\ Idle.op = "none" /\ Idle.svc = "none" /\ Idle.inst = NoInst
  BY Zenon DEF Idle, ThreadStates, Pcs, Rets, Ops, Pointers

\* Assigning one goroutine's record leaves the others alone.
LEMMA BecomeMoves ==
    ASSUME TypeOK, NEW t \in Threads, NEW l \in ThreadStates, Become(t, l)
    PROVE  Moves(t) /\ th'[t] = l
  BY Zenon DEF TypeOK, Become, Moves

\* The end of a call.
LEMMA DoneMoves ==
    ASSUME TypeOK, NEW t \in Threads, Done(t)
    PROVE  Moves(t) /\ th'[t].pc = "idle" /\ th'[t].op = "none" /\ th'[t].svc = "none"
  BY BecomeMoves, IdleType, Zenon DEF Done

\* The next step of a call keeps its locals.
LEMMA GotoMoves ==
    ASSUME TypeOK, NEW t \in Threads, NEW pc \in Pcs, Goto(t, pc)
    PROVE  /\ Moves(t)
           /\ th'[t].pc = pc /\ th'[t].inst = th[t].inst /\ th'[t].svc = th[t].svc
           /\ th'[t].op = th[t].op /\ th'[t].own = th[t].own /\ th'[t].ret = th[t].ret
<1> DEFINE l == [th[t] EXCEPT !.pc = pc]
<1>1. th[t] \in ThreadStates
  BY Zenon DEF TypeOK
<1>2. /\ l \in ThreadStates
      /\ l.pc = pc /\ l.inst = th[t].inst /\ l.svc = th[t].svc
      /\ l.op = th[t].op /\ l.own = th[t].own /\ l.ret = th[t].ret
  BY <1>1, Zenon DEF ThreadStates
<1>3. Become(t, l)
  BY Zenon DEF Goto
<1> QED  BY <1>2, <1>3, BecomeMoves, Zenon

\* The first record of a call.
LEMMA CallMoves ==
    ASSUME TypeOK, NEW t \in Threads, NEW op \in Ops, NEW pc \in Pcs,
           NEW i \in Insts \cup {NoInst}, Call(t, op, pc, i)
    PROVE  /\ Moves(t)
           /\ th'[t].pc = pc /\ th'[t].inst = i /\ th'[t].svc = "none" /\ th'[t].op = op
<1> DEFINE l == [Idle EXCEPT !.op = op, !.pc = pc, !.inst = i]
<1>1. l \in ThreadStates /\ l.pc = pc /\ l.inst = i /\ l.svc = "none" /\ l.op = op
  BY Zenon DEF Idle, ThreadStates, Rets, Pointers
<1>2. Become(t, l)
  BY Zenon DEF Call
<1> QED  BY <1>1, <1>2, BecomeMoves, Zenon

\* The return of connect ends the call or hands its outcome to the watchdog.
LEMMA ReturnMoves ==
    ASSUME TypeOK, Locals, NEW t \in Threads, NEW o \in {"restarted", "failed"}, Return(t, o)
    PROVE  /\ Moves(t) /\ th'[t].svc = "none"
           /\ \/ th'[t].pc = "idle" /\ th'[t].op = "none"
              \/ th'[t].pc = o /\ th'[t].own \in Insts
<1> DEFINE l == [Idle EXCEPT !.op = "watchdog", !.pc = o, !.own = th[t].own]
<1>1. CASE th[t].op = "watchdog"
  <2>1. th[t].own \in Insts
    BY <1>1, Zenon DEF Locals
  <2>2. l \in ThreadStates /\ l.pc = o /\ l.svc = "none" /\ l.own = th[t].own
    BY <2>1, Zenon DEF Idle, ThreadStates, Rets, Pointers, Ops, Pcs
  <2>3. Become(t, l)
    BY <1>1, Zenon DEF Return
  <2> QED  BY <2>1, <2>2, <2>3, BecomeMoves, Zenon
<1>2. CASE th[t].op # "watchdog"
  BY <1>2, DoneMoves, Zenon DEF Return
<1> QED  BY <1>1, <1>2, Zenon

-----------------------------------------------------------------------------
\* One lemma per action.

\* Client.Start begins a connect.
LEMMA StartStep ==
    ASSUME IInv, NEW t \in Threads, Start(t)
    PROVE  IInv'
<1> USE InstsAssumption DEF IInv
<1>1. Moves(t) /\ th'[t].pc = "lookup" /\ th'[t].svc = "none" /\ th'[t].op = "connect" /\ th'[t].inst = NoInst
  BY CallMoves DEF Start, Pcs, Ops, TypeOK
<1>2. TypeOK'
  BY <1>1, Zenon DEF Start, At, Moves, Changes, TypeOK
<1>3. Locals'
  BY <1>1 DEF Start, At, Moves, Changes, TypeOK, Locals, Working
<1>4. Closing'
  BY <1>1, Zenon DEF Start, At, Moves, Changes, TypeOK, Closing
<1>5. PortHasOwner'
  BY <1>1 DEF Start, At, Moves, Changes, TypeOK, PortHasOwner, OneOwner, Owns, Locals, SvcIsOpen, Working
<1>6. OneOwner'
  BY <1>1 DEF Start, At, Moves, Changes, TypeOK, PortHasOwner, OneOwner, Owns, Locals, Working
<1>7. SvcIsOpen'
  BY <1>1 DEF Start, At, Moves, Changes, TypeOK, SvcIsOpen, Owns, PortHasOwner, OneOwner, Locals, Working
<1>8. Unregistered'
  BY <1>1, Zenon DEF Start, At, Moves, Changes, TypeOK, Unregistered, Locals, Working
<1>9. Launching'
  BY <1>1 DEF Start, At, Moves, Changes, TypeOK, Launching, Locals, Working
<1>10. RegisteredNotClosed'
  BY <1>1, Zenon DEF Start, At, Moves, Changes, TypeOK, RegisteredNotClosed, Unregistered, Launching, Locals, Working
<1> QED  BY <1>2, <1>3, <1>4, <1>5, <1>6, <1>7, <1>8, <1>9, <1>10, Zenon DEF IInv

\* Client.Stop cancels the agent's context.
LEMMA StopStep ==
    ASSUME IInv, NEW t \in Threads, Stop(t)
    PROVE  IInv'
<1> USE InstsAssumption DEF IInv
<1>1. /\ Moves(t) /\ th'[t].pc = "remove" /\ th'[t].svc = "none" /\ th'[t].op = "stop" /\ th'[t].inst = NoInst
      /\ th[t].pc = "idle" /\ started' = FALSE /\ reg' = reg /\ port' = port
      /\ insts' \in [Insts -> InstStates]
      /\ \A i \in Insts : insts'[i].svc = insts[i].svc /\ insts'[i].run = insts[i].run
  <2>1. /\ Call(t, "stop", "remove", NoInst) /\ th[t].pc = "idle"
        /\ started' = FALSE /\ reg' = reg /\ port' = port
    BY Zenon DEF Stop, At
  <2>2. Moves(t) /\ th'[t].pc = "remove" /\ th'[t].svc = "none" /\ th'[t].op = "stop" /\ th'[t].inst = NoInst
    BY <2>1, CallMoves DEF Pcs, Ops
  <2>3. /\ insts' \in [Insts -> InstStates]
        /\ \A i \in Insts : insts'[i].svc = insts[i].svc /\ insts'[i].run = insts[i].run
    BY DEF Stop, TypeOK, InstStates, Pointers
  <2> QED  BY <2>1, <2>2, <2>3, Zenon
<1>2. TypeOK'
  BY <1>1, Zenon DEF Moves, Changes, TypeOK
<1>3. Locals'
  BY <1>1 DEF Moves, Changes, TypeOK, Locals, Working
<1>4. Closing'
  BY <1>1, Zenon DEF Moves, Changes, TypeOK, Closing
<1>5. PortHasOwner'
  BY <1>1 DEF Moves, Changes, TypeOK, PortHasOwner, OneOwner, Owns, Locals, SvcIsOpen, Working
<1>6. OneOwner'
  BY <1>1 DEF Moves, Changes, TypeOK, PortHasOwner, OneOwner, Owns, Locals, Working
<1>7. SvcIsOpen'
  BY <1>1 DEF Moves, Changes, TypeOK, SvcIsOpen, Owns, PortHasOwner, OneOwner, Locals, Working
<1>8. Unregistered'
  BY <1>1, Zenon DEF Moves, Changes, TypeOK, Unregistered, Locals, Working
<1>9. Launching'
  BY <1>1 DEF Moves, Changes, TypeOK, Launching, Locals, Working
<1>10. RegisteredNotClosed'
  BY <1>1, Zenon DEF Moves, Changes, TypeOK, RegisteredNotClosed, Unregistered, Launching, Locals, Working
<1> QED  BY <1>2, <1>3, <1>4, <1>5, <1>6, <1>7, <1>8, <1>9, <1>10 DEF IInv

\* A request to connect.
LEMMA ConnectStep ==
    ASSUME IInv, NEW t \in Threads, Connect(t)
    PROVE  IInv'
<1> USE InstsAssumption DEF IInv
<1>1. Moves(t) /\ th'[t].pc = "lookup" /\ th'[t].svc = "none" /\ th'[t].op = "connect" /\ th'[t].inst = NoInst
  BY CallMoves DEF Connect, Pcs, Ops, TypeOK
<1>2. TypeOK'
  BY <1>1, Zenon DEF Connect, At, Moves, Changes, TypeOK
<1>3. Locals'
  BY <1>1, Zenon DEF Connect, At, Moves, Changes, TypeOK, Locals, Working
<1>4. Closing'
  BY <1>1, Zenon DEF Connect, At, Moves, Changes, TypeOK, Closing
<1>5. PortHasOwner'
  BY <1>1 DEF Connect, At, Moves, Changes, TypeOK, PortHasOwner, OneOwner, Owns, Locals, SvcIsOpen, Working
<1>6. OneOwner'
  BY <1>1 DEF Connect, At, Moves, Changes, TypeOK, PortHasOwner, OneOwner, Owns, Locals, Working
<1>7. SvcIsOpen'
  BY <1>1 DEF Connect, At, Moves, Changes, TypeOK, SvcIsOpen, Owns, PortHasOwner, OneOwner, Locals, Working
<1>8. Unregistered'
  BY <1>1, Zenon DEF Connect, At, Moves, Changes, TypeOK, Unregistered, Locals, Working
<1>9. Launching'
  BY <1>1 DEF Connect, At, Moves, Changes, TypeOK, Launching, Locals, Working
<1>10. RegisteredNotClosed'
  BY <1>1, Zenon DEF Connect, At, Moves, Changes, TypeOK, RegisteredNotClosed, Unregistered, Launching, Locals, Working
<1> QED  BY <1>2, <1>3, <1>4, <1>5, <1>6, <1>7, <1>8, <1>9, <1>10 DEF IInv

\* A request to disconnect.
LEMMA DisconnectStep ==
    ASSUME IInv, NEW t \in Threads, Disconnect(t)
    PROVE  IInv'
<1> USE InstsAssumption DEF IInv
<1>1. Moves(t) /\ th'[t].pc = "remove" /\ th'[t].svc = "none" /\ th'[t].op = "disconnect" /\ th'[t].inst = NoInst
  BY CallMoves DEF Disconnect, Pcs, Ops, TypeOK
<1>2. TypeOK'
  BY <1>1, Zenon DEF Disconnect, At, Moves, Changes, TypeOK
<1>3. Locals'
  BY <1>1 DEF Disconnect, At, Moves, Changes, TypeOK, Locals, Working
<1>4. Closing'
  BY <1>1, Zenon DEF Disconnect, At, Moves, Changes, TypeOK, Closing
<1>5. PortHasOwner'
  BY <1>1 DEF Disconnect, At, Moves, Changes, TypeOK, PortHasOwner, OneOwner, Owns, Locals, SvcIsOpen, Working
<1>6. OneOwner'
  BY <1>1 DEF Disconnect, At, Moves, Changes, TypeOK, PortHasOwner, OneOwner, Owns, Locals, Working
<1>7. SvcIsOpen'
  BY <1>1 DEF Disconnect, At, Moves, Changes, TypeOK, SvcIsOpen, Owns, PortHasOwner, OneOwner, Locals, Working
<1>8. Unregistered'
  BY <1>1, Zenon DEF Disconnect, At, Moves, Changes, TypeOK, Unregistered, Locals, Working
<1>9. Launching'
  BY <1>1 DEF Disconnect, At, Moves, Changes, TypeOK, Launching, Locals, Working
<1>10. RegisteredNotClosed'
  BY <1>1, Zenon DEF Disconnect, At, Moves, Changes, TypeOK, RegisteredNotClosed, Unregistered, Launching, Locals, Working
<1> QED  BY <1>2, <1>3, <1>4, <1>5, <1>6, <1>7, <1>8, <1>9, <1>10 DEF IInv

\* A forced renewal of the registered instance.
LEMMA ForceRenewStep ==
    ASSUME IInv, NEW t \in Threads, ForceRenew(t)
    PROVE  IInv'
<1> USE InstsAssumption DEF IInv
<1>1. reg \in Insts /\ Moves(t) /\ th'[t].pc = "reload" /\ th'[t].svc = "none" /\ th'[t].op = "force" /\ th'[t].inst = reg
  BY CallMoves DEF ForceRenew, Pcs, Ops, TypeOK
<1>2. TypeOK'
  BY <1>1, Zenon DEF ForceRenew, At, Moves, Changes, TypeOK
<1>3. Locals'
  BY <1>1 DEF ForceRenew, At, Moves, Changes, TypeOK, Locals, Working
<1>4. Closing'
  BY <1>1, Zenon DEF ForceRenew, At, Moves, Changes, TypeOK, Closing
<1>5. PortHasOwner'
  BY <1>1 DEF ForceRenew, At, Moves, Changes, TypeOK, PortHasOwner, OneOwner, Owns, Locals, SvcIsOpen, Working
<1>6. OneOwner'
  BY <1>1 DEF ForceRenew, At, Moves, Changes, TypeOK, PortHasOwner, OneOwner, Owns, Locals, Working
<1>7. SvcIsOpen'
  BY <1>1 DEF ForceRenew, At, Moves, Changes, TypeOK, SvcIsOpen, Owns, PortHasOwner, OneOwner, Locals, Working
<1>8. Unregistered'
  BY <1>1, Zenon DEF ForceRenew, At, Moves, Changes, TypeOK, Unregistered, Locals, Working
<1>9. Launching'
  BY <1>1 DEF ForceRenew, At, Moves, Changes, TypeOK, Launching, Locals, Working
<1>10. RegisteredNotClosed'
  BY <1>1, Zenon DEF ForceRenew, At, Moves, Changes, TypeOK, RegisteredNotClosed, Unregistered, Launching, Locals, Working
<1> QED  BY <1>2, <1>3, <1>4, <1>5, <1>6, <1>7, <1>8, <1>9, <1>10 DEF IInv

\* A renewal begins.
LEMMA RenewStep ==
    ASSUME IInv, NEW t \in Threads, NEW i \in Insts, Renew(t, i)
    PROVE  IInv'
<1> USE InstsAssumption DEF IInv
<1>1. Moves(t) /\ th'[t].pc = "reload" /\ th'[t].svc = "none" /\ th'[t].op = "renew" /\ th'[t].inst = i
  BY CallMoves DEF Renew, Pcs, Ops, TypeOK
<1>2. TypeOK'
  BY <1>1, Zenon DEF Renew, At, Moves, Changes, TypeOK
<1>3. Locals'
  BY <1>1 DEF Renew, At, Moves, Changes, TypeOK, Locals, Working
<1>4. Closing'
  BY <1>1, Zenon DEF Renew, At, Moves, Changes, TypeOK, Closing
<1>5. PortHasOwner'
  BY <1>1 DEF Renew, At, Moves, Changes, TypeOK, PortHasOwner, OneOwner, Owns, Locals, SvcIsOpen, Working
<1>6. OneOwner'
  BY <1>1 DEF Renew, At, Moves, Changes, TypeOK, PortHasOwner, OneOwner, Owns, Locals, Working
<1>7. SvcIsOpen'
  BY <1>1 DEF Renew, At, Moves, Changes, TypeOK, SvcIsOpen, Owns, PortHasOwner, OneOwner, Locals, Working
<1>8. Unregistered'
  BY <1>1, Zenon DEF Renew, At, Moves, Changes, TypeOK, Unregistered, Locals, Working
<1>9. Launching'
  BY <1>1 DEF Renew, At, Moves, Changes, TypeOK, Launching, Locals, Working
<1>10. RegisteredNotClosed'
  BY <1>1, Zenon DEF Renew, At, Moves, Changes, TypeOK, RegisteredNotClosed, Unregistered, Launching, Locals, Working
<1> QED  BY <1>2, <1>3, <1>4, <1>5, <1>6, <1>7, <1>8, <1>9, <1>10, Zenon DEF IInv

\* A watcher starts a reload and exits.
LEMMA TriggerReloadStep ==
    ASSUME IInv, NEW t \in Threads, NEW i \in Insts, TriggerReload(t, i)
    PROVE  IInv'
<1> USE InstsAssumption DEF IInv
<1>1. /\ Moves(t) /\ th'[t].pc = "reload" /\ th'[t].svc = "none" /\ th'[t].op = "watcher" /\ th'[t].inst = i
      /\ Changes(i) /\ insts'[i].svc = insts[i].svc /\ insts'[i].run = insts[i].run
  <2>1. Moves(t) /\ th'[t].pc = "reload" /\ th'[t].svc = "none" /\ th'[t].op = "watcher" /\ th'[t].inst = i
    BY CallMoves DEF TriggerReload, Pcs, Ops
  <2>2. Changes(i) /\ insts'[i].svc = insts[i].svc /\ insts'[i].run = insts[i].run
    BY DEF TriggerReload, TypeOK, InstStates, Pointers, Changes
  <2> QED  BY <2>1, <2>2, Zenon
<1>2. TypeOK'
  BY <1>1, Zenon DEF TriggerReload, At, Moves, Changes, TypeOK
<1>3. Locals'
  BY <1>1 DEF TriggerReload, At, Moves, Changes, TypeOK, Locals, Working
<1>4. Closing'
  BY <1>1 DEF TriggerReload, At, Moves, Changes, TypeOK, Closing
<1>5. PortHasOwner'
  BY <1>1, Zenon DEF TriggerReload, At, Moves, Changes, TypeOK, PortHasOwner, OneOwner, Owns, Locals, SvcIsOpen, Working
<1>6. OneOwner'
  BY <1>1 DEF TriggerReload, At, Moves, Changes, TypeOK, PortHasOwner, OneOwner, Owns, Locals, Working
<1>7. SvcIsOpen'
  BY <1>1 DEF TriggerReload, At, Moves, Changes, TypeOK, SvcIsOpen, Owns, PortHasOwner, OneOwner, Locals, Working
<1>8. Unregistered'
  BY <1>1 DEF TriggerReload, At, Moves, Changes, TypeOK, Unregistered, Locals, Working
<1>9. Launching'
  BY <1>1 DEF TriggerReload, At, Moves, Changes, TypeOK, Launching, Locals, Working
<1>10. RegisteredNotClosed'
  BY <1>1 DEF TriggerReload, At, Moves, Changes, TypeOK, RegisteredNotClosed, Unregistered, Launching, Locals, Working
<1> QED  BY <1>2, <1>3, <1>4, <1>5, <1>6, <1>7, <1>8, <1>9, <1>10 DEF IInv

\* A watchdog calls connect.
LEMMA WatchdogTripStep ==
    ASSUME IInv, NEW t \in Threads, NEW i \in Insts, WatchdogTrip(t, i)
    PROVE  IInv'
<1> USE InstsAssumption DEF IInv
<1>1. Moves(t) /\ th'[t].pc = "lookup" /\ th'[t].svc = "none" /\ th'[t].own = i
  <2> DEFINE l == [Idle EXCEPT !.op = "watchdog", !.pc = "lookup", !.own = i]
  <2>1. l \in ThreadStates /\ l.pc = "lookup" /\ l.svc = "none" /\ l.own = i
    BY Zenon DEF Idle, ThreadStates, Rets, Pointers, Ops, Pcs
  <2>2. Become(t, l)
    BY Zenon DEF WatchdogTrip
  <2> QED  BY <2>1, <2>2, BecomeMoves, Zenon
<1>2. TypeOK'
  BY <1>1, Zenon DEF WatchdogTrip, At, Moves, Changes, TypeOK
<1>3. Locals'
  BY <1>1 DEF WatchdogTrip, At, Moves, Changes, TypeOK, Locals, Working
<1>4. Closing'
  BY <1>1, Zenon DEF WatchdogTrip, At, Moves, Changes, TypeOK, Closing
<1>5. PortHasOwner'
  BY <1>1 DEF WatchdogTrip, At, Moves, Changes, TypeOK, PortHasOwner, OneOwner, Owns, Locals, SvcIsOpen, Working
<1>6. OneOwner'
  BY <1>1 DEF WatchdogTrip, At, Moves, Changes, TypeOK, PortHasOwner, OneOwner, Owns, Locals, Working
<1>7. SvcIsOpen'
  BY <1>1 DEF WatchdogTrip, At, Moves, Changes, TypeOK, SvcIsOpen, Owns, PortHasOwner, OneOwner, Locals, Working
<1>8. Unregistered'
  BY <1>1, Zenon DEF WatchdogTrip, At, Moves, Changes, TypeOK, Unregistered, Locals, Working
<1>9. Launching'
  BY <1>1 DEF WatchdogTrip, At, Moves, Changes, TypeOK, Launching, Locals, Working
<1>10. RegisteredNotClosed'
  BY <1>1, Zenon DEF WatchdogTrip, At, Moves, Changes, TypeOK, RegisteredNotClosed, Unregistered, Launching, Locals, Working
<1> QED  BY <1>2, <1>3, <1>4, <1>5, <1>6, <1>7, <1>8, <1>9, <1>10 DEF IInv

\* connect looks the registry up.
LEMMA ConnectLookupStep ==
    ASSUME IInv, NEW t \in Threads, ConnectLookup(t)
    PROVE  IInv'
<1> USE InstsAssumption DEF IInv
<1>1. /\ Moves(t) /\ th'[t].inst = reg /\ th'[t].svc = th[t].svc
      /\ th'[t].op = th[t].op /\ th'[t].own = th[t].own
      /\ th'[t].pc = IF reg = NoInst THEN "evict" ELSE "check"
  <2> DEFINE p == IF reg = NoInst THEN "evict" ELSE "check"
             l == [th[t] EXCEPT !.inst = reg, !.pc = p]
  <2>1. th[t] \in ThreadStates /\ reg \in Insts \cup {NoInst}
    BY Zenon DEF TypeOK
  <2>2. p \in Pcs
    BY Zenon DEF Pcs
  <2>3. Become(t, l)
    BY Zenon DEF ConnectLookup
  <2> HIDE DEF p
  <2>4. l \in ThreadStates
    BY <2>1, <2>2, Zenon DEF ThreadStates, Rets
  <2>5. l.pc = p /\ l.inst = reg /\ l.svc = th[t].svc
        /\ l.op = th[t].op /\ l.own = th[t].own
    BY <2>1, Zenon DEF ThreadStates
  <2>6. Moves(t) /\ th'[t] = l
    BY <2>3, <2>4, BecomeMoves, Zenon
  <2> HIDE DEF l
  <2> QED  BY <2>5, <2>6, Zenon DEF p
<1>2. TypeOK'
  BY <1>1, Zenon DEF ConnectLookup, At, Moves, Changes, TypeOK
<1>3. Locals'
  BY <1>1 DEF ConnectLookup, At, Moves, Changes, TypeOK, Locals, Working
<1>4. Closing'
  BY <1>1, Zenon DEF ConnectLookup, At, Moves, Changes, TypeOK, Closing
<1>5. PortHasOwner'
  BY <1>1 DEF ConnectLookup, At, Moves, Changes, TypeOK, PortHasOwner, OneOwner, Owns, Locals, SvcIsOpen, Working
<1>6. OneOwner'
  BY <1>1 DEF ConnectLookup, At, Moves, Changes, TypeOK, PortHasOwner, OneOwner, Owns, Locals, Working
<1>7. SvcIsOpen'
  BY <1>1 DEF ConnectLookup, At, Moves, Changes, TypeOK, SvcIsOpen, Owns, PortHasOwner, OneOwner, Locals, Working
<1>8. Unregistered'
  BY <1>1 DEF ConnectLookup, At, Moves, Changes, TypeOK, Unregistered, Locals, Working
<1>9. Launching'
  BY <1>1 DEF ConnectLookup, At, Moves, Changes, TypeOK, Launching, Locals, Working
<1>10. RegisteredNotClosed'
  BY <1>1, Zenon DEF ConnectLookup, At, Moves, Changes, TypeOK, RegisteredNotClosed, Unregistered, Launching, Locals, Working
<1> QED  BY <1>2, <1>3, <1>4, <1>5, <1>6, <1>7, <1>8, <1>9, <1>10 DEF IInv

\* connect finds the instance up, or goes on.
LEMMA ConnectCheckStep ==
    ASSUME IInv, NEW t \in Threads, ConnectCheck(t)
    PROVE  IInv'
<1> USE InstsAssumption DEF IInv
<1>1. /\ Moves(t)
      /\ \/ th'[t].pc = "idle" /\ th'[t].op = "none"
         \/ th'[t].pc = "restarted" /\ th'[t].own \in Insts
         \/ th'[t].pc = "evict" /\ th'[t].op = th[t].op /\ th'[t].own = th[t].own
  BY ReturnMoves, GotoMoves, Zenon DEF ConnectCheck, Pcs
<1>2. TypeOK'
  BY <1>1, Zenon DEF ConnectCheck, At, Moves, Changes, TypeOK
<1>3. Locals'
  BY <1>1 DEF ConnectCheck, At, Moves, Changes, TypeOK, Locals, Working
<1>4. Closing'
  BY <1>1, Zenon DEF ConnectCheck, At, Moves, Changes, TypeOK, Closing
<1>5. PortHasOwner'
  BY <1>1 DEF ConnectCheck, At, Moves, Changes, TypeOK, PortHasOwner, OneOwner, Owns, Locals, SvcIsOpen, Working
<1>6. OneOwner'
  BY <1>1 DEF ConnectCheck, At, Moves, Changes, TypeOK, PortHasOwner, OneOwner, Owns, Locals, Working
<1>7. SvcIsOpen'
  BY <1>1 DEF ConnectCheck, At, Moves, Changes, TypeOK, SvcIsOpen, Owns, PortHasOwner, OneOwner, Locals, Working
<1>8. Unregistered'
  BY <1>1, Zenon DEF ConnectCheck, At, Moves, Changes, TypeOK, Unregistered, Locals, Working
<1>9. Launching'
  BY <1>1 DEF ConnectCheck, At, Moves, Changes, TypeOK, Launching, Locals, Working
<1>10. RegisteredNotClosed'
  BY <1>1, Zenon DEF ConnectCheck, At, Moves, Changes, TypeOK, RegisteredNotClosed, Unregistered, Launching, Locals, Working
<1> QED  BY <1>2, <1>3, <1>4, <1>5, <1>6, <1>7, <1>8, <1>9, <1>10 DEF IInv

\* connect removes a stale entry.
LEMMA ConnectEvictStep ==
    ASSUME IInv, NEW t \in Threads, ConnectEvict(t)
    PROVE  IInv'
<1> USE InstsAssumption DEF IInv
<1>1. /\ Moves(t) /\ th'[t].inst = reg /\ th'[t].svc = th[t].svc
      /\ th'[t].ret = "try" /\ th'[t].op = th[t].op /\ th'[t].own = th[t].own
      /\ th'[t].pc = IF reg = NoInst THEN "try" ELSE "cancel"
  <2> DEFINE p == IF reg = NoInst THEN "try" ELSE "cancel"
             l == [th[t] EXCEPT !.inst = reg, !.ret = "try", !.pc = p]
  <2>1. th[t] \in ThreadStates /\ reg \in Insts \cup {NoInst}
    BY DEF TypeOK
  <2>2. p \in Pcs
    BY Zenon DEF Pcs
  <2>3. Become(t, l)
    BY Zenon DEF ConnectEvict
  <2> HIDE DEF p
  <2>4. l \in ThreadStates
    BY <2>1, <2>2, Zenon DEF ThreadStates, Rets
  <2>5. l.pc = p /\ l.inst = reg /\ l.svc = th[t].svc /\ l.ret = "try"
        /\ l.op = th[t].op /\ l.own = th[t].own
    BY <2>1, Zenon DEF ThreadStates
  <2>6. Moves(t) /\ th'[t] = l
    BY <2>3, <2>4, BecomeMoves, Zenon
  <2> HIDE DEF l
  <2> QED  BY <2>5, <2>6, Zenon DEF p
<1>2. TypeOK'
  BY <1>1, Zenon DEF ConnectEvict, At, Moves, Changes, TypeOK
<1>3. Locals'
  BY <1>1 DEF ConnectEvict, At, Moves, Changes, TypeOK, Locals, Working
<1>4. Closing'
  BY <1>1, Zenon DEF ConnectEvict, At, Moves, Changes, TypeOK, Closing
<1>5. PortHasOwner'
  BY <1>1 DEF ConnectEvict, At, Moves, Changes, TypeOK, PortHasOwner, OneOwner, Owns, Locals, SvcIsOpen, Working
<1>6. OneOwner'
  BY <1>1 DEF ConnectEvict, At, Moves, Changes, TypeOK, PortHasOwner, OneOwner, Owns, Locals, Working
<1>7. SvcIsOpen'
  BY <1>1 DEF ConnectEvict, At, Moves, Changes, TypeOK, SvcIsOpen, Owns, PortHasOwner, OneOwner, Locals, Working
<1>8. Unregistered'
  BY <1>1 DEF ConnectEvict, At, Moves, Changes, TypeOK, Unregistered, Locals, Working
<1>9. Launching'
  BY <1>1 DEF ConnectEvict, At, Moves, Changes, TypeOK, Launching, Locals, Working
<1>10. RegisteredNotClosed'
  BY <1>1, Zenon DEF ConnectEvict, At, Moves, Changes, TypeOK, RegisteredNotClosed, Unregistered, Launching, Locals, Working
<1> QED  BY <1>2, <1>3, <1>4, <1>5, <1>6, <1>7, <1>8, <1>9, <1>10 DEF IInv

\* startInstance makes the contexts.
LEMMA LaunchInstanceStep ==
    ASSUME IInv, NEW t \in Threads, LaunchInstance(t)
    PROVE  IInv'
<1> USE InstsAssumption DEF IInv
<1>1. /\ th[t].inst \in Insts /\ Moves(t) /\ th'[t].inst = th[t].inst
      /\ th'[t].pc \in {"start", "drop"} /\ th'[t].op = th[t].op /\ th'[t].own = th[t].own
      /\ Changes(th[t].inst) /\ insts'[th[t].inst].svc = insts[th[t].inst].svc
      /\ insts'[th[t].inst].run # "closed"
  <2> DEFINE l == [th[t] EXCEPT !.pc = "drop", !.n = MaxAttempts]
  <2>1. th[t] \in ThreadStates /\ th[t].inst \in Insts
    BY Zenon DEF TypeOK, LaunchInstance, At, Locals, Working
  <2>2. PICK run \in {"live", "bare"} :
          /\ insts' = [insts EXCEPT ![th[t].inst].run = run, ![th[t].inst].parent = started]
          /\ IF run = "live" THEN Goto(t, "start") ELSE Become(t, l)
    BY Zenon DEF LaunchInstance
  <2>3. /\ Changes(th[t].inst) /\ insts'[th[t].inst].svc = insts[th[t].inst].svc
        /\ insts'[th[t].inst].run # "closed"
    BY <2>1, <2>2 DEF TypeOK, InstStates, Changes
  <2>4. l \in ThreadStates /\ l.pc = "drop" /\ l.inst = th[t].inst
        /\ l.op = th[t].op /\ l.own = th[t].own
    BY <2>1, BoundsAssumption, Zenon DEF ThreadStates, Pcs
  <2> QED  BY <2>1, <2>2, <2>3, <2>4, BecomeMoves, GotoMoves DEF Pcs
<1>2. TypeOK'
  BY <1>1, Zenon DEF LaunchInstance, At, Moves, Changes, TypeOK
<1>3. Locals'
  BY <1>1 DEF LaunchInstance, At, Moves, Changes, TypeOK, Locals, Working
<1>4. Closing'
  BY <1>1 DEF LaunchInstance, At, Moves, Changes, TypeOK, Closing
<1>5. PortHasOwner'
  BY <1>1 DEF LaunchInstance, At, Moves, Changes, TypeOK, PortHasOwner, OneOwner, Owns, Locals, SvcIsOpen, Working
<1>6. OneOwner'
  BY <1>1 DEF LaunchInstance, At, Moves, Changes, TypeOK, PortHasOwner, OneOwner, Owns, Locals, Working
<1>7. SvcIsOpen'
  BY <1>1 DEF LaunchInstance, At, Moves, Changes, TypeOK, SvcIsOpen, Owns, PortHasOwner, OneOwner, Locals, Working
<1>8. Unregistered'
  BY <1>1 DEF LaunchInstance, At, Moves, Changes, TypeOK, Unregistered, Locals, Working
<1>9. Launching'
  BY <1>1 DEF LaunchInstance, At, Moves, Changes, TypeOK, Launching, Locals, Working
<1>10. RegisteredNotClosed'
  BY <1>1, Zenon DEF LaunchInstance, At, Moves, Changes, TypeOK, RegisteredNotClosed, Unregistered, Launching, Locals, Working
<1> QED  BY <1>2, <1>3, <1>4, <1>5, <1>6, <1>7, <1>8, <1>9, <1>10 DEF IInv

\* An attempt registers a new instance.
LEMMA TryAddStep ==
    ASSUME IInv, NEW t \in Threads, TryAdd(t)
    PROVE  IInv'
<1> USE InstsAssumption DEF IInv
<1>1. \E i \in Insts :
         /\ reg' = i /\ Unreachable(i)
         /\ Moves(t) /\ th'[t].pc = "launch" /\ th'[t].inst = i
         /\ th'[t].op = th[t].op /\ th'[t].own = th[t].own
         /\ Changes(i) /\ insts'[i].svc = "none" /\ insts'[i].run = "unset"
  <2>1. PICK i \in Insts :
          /\ Unreachable(i)
          /\ insts' = [insts EXCEPT ![i] = Blank]
          /\ reg' = i
          /\ Become(t, [th[t] EXCEPT !.pc = "launch", !.inst = i, !.n = @ + 1])
    BY Zenon DEF TryAdd
  <2> DEFINE l == [th[t] EXCEPT !.pc = "launch", !.inst = i, !.n = @ + 1]
  <2>2. th[t] \in ThreadStates /\ th[t].n + 1 \in Nat
    BY DEF TypeOK, ThreadStates
  <2>3. l \in ThreadStates /\ l.pc = "launch" /\ l.inst = i
        /\ l.op = th[t].op /\ l.own = th[t].own
    BY <2>2, Zenon DEF ThreadStates, Pcs
  <2>4. Moves(t) /\ th'[t] = l
    BY <2>1, <2>3, BecomeMoves, Zenon
  <2>5. Changes(i) /\ insts'[i] = Blank
    BY <2>1, BlankType, Zenon DEF TypeOK, Changes
  <2> QED  BY <2>1, <2>3, <2>4, <2>5, BlankType
<1>2. TypeOK'
  BY <1>1, Zenon DEF TryAdd, At, Moves, Changes, Unreachable, TypeOK
<1>3. Locals'
  BY <1>1 DEF TryAdd, At, Moves, Changes, Unreachable, TypeOK, Locals, Working
<1>4. Closing'
  BY <1>1 DEF TryAdd, At, Moves, Changes, Unreachable, TypeOK, Closing
<1>5. PortHasOwner'
  BY <1>1 DEF TryAdd, At, Moves, Changes, Unreachable, TypeOK, PortHasOwner, OneOwner, Owns, Locals, SvcIsOpen, Working
<1>6. OneOwner'
  BY <1>1 DEF TryAdd, At, Moves, Changes, Unreachable, TypeOK, PortHasOwner, OneOwner, Owns, Locals, Working
<1>7. SvcIsOpen'
  BY <1>1 DEF TryAdd, At, Moves, Changes, Unreachable, TypeOK, SvcIsOpen, Owns, PortHasOwner, OneOwner, Locals, Working
<1>8. Unregistered'
  BY <1>1 DEF TryAdd, At, Moves, Changes, Unreachable, TypeOK, Unregistered, Locals, Working
<1>9. Launching'
  BY <1>1 DEF TryAdd, At, Moves, Changes, Unreachable, TypeOK, Launching, Locals, Working
<1>10. RegisteredNotClosed'
  BY <1>1, Zenon DEF TryAdd, At, Moves, Changes, Unreachable, TypeOK, RegisteredNotClosed, Unregistered, Launching, Locals, Working
<1> QED  BY <1>2, <1>3, <1>4, <1>5, <1>6, <1>7, <1>8, <1>9, <1>10 DEF IInv

\* nebula.Main binds the port or fails.
LEMMA StartMeshStep ==
    ASSUME IInv, NEW t \in Threads, StartMesh(t)
    PROVE  IInv'
<1> USE InstsAssumption DEF IInv
<1>1. /\ th[t].inst \in Insts /\ Moves(t) /\ th'[t].inst = th[t].inst
      /\ th'[t].op = th[t].op /\ th'[t].own = th[t].own
      /\ \/ port = "free" /\ port' = "service" /\ th'[t].pc = "set" /\ th'[t].svc = "open"
         \/ StartFails /\ th'[t].pc = "verify"
  <2> DEFINE l == [th[t] EXCEPT !.pc = "set", !.ret = "listen", !.svc = "open"]
  <2>1. th[t] \in ThreadStates /\ th[t].inst \in Insts
    BY Zenon DEF TypeOK, StartMesh, At, Locals, Working
  <2>2. l \in ThreadStates /\ l.pc = "set" /\ l.inst = th[t].inst /\ l.svc = "open"
        /\ l.op = th[t].op /\ l.own = th[t].own
    BY <2>1 DEF ThreadStates, Pcs, Rets, Pointers
  <2>3. \/ port = "free" /\ port' = "service" /\ Become(t, l)
        \/ StartFails /\ Goto(t, "verify")
    BY Zenon DEF StartMesh
  <2> QED  BY <2>1, <2>2, <2>3, BecomeMoves, GotoMoves, Zenon DEF Pcs
<1>2. TypeOK'
  BY <1>1, Zenon DEF StartFails, StartMesh, At, Moves, Changes, TypeOK
<1>3. Locals'
  BY <1>1 DEF StartMesh, At, Moves, Changes, TypeOK, Locals, Working
<1>4. Closing'
  BY <1>1, Zenon DEF StartMesh, At, Moves, Changes, TypeOK, Closing
<1>5. PortHasOwner'
  BY <1>1 DEF StartFails, StartMesh, At, Moves, Changes, TypeOK, PortHasOwner, OneOwner, Owns, Locals, SvcIsOpen, Working
<1>6. OneOwner'
  BY <1>1 DEF StartFails, StartMesh, At, Moves, Changes, TypeOK, PortHasOwner, OneOwner, Owns, Locals, Working
<1>7. SvcIsOpen'
  BY <1>1 DEF StartFails, StartMesh, At, Moves, Changes, TypeOK, SvcIsOpen, Owns, PortHasOwner, OneOwner, Locals, Working
<1>8. Unregistered'
  BY <1>1, Zenon DEF StartMesh, At, Moves, Changes, TypeOK, Unregistered, Locals, Working
<1>9. Launching'
  BY <1>1 DEF StartMesh, At, Moves, Changes, TypeOK, Launching, Locals, Working
<1>10. RegisteredNotClosed'
  BY <1>1, Zenon DEF StartMesh, At, Moves, Changes, TypeOK, RegisteredNotClosed, Unregistered, Launching, Locals, Working
<1> QED  BY <1>2, <1>3, <1>4, <1>5, <1>6, <1>7, <1>8, <1>9, <1>10 DEF IInv

\* The agent's listener on the new service.
LEMMA ListenStep ==
    ASSUME IInv, NEW t \in Threads, Listen(t)
    PROVE  IInv'
<1> USE InstsAssumption DEF IInv
<1>1. /\ th[t].inst \in Insts /\ Moves(t) /\ th'[t].inst = th[t].inst
      /\ th'[t].pc \in {"verify", "drop"} /\ th'[t].op = th[t].op /\ th'[t].own = th[t].own
  <2>1. th[t] \in ThreadStates /\ th[t].inst \in Insts /\ th[t].n \in Nat
    BY Zenon DEF TypeOK, Listen, At, Locals, Working, ThreadStates
  <2>2. CASE Goto(t, "verify")
    BY <2>1, <2>2, GotoMoves, Zenon DEF Pcs
  <2>3. ASSUME NEW n \in {th[t].n, MaxAttempts}, Become(t, [th[t] EXCEPT !.pc = "drop", !.n = n])
        PROVE  /\ Moves(t) /\ th'[t].inst = th[t].inst
               /\ th'[t].pc = "drop" /\ th'[t].op = th[t].op /\ th'[t].own = th[t].own
    <3> DEFINE l == [th[t] EXCEPT !.pc = "drop", !.n = n]
    <3>1. l \in ThreadStates /\ l.pc = "drop" /\ l.inst = th[t].inst
          /\ l.op = th[t].op /\ l.own = th[t].own
      BY <2>1, BoundsAssumption, Zenon DEF ThreadStates, Pcs
    <3> QED  BY <2>3, <3>1, BecomeMoves, Zenon
  <2> QED  BY <2>1, <2>2, <2>3, Zenon DEF Listen
<1>2. TypeOK'
  BY <1>1, Zenon DEF Listen, At, Moves, Changes, TypeOK
<1>3. Locals'
  BY <1>1 DEF Listen, At, Moves, Changes, TypeOK, Locals, Working
<1>4. Closing'
  BY <1>1, Zenon DEF Listen, At, Moves, Changes, TypeOK, Closing
<1>5. PortHasOwner'
  BY <1>1 DEF Listen, At, Moves, Changes, TypeOK, PortHasOwner, OneOwner, Owns, Locals, SvcIsOpen, Working
<1>6. OneOwner'
  BY <1>1 DEF Listen, At, Moves, Changes, TypeOK, PortHasOwner, OneOwner, Owns, Locals, Working
<1>7. SvcIsOpen'
  BY <1>1 DEF Listen, At, Moves, Changes, TypeOK, SvcIsOpen, Owns, PortHasOwner, OneOwner, Locals, Working
<1>8. Unregistered'
  BY <1>1, Zenon DEF Listen, At, Moves, Changes, TypeOK, Unregistered, Locals, Working
<1>9. Launching'
  BY <1>1 DEF Listen, At, Moves, Changes, TypeOK, Launching, Locals, Working
<1>10. RegisteredNotClosed'
  BY <1>1, Zenon DEF Listen, At, Moves, Changes, TypeOK, RegisteredNotClosed, Unregistered, Launching, Locals, Working
<1> QED  BY <1>2, <1>3, <1>4, <1>5, <1>6, <1>7, <1>8, <1>9, <1>10 DEF IInv

\* An attempt succeeds if the instance has a control.
LEMMA TryVerifyStep ==
    ASSUME IInv, NEW t \in Threads, TryVerify(t)
    PROVE  IInv'
<1> USE InstsAssumption DEF IInv
<1>1. /\ Moves(t) /\ th[t].inst \in Insts
      /\ \/ th'[t].pc = "idle" /\ th'[t].op = "none"
         \/ th'[t].pc = "restarted" /\ th'[t].own \in Insts
         \/ /\ th'[t].pc = "drop" /\ th'[t].inst = th[t].inst
            /\ th'[t].op = th[t].op /\ th'[t].own = th[t].own
  BY ReturnMoves, GotoMoves DEF TryVerify, Pcs, Locals, At, Working
<1>2. TypeOK'
  BY <1>1, Zenon DEF TryVerify, At, Moves, Changes, TypeOK
<1>3. Locals'
  BY <1>1 DEF TryVerify, At, Moves, Changes, TypeOK, Locals, Working
<1>4. Closing'
  BY <1>1, Zenon DEF TryVerify, At, Moves, Changes, TypeOK, Closing
<1>5. PortHasOwner'
  BY <1>1 DEF TryVerify, At, Moves, Changes, TypeOK, PortHasOwner, OneOwner, Owns, Locals, SvcIsOpen, Working
<1>6. OneOwner'
  BY <1>1 DEF TryVerify, At, Moves, Changes, TypeOK, PortHasOwner, OneOwner, Owns, Locals, Working
<1>7. SvcIsOpen'
  BY <1>1 DEF TryVerify, At, Moves, Changes, TypeOK, SvcIsOpen, Owns, PortHasOwner, OneOwner, Locals, Working
<1>8. Unregistered'
  BY <1>1 DEF TryVerify, At, Moves, Changes, TypeOK, Unregistered, Locals, Working
<1>9. Launching'
  BY <1>1 DEF TryVerify, At, Moves, Changes, TypeOK, Launching, Locals, Working
<1>10. RegisteredNotClosed'
  BY <1>1, Zenon DEF TryVerify, At, Moves, Changes, TypeOK, RegisteredNotClosed, Unregistered, Launching, Locals, Working
<1> QED  BY <1>2, <1>3, <1>4, <1>5, <1>6, <1>7, <1>8, <1>9, <1>10 DEF IInv

\* A failed attempt removes the entry and closes its instance.
LEMMA TryFailedStep ==
    ASSUME IInv, NEW t \in Threads, TryFailed(t)
    PROVE  IInv'
<1> USE InstsAssumption DEF IInv
<1>1. /\ th[t].inst \in Insts /\ Moves(t) /\ th'[t].inst = th[t].inst
      /\ th'[t].pc = "cancel" /\ th'[t].ret = "again" /\ th'[t].op = th[t].op /\ th'[t].own = th[t].own
  <2> DEFINE l == [th[t] EXCEPT !.pc = "cancel", !.ret = "again"]
  <2>1. th[t] \in ThreadStates /\ th[t].inst \in Insts
    BY Zenon DEF TypeOK, TryFailed, Locals, At, Working
  <2>2. l \in ThreadStates /\ l.pc = "cancel" /\ l.ret = "again" /\ l.inst = th[t].inst /\ l.op = th[t].op /\ l.own = th[t].own
    BY <2>1 DEF ThreadStates, Pcs, Rets, Ops, Pointers
  <2>3. Become(t, l)
    BY Zenon DEF TryFailed
  <2> QED  BY <2>1, <2>2, <2>3, BecomeMoves, Zenon
<1>2. TypeOK'
  BY <1>1, Zenon DEF TryFailed, At, Moves, Changes, TypeOK
<1>3. Locals'
  BY <1>1 DEF TryFailed, At, Moves, Changes, TypeOK, Locals, Working
<1>4. Closing'
  BY <1>1, Zenon DEF TryFailed, At, Moves, Changes, TypeOK, Closing
<1>5. PortHasOwner'
  BY <1>1 DEF TryFailed, At, Moves, Changes, TypeOK, PortHasOwner, OneOwner, Owns, Locals, SvcIsOpen, Working
<1>6. OneOwner'
  BY <1>1 DEF TryFailed, At, Moves, Changes, TypeOK, PortHasOwner, OneOwner, Owns, Locals, Working
<1>7. SvcIsOpen'
  BY <1>1 DEF TryFailed, At, Moves, Changes, TypeOK, SvcIsOpen, Owns, PortHasOwner, OneOwner, Locals, Working
<1>8. Unregistered'
  BY <1>1 DEF TryFailed, At, Moves, Changes, TypeOK, Unregistered, Locals, Working
<1>9. Launching'
  BY <1>1 DEF TryFailed, At, Moves, Changes, TypeOK, Launching, Locals, Working
<1>10. RegisteredNotClosed'
  BY <1>1, Zenon DEF TryFailed, At, Moves, Changes, TypeOK, RegisteredNotClosed, Unregistered, Launching, Locals, Working
<1> QED  BY <1>2, <1>3, <1>4, <1>5, <1>6, <1>7, <1>8, <1>9, <1>10 DEF IInv

\* The next attempt, or the end.
LEMMA TryAgainStep ==
    ASSUME IInv, NEW t \in Threads, TryAgain(t)
    PROVE  IInv'
<1> USE InstsAssumption DEF IInv
<1>1. /\ Moves(t)
      /\ \/ th'[t].pc = "idle" /\ th'[t].op = "none"
         \/ th'[t].pc = "failed" /\ th'[t].own \in Insts
         \/ th'[t].pc = "try" /\ th'[t].op = th[t].op /\ th'[t].own = th[t].own
  BY ReturnMoves, GotoMoves DEF TryAgain, Pcs
<1>2. TypeOK'
  BY <1>1, Zenon DEF TryAgain, At, Moves, Changes, TypeOK
<1>3. Locals'
  BY <1>1 DEF TryAgain, At, Moves, Changes, TypeOK, Locals, Working
<1>4. Closing'
  BY <1>1, Zenon DEF TryAgain, At, Moves, Changes, TypeOK, Closing
<1>5. PortHasOwner'
  BY <1>1 DEF TryAgain, At, Moves, Changes, TypeOK, PortHasOwner, OneOwner, Owns, Locals, SvcIsOpen, Working
<1>6. OneOwner'
  BY <1>1 DEF TryAgain, At, Moves, Changes, TypeOK, PortHasOwner, OneOwner, Owns, Locals, Working
<1>7. SvcIsOpen'
  BY <1>1 DEF TryAgain, At, Moves, Changes, TypeOK, SvcIsOpen, Owns, PortHasOwner, OneOwner, Locals, Working
<1>8. Unregistered'
  BY <1>1, Zenon DEF TryAgain, At, Moves, Changes, TypeOK, Unregistered, Locals, Working
<1>9. Launching'
  BY <1>1 DEF TryAgain, At, Moves, Changes, TypeOK, Launching, Locals, Working
<1>10. RegisteredNotClosed'
  BY <1>1, Zenon DEF TryAgain, At, Moves, Changes, TypeOK, RegisteredNotClosed, Unregistered, Launching, Locals, Working
<1> QED  BY <1>2, <1>3, <1>4, <1>5, <1>6, <1>7, <1>8, <1>9, <1>10 DEF IInv

\* A watchdog resets its failure count.
LEMMA RestartSucceededStep ==
    ASSUME IInv, NEW t \in Threads, RestartSucceeded(t)
    PROVE  IInv'
<1> USE InstsAssumption DEF IInv
<1>1. /\ Moves(t) /\ th'[t].pc = "idle" /\ th'[t].op = "none"
      /\ th[t].own \in Insts /\ Changes(th[t].own)
      /\ insts'[th[t].own].svc = insts[th[t].own].svc
      /\ insts'[th[t].own].run = insts[th[t].own].run
  <2>1. th[t].own \in Insts
    BY Zenon DEF Locals, RestartSucceeded, At
  <2>2. Moves(t) /\ th'[t].pc = "idle" /\ th'[t].op = "none"
    BY DoneMoves, Zenon DEF RestartSucceeded
  <2>3. 0 \in 0..(EscalateAfter - 1)
    BY BoundsAssumption
  <2> QED  BY <2>1, <2>2, <2>3 DEF RestartSucceeded, TypeOK, InstStates, Changes
<1>2. TypeOK'
  BY <1>1, Zenon DEF RestartSucceeded, At, Moves, Changes, TypeOK
<1>3. Locals'
  BY <1>1 DEF RestartSucceeded, At, Moves, Changes, TypeOK, Locals, Working
<1>4. Closing'
  BY <1>1 DEF RestartSucceeded, At, Moves, Changes, TypeOK, Closing
<1>5. PortHasOwner'
  BY <1>1 DEF RestartSucceeded, At, Moves, Changes, TypeOK, PortHasOwner, OneOwner, Owns, Locals, SvcIsOpen, Working
<1>6. OneOwner'
  BY <1>1 DEF RestartSucceeded, At, Moves, Changes, TypeOK, PortHasOwner, OneOwner, Owns, Locals, Working
<1>7. SvcIsOpen'
  BY <1>1 DEF RestartSucceeded, At, Moves, Changes, TypeOK, SvcIsOpen, Owns, PortHasOwner, OneOwner, Locals, Working
<1>8. Unregistered'
  BY <1>1 DEF RestartSucceeded, At, Moves, Changes, TypeOK, Unregistered, Locals, Working
<1>9. Launching'
  BY <1>1 DEF RestartSucceeded, At, Moves, Changes, TypeOK, Launching, Locals, Working
<1>10. RegisteredNotClosed'
  BY <1>1, Zenon DEF RestartSucceeded, At, Moves, Changes, TypeOK, RegisteredNotClosed, Unregistered, Launching, Locals, Working
<1> QED  BY <1>2, <1>3, <1>4, <1>5, <1>6, <1>7, <1>8, <1>9, <1>10 DEF IInv

\* A watchdog counts a failure, or ends the process.
LEMMA RestartFailedStep ==
    ASSUME IInv, NEW t \in Threads, RestartFailed(t)
    PROVE  IInv'
<1> USE InstsAssumption DEF IInv
<1>1. \/ /\ Moves(t) /\ th'[t].pc = "idle" /\ th'[t].op = "none" /\ UNCHANGED <<started, reg, port>>
         /\ th[t].own \in Insts /\ Changes(th[t].own)
         /\ insts'[th[t].own].svc = insts[th[t].own].svc
         /\ insts'[th[t].own].run = insts[th[t].own].run
      \/ /\ started' = FALSE /\ reg' = NoInst /\ port' = "free"
         /\ insts' \in [Insts -> InstStates] /\ th' \in [Threads -> ThreadStates]
         /\ \A i \in Insts : insts'[i].svc = "none" /\ insts'[i].run = "unset"
         /\ \A u \in Threads : /\ th'[u].pc = "idle" /\ th'[u].op = "none"
                               /\ th'[u].svc = "none"
  <2>1. th[t].own \in Insts /\ insts[th[t].own] \in InstStates
    BY Zenon DEF Locals, RestartFailed, At, TypeOK
  <2>2. CASE insts[th[t].own].fails + 1 >= EscalateAfter
    BY <2>2, BlankType, IdleType, Zenon DEF RestartFailed
  <2>3. CASE ~(insts[th[t].own].fails + 1 >= EscalateAfter)
    <3>1. insts' = [insts EXCEPT ![th[t].own].fails = @ + 1] /\ Done(t) /\ UNCHANGED <<started, reg, port>>
      BY <2>3, Zenon DEF RestartFailed
    <3>2. Changes(th[t].own) /\ insts'[th[t].own].svc = insts[th[t].own].svc
          /\ insts'[th[t].own].run = insts[th[t].own].run
      <4>1. insts[th[t].own].fails + 1 \in 0..(EscalateAfter - 1)
        BY <2>1, <2>3, BoundsAssumption DEF InstStates
      <4> QED  BY <2>1, <3>1, <4>1, Zenon DEF TypeOK, InstStates, Changes
    <3> QED  BY <2>1, <3>1, <3>2, DoneMoves, Zenon
  <2> QED  BY <2>2, <2>3, Zenon
<1>2. TypeOK'
  BY <1>1, Zenon DEF RestartFailed, At, Moves, Changes, TypeOK
<1>3. Locals'
  BY <1>1 DEF RestartFailed, At, Moves, Changes, TypeOK, Locals, Working
<1>4. Closing'
  BY <1>1, Zenon DEF RestartFailed, At, Moves, Changes, TypeOK, Closing
<1>5. PortHasOwner'
  BY <1>1 DEF RestartFailed, At, Moves, Changes, TypeOK, PortHasOwner, OneOwner, Owns, Locals, SvcIsOpen, Working
<1>6. OneOwner'
  BY <1>1 DEF RestartFailed, At, Moves, Changes, TypeOK, PortHasOwner, OneOwner, Owns, Locals, Working
<1>7. SvcIsOpen'
  BY <1>1 DEF RestartFailed, At, Moves, Changes, TypeOK, SvcIsOpen, Owns, PortHasOwner, OneOwner, Locals, Working
<1>8. Unregistered'
  BY <1>1 DEF RestartFailed, At, Moves, Changes, TypeOK, Unregistered, Locals, Working
<1>9. Launching'
  BY <1>1 DEF RestartFailed, At, Moves, Changes, TypeOK, Launching, Locals, Working
<1>10. RegisteredNotClosed'
  BY <1>1 DEF RestartFailed, At, Moves, Changes, TypeOK, RegisteredNotClosed, Unregistered, Launching, Locals, Working
<1> QED  BY <1>2, <1>3, <1>4, <1>5, <1>6, <1>7, <1>8, <1>9, <1>10 DEF IInv

\* disconnect and closeAll drop the registry entry.
LEMMA RemoveStep ==
    ASSUME IInv, NEW t \in Threads, Remove(t)
    PROVE  IInv'
<1> USE InstsAssumption DEF IInv
<1>1. /\ Moves(t)
      /\ \/ th'[t].pc = "idle" /\ th'[t].op = "none"
         \/ /\ th'[t].pc = "cancel" /\ reg \in Insts /\ th'[t].inst = reg
            /\ th'[t].ret = "idle" /\ th'[t].op = th[t].op /\ th'[t].own = th[t].own
  <2> DEFINE l == [th[t] EXCEPT !.inst = reg, !.pc = "cancel", !.ret = "idle"]
  <2>1. th[t] \in ThreadStates /\ reg \in Insts \cup {NoInst}
    BY DEF TypeOK
  <2>2. l \in ThreadStates /\ l.pc = "cancel" /\ l.inst = reg
        /\ l.ret = "idle" /\ l.op = th[t].op /\ l.own = th[t].own
    BY <2>1, Zenon DEF ThreadStates, Pcs, Rets
  <2>3. Become(t, Idle) \/ (reg # NoInst /\ Become(t, l))
    BY Zenon DEF Remove
  <2> QED  BY <2>1, <2>2, <2>3, IdleType, BecomeMoves, Zenon
<1>2. TypeOK'
  BY <1>1, Zenon DEF Remove, At, Moves, Changes, TypeOK
<1>3. Locals'
  BY <1>1 DEF Remove, At, Moves, Changes, TypeOK, Locals, Working
<1>4. Closing'
  BY <1>1, Zenon DEF Remove, At, Moves, Changes, TypeOK, Closing
<1>5. PortHasOwner'
  BY <1>1 DEF Remove, At, Moves, Changes, TypeOK, PortHasOwner, OneOwner, Owns, Locals, SvcIsOpen, Working
<1>6. OneOwner'
  BY <1>1 DEF Remove, At, Moves, Changes, TypeOK, PortHasOwner, OneOwner, Owns, Locals, Working
<1>7. SvcIsOpen'
  BY <1>1 DEF Remove, At, Moves, Changes, TypeOK, SvcIsOpen, Owns, PortHasOwner, OneOwner, Locals, Working
<1>8. Unregistered'
  BY <1>1 DEF Remove, At, Moves, Changes, TypeOK, Unregistered, Locals, Working
<1>9. Launching'
  BY <1>1 DEF Remove, At, Moves, Changes, TypeOK, Launching, Locals, Working
<1>10. RegisteredNotClosed'
  BY <1>1, Zenon DEF Remove, At, Moves, Changes, TypeOK, RegisteredNotClosed, Unregistered, Launching, Locals, Working
<1> QED  BY <1>2, <1>3, <1>4, <1>5, <1>6, <1>7, <1>8, <1>9, <1>10 DEF IInv

\* close cancels the contexts.
LEMMA CloseCancelStep ==
    ASSUME IInv, NEW t \in Threads, CloseCancel(t)
    PROVE  IInv'
<1> USE InstsAssumption DEF IInv
<1>1. /\ th[t].pc = "cancel" /\ UNCHANGED <<started, reg, port>>
      /\ th[t].inst \in Insts /\ Moves(t) /\ th'[t].inst = th[t].inst /\ th'[t].pc = "take"
      /\ th'[t].ret = th[t].ret /\ th'[t].op = th[t].op /\ th'[t].own = th[t].own
      /\ Changes(th[t].inst) /\ insts'[th[t].inst].svc = insts[th[t].inst].svc
      /\ (insts[th[t].inst].run = "unset" => insts'[th[t].inst].run = "unset")
  <2>1. th[t].inst \in Insts /\ th[t].pc = "cancel" /\ UNCHANGED <<started, reg, port>>
    BY Zenon DEF Locals, CloseCancel, At, Working
  <2>2. /\ Changes(th[t].inst) /\ insts'[th[t].inst].svc = insts[th[t].inst].svc
        /\ (insts[th[t].inst].run = "unset" => insts'[th[t].inst].run = "unset")
    BY <2>1 DEF CloseCancel, TypeOK, InstStates, Pointers, Changes
  <2> QED  BY <2>1, <2>2, GotoMoves, Zenon DEF CloseCancel, Pcs
<1>2. TypeOK'
  BY <1>1, Zenon DEF Moves, Changes, TypeOK
<1>3. Locals'
  BY <1>1 DEF Moves, Changes, TypeOK, Locals, Working
<1>4. Closing'
  BY <1>1 DEF Moves, Changes, TypeOK, Closing
<1>5. PortHasOwner'
  BY <1>1 DEF Moves, Changes, TypeOK, PortHasOwner, OneOwner, Owns, Locals, SvcIsOpen, Working
<1>6. OneOwner'
  BY <1>1 DEF Moves, Changes, TypeOK, PortHasOwner, OneOwner, Owns, Locals, Working
<1>7. SvcIsOpen'
  BY <1>1 DEF Moves, Changes, TypeOK, SvcIsOpen, Owns, PortHasOwner, OneOwner, Locals, Working
<1>8. Unregistered'
  BY <1>1 DEF Moves, Changes, TypeOK, Unregistered, Locals, Working
<1>9. Launching'
  BY <1>1 DEF Moves, Changes, TypeOK, Launching, Locals, Working
<1>10. RegisteredNotClosed'
  BY <1>1, Zenon DEF Moves, Changes, TypeOK, RegisteredNotClosed, Unregistered, Launching, Locals, Working
<1> QED  BY <1>2, <1>3, <1>4, <1>5, <1>6, <1>7, <1>8, <1>9, <1>10 DEF IInv

\* close takes the service.
LEMMA CloseTakeStep ==
    ASSUME IInv, NEW t \in Threads, CloseTake(t)
    PROVE  IInv'
<1> USE InstsAssumption DEF IInv
<1>1. /\ th[t].pc = "take" /\ UNCHANGED <<started, reg, port>>
      /\ insts[th[t].inst].svc \in Pointers /\ th[t].inst \in Insts /\ Moves(t) /\ th'[t].inst = th[t].inst /\ th'[t].pc = "close"
      /\ th'[t].ret = th[t].ret /\ th'[t].op = th[t].op /\ th'[t].own = th[t].own
      /\ th'[t].svc = insts[th[t].inst].svc
      /\ Changes(th[t].inst) /\ insts'[th[t].inst].svc = "none"
      /\ insts'[th[t].inst].run = insts[th[t].inst].run
  <2> DEFINE l == [th[t] EXCEPT !.svc = insts[th[t].inst].svc, !.pc = "close"]
  <2>1. th[t] \in ThreadStates /\ th[t].inst \in Insts /\ insts[th[t].inst] \in InstStates
        /\ insts[th[t].inst].svc \in Pointers
    BY Zenon DEF TypeOK, InstStates, Locals, CloseTake, At, Working
  <2>2. l \in ThreadStates /\ l.pc = "close" /\ l.inst = th[t].inst
        /\ l.ret = th[t].ret /\ l.op = th[t].op /\ l.own = th[t].own /\ l.svc = insts[th[t].inst].svc
    BY <2>1, Zenon DEF ThreadStates, InstStates, Pcs
  <2>3. /\ Changes(th[t].inst) /\ insts'[th[t].inst].svc = "none"
        /\ insts'[th[t].inst].run = insts[th[t].inst].run
    BY <2>1, Zenon DEF CloseTake, TypeOK, InstStates, Pointers, Changes
  <2>4. Become(t, l) /\ th[t].pc = "take" /\ UNCHANGED <<started, reg, port>>
    BY Zenon DEF CloseTake, At
  <2> QED  BY <2>1, <2>2, <2>3, <2>4, BecomeMoves, Zenon
<1>2. TypeOK'
  BY <1>1, Zenon DEF Moves, Changes, Pointers, TypeOK
<1>3. Locals'
  BY <1>1 DEF Moves, Changes, Pointers, TypeOK, Locals, Working
<1>4. Closing'
  BY <1>1 DEF Moves, Changes, Pointers, TypeOK, Closing
<1>5. PortHasOwner'
  BY <1>1 DEF Moves, Changes, Pointers, TypeOK, PortHasOwner, OneOwner, Owns, Locals, SvcIsOpen, Working
<1>6. OneOwner'
  BY <1>1 DEF Moves, Changes, Pointers, TypeOK, PortHasOwner, OneOwner, Owns, Locals, Working
<1>7. SvcIsOpen'
  BY <1>1 DEF Moves, Changes, Pointers, TypeOK, SvcIsOpen, Owns, PortHasOwner, OneOwner, Locals, Working
<1>8. Unregistered'
  BY <1>1 DEF Moves, Changes, Pointers, TypeOK, Unregistered, Locals, Working
<1>9. Launching'
  BY <1>1 DEF Moves, Changes, Pointers, TypeOK, Launching, Locals, Working
<1>10. RegisteredNotClosed'
  BY <1>1 DEF Moves, Changes, Pointers, TypeOK, RegisteredNotClosed, Unregistered, Launching, Locals, Working
<1> QED  BY <1>2, <1>3, <1>4, <1>5, <1>6, <1>7, <1>8, <1>9, <1>10 DEF IInv

\* reloadNebula takes the service, or finds none.
LEMMA ReloadStep ==
    ASSUME IInv, NEW t \in Threads, Reload(t)
    PROVE  IInv'
<1> USE InstsAssumption DEF IInv
<1>1. /\ th[t].pc = "reload" /\ UNCHANGED <<started, reg, port>>
      /\ insts[th[t].inst].svc \in Pointers /\ th[t].inst \in Insts /\ Moves(t) /\ th'[t].inst = th[t].inst
      /\ th'[t].op = th[t].op /\ th'[t].own = th[t].own
      /\ \/ th'[t].pc = "cold" /\ insts' = insts
         \/ /\ th'[t].pc = "close" /\ th'[t].ret = "restart" /\ th'[t].svc = insts[th[t].inst].svc
            /\ Changes(th[t].inst) /\ insts'[th[t].inst].svc = "none"
            /\ insts'[th[t].inst].run = insts[th[t].inst].run
  <2> DEFINE l == [th[t] EXCEPT !.svc = insts[th[t].inst].svc, !.pc = "close",
                                !.ret = "restart"]
  <2>1. th[t] \in ThreadStates /\ th[t].inst \in Insts /\ insts[th[t].inst] \in InstStates
        /\ insts[th[t].inst].svc \in Pointers
    BY Zenon DEF TypeOK, InstStates, Locals, Reload, At, Working
  <2>2. l \in ThreadStates /\ l.pc = "close" /\ l.ret = "restart" /\ l.inst = th[t].inst
        /\ l.op = th[t].op /\ l.own = th[t].own /\ l.svc = insts[th[t].inst].svc
    BY <2>1, Zenon DEF ThreadStates, InstStates, Pcs, Rets
  <2>3. th[t].pc = "reload" /\ UNCHANGED <<started, reg, port>>
    BY Zenon DEF Reload, At
  <2>4. CASE insts[th[t].inst].svc = "none"
    BY <2>1, <2>3, <2>4, GotoMoves, Zenon DEF Reload, Pcs
  <2>5. CASE insts[th[t].inst].svc # "none"
    <3>1. /\ Changes(th[t].inst) /\ insts'[th[t].inst].svc = "none"
          /\ insts'[th[t].inst].run = insts[th[t].inst].run
      BY <2>1, <2>5 DEF Reload, TypeOK, InstStates, Pointers, Changes
    <3>2. Become(t, l)
      BY <2>5, Zenon DEF Reload
    <3> QED  BY <2>1, <2>2, <2>3, <3>1, <3>2, BecomeMoves, Zenon
  <2> QED  BY <2>4, <2>5, Zenon
<1>2. TypeOK'
  BY <1>1, Zenon DEF Moves, Changes, Pointers, TypeOK
<1>3. Locals'
  BY <1>1 DEF Moves, Changes, Pointers, TypeOK, Locals, Working
<1>4. Closing'
  BY <1>1, Zenon DEF Moves, Changes, Pointers, TypeOK, Closing
<1>5. PortHasOwner'
  BY <1>1 DEF Moves, Changes, Pointers, TypeOK, PortHasOwner, OneOwner, Owns, Locals, SvcIsOpen, Working
<1>6. OneOwner'
  BY <1>1 DEF Moves, Changes, Pointers, TypeOK, PortHasOwner, OneOwner, Owns, Locals, Working
<1>7. SvcIsOpen'
  BY <1>1 DEF Moves, Changes, Pointers, TypeOK, SvcIsOpen, Owns, PortHasOwner, OneOwner, Locals, Working
<1>8. Unregistered'
  BY <1>1 DEF Moves, Changes, Pointers, TypeOK, Unregistered, Locals, Working
<1>9. Launching'
  BY <1>1 DEF Moves, Changes, Pointers, TypeOK, Launching, Locals, Working
<1>10. RegisteredNotClosed'
  BY <1>1 DEF Moves, Changes, Pointers, TypeOK, RegisteredNotClosed, Unregistered, Launching, Locals, Working
<1> QED  BY <1>2, <1>3, <1>4, <1>5, <1>6, <1>7, <1>8, <1>9, <1>10 DEF IInv

\* The cold start of a reload.
LEMMA ColdStartStep ==
    ASSUME IInv, NEW t \in Threads, ColdStart(t)
    PROVE  IInv'
<1> USE InstsAssumption DEF IInv
<1>1. /\ th[t].inst \in Insts /\ Moves(t)
      /\ \/ /\ port = "free" /\ port' = "service" /\ th'[t].pc = "set" /\ th'[t].svc = "open"
            /\ th'[t].inst = th[t].inst /\ th'[t].op = th[t].op /\ th'[t].own = th[t].own
         \/ StartFails /\ th'[t].pc = "idle" /\ th'[t].op = "none"
  <2> DEFINE l == [th[t] EXCEPT !.pc = "set", !.ret = "idle", !.svc = "open"]
  <2>1. th[t] \in ThreadStates /\ th[t].inst \in Insts
    BY Zenon DEF TypeOK, Locals, ColdStart, At, Working
  <2>2. l \in ThreadStates /\ l.pc = "set" /\ l.inst = th[t].inst /\ l.svc = "open"
        /\ l.op = th[t].op /\ l.own = th[t].own
    BY <2>1 DEF ThreadStates, Pcs, Rets, Pointers
  <2>3. \/ port = "free" /\ port' = "service" /\ Become(t, l)
        \/ StartFails /\ Become(t, Idle)
    BY Zenon DEF ColdStart, NebulaStart
  <2> QED  BY <2>1, <2>2, <2>3, IdleType, BecomeMoves, Zenon
<1>2. TypeOK'
  BY <1>1, Zenon DEF StartFails, ColdStart, At, Moves, Changes, TypeOK
<1>3. Locals'
  BY <1>1 DEF ColdStart, At, Moves, Changes, TypeOK, Locals, Working
<1>4. Closing'
  BY <1>1, Zenon DEF ColdStart, At, Moves, Changes, TypeOK, Closing
<1>5. PortHasOwner'
  BY <1>1 DEF StartFails, ColdStart, At, Moves, Changes, TypeOK, PortHasOwner, OneOwner, Owns, Locals, SvcIsOpen, Working
<1>6. OneOwner'
  BY <1>1 DEF StartFails, ColdStart, At, Moves, Changes, TypeOK, PortHasOwner, OneOwner, Owns, Locals, Working
<1>7. SvcIsOpen'
  BY <1>1 DEF StartFails, ColdStart, At, Moves, Changes, TypeOK, SvcIsOpen, Owns, PortHasOwner, OneOwner, Locals, Working
<1>8. Unregistered'
  BY <1>1, Zenon DEF ColdStart, At, Moves, Changes, TypeOK, Unregistered, Locals, Working
<1>9. Launching'
  BY <1>1 DEF ColdStart, At, Moves, Changes, TypeOK, Launching, Locals, Working
<1>10. RegisteredNotClosed'
  BY <1>1, Zenon DEF ColdStart, At, Moves, Changes, TypeOK, RegisteredNotClosed, Unregistered, Launching, Locals, Working
<1> QED  BY <1>2, <1>3, <1>4, <1>5, <1>6, <1>7, <1>8, <1>9, <1>10 DEF IInv

\* The hot restart, or its retry.
LEMMA RestartStep ==
    ASSUME IInv, NEW t \in Threads, Restart(t)
    PROVE  IInv'
<1> USE InstsAssumption DEF IInv
<1>1. /\ th[t].inst \in Insts /\ Moves(t)
      /\ \/ /\ port = "free" /\ port' = "service" /\ th'[t].pc = "set" /\ th'[t].svc = "open"
            /\ th'[t].inst = th[t].inst /\ th'[t].op = th[t].op /\ th'[t].own = th[t].own
         \/ StartFails /\ th'[t].pc = "retry" /\ th'[t].op = "retry" /\ th'[t].inst = th[t].inst /\ th'[t].own = th[t].own
  <2> DEFINE l == [th[t] EXCEPT !.pc = "set", !.ret = "idle", !.svc = "open"]
  <2>1. th[t] \in ThreadStates /\ th[t].inst \in Insts
    BY Zenon DEF TypeOK, Locals, Restart, At, Working
  <2>2. l \in ThreadStates /\ l.pc = "set" /\ l.inst = th[t].inst /\ l.svc = "open"
        /\ l.op = th[t].op /\ l.own = th[t].own
    BY <2>1 DEF ThreadStates, Pcs, Rets, Pointers
  <2> DEFINE f == [th[t] EXCEPT !.op = "retry", !.pc = "retry", !.n = 1]
  <2>3. f \in ThreadStates /\ f.pc = "retry" /\ f.op = "retry" /\ f.inst = th[t].inst
        /\ f.own = th[t].own
    BY <2>1, Zenon DEF ThreadStates, Pcs, Ops
  <2>4. \/ port = "free" /\ port' = "service" /\ Become(t, l)
        \/ StartFails /\ Become(t, f)
    BY Zenon DEF Restart, NebulaStart
  <2> QED  BY <2>1, <2>2, <2>3, <2>4, BecomeMoves
<1>2. TypeOK'
  BY <1>1, Zenon DEF StartFails, Restart, At, Moves, Changes, TypeOK
<1>3. Locals'
  BY <1>1 DEF Restart, At, Moves, Changes, TypeOK, Locals, Working
<1>4. Closing'
  BY <1>1, Zenon DEF Restart, At, Moves, Changes, TypeOK, Closing
<1>5. PortHasOwner'
  BY <1>1 DEF StartFails, Restart, At, Moves, Changes, TypeOK, PortHasOwner, OneOwner, Owns, Locals, SvcIsOpen, Working
<1>6. OneOwner'
  BY <1>1 DEF StartFails, Restart, At, Moves, Changes, TypeOK, PortHasOwner, OneOwner, Owns, Locals, Working
<1>7. SvcIsOpen'
  BY <1>1 DEF StartFails, Restart, At, Moves, Changes, TypeOK, SvcIsOpen, Owns, PortHasOwner, OneOwner, Locals, Working
<1>8. Unregistered'
  BY <1>1, Zenon DEF Restart, At, Moves, Changes, TypeOK, Unregistered, Locals, Working
<1>9. Launching'
  BY <1>1 DEF Restart, At, Moves, Changes, TypeOK, Launching, Locals, Working
<1>10. RegisteredNotClosed'
  BY <1>1, Zenon DEF Restart, At, Moves, Changes, TypeOK, RegisteredNotClosed, Unregistered, Launching, Locals, Working
<1> QED  BY <1>2, <1>3, <1>4, <1>5, <1>6, <1>7, <1>8, <1>9, <1>10 DEF IInv

\* A retry starts Nebula, waits, or gives up.
LEMMA RetryStartStep ==
    ASSUME IInv, NEW t \in Threads, RetryStart(t)
    PROVE  IInv'
<1> USE InstsAssumption DEF IInv
<1>1. /\ th[t].inst \in Insts /\ Moves(t)
      /\ \/ /\ port = "free" /\ port' = "service" /\ th'[t].pc = "swap" /\ th'[t].svc = "open"
            /\ th'[t].inst = th[t].inst /\ th'[t].op = th[t].op /\ th'[t].own = th[t].own
         \/ StartFails /\ ((th'[t].pc = "idle" /\ th'[t].op = "none") \/ (th'[t].pc = "retry" /\ th'[t].op = th[t].op /\ th'[t].inst = th[t].inst /\ th'[t].own = th[t].own))
  <2> DEFINE l == [th[t] EXCEPT !.pc = "swap", !.ret = "idle", !.svc = "open"]
  <2>1. th[t] \in ThreadStates /\ th[t].inst \in Insts
    BY Zenon DEF TypeOK, Locals, RetryStart, At, Working
  <2>2. l \in ThreadStates /\ l.pc = "swap" /\ l.inst = th[t].inst /\ l.svc = "open"
        /\ l.op = th[t].op /\ l.own = th[t].own
    BY <2>1 DEF ThreadStates, Pcs, Rets, Pointers
  <2> DEFINE f == [th[t] EXCEPT !.pc = "retry", !.n = @ + 1]
  <2>0. th[t].n + 1 \in Nat
    BY <2>1 DEF ThreadStates
  <2>3. f \in ThreadStates /\ f.pc = "retry" /\ f.op = th[t].op /\ f.inst = th[t].inst
        /\ f.own = th[t].own
    BY <2>1, <2>0, Zenon DEF ThreadStates, Pcs
  <2>4. \/ port = "free" /\ port' = "service" /\ Become(t, l)
        \/ StartFails /\ (Become(t, f) \/ Become(t, Idle))
    BY Zenon DEF RetryStart, NebulaStart
  <2> QED  BY <2>1, <2>2, <2>3, <2>4, IdleType, BecomeMoves
<1>2. TypeOK'
  BY <1>1, Zenon DEF StartFails, RetryStart, At, Moves, Changes, TypeOK
<1>3. Locals'
  BY <1>1 DEF RetryStart, At, Moves, Changes, TypeOK, Locals, Working
<1>4. Closing'
  BY <1>1, Zenon DEF RetryStart, At, Moves, Changes, TypeOK, Closing
<1>5. PortHasOwner'
  BY <1>1 DEF StartFails, RetryStart, At, Moves, Changes, TypeOK, PortHasOwner, OneOwner, Owns, Locals, SvcIsOpen, Working
<1>6. OneOwner'
  BY <1>1 DEF StartFails, RetryStart, At, Moves, Changes, TypeOK, PortHasOwner, OneOwner, Owns, Locals, Working
<1>7. SvcIsOpen'
  BY <1>1 DEF StartFails, RetryStart, At, Moves, Changes, TypeOK, SvcIsOpen, Owns, PortHasOwner, OneOwner, Locals, Working
<1>8. Unregistered'
  BY <1>1, Zenon DEF RetryStart, At, Moves, Changes, TypeOK, Unregistered, Locals, Working
<1>9. Launching'
  BY <1>1 DEF RetryStart, At, Moves, Changes, TypeOK, Launching, Locals, Working
<1>10. RegisteredNotClosed'
  BY <1>1, Zenon DEF RetryStart, At, Moves, Changes, TypeOK, RegisteredNotClosed, Unregistered, Launching, Locals, Working
<1> QED  BY <1>2, <1>3, <1>4, <1>5, <1>6, <1>7, <1>8, <1>9, <1>10 DEF IInv

\* A retry wakes up.
LEMMA RetryWakeStep ==
    ASSUME IInv, NEW t \in Threads, RetryWake(t)
    PROVE  IInv'
<1> USE InstsAssumption DEF IInv
<1>1. /\ th[t].inst \in Insts /\ Moves(t)
      /\ \/ th'[t].pc = "idle" /\ th'[t].op = "none"
         \/ /\ th'[t].pc = "retryStart" /\ th'[t].inst = th[t].inst
            /\ th'[t].op = th[t].op /\ th'[t].own = th[t].own
  BY DoneMoves, GotoMoves, Zenon DEF RetryWake, Pcs, Locals, At, Working
<1>2. TypeOK'
  BY <1>1, Zenon DEF RetryWake, At, Moves, Changes, TypeOK
<1>3. Locals'
  BY <1>1 DEF RetryWake, At, Moves, Changes, TypeOK, Locals, Working
<1>4. Closing'
  BY <1>1, Zenon DEF RetryWake, At, Moves, Changes, TypeOK, Closing
<1>5. PortHasOwner'
  BY <1>1 DEF RetryWake, At, Moves, Changes, TypeOK, PortHasOwner, OneOwner, Owns, Locals, SvcIsOpen, Working
<1>6. OneOwner'
  BY <1>1 DEF RetryWake, At, Moves, Changes, TypeOK, PortHasOwner, OneOwner, Owns, Locals, Working
<1>7. SvcIsOpen'
  BY <1>1 DEF RetryWake, At, Moves, Changes, TypeOK, SvcIsOpen, Owns, PortHasOwner, OneOwner, Locals, Working
<1>8. Unregistered'
  BY <1>1 DEF RetryWake, At, Moves, Changes, TypeOK, Unregistered, Locals, Working
<1>9. Launching'
  BY <1>1 DEF RetryWake, At, Moves, Changes, TypeOK, Launching, Locals, Working
<1>10. RegisteredNotClosed'
  BY <1>1, Zenon DEF RetryWake, At, Moves, Changes, TypeOK, RegisteredNotClosed, Unregistered, Launching, Locals, Working
<1> QED  BY <1>2, <1>3, <1>4, <1>5, <1>6, <1>7, <1>8, <1>9, <1>10 DEF IInv

\* The retry clears inst.svc.
LEMMA RetrySwapStep ==
    ASSUME IInv, NEW t \in Threads, RetrySwap(t)
    PROVE  IInv'
<1> USE InstsAssumption DEF IInv
<1>1. /\ th[t].pc = "swap" /\ UNCHANGED <<started, reg, port>>
      /\ th[t].inst \in Insts /\ Moves(t) /\ th'[t].inst = th[t].inst /\ th'[t].pc = "set"
      /\ th'[t].op = th[t].op /\ th'[t].own = th[t].own /\ th'[t].svc = th[t].svc
      /\ Changes(th[t].inst) /\ insts'[th[t].inst].svc = "none"
      /\ insts'[th[t].inst].run = insts[th[t].inst].run
  <2>1. th[t].inst \in Insts /\ th[t].pc = "swap" /\ UNCHANGED <<started, reg, port>>
    BY Zenon DEF Locals, RetrySwap, At, Working
  <2>2. /\ Changes(th[t].inst) /\ insts'[th[t].inst].svc = "none"
        /\ insts'[th[t].inst].run = insts[th[t].inst].run
    BY <2>1 DEF RetrySwap, TypeOK, InstStates, Pointers, Changes
  <2> QED  BY <2>1, <2>2, GotoMoves, Zenon DEF RetrySwap, Pcs
<1>2. TypeOK'
  BY <1>1, Zenon DEF Moves, Changes, TypeOK
<1>3. Locals'
  BY <1>1 DEF Moves, Changes, TypeOK, Locals, Working
<1>4. Closing'
  BY <1>1, Zenon DEF Moves, Changes, TypeOK, Closing
<1>5. PortHasOwner'
  BY <1>1 DEF Moves, Changes, TypeOK, PortHasOwner, OneOwner, Owns, Locals, SvcIsOpen, Working
<1>6. OneOwner'
  BY <1>1 DEF Moves, Changes, TypeOK, PortHasOwner, OneOwner, Owns, Locals, Working
<1>7. SvcIsOpen'
  BY <1>1 DEF Moves, Changes, TypeOK, SvcIsOpen, Owns, PortHasOwner, OneOwner, Locals, Working
<1>8. Unregistered'
  BY <1>1 DEF Moves, Changes, TypeOK, Unregistered, Locals, Working
<1>9. Launching'
  BY <1>1 DEF Moves, Changes, TypeOK, Launching, Locals, Working
<1>10. RegisteredNotClosed'
  BY <1>1 DEF Moves, Changes, TypeOK, RegisteredNotClosed, Unregistered, Launching, Locals, Working
<1> QED  BY <1>2, <1>3, <1>4, <1>5, <1>6, <1>7, <1>8, <1>9, <1>10 DEF IInv

\* setSvc publishes the service.
LEMMA SetSvcStep ==
    ASSUME IInv, NEW t \in Threads, SetSvc(t)
    PROVE  IInv'
<1> USE InstsAssumption DEF IInv
<1>1. /\ th[t].inst \in Insts /\ Moves(t) /\ th'[t].inst = th[t].inst /\ th'[t].pc = "unwatch"
      /\ th'[t].op = th[t].op /\ th'[t].own = th[t].own /\ th'[t].svc = th[t].svc
      /\ Changes(th[t].inst) /\ insts'[th[t].inst].svc = th[t].svc
      /\ insts'[th[t].inst].run = insts[th[t].inst].run
  <2>1. th[t].inst \in Insts /\ th[t] \in ThreadStates
    BY Zenon DEF Locals, SetSvc, At, Working, TypeOK
  <2>2. /\ Changes(th[t].inst) /\ insts'[th[t].inst].svc = th[t].svc
        /\ insts'[th[t].inst].run = insts[th[t].inst].run
    BY <2>1 DEF SetSvc, TypeOK, InstStates, ThreadStates, Pointers, Changes
  <2> QED  BY <2>1, <2>2, GotoMoves, Zenon DEF SetSvc, Pcs
<1>2. TypeOK'
  BY <1>1, Zenon DEF SetSvc, At, Moves, Changes, TypeOK
<1>3. Locals'
  BY <1>1 DEF SetSvc, At, Moves, Changes, TypeOK, Locals, Working
<1>4. Closing'
  BY <1>1, Zenon DEF SetSvc, At, Moves, Changes, TypeOK, Closing
<1>5. PortHasOwner'
  BY <1>1 DEF SetSvc, At, Moves, Changes, TypeOK, PortHasOwner, OneOwner, Owns, Locals, SvcIsOpen, Working
<1>6. OneOwner'
  BY <1>1 DEF SetSvc, At, Moves, Changes, TypeOK, PortHasOwner, OneOwner, Owns, Locals, Working
<1>7. SvcIsOpen'
  BY <1>1 DEF SetSvc, At, Moves, Changes, TypeOK, SvcIsOpen, Owns, PortHasOwner, OneOwner, Locals, Working
<1>8. Unregistered'
  BY <1>1 DEF SetSvc, At, Moves, Changes, TypeOK, Unregistered, Locals, Working
<1>9. Launching'
  BY <1>1 DEF SetSvc, At, Moves, Changes, TypeOK, Launching, Locals, Working
<1>10. RegisteredNotClosed'
  BY <1>1, Zenon DEF SetSvc, At, Moves, Changes, TypeOK, RegisteredNotClosed, Unregistered, Launching, Locals, Working
<1> QED  BY <1>2, <1>3, <1>4, <1>5, <1>6, <1>7, <1>8, <1>9, <1>10 DEF IInv

\* startWatcher cancels the current watcher.
LEMMA StartWatcherStep ==
    ASSUME IInv, NEW t \in Threads, StartWatcher(t)
    PROVE  IInv'
<1> USE InstsAssumption DEF IInv
<1>1. /\ th[t].inst \in Insts /\ Moves(t) /\ th'[t].inst = th[t].inst /\ th'[t].pc = "watch"
      /\ th'[t].op = th[t].op /\ th'[t].own = th[t].own /\ th'[t].svc = th[t].svc
      /\ Changes(th[t].inst) /\ insts'[th[t].inst].svc = insts[th[t].inst].svc
      /\ insts'[th[t].inst].run = insts[th[t].inst].run
  <2>1. th[t].inst \in Insts /\ th[t] \in ThreadStates
    BY Zenon DEF Locals, StartWatcher, At, Working, TypeOK
  <2>2. /\ Changes(th[t].inst) /\ insts'[th[t].inst].svc = insts[th[t].inst].svc
        /\ insts'[th[t].inst].run = insts[th[t].inst].run
    BY <2>1 DEF StartWatcher, TypeOK, InstStates, ThreadStates, Pointers, Changes
  <2> QED  BY <2>1, <2>2, GotoMoves, Zenon DEF StartWatcher, Pcs
<1>2. TypeOK'
  BY <1>1, Zenon DEF StartWatcher, At, Moves, Changes, TypeOK
<1>3. Locals'
  BY <1>1 DEF StartWatcher, At, Moves, Changes, TypeOK, Locals, Working
<1>4. Closing'
  BY <1>1 DEF StartWatcher, At, Moves, Changes, TypeOK, Closing
<1>5. PortHasOwner'
  BY <1>1 DEF StartWatcher, At, Moves, Changes, TypeOK, PortHasOwner, OneOwner, Owns, Locals, SvcIsOpen, Working
<1>6. OneOwner'
  BY <1>1 DEF StartWatcher, At, Moves, Changes, TypeOK, PortHasOwner, OneOwner, Owns, Locals, Working
<1>7. SvcIsOpen'
  BY <1>1 DEF StartWatcher, At, Moves, Changes, TypeOK, SvcIsOpen, Owns, PortHasOwner, OneOwner, Locals, Working
<1>8. Unregistered'
  BY <1>1 DEF StartWatcher, At, Moves, Changes, TypeOK, Unregistered, Locals, Working
<1>9. Launching'
  BY <1>1 DEF StartWatcher, At, Moves, Changes, TypeOK, Launching, Locals, Working
<1>10. RegisteredNotClosed'
  BY <1>1, Zenon DEF StartWatcher, At, Moves, Changes, TypeOK, RegisteredNotClosed, Unregistered, Launching, Locals, Working
<1> QED  BY <1>2, <1>3, <1>4, <1>5, <1>6, <1>7, <1>8, <1>9, <1>10 DEF IInv

\* startWatcher spawns a watcher.
LEMMA SpawnWatcherStep ==
    ASSUME IInv, NEW t \in Threads, SpawnWatcher(t)
    PROVE  IInv'
<1> USE InstsAssumption DEF IInv
<1>1. /\ th[t].pc = "watch" /\ UNCHANGED <<started, reg, port>>
      /\ th[t].inst \in Insts /\ Moves(t)
      /\ \/ th'[t].pc = "idle" /\ th'[t].op = "none"
         \/ /\ th'[t].pc \in Rets \ {"idle"} /\ th'[t].inst = th[t].inst /\ th'[t].svc = "none"
            /\ th'[t].op = th[t].op /\ th'[t].own = th[t].own
      /\ Changes(th[t].inst) /\ insts'[th[t].inst].svc = insts[th[t].inst].svc
      /\ insts'[th[t].inst].run = insts[th[t].inst].run
  <2> DEFINE l == [th[t] EXCEPT !.pc = th[t].ret, !.svc = "none"]
             w == IF insts[th[t].inst].parent THEN th[t].svc ELSE "none"
             s == insts[th[t].inst].stray \/ insts[th[t].inst].watcher # "none"
             v == [insts[th[t].inst] EXCEPT !.stray = s, !.watcher = w]
  <2>1. /\ th[t].inst \in Insts /\ th[t] \in ThreadStates /\ th[t].pc = "watch"
        /\ UNCHANGED <<started, reg, port>>
    BY Zenon DEF Locals, SpawnWatcher, At, Working, TypeOK
  <2>2. w \in Pointers
    BY <2>1, Zenon DEF ThreadStates, Pointers
  <2>3. s \in BOOLEAN
    BY Zenon
  <2>4. insts' = [insts EXCEPT ![th[t].inst] = v] /\ insts[th[t].inst] \in InstStates
    BY <2>1, Zenon DEF SpawnWatcher, TypeOK
  <2> HIDE DEF w, s
  <2>5. /\ Changes(th[t].inst) /\ insts'[th[t].inst].svc = insts[th[t].inst].svc
        /\ insts'[th[t].inst].run = insts[th[t].inst].run
    <3>1. v \in InstStates
      BY <2>2, <2>3, <2>4, Zenon DEF InstStates
    <3>2. v.svc = insts[th[t].inst].svc /\ v.run = insts[th[t].inst].run
      BY <2>4, Zenon DEF InstStates
    <3> HIDE DEF v
    <3> QED  BY <2>1, <2>4, <3>1, <3>2, AssignChanges, Zenon
  <2>6. l \in ThreadStates /\ l.pc = th[t].ret /\ th[t].ret \in Rets /\ l.inst = th[t].inst
        /\ l.svc = "none" /\ l.op = th[t].op /\ l.own = th[t].own
    BY <2>1, Zenon DEF ThreadStates, Pcs, Rets, Pointers
  <2>7. Done(t) \/ (th[t].ret # "idle" /\ Become(t, l))
    BY Zenon DEF SpawnWatcher
  <2> QED  BY <2>1, <2>5, <2>6, <2>7, DoneMoves, BecomeMoves
<1>2. TypeOK'
  BY <1>1, Zenon DEF Moves, Changes, Rets, TypeOK
<1>3. Locals'
  BY <1>1 DEF Moves, Changes, Rets, TypeOK, Locals, Working
<1>4. Closing'
  BY <1>1, Zenon DEF Moves, Changes, Rets, TypeOK, Closing
<1>5. PortHasOwner'
  BY <1>1 DEF Moves, Changes, Rets, TypeOK, PortHasOwner, OneOwner, Owns, Locals, SvcIsOpen, Working
<1>6. OneOwner'
  BY <1>1 DEF Moves, Changes, Rets, TypeOK, PortHasOwner, OneOwner, Owns, Locals, Working
<1>7. SvcIsOpen'
  BY <1>1 DEF Moves, Changes, Rets, TypeOK, SvcIsOpen, Owns, PortHasOwner, OneOwner, Locals, Working
<1>8. Unregistered'
  BY <1>1 DEF Moves, Changes, Rets, TypeOK, Unregistered, Locals, Working
<1>9. Launching'
  BY <1>1 DEF Moves, Changes, Rets, TypeOK, Launching, Locals, Working
<1>10. RegisteredNotClosed'
  BY <1>1 DEF Moves, Changes, Rets, TypeOK, RegisteredNotClosed, Unregistered, Launching, Locals, Working
<1> QED  BY <1>2, <1>3, <1>4, <1>5, <1>6, <1>7, <1>8, <1>9, <1>10 DEF IInv

\* A taken service is shut down; by OneOwner no instance loses a service of its own.
LEMMA SvcCloseStep ==
    ASSUME IInv, NEW t \in Threads, SvcClose(t)
    PROVE  IInv'
<1> USE InstsAssumption DEF IInv
<1>1. /\ th[t].pc = "close" /\ started' = started /\ reg' = reg
      /\ port' = IF th[t].svc = "open" THEN "free" ELSE port
      /\ th' \in [Threads -> ThreadStates] /\ insts' \in [Insts -> InstStates]
      /\ th'[t].svc = "none"
      /\ \/ th'[t].pc = "idle" /\ th'[t].op = "none"
         \/ /\ th'[t].pc \in {"try", "again"}
            /\ th'[t].op = th[t].op /\ th'[t].own = th[t].own
         \/ /\ th'[t].pc = "restart" /\ th'[t].inst \in Insts
            /\ th'[t].op = th[t].op /\ th'[t].own = th[t].own
      /\ \A u \in Threads : u # t =>
            /\ th'[u].pc = th[u].pc /\ th'[u].inst = th[u].inst /\ th'[u].op = th[u].op
            /\ th'[u].own = th[u].own /\ th'[u].ret = th[u].ret
            /\ th'[u].svc = IF th[t].svc = "open" THEN Stale(th[u].svc) ELSE th[u].svc
      /\ \A i \in Insts :
            /\ insts'[i].run = insts[i].run
            /\ insts'[i].svc = IF th[t].svc = "open" THEN Stale(insts[i].svc) ELSE insts[i].svc
  <2> DEFINE l == [th[t] EXCEPT !.pc = th[t].ret, !.svc = "none",
                                !.inst = IF th[t].ret = "restart" THEN th[t].inst ELSE NoInst]
  <2>1. /\ th[t].pc = "close" /\ started' = started /\ reg' = reg /\ th[t].inst \in Insts
        /\ port' = (IF th[t].svc = "open" THEN "free" ELSE port) /\ th[t] \in ThreadStates
    BY Zenon DEF SvcClose, At, Locals, Working, TypeOK
  <2>2. /\ insts' \in [Insts -> InstStates]
        /\ \A i \in Insts :
             /\ insts'[i].run = insts[i].run
             /\ insts'[i].svc = IF th[t].svc = "open" THEN Stale(insts[i].svc) ELSE insts[i].svc
    <3>1. CASE th[t].svc # "open"
      BY <3>1, Zenon DEF SvcClose, TypeOK
    <3>2. CASE th[t].svc = "open"
      <4>1. insts' = [i \in Insts |-> [insts[i] EXCEPT !.svc = Stale(insts[i].svc),
                                                       !.watcher = Stale(insts[i].watcher)]]
        BY <3>2, Zenon DEF SvcClose
      <4>2. \A p \in Pointers : Stale(p) \in Pointers
        BY Zenon DEF Stale, Pointers
      <4> QED  BY <3>2, <4>1, <4>2 DEF TypeOK, InstStates
    <3> QED  BY <3>1, <3>2, Zenon
  <2>3. th[t].ret \in {"try", "again", "idle", "restart"}
    BY <2>1, Zenon DEF Closing, ThreadStates, Rets
  <2>4. /\ l \in ThreadStates /\ l.svc = "none" /\ l.pc = th[t].ret
        /\ l.op = th[t].op /\ l.own = th[t].own
        /\ th[t].ret = "restart" => l.inst = th[t].inst
    BY <2>1 DEF ThreadStates, Pcs, Rets, Pointers
  <2>5. /\ th'[t] = IF th[t].ret = "idle" THEN Idle ELSE l
        /\ \A u \in Threads : u # t =>
              th'[u] = IF th[t].svc = "open" THEN [th[u] EXCEPT !.svc = Stale(th[u].svc)]
                       ELSE th[u]
        /\ DOMAIN th' = Threads /\ th' = [u \in Threads |-> th'[u]]
    BY Zenon DEF SvcClose
  <2> HIDE DEF l
  <2>6. ASSUME NEW u \in Threads, u # t
        PROVE  /\ th'[u] \in ThreadStates
               /\ th'[u].pc = th[u].pc /\ th'[u].inst = th[u].inst /\ th'[u].op = th[u].op
               /\ th'[u].own = th[u].own /\ th'[u].ret = th[u].ret
               /\ th'[u].svc = IF th[t].svc = "open" THEN Stale(th[u].svc) ELSE th[u].svc
    <3>1. th[u] \in ThreadStates /\ Stale(th[u].svc) \in Pointers
      BY Zenon DEF TypeOK, ThreadStates, Stale, Pointers
    <3> QED  BY <2>5, <2>6, <3>1 DEF ThreadStates
  <2>7. th'[t] \in ThreadStates /\ th'[t].svc = "none"
    BY <2>4, <2>5, IdleType, Zenon
  <2>8. th' \in [Threads -> ThreadStates]
    BY <2>5, <2>6, <2>7, Zenon
  <2>9. \/ th'[t].pc = "idle" /\ th'[t].op = "none"
        \/ /\ th'[t].pc \in {"try", "again"}
           /\ th'[t].op = th[t].op /\ th'[t].own = th[t].own
        \/ /\ th'[t].pc = "restart" /\ th'[t].inst \in Insts
           /\ th'[t].op = th[t].op /\ th'[t].own = th[t].own
    BY <2>1, <2>3, <2>4, <2>5, IdleType, Zenon
  <2> QED  BY <2>1, <2>2, <2>6, <2>7, <2>8, <2>9, Zenon
<1>2. TypeOK'
  BY <1>1, Zenon DEF Moves, Changes, Stale, TypeOK
<1>3. Locals'
  <2>1. ASSUME NEW u \in Threads, u # t, th[u].pc \in {"set", "swap"} PROVE th[t].svc = "none"
    BY <1>1, <2>1, Zenon DEF OneOwner, Owns, Locals
  <2>2. ASSUME NEW u \in Threads, u # t
        PROVE  /\ th'[u].pc \in Working => th'[u].inst \in Insts
               /\ th'[u].pc \in {"set", "swap"} => th'[u].svc = "open"
               /\ th'[u].op = "watchdog" => th'[u].own \in Insts
               /\ th'[u].pc \in {"restarted", "failed"} => th'[u].own \in Insts
    <3>1. th[u].pc \in {"set", "swap"} => th'[u].svc = th[u].svc
      BY <1>1, <2>1, <2>2, Zenon
    <3> QED  BY <1>1, <2>2, <3>1, Zenon DEF Locals
  <2>3. /\ th'[t].pc \in Working => th'[t].inst \in Insts
        /\ th'[t].pc \notin {"set", "swap", "restarted", "failed"}
        /\ th'[t].op = "watchdog" => th'[t].own \in Insts
    BY <1>1, Zenon DEF Locals, Working
  <2> QED  BY <2>2, <2>3, Zenon DEF Locals
<1>4. Closing'
  BY <1>1, Zenon DEF Closing
<1>5. PortHasOwner'
  <2>1. CASE th[t].svc = "open"
    <3>1. Owns(t)
      BY <1>1, <2>1, Zenon DEF Owns
    <3>2. \A i \in Insts : insts'[i].svc = "none"
      BY <1>1, <2>1, <3>1 DEF OneOwner, Stale
    <3>3. \A u \in Threads : u # t => ~Owns(u)
      BY <3>1, Zenon DEF OneOwner
    <3>4. \A u \in Threads : ~Owns(u)'
      BY <1>1, <2>1, <3>3, Zenon DEF Owns, Stale
    <3> QED  BY <1>1, <2>1, <3>2, <3>4, Zenon DEF PortHasOwner
  <2>2. CASE th[t].svc # "open"
    <3>1. ~Owns(t) /\ ~Owns(t)'
      BY <1>1, <2>2, Zenon DEF SvcIsOpen, Owns
    <3>2. \A u \in Threads : Owns(u)' <=> Owns(u)
      BY <1>1, <2>2, <3>1, Zenon DEF Owns
    <3>3. port' = port /\ \A i \in Insts : insts'[i].svc = insts[i].svc
      BY <1>1, <2>2, Zenon DEF TypeOK
    <3> QED  BY <3>2, <3>3, Zenon DEF PortHasOwner
  <2> QED  BY <2>1, <2>2, Zenon
<1>6. OneOwner'
  <2>1. \A i \in Insts : insts'[i].svc # "none" => insts[i].svc # "none"
    BY <1>1, Zenon DEF Stale
  <2>2. \A u \in Threads : Owns(u)' => Owns(u)
    BY <1>1, Zenon DEF Owns, Stale
  <2> QED  BY <2>1, <2>2, Zenon DEF OneOwner
<1>7. SvcIsOpen'
  <2>1. CASE th[t].svc = "open"
    <3>1. Owns(t)
      BY <1>1, <2>1 DEF Owns
    <3>2. \A i \in Insts : insts'[i].svc = "none"
      BY <1>1, <2>1, <3>1 DEF OneOwner, Stale
    <3>3. \A u \in Threads : ~Owns(u)'
      BY <1>1, <2>1, <3>1 DEF OneOwner, Owns, Stale
    <3> QED  BY <3>2, <3>3, Zenon DEF SvcIsOpen
  <2>2. CASE th[t].svc # "open"
    BY <1>1, <2>2 DEF SvcIsOpen, Owns
  <2> QED  BY <2>1, <2>2, Zenon
<1>8. Unregistered'
  BY <1>1 DEF Moves, Changes, Stale, TypeOK, Unregistered, Locals, Working
<1>9. Launching'
  BY <1>1 DEF Moves, Changes, Stale, TypeOK, Launching, Locals, Working
<1>10. RegisteredNotClosed'
  <2>1. reg # NoInst => reg \in Insts
    BY Zenon DEF TypeOK
  <2> QED  BY <1>1, <2>1, Zenon DEF RegisteredNotClosed
<1> QED  BY <1>2, <1>3, <1>4, <1>5, <1>6, <1>7, <1>8, <1>9, <1>10 DEF IInv

-----------------------------------------------------------------------------
\* The initial state: no instance, no goroutine, no port.
LEMMA InitInv == Init => IInv
<1> SUFFICES ASSUME Init PROVE IInv
  BY Zenon
<1>1. /\ th \in [Threads -> ThreadStates] /\ insts \in [Insts -> InstStates]
      /\ \A t \in Threads : th[t].pc = "idle" /\ th[t].op = "none" /\ th[t].svc = "none"
      /\ \A i \in Insts : insts[i].svc = "none"
      /\ started = FALSE /\ port = "free" /\ reg = NoInst
  BY BlankType, IdleType, Zenon DEF Init
<1> QED  BY <1>1, Zenon DEF IInv, TypeOK, Locals, Closing, Working, PortHasOwner, OneOwner, Owns,
                     SvcIsOpen, Unregistered, Launching, RegisteredNotClosed

\* Every step of the agent preserves the invariant.
LEMMA NextInv == IInv /\ [Next]_vars => IInv'
<1>1. ASSUME IInv, NEW t \in Threads, Step(t) PROVE IInv'
  BY <1>1,
     ConnectLookupStep, ConnectCheckStep, ConnectEvictStep, TryAddStep,
     LaunchInstanceStep, StartMeshStep, ListenStep, TryVerifyStep,
     TryFailedStep, TryAgainStep, RestartSucceededStep, RestartFailedStep,
     RemoveStep, CloseCancelStep, CloseTakeStep, SvcCloseStep, ReloadStep,
     ColdStartStep, RestartStep, RetryWakeStep, RetryStartStep, RetrySwapStep,
     SetSvcStep, StartWatcherStep, SpawnWatcherStep, Zenon
     DEF Step
<1>2. ASSUME IInv, NEW t \in Threads, Request(t) PROVE IInv'
  BY <1>2, StartStep, StopStep, ConnectStep, DisconnectStep, ForceRenewStep, Zenon DEF Request
<1>3. ASSUME IInv, NEW t \in Threads, NEW i \in Insts, Trigger(t, i) PROVE IInv'
  BY <1>3, RenewStep, TriggerReloadStep, WatchdogTripStep, Zenon DEF Trigger
<1>4. ASSUME IInv, UNCHANGED vars PROVE IInv'
  BY <1>4 DEF IInv, vars, TypeOK, Locals, Closing, PortHasOwner, OneOwner, Owns, SvcIsOpen,
              Unregistered, Launching, RegisteredNotClosed
<1> QED  BY <1>1, <1>2, <1>3, <1>4, Zenon DEF Next

\* The inductive invariant holds in every reachable state.
THEOREM Invariance == Spec => []IInv
  BY InitInv, NextInv, PTL DEF Spec

-----------------------------------------------------------------------------
\* Type correctness, and the count of failed restarts stays below the escalation
\* threshold of recordRestartFailure.
THEOREM TypeCorrect == Spec => []TypeOK
<1>1. IInv => TypeOK
  BY Zenon DEF IInv
<1> QED  BY <1>1, Invariance, PTL

\* connect, close, reloadNebula and scheduleRetryReload never leak a service: the
\* service holds the UDP port exactly while somebody is responsible for it; the port
\* may be lost to the Nebula of a failed service.New.
THEOREM NoLeakedService == Spec => []PortHasOwner
<1>1. IInv => PortHasOwner
  BY Zenon DEF IInv
<1> QED  BY <1>1, Invariance, PTL

\* No service is owned twice: none is closed twice, and setSvc overwrites none.
THEOREM SingleOwner == Spec => []OneOwner
<1>1. IInv => OneOwner
  BY Zenon DEF IInv
<1> QED  BY <1>1, Invariance, PTL

\* inst.svc, and so inst.control(), never leads to a service that was shut down.
THEOREM ControlIsOpen == Spec => []SvcIsOpen
<1>1. IInv => SvcIsOpen
  BY Zenon DEF IInv
<1> QED  BY <1>1, Invariance, PTL

\* The registry never holds an instance whose close has cancelled it.
THEOREM RegistryNotClosed == Spec => []RegisteredNotClosed
<1>1. IInv => RegisteredNotClosed
  BY Zenon DEF IInv
<1> QED  BY <1>1, Invariance, PTL
=============================================================================
