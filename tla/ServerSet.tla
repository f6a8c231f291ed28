------------------------------ MODULE ServerSet ------------------------------
(***************************************************************************)
(* The HTTP servers of the agent's API: internal/client/serverset.go and   *)
(* its callers connect, disconnect, Stop and reloadNebula, for one         *)
(* enrollment in kernel TUN mode, where a listener outlives the Nebula     *)
(* service it was made for.  No lock spans a call, so a reload that moves  *)
(* the server to a new listener meets whoever takes the server out of the  *)
(* set.  AgentLifecycle has the instances; here they are what the callers  *)
(* of the set ask of them.                                                 *)
(***************************************************************************)
EXTENDS Naturals

CONSTANTS
  Threads,      \* calls in progress at once
  MaxInsts,     \* bound on instances
  MaxServers    \* bound on servers

Insts == 1..MaxInsts
Servers == 1..MaxServers

VARIABLES
  inst,      \* the instances: "unused", "down" (no service), "up" or "closed"
  reg,       \* the registered instance, 0 for none
  servers,   \* s.servers[name]: an entry, named by its first server; 0 for none
  srv,       \* srv[e]: the server of entry e, 0 for nil
  bare,      \* s.bare, 0 for none
  listener,  \* listener[s]: bound to the "mesh" address or to "any", or "closed"
  made,      \* servers made so far
  th,        \* the calls
  agent,     \* the process runs or has panicked
  crossed    \* ghost: an entry left the set during a rebind of it, or was replaced

objects == <<inst, reg>>
set == <<servers, srv, bare>>
sockets == <<listener, made>>
ghosts == <<agent, crossed>>
vars == <<inst, reg, servers, srv, bare, listener, made, th, agent, crossed>>

\* A call: its instance i, entry e, server s, bare server b, the kind k of its listener,
\* and where it goes on after a shutdown or a failure.
Idle == [pc |-> "idle", op |-> "none", i |-> 0, e |-> 0, s |-> 0, b |-> 0, k |-> "mesh",
         next |-> "idle"]

Rebinding == {"old", "relisten", "swap"}

TypeOK ==
  /\ inst \in [Insts -> {"unused", "down", "up", "closed"}] /\ reg \in Insts \cup {0}
  /\ servers \in Servers \cup {0} /\ srv \in [Servers -> Servers \cup {0}]
  /\ bare \in Servers \cup {0}
  /\ listener \in [Servers -> {"mesh", "any", "closed"}] /\ made \in 0..MaxServers
  /\ th \in [Threads ->
       [pc : {"idle", "remove", "drop", "take", "bare", "closeall", "add", "mesh", "listen",
              "undo", "publish", "check", "start", "lookup"} \cup Rebinding,
        op : {"none", "connect", "reload", "disconnect", "stop"}, i : Insts \cup {0},
        e : Servers \cup {0}, s : Servers \cup {0}, b : Servers \cup {0},
        k : {"mesh", "any"}, next : {"idle", "add", "bare"}]]
  /\ agent \in {"runs", "dead"} /\ crossed \in BOOLEAN

\* RegisterDebugListener: an agent without enrollments serves on every address.
Init ==
  /\ inst = [i \in Insts |-> "unused"] /\ reg = 0
  /\ servers = 0 /\ srv = [e \in Servers |-> 0]
  /\ bare \in {0, 1} /\ made = bare
  /\ listener = [s \in Servers |-> IF s = bare THEN "any" ELSE "closed"]
  /\ th = [t \in Threads |-> Idle]
  /\ agent = "runs" /\ crossed = FALSE

At(t, pc) == agent = "runs" /\ th[t].pc = pc
Become(t, call) == th' = [th EXCEPT ![t] = call]
Goto(t, pc) == Become(t, [th[t] EXCEPT !.pc = pc])
Return(t) == Become(t, Idle)
Begin(t, op, pc, next) ==
  At(t, "idle") /\ Become(t, [Idle EXCEPT !.op = op, !.pc = pc, !.next = next])

\* The call goes on after a shutdown or an attempt, or returns.
Onward(t) == IF th[t].next = "idle" THEN Idle
             ELSE [Idle EXCEPT !.op = th[t].op, !.pc = th[t].next, !.b = th[t].b]

\* The instance with the UDP port; a closed or reloading one has given it up.
PortFree(i) == \A j \in Insts : inst[j] = "up" => j = i

Close(i) == inst' = IF i = 0 THEN inst ELSE [inst EXCEPT ![i] = "closed"]

\* Shutdown of a server that may be nil: its listener closes.  A Serve that comes later
\* closes it as well.
Shutdown(s) == listener' = [r \in Servers |-> IF r = s THEN "closed" ELSE listener[r]]

----------------------------------------------------------------------------
\* shutdownInstance, and shutdownAll, which does the same for every entry.

\* Ghost: somebody is rebinding the entry that goes.
Crossing(e) == e # 0 /\ \E u \in Threads : th[u].pc \in Rebinding /\ th[u].e = e

Drop(t) ==
  /\ At(t, "drop")
  /\ servers' = 0 /\ crossed' = (crossed \/ Crossing(servers))
  /\ Become(t, IF servers = 0 THEN Onward(t) ELSE [th[t] EXCEPT !.pc = "take", !.e = servers])
  /\ UNCHANGED <<objects, srv, bare, sockets, agent>>

\* As Take, with a server that is forgotten and not shut down.
TakeForgets(t) ==
  /\ At(t, "take")
  /\ srv' = [srv EXCEPT ![th[t].e] = 0] /\ Become(t, Onward(t))
  /\ UNCHANGED <<objects, servers, bare, sockets, ghosts>>

\* The entry's server is taken and shut down.
Take(t) ==
  /\ At(t, "take")
  /\ srv' = [srv EXCEPT ![th[t].e] = 0] /\ Shutdown(srv[th[t].e])
  /\ Become(t, Onward(t))
  /\ UNCHANGED <<objects, servers, bare, made, ghosts>>

\* Stop and shutdownAll: the map and the bare server go at once, then each is shut down,
\* the bare one last; closeAll follows.
Stop(t) ==
  /\ At(t, "idle")
  /\ servers' = 0 /\ crossed' = (crossed \/ Crossing(servers)) /\ bare' = 0
  /\ Become(t, [Idle EXCEPT !.op = "stop", !.pc = IF servers = 0 THEN "bare" ELSE "take",
                            !.e = servers, !.b = bare, !.next = "bare"])
  /\ UNCHANGED <<objects, srv, sockets, agent>>

ShutBare(t) ==
  /\ At(t, "bare")
  /\ Shutdown(th[t].b) /\ Goto(t, "closeall")
  /\ UNCHANGED <<objects, set, made, ghosts>>

CloseAll(t) ==
  /\ At(t, "closeall")
  /\ reg' = 0 /\ Close(reg) /\ Return(t)
  /\ UNCHANGED <<set, sockets, ghosts>>

Disconnect(t) ==
  /\ reg # 0 /\ Begin(t, "disconnect", "drop", "idle")
  /\ reg' = 0 /\ Close(reg)
  /\ UNCHANGED <<set, sockets, ghosts>>

----------------------------------------------------------------------------
\* startMeshListener and startOSListener.

\* External: an address takes one listener; whether a listener on all addresses
\* excludes one on the mesh address depends on the operating system.
CanBind(k) == \A s \in Servers : listener[s] # k

\* svc.Listen or net.Listen.
Bind(t, k, pc) ==
  /\ CanBind(k) /\ made < MaxServers /\ made' = made + 1
  /\ listener' = [listener EXCEPT ![made'] = k]
  /\ Become(t, [th[t] EXCEPT !.pc = pc, !.s = made'])

\* connect makes another attempt, or has made four.
Retry == {"add", "idle"}

\* What a failure means: connect gives up the mesh listener's instance, the fallback
\* on the OS stack is optional, and onRestart logs.
Listen(t) ==
  /\ At(t, "listen")
  /\ \/ Bind(t, th[t].k, "publish")
     \/ /\ UNCHANGED sockets
        /\ IF th[t].op = "reload" THEN Return(t)
           ELSE IF th[t].k = "mesh"
           THEN \E n \in Retry : Become(t, [th[t] EXCEPT !.pc = "undo", !.next = n])
           ELSE Goto(t, "check")
  /\ UNCHANGED <<objects, set, agent, crossed>>

Publish(t) ==
  /\ At(t, "publish")
  /\ servers' = th[t].s /\ srv' = [srv EXCEPT ![th[t].s] = th[t].s]
  /\ crossed' = (crossed \/ servers # 0)
  /\ IF th[t].op = "reload" THEN Return(t) ELSE Goto(t, "check")
  /\ UNCHANGED <<objects, bare, sockets, agent>>

----------------------------------------------------------------------------
\* connect.

\* Nothing to do when the registered instance is up.
Connect(t) ==
  /\ (reg # 0 => inst[reg] # "up") /\ Begin(t, "connect", "remove", "add")
  /\ UNCHANGED <<objects, set, sockets, ghosts>>

\* A stale instance and its server go first.
Remove(t) ==
  /\ At(t, "remove")
  /\ reg' = 0 /\ Close(reg)
  /\ Goto(t, IF reg = 0 THEN "add" ELSE "drop")
  /\ UNCHANGED <<set, sockets, ghosts>>

Add(t) ==
  /\ At(t, "add")
  /\ \E i \in Insts :
       /\ inst[i] = "unused" /\ \A j \in 1..(i - 1) : inst[j] # "unused"
       /\ inst' = [inst EXCEPT ![i] = "down"] /\ reg' = i
       /\ Become(t, [th[t] EXCEPT !.pc = "mesh", !.i = i])
  /\ UNCHANGED <<set, sockets, ghosts>>

\* startInstance: Nebula starts, or the OS stack serves; without a token, an error.
StartInstance(t) ==
  /\ At(t, "mesh")
  /\ \/ /\ PortFree(th[t].i) /\ inst' = [inst EXCEPT ![th[t].i] = "up"]
        /\ Become(t, [th[t] EXCEPT !.pc = "listen", !.k = "mesh"])
     \/ Become(t, [th[t] EXCEPT !.pc = "listen", !.k = "any"]) /\ UNCHANGED inst
     \/ Become(t, [th[t] EXCEPT !.pc = "undo", !.next = "idle"]) /\ UNCHANGED inst
  /\ UNCHANGED <<reg, set, sockets, ghosts>>

\* An error: the instance goes, whatever server the name has stays.  The next attempt
\* follows, or the call returns.
Undo(t) ==
  /\ At(t, "undo")
  /\ reg' = 0 /\ Close(th[t].i)
  /\ Become(t, Onward(t))
  /\ UNCHANGED <<set, sockets, ghosts>>

\* The instance must have a control, or it goes together with the server.
Check(t) ==
  /\ At(t, "check")
  /\ IF inst[th[t].i] = "up"
     THEN Return(t) /\ UNCHANGED objects
     ELSE /\ reg' = 0 /\ Close(th[t].i)
          /\ \E n \in Retry :
               Become(t, [Idle EXCEPT !.op = "connect", !.pc = "drop", !.next = n])
  /\ UNCHANGED <<set, sockets, ghosts>>

----------------------------------------------------------------------------
\* reloadNebula and rebindMesh.

\* A renewal (the loop's or a forced one) or a retry, also of an instance that was closed
\* meanwhile; the old service is closed first.
Reload(t, i) ==
  /\ inst[i] # "unused" /\ At(t, "idle")
  /\ inst' = [inst EXCEPT ![i] = IF @ = "up" THEN "down" ELSE @]
  /\ Become(t, [Idle EXCEPT !.op = "reload", !.pc = "start", !.i = i])
  /\ UNCHANGED <<reg, set, sockets, ghosts>>

StartNew(t) ==
  /\ At(t, "start")
  /\ \/ PortFree(th[t].i) /\ inst' = [inst EXCEPT ![th[t].i] = "up"] /\ Goto(t, "lookup")
     \/ Return(t) /\ UNCHANGED inst
  /\ UNCHANGED <<reg, set, sockets, ghosts>>

Lookup(t) ==
  /\ At(t, "lookup")
  /\ Become(t, [th[t] EXCEPT !.pc = IF servers = 0 THEN "listen" ELSE "old", !.e = servers])
  /\ UNCHANGED <<objects, set, sockets, ghosts>>

\* oldSrv.Shutdown; oldSrv is nil when the entry was taken meanwhile, and the call panics.
ShutOld(t) ==
  /\ At(t, "old")
  /\ agent' = IF srv[th[t].e] = 0 THEN "dead" ELSE agent
  /\ Shutdown(srv[th[t].e]) /\ Goto(t, "relisten")
  /\ UNCHANGED <<objects, set, made, crossed>>

Relisten(t) ==
  /\ At(t, "relisten")
  /\ Bind(t, "mesh", "swap") \/ (Return(t) /\ UNCHANGED sockets)
  /\ UNCHANGED <<objects, set, agent, crossed>>

\* The new server goes into the entry, in the set or not.
Swap(t) ==
  /\ At(t, "swap")
  /\ srv' = [srv EXCEPT ![th[t].e] = th[t].s] /\ Return(t)
  /\ UNCHANGED <<objects, servers, bare, sockets, ghosts>>

----------------------------------------------------------------------------
Next ==
  \E t \in Threads :
    \/ Drop(t) \/ Take(t) \/ ShutBare(t) \/ CloseAll(t)
    \/ Stop(t) \/ Disconnect(t) \/ Connect(t)
    \/ Remove(t) \/ Add(t) \/ StartInstance(t) \/ Undo(t) \/ Check(t)
    \/ Listen(t) \/ Publish(t)
    \/ \E i \in Insts : Reload(t, i)
    \/ StartNew(t) \/ Lookup(t) \/ ShutOld(t) \/ Relisten(t) \/ Swap(t)

Spec == Init /\ [][Next]_vars

----------------------------------------------------------------------------
\* Somebody can still shut server s down.
Owned(s) ==
  \/ s = bare \/ (servers # 0 /\ s = srv[servers])
  \/ \E t \in Threads :
       \/ th[t].pc \in {"publish", "swap"} /\ s = th[t].s
       \/ th[t].pc = "take" /\ s = srv[th[t].e]
       \/ th[t].op = "stop" /\ s = th[t].b

\* A server whose listener is open can be found by the next shutdownInstance or shutdownAll,
\* or is in the hands of a call that publishes it or shuts it down: whatever disconnects,
\* failed connects, stops and reloads interleave, none is lost.  The code leaves two gaps:
\* an entry that is taken out of the set while rebindMesh works on it, and one that
\* startMeshListener or startOSListener replaces unseen (crossed).
NoLostServer ==
  agent = "runs" /\ ~crossed => \A s \in Servers : listener[s] # "closed" => Owned(s)

=============================================================================
