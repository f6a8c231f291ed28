------------------------------ MODULE Portmap ------------------------------
(***************************************************************************)
(* internal/portmap, and the instance that uses it: the manager asks the   *)
(* router for a public UDP port with NAT-PMP, PCP and UPnP at once, keeps  *)
(* the first mapping it gets alive, and tells Nebula, through the change   *)
(* handler, which address to advertise.  Meanwhile the host moves between  *)
(* routers, the router changes its address, a reload replaces Nebula's     *)
(* Control, and the instance is closed.                                    *)
(***************************************************************************)
EXTENDS Naturals

CONSTANTS
  Offers,       \* Offers[r]: the protocols router r speaks
  Private,      \* the routers whose own address is a private one
  MaxMoves,     \* bound on moves, address changes and sleeps of the host
  MaxFaults,    \* bound on lost answers and timeouts
  MaxReloads    \* bound on reloads of Nebula

Routers == DOMAIN Offers
Protocols == {"natpmp", "pcp", "upnp"}
NoAddr == <<0, 0>>
Addrs == (Routers \X {1, 2}) \cup {NoAddr}

VARIABLES
  host,        \* the router the host is behind, 0 for none
  gwip,        \* gwip[r]: the LAN address of router r
  pub,         \* pub[r]: its external address
  moves, faults,
  m,           \* the Manager
  call, got,   \* per client: where its Map stands, the address it has so far
  h,           \* the change handler: its arguments and the Control it got
  ctl,         \* the instance's Control: generation, up, advertised addresses
  rl,          \* the reload: its step, the address it reinjects
  seen,        \* the network the watcher knows, 9 if no watcher runs
  stop         \* close(): "no", "waiting", "stopped"

net == <<host, gwip, pub, moves>>
vars == <<net, faults, m, call, got, h, ctl, rl, seen, stop>>

Stages == {"idle", "query", "map", "find", "add", "ip", "done", "failed"}

TypeOK ==
  /\ host \in Routers \cup {0} /\ gwip \in [Routers -> Routers] /\ pub \in [Routers -> Addrs]
  /\ moves \in 0..MaxMoves /\ faults \in 0..MaxFaults
  /\ m \in [pc : {"off", "probe", "handle", "inject", "wait", "refresh", "backoff", "exit"},
            gw : Routers \cup {0}, svc : Routers \cup {0}, winner : Protocols \cup {"none"},
            current : Addrs, failures : 0..2, reprobe : BOOLEAN, cancelled : BOOLEAN]
  /\ call \in [Protocols -> Stages] /\ got \in [Protocols -> Addrs]
  /\ h \in [old : Addrs, cur : Addrs, gen : 0..MaxReloads + 1]
  /\ ctl \in [gen : 1..MaxReloads + 1, up : BOOLEAN, adv : SUBSET (Addrs \ {NoAddr})]
  /\ rl \in [pc : {"idle", "down", "up", "inject"}, cur : Addrs]
  /\ seen \in Routers \cup {0, 9} /\ stop \in {"no", "waiting", "stopped"}
  /\ (m.winner = "none") = (m.current = NoAddr)

NoChange == [old |-> NoAddr, cur |-> NoAddr, gen |-> 0]

Init ==
  /\ host \in Routers \cup {0}
  /\ gwip \in {[r \in Routers |-> 1], [r \in Routers |-> r]}
  /\ pub = [r \in Routers |-> <<r, 1>>] /\ moves = 0 /\ faults = 0
  /\ m = [pc |-> "off", gw |-> 0, svc |-> 0, winner |-> "none", current |-> NoAddr,
          failures |-> 0, reprobe |-> FALSE, cancelled |-> FALSE]
  /\ call = [p \in Protocols |-> "idle"] /\ got = [p \in Protocols |-> NoAddr]
  /\ h = NoChange
  /\ ctl = [gen |-> 1, up |-> TRUE, adv |-> {}]
  /\ rl = [pc |-> "idle", cur |-> NoAddr] /\ seen = host /\ stop = "no"

Fault == faults < MaxFaults /\ faults' = faults + 1

----------------------------------------------------------------------------
\* The network around the agent.

\* DiscoverGateway: the default route of the moment, or none.
DiscoverGateway == IF host = 0 THEN 0 ELSE gwip[host]

\* The router that answers at a LAN address; home routers share a few addresses.
Reached(ip) == {r \in Routers \cap {host} : gwip[r] = ip}

\* External: the user carries the host to another router, the router gets another address.
Move ==
  /\ stop = "no" /\ moves < MaxMoves /\ moves' = moves + 1
  /\ \/ host' \in (Routers \cup {0}) \ {host} /\ UNCHANGED pub
     \/ \E r \in Routers : pub[r] = <<r, 1>> /\ pub' = [pub EXCEPT ![r] = <<r, 2>>] /\ UNCHANGED host
  /\ UNCHANGED <<gwip, faults, m, call, got, h, ctl, rl, seen, stop>>

----------------------------------------------------------------------------
\* The clients.  Each Map is a conversation with the router; any answer may be lost,
\* and a cancelled context ends it anywhere.

Clients == IF m.gw = 0 THEN {"upnp"} ELSE Protocols

\* The first request of a Map.  UPnP remembers the service it discovered.
FirstStage(p) ==
  CASE p = "natpmp" -> "query"
    [] p = "pcp" -> "map"
    [] p = "upnp" -> IF m.svc = 0 THEN "find" ELSE "add"

Advance(p, stage) == call' = [call EXCEPT ![p] = stage]
Fails(p) == Advance(p, "failed") /\ got' = [got EXCEPT ![p] = NoAddr]

\* roundTrip: the router, if any, that answers p's request to ip ...
RoundTrip(p, ip) == {r \in Reached(ip) : p \in Offers[r]}

\* ... or the request fails: nobody there speaks p, the answers are lost, or the
\* context is cancelled.
Unanswered(p, ip) ==
  /\ \/ (RoundTrip(p, ip) = {} \/ m.cancelled) /\ UNCHANGED faults
     \/ Fault
  /\ Fails(p) /\ UNCHANGED m

\* NAT-PMP: the external address first.
QueryExternalAddr ==
  /\ call["natpmp"] = "query"
  /\ \/ \E r \in RoundTrip("natpmp", m.gw) :
          /\ Advance("natpmp", "map") /\ got' = [got EXCEPT !["natpmp"] = pub[r]]
          /\ UNCHANGED <<faults, m>>
     \/ Unanswered("natpmp", m.gw)
  /\ UNCHANGED <<net, h, ctl, rl, seen, stop>>

\* NAT-PMP: then the port; the address is the one of the first answer.
RequestMap ==
  /\ call["natpmp"] = "map"
  /\ \/ /\ RoundTrip("natpmp", m.gw) # {}
        /\ Advance("natpmp", "done") /\ UNCHANGED <<faults, m, got>>
     \/ Unanswered("natpmp", m.gw)
  /\ UNCHANGED <<net, h, ctl, rl, seen, stop>>

\* PCP: one request, its answer carries both.
PCPMap ==
  /\ call["pcp"] = "map"
  /\ \/ \E r \in RoundTrip("pcp", m.gw) :
          /\ Advance("pcp", "done") /\ got' = [got EXCEPT !["pcp"] = pub[r]]
          /\ UNCHANGED <<faults, m>>
     \/ Unanswered("pcp", m.gw)
  /\ UNCHANGED <<net, h, ctl, rl, seen, stop>>

\* fetchService: the control URL of the router that answered; it is kept for good.
FetchService(r) == m' = [m EXCEPT !.svc = gwip[r]]

\* UPnP: discovery by multicast asks whatever router is there.
ResolveService ==
  /\ call["upnp"] = "find"
  /\ \/ \E r \in RoundTrip("upnp", DiscoverGateway) :
          Advance("upnp", "add") /\ FetchService(r) /\ UNCHANGED <<faults, got>>
     \/ Unanswered("upnp", DiscoverGateway)
  /\ UNCHANGED <<net, h, ctl, rl, seen, stop>>

\* soapCall: a request to the control URL that was found once.
SoapCall == RoundTrip("upnp", m.svc)

AddMapping ==
  /\ call["upnp"] = "add"
  /\ \/ SoapCall # {} /\ Advance("upnp", "ip") /\ UNCHANGED <<faults, m, got>>
     \/ Unanswered("upnp", m.svc)
  /\ UNCHANGED <<net, h, ctl, rl, seen, stop>>

\* UPnP: a private external address is refused, after the mapping was added.
GetExternalIP ==
  /\ call["upnp"] = "ip"
  /\ \/ \E r \in SoapCall :
          /\ Advance("upnp", IF r \in Private THEN "failed" ELSE "done")
          /\ got' = [got EXCEPT !["upnp"] = IF r \in Private THEN NoAddr ELSE pub[r]]
          /\ UNCHANGED <<faults, m>>
     \/ Unanswered("upnp", m.svc)
  /\ UNCHANGED <<net, h, ctl, rl, seen, stop>>

----------------------------------------------------------------------------
\* The manager.

\* The calls that pc starts: all clients' for a probe, the winner's for a refresh.
Ask(ps) == call' = [p \in Protocols |-> IF p \in ps THEN FirstStage(p) ELSE "idle"]
Quiet == call' = [p \in Protocols |-> "idle"] /\ got' = [p \in Protocols |-> NoAddr]

\* Start: the gateway is looked up here and never again.
Start ==
  /\ m.pc = "off" /\ stop = "no"
  /\ m' = [m EXCEPT !.pc = "probe", !.gw = DiscoverGateway]
  /\ call' = [p \in Protocols |-> IF DiscoverGateway = 0 /\ p # "upnp" THEN "idle" ELSE FirstStage(p)]
  /\ UNCHANGED <<net, faults, got, h, ctl, rl, seen, stop>>

Settled(p) == call[p] \in {"idle", "failed"}

\* probe: the first answer wins, the other clients' answers are dropped.
\* onProbeSuccess: the manager's state is set, then the handler is called.
OnProbeSuccess ==
  /\ m.pc = "probe"
  /\ \E p \in Protocols :
       /\ call[p] = "done"
       /\ m' = [m EXCEPT !.pc = "handle", !.winner = p, !.current = got[p], !.failures = 0]
       /\ h' = [h EXCEPT !.old = m.current, !.cur = got[p]]
  /\ Quiet
  /\ UNCHANGED <<net, faults, ctl, rl, seen, stop>>

\* probe: nothing before probeTimeout.  A pause, not the end.
Backoff == [m EXCEPT !.pc = "backoff"]
ProbeTimeout ==
  /\ m.pc = "probe"
  /\ \/ (\A p \in Protocols : Settled(p)) /\ UNCHANGED faults
     \/ m.cancelled /\ UNCHANGED faults
     \/ Fault
  /\ m' = Backoff /\ Quiet
  /\ UNCHANGED <<net, h, ctl, rl, seen, stop>>

\* clearWinner: the handler is not told.
Cleared(mm) == [mm EXCEPT !.pc = "probe", !.winner = "none", !.current = NoAddr, !.failures = 0]

\* sleepOrReprobe.
SleepOrReprobe ==
  /\ m.pc = "backoff"
  /\ \/ m.cancelled /\ m' = [m EXCEPT !.pc = "exit"] /\ UNCHANGED call
     \/ m' = [m EXCEPT !.pc = "probe", !.reprobe = FALSE] /\ m.reprobe /\ Ask(Clients)
     \/ m' = [m EXCEPT !.pc = "probe"] /\ ~m.cancelled /\ Ask(Clients)
  /\ UNCHANGED <<net, faults, got, h, ctl, rl, seen, stop>>

\* refreshLoop, the wait: cancelled, asked to probe again, or half the lease has passed.
RefreshWait ==
  /\ m.pc = "wait"
  /\ \/ m.cancelled /\ m' = [m EXCEPT !.pc = "exit"] /\ UNCHANGED call
     \/ m.reprobe /\ m' = [Cleared(m) EXCEPT !.reprobe = FALSE] /\ Ask(Clients)
     \/ ~m.cancelled /\ m' = [m EXCEPT !.pc = "refresh"] /\ Ask({m.winner})
  /\ UNCHANGED <<net, faults, got, h, ctl, rl, seen, stop>>

\* refreshLoop, a failed refresh: the mapping is held, up to the third in a row.
HeldForever(mm) == [mm EXCEPT !.pc = "wait"]
RefreshFailed(mm) ==
  IF mm.failures = 2 THEN Cleared(mm) ELSE [mm EXCEPT !.pc = "wait", !.failures = @ + 1]

\* refreshLoop, the answer: the handler hears of a changed address only.
Refresh ==
  /\ m.pc = "refresh"
  /\ \/ /\ call[m.winner] = "done" /\ UNCHANGED faults
        /\ m' = [m EXCEPT !.current = got[m.winner], !.failures = 0,
                          !.pc = IF got[m.winner] = m.current THEN "wait" ELSE "handle"]
        /\ h' = IF got[m.winner] = m.current THEN h
                ELSE [h EXCEPT !.old = m.current, !.cur = got[m.winner]]
        /\ Quiet
     \/ /\ \/ call[m.winner] = "failed" /\ UNCHANGED faults
           \/ call[m.winner] # "done" /\ Fault
        /\ m' = RefreshFailed(m) /\ UNCHANGED h
        /\ IF m'.pc = "probe" THEN Ask(Clients) ELSE call' = [p \in Protocols |-> "idle"]
        /\ got' = [p \in Protocols |-> NoAddr]
  /\ UNCHANGED <<net, ctl, rl, seen, stop>>

\* ReProbe: a signal that waits for the loop to look.
ReProbe == m' = [m EXCEPT !.reprobe = m.pc # "off"]

----------------------------------------------------------------------------
\* The instance.

\* startPortmap's OnChange: the handler takes the Control of the moment ...
HandlerControl ==
  /\ m.pc = "handle"
  /\ m' = [m EXCEPT !.pc = IF ctl.up THEN "inject" ELSE "wait"]
  /\ h' = IF ctl.up THEN [h EXCEPT !.gen = ctl.gen] ELSE NoChange
  /\ UNCHANGED <<net, faults, call, got, ctl, rl, seen, stop>>

\* ... and changes what that one advertises, which a reload may have replaced.
HandlerInject ==
  /\ m.pc = "inject" /\ m' = [m EXCEPT !.pc = "wait"]
  /\ ctl' = IF ctl.gen = h.gen THEN [ctl EXCEPT !.adv = (@ \ {h.old}) \cup {h.cur}] ELSE ctl
  /\ h' = NoChange
  /\ UNCHANGED <<net, faults, call, got, rl, seen, stop>>

\* watchNetworkChanges: a tick that finds another network, or a gap after a sleep.
WatcherTick ==
  /\ seen # 9
  /\ \/ host # seen /\ UNCHANGED moves
     \/ moves < MaxMoves /\ moves' = moves + 1
  /\ ReProbe /\ seen' = host
  /\ UNCHANGED <<host, gwip, pub, faults, call, got, h, ctl, rl, stop>>

\* reloadNebula: the watcher and the old Control go ...
ReloadStop ==
  /\ rl.pc = "idle" /\ ctl.up /\ ctl.gen <= MaxReloads /\ stop = "no"
  /\ rl' = [rl EXCEPT !.pc = "down"] /\ ctl' = [ctl EXCEPT !.up = FALSE] /\ seen' = 9
  /\ UNCHANGED <<net, faults, m, call, got, h, stop>>

\* ... a new Control comes, with nothing to advertise, and a watcher that takes the
\* network it finds for the one it knows ...
ReloadStart ==
  /\ rl.pc = "down" /\ stop = "no"
  /\ ctl' = [gen |-> ctl.gen + 1, up |-> TRUE, adv |-> {}]
  /\ rl' = [rl EXCEPT !.pc = "up"] /\ seen' = host
  /\ UNCHANGED <<net, faults, m, call, got, h, stop>>

\* ... and the mapping of the moment is injected again.
NotReinjected == [rl EXCEPT !.pc = "idle"]
Reinjected == [pc |-> IF m.current = NoAddr THEN "idle" ELSE "inject", cur |-> m.current]
ReinjectPortmapAddr ==
  /\ rl.pc = "up"
  /\ rl' = Reinjected
  /\ UNCHANGED <<net, faults, m, call, got, h, ctl, seen, stop>>
Reinject ==
  /\ rl.pc = "inject"
  /\ ctl' = [ctl EXCEPT !.adv = @ \cup {rl.cur}] /\ rl' = [pc |-> "idle", cur |-> NoAddr]
  /\ UNCHANGED <<net, faults, m, call, got, h, seen, stop>>

\* stopPortmap and Stop: cancel, wait for the loop to end, unmap with one request whose
\* outcome is ignored.
StopPortmap ==
  /\ stop = "no" /\ m.pc # "off"
  /\ stop' = "waiting" /\ seen' = 9 /\ m' = [m EXCEPT !.cancelled = TRUE]
  /\ UNCHANGED <<net, faults, call, got, h, ctl, rl>>
Done == m.pc = "exit"
StopReturns ==
  /\ stop = "waiting" /\ Done
  /\ stop' = "stopped" /\ ctl' = [ctl EXCEPT !.up = FALSE]
  /\ UNCHANGED <<net, faults, m, call, got, h, rl, seen>>

Mapping == \/ QueryExternalAddr \/ RequestMap \/ PCPMap
           \/ ResolveService \/ AddMapping \/ GetExternalIP
Loop == \/ OnProbeSuccess \/ ProbeTimeout \/ SleepOrReprobe \/ RefreshWait \/ Refresh
        \/ HandlerControl \/ HandlerInject
Next == \/ Mapping \/ Loop \/ Move \/ Start \/ WatcherTick
        \/ ReloadStop \/ ReloadStart \/ ReinjectPortmapAddr \/ Reinject
        \/ StopPortmap \/ StopReturns

\* Answers come or time out, the loop's timers fire and its goroutine runs.  Nothing
\* makes the user move, a reload happen or the instance close.
Spec == Init /\ [][Next]_vars /\ WF_vars(Mapping) /\ WF_vars(Loop) /\ WF_vars(Start)

----------------------------------------------------------------------------
\* When the loop waits and no reload is under way, what Nebula advertises includes the
\* mapping that Current() reports: a Control that came up while the handler was
\* running has it from the handler or from reinjectPortmapAddr.
CurrentAdvertised ==
  m.pc \in {"wait", "refresh"} /\ rl.pc = "idle" /\ ctl.up /\ stop = "no"
    => m.current \in ctl.adv

\* A mapping of a router the host has left is given up, if the host stays away: because
\* the watcher asks for a new probe or, when a reload made it miss the move, because
\* three refreshes fail.
MappingFollowsHost ==
  \A r \in Routers :
    (m.current[1] = r /\ host # r)
      ~> (m.current[1] # r \/ host = r \/ stop # "no")

=============================================================================
