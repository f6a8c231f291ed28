------------------------- MODULE LighthouseManager -------------------------
(***************************************************************************)
(* The control plane's registry of Nebula lighthouses                      *)
(* (internal/mesh/network_manager.go) together with the HTTP handlers that *)
(* create and delete networks (internal/api/networks.go) and the callers   *)
(* that refresh a network's DNS records.                                   *)
(*                                                                         *)
(* Every handler runs in its own goroutine; nm.mu is held only around the  *)
(* accesses to the instances map, so each locked region and each call into *)
(* the database or into Nebula is one step.  A network's lighthouse is     *)
(* identified with the UDP port it binds: nebula.Main fails when the port  *)
(* is taken (nebulacfg.Routines = 1, hence no port sharing).               *)
(***************************************************************************)
EXTENDS Naturals, FiniteSets

CONSTANTS
    Networks,    \* network ids (UUIDs: never used twice)
    Handlers,    \* goroutines serving API requests
    Reaper,      \* the idle reaper's goroutine
    BasePort,    \* first lighthouse port (42001 in the code)
    MaxPort      \* last lighthouse port (65535 in the code)

ASSUME PortsAssumption ==
    BasePort \in Nat \ {0} /\ MaxPort \in Nat /\ BasePort <= MaxPort
ASSUME ReaperAssumption == Reaper \notin Handlers
ASSUME NetworksAssumption == "none" \notin Networks /\ "leaked" \notin Networks

Threads == Handlers \cup {Reaper}
Ports == BasePort .. MaxPort
NoPort == 0
NoNet == "none"
Leaked == "leaked"

VARIABLES
    up,          \* the server process is running
    rows,        \* networks with a row in the networks table
    port,        \* the lighthouse port a network was created with
    nodes,       \* networks with rows in the nodes table
    instances,   \* nm.instances: absent, "starting" (nil sentinel), "running"
    udp,         \* the network whose lighthouse binds a UDP port; Leaked when the
                 \* Nebula that binds it is referred to by nothing any more
    dns,         \* the networks whose lighthouse has a DNS server
    th           \* per goroutine: handler, program counter, locals

vars == <<up, rows, port, nodes, instances, udp, dns, th>>

Idle == [op |-> "none", pc |-> "idle", net |-> NoNet, arg |-> NoPort]

Local(op, pc, n, a) == [op |-> op, pc |-> pc, net |-> n, arg |-> a]

At(t, pc) == up /\ th[t].pc = pc

Become(t, local) == th' = [th EXCEPT ![t] = local]

Goto(t, pc) == Become(t, [th[t] EXCEPT !.pc = pc])

Done(t) == Become(t, Idle)

\* FirstAvailableLighthousePort: the smallest successor of a port in use that
\* is not in use itself, or the base port when no network has one.
FirstAvailableLighthousePort(used) ==
    LET gaps == {p + 1 : p \in used} \ used
    IN  IF gaps = {} THEN BasePort
        ELSE CHOOSE p \in gaps : \A q \in gaps : p <= q

UsedPorts == {port[n] : n \in rows}

Init ==
    /\ up = TRUE
    /\ rows = {}
    /\ port = [n \in Networks |-> NoPort]
    /\ nodes = {}
    /\ instances = [n \in Networks |-> "absent"]
    /\ udp = [p \in Ports |-> NoNet]
    /\ dns = {}
    /\ th = [t \in Threads |-> Idle]

-----------------------------------------------------------------------------
\* CreateNetwork: allocate a port, insert the row, start the lighthouse.

\* AllocatePort reads the table before anything is inserted: two creators can
\* read the same port.  The id is a fresh UUID.
CreateAllocate(t, n) ==
    LET p == FirstAvailableLighthousePort(UsedPorts)
    IN  /\ t \in Handlers /\ At(t, "idle")
        /\ port[n] = NoPort
        /\ \A u \in Threads : th[u].net # n
        /\ p \in Ports
        /\ Become(t, Local("create", "insertRow", n, p))
        /\ UNCHANGED <<up, rows, port, nodes, instances, udp, dns>>

\* Networks.Create: the UNIQUE constraint on lighthouse_port turns the loser of
\* a race into a 409.
CreateRow(t) ==
    /\ At(t, "insertRow")
    /\ IF th[t].arg \in UsedPorts
       THEN Done(t) /\ UNCHANGED <<rows, port>>
       ELSE /\ rows' = rows \cup {th[t].net}
            /\ port' = [port EXCEPT ![th[t].net] = th[t].arg]
            /\ Goto(t, "plant")
    /\ UNCHANGED <<up, nodes, instances, udp, dns>>

\* StartNetwork: refuse when an entry exists, else plant the nil sentinel.
StartNetwork(t) ==
    LET n == th[t].net
    IN  /\ At(t, "plant")
        /\ IF instances[n] # "absent"
           THEN Done(t) /\ UNCHANGED instances
           ELSE /\ instances' = [instances EXCEPT ![n] = "starting"]
                /\ Goto(t, "bind")
        /\ UNCHANGED <<up, rows, port, nodes, udp, dns>>

\* GetInstance when no instance is registered: under the write lock it reads the
\* row and plants the sentinel.  (A registered instance is returned and a
\* sentinel is an error, both without a change of state.)
GetInstance(t, n) ==
    /\ t \in Handlers /\ At(t, "idle")
    /\ instances[n] = "absent"
    /\ n \in rows
    /\ instances' = [instances EXCEPT ![n] = "starting"]
    /\ Become(t, Local("get", "bind", n, NoPort))
    /\ UNCHANGED <<up, rows, port, nodes, udp, dns>>

-----------------------------------------------------------------------------
\* startInstance, run by StartNetwork and GetInstance without nm.mu.

\* nebula.Main binds the lighthouse's UDP port ...
NebulaMain(t) ==
    /\ At(t, "bind")
    /\ udp[port[th[t].net]] = NoNet
    /\ udp' = [udp EXCEPT ![port[th[t].net]] = th[t].net]
    /\ Goto(t, "insert")
    /\ UNCHANGED <<up, rows, port, nodes, instances, dns>>

\* ... or fails, because the port is taken or for a reason of its own.
NebulaMainFails(t) ==
    /\ At(t, "bind")
    /\ Goto(t, "unplant")
    /\ UNCHANGED <<up, rows, port, nodes, instances, udp, dns>>

\* service.New fails: startInstance returns without stopping the Nebula that
\* nebula.Main made, so that its port stays bound until the process ends.
ServiceNewFails(t) ==
    /\ At(t, "insert")
    /\ udp' = [udp EXCEPT ![port[th[t].net]] = Leaked]
    /\ Goto(t, "unplant")
    /\ UNCHANGED <<up, rows, port, nodes, instances, dns>>

\* Mutant: the failure path forgets the sentinel.
RemoveSentinelForgotten(t) ==
    /\ At(t, "unplant")
    /\ Done(t)
    /\ UNCHANGED <<up, rows, port, nodes, instances, udp, dns>>

\* The failure paths of StartNetwork and GetInstance remove a nil entry, be it
\* their own sentinel or one planted since by another goroutine.
RemoveSentinel(t) ==
    LET n == th[t].net
    IN  /\ At(t, "unplant")
        /\ instances' = [instances EXCEPT ![n] =
                            IF @ = "starting" THEN "absent" ELSE @]
        /\ Done(t)
        /\ UNCHANGED <<up, rows, port, nodes, udp, dns>>

\* Mutant: an instance whose sentinel was removed meanwhile is dropped unclosed.
InsertInstanceOrDrop(t) ==
    LET n == th[t].net
    IN  /\ At(t, "insert")
        /\ instances' = [instances EXCEPT ![n] = IF @ = "starting" THEN "running" ELSE @]
        /\ dns' = dns \ {n}
        /\ Done(t)
        /\ UNCHANGED <<up, rows, port, nodes, udp>>

\* The end of startInstance: the DNS server comes up or not, and the instance is stored whatever the map holds by now.  GetInstance
\* goes on to RefreshDNS, StartNetwork returns.
InsertInstance(t) ==
    LET n == th[t].net
    IN  /\ At(t, "insert")
        /\ instances' = [instances EXCEPT ![n] = "running"]
        /\ dns' \in {dns \cup {n}, dns \ {n}}
        /\ IF th[t].op = "get" THEN Goto(t, "dns") ELSE Done(t)
        /\ UNCHANGED <<up, rows, port, nodes, udp>>

-----------------------------------------------------------------------------
\* RefreshDNS, called by GetInstance and by the handlers that change records.

\* Enrollment, node deletion and DNS record changes look the network up ...
ChangeRecords(t, n) ==
    /\ t \in Handlers /\ At(t, "idle")
    /\ n \in rows
    /\ Become(t, Local("records", "write", n, NoPort))
    /\ UNCHANGED <<up, rows, port, nodes, instances, udp, dns>>

\* ... and write the database, where the network may be gone by now: Open passes
\* _foreign_keys=on, which the driver does not read, so nothing refuses the row.
WriteRecords(t) ==
    LET n == th[t].net
    IN  /\ At(t, "write")
        /\ nodes' \in {nodes, nodes \cup {n}, nodes \ {n}}
        /\ Goto(t, "dns")
        /\ UNCHANGED <<up, rows, port, instances, udp, dns>>

\* The rows of nodes that are offline for long are deleted.
PruneNodes(n) ==
    /\ up /\ n \in nodes
    /\ nodes' = nodes \ {n}
    /\ UNCHANGED <<up, rows, port, instances, udp, dns, th>>

\* The lookup.  A sentinel is dereferenced: the handler panics and the router's
\* Recoverer ends the request.
RefreshDNS(t) ==
    LET n == th[t].net
    IN  /\ At(t, "dns")
        /\ IF instances[n] = "running" /\ n \in dns THEN Goto(t, "dnsSet") ELSE Done(t)
        /\ UNCHANGED <<up, rows, port, nodes, instances, udp, dns>>

\* The records are read and handed to the DNS server that was found, be it
\* stopped by now; which records it serves is left out.
RefreshDNSSet(t) ==
    /\ At(t, "dnsSet")
    /\ Done(t)
    /\ UNCHANGED <<up, rows, port, nodes, instances, udp, dns>>

-----------------------------------------------------------------------------
\* StopNetwork removes the entry, sentinel or instance, under the lock and closes
\* an instance after it: the caller goes on at "close" or at pc.
StopNetwork(t, op, n, pc) ==
    /\ instances' = [instances EXCEPT ![n] = "absent"]
    /\ Become(t, IF instances[n] = "running" THEN Local(op, "close", n, NoPort)
                 ELSE IF pc = "idle" THEN Idle ELSE Local(op, pc, n, NoPort))

\* NetworkInstance.Close: the DNS server stops and the port is released.
CloseInstance(t) ==
    LET n == th[t].net
    IN  /\ At(t, "close")
        /\ udp' = [udp EXCEPT ![port[n]] = NoNet]
        /\ dns' = dns \ {n}
        /\ IF th[t].op = "delete" THEN Goto(t, "delNodes") ELSE Done(t)
        /\ UNCHANGED <<up, rows, port, nodes, instances>>

\* DeleteNetwork stops the lighthouse first and deletes the row last; that its
\* nodes could not be deleted is logged.
DeleteNetwork(t, n) ==
    /\ t \in Handlers /\ At(t, "idle")
    /\ n \in rows
    /\ StopNetwork(t, "delete", n, "delNodes")
    /\ UNCHANGED <<up, rows, port, nodes, udp, dns>>

DeleteNodes(t) ==
    /\ At(t, "delNodes")
    /\ nodes' \in {nodes, nodes \ {th[t].net}}
    /\ Goto(t, "delRow")
    /\ UNCHANGED <<up, rows, port, instances, udp, dns>>

DeleteRow(t) ==
    /\ At(t, "delRow")
    /\ rows' \in {rows, rows \ {th[t].net}}
    /\ Done(t)
    /\ UNCHANGED <<up, port, nodes, instances, udp, dns>>

\* reapIdleInstances: a registered instance is a candidate, its nodes are counted
\* in the database, and StopNetwork acts on whatever is registered by then.  Without
\* nodes the lighthouse is stopped; with nodes their states and last_seen_at decide,
\* of a deleted network as well; a query that fails keeps it.
ReapCandidate(n) ==
    /\ At(Reaper, "idle")
    /\ instances[n] = "running"
    /\ Become(Reaper, Local("reap", "reapCheck", n, NoPort))
    /\ UNCHANGED <<up, rows, port, nodes, instances, udp, dns>>

\* Mutant: the reaper skips a network that has no row any more.
ReapDecidesRowsOnly ==
    /\ At(Reaper, "reapCheck")
    /\ th[Reaper].net \in rows
    /\ Goto(Reaper, "reapStop")
    /\ UNCHANGED <<up, rows, port, nodes, instances, udp, dns>>

ReapDecides ==
    /\ At(Reaper, "reapCheck")
    /\ Goto(Reaper, "reapStop")
    /\ UNCHANGED <<up, rows, port, nodes, instances, udp, dns>>

ReapKeeps ==
    /\ At(Reaper, "reapCheck")
    /\ Done(Reaper)
    /\ UNCHANGED <<up, rows, port, nodes, instances, udp, dns>>

ReapStop ==
    /\ At(Reaper, "reapStop")
    /\ StopNetwork(Reaper, "reap", th[Reaper].net, "idle")
    /\ UNCHANGED <<up, rows, port, nodes, udp, dns>>

-----------------------------------------------------------------------------
\* The process ends (Stop on shutdown, or a crash) and everything but the
\* database is gone.
Crash ==
    /\ up
    /\ up' = FALSE
    /\ instances' = [n \in Networks |-> "absent"]
    /\ udp' = [p \in Ports |-> NoNet]
    /\ dns' = {}
    /\ th' = [t \in Threads |-> Idle]
    /\ UNCHANGED <<rows, port, nodes>>

\* NewNetworkManager starts a lighthouse for every row before the first request
\* is served; a lighthouse, or its DNS server, that fails to start is logged, with
\* its port bound or not.
NewNetworkManager ==
    /\ ~up
    /\ up' = TRUE
    /\ \E started \in SUBSET rows :
          /\ instances' = [n \in Networks |->
                             IF n \in started THEN "running" ELSE "absent"]
          /\ udp' \in [Ports -> Networks \cup {NoNet, Leaked}]
          /\ \A p \in Ports :
                IF \E n \in started : port[n] = p
                THEN udp'[p] = CHOOSE n \in started : port[n] = p
                ELSE udp'[p] = NoNet \/ (udp'[p] = Leaked /\ \E n \in rows : port[n] = p)
          /\ dns' \in SUBSET started
    /\ UNCHANGED <<rows, port, nodes, th>>

Step(t) ==
    \/ CreateRow(t) \/ StartNetwork(t)
    \/ NebulaMain(t) \/ NebulaMainFails(t) \/ RemoveSentinel(t)
    \/ ServiceNewFails(t) \/ InsertInstance(t)
    \/ WriteRecords(t) \/ RefreshDNS(t) \/ RefreshDNSSet(t)
    \/ CloseInstance(t) \/ DeleteNodes(t) \/ DeleteRow(t)

ReapStep == ReapDecides \/ ReapKeeps \/ ReapStop

Request(t, n) ==
    CreateAllocate(t, n) \/ GetInstance(t, n) \/ ChangeRecords(t, n) \/ DeleteNetwork(t, n)

Next ==
    \/ \E t \in Threads : Step(t)
    \/ \E t \in Handlers, n \in Networks : Request(t, n)
    \/ \E n \in Networks : PruneNodes(n) \/ ReapCandidate(n)
    \/ ReapStep
    \/ Crash
    \/ NewNetworkManager

Spec == Init /\ [][Next]_vars

\* A started goroutine runs to its end, the supervisor restarts the server, the
\* reaper's ticker visits every registered instance again and again, and the
\* queries about a network without nodes do not fail every time.
Fairness ==
    /\ \A t \in Threads : WF_vars(Step(t))
    /\ WF_vars(ReapStep)
    /\ WF_vars(NewNetworkManager)
    /\ \A n \in Networks : SF_vars(ReapCandidate(n))
    /\ \A n \in Networks : SF_vars(th[Reaper].net = n /\ n \notin nodes /\ ReapDecides)

FairSpec == Spec /\ Fairness

-----------------------------------------------------------------------------
Pcs == {"idle", "insertRow", "plant", "bind", "insert", "unplant", "write", "dns",
        "dnsSet", "close", "delNodes", "delRow", "reapCheck", "reapStop"}

ThreadStates ==
    [op : {"none", "create", "get", "records", "delete", "reap"}, pc : Pcs,
     net : Networks \cup {NoNet}, arg : Ports \cup {NoPort}]

TypeOK ==
    /\ up \in BOOLEAN
    /\ rows \in SUBSET Networks
    /\ port \in [Networks -> Ports \cup {NoPort}]
    /\ nodes \in SUBSET Networks
    /\ instances \in [Networks -> {"absent", "starting", "running"}]
    /\ udp \in [Ports -> Networks \cup {NoNet, Leaked}]
    /\ dns \in SUBSET Networks
    /\ th \in [Threads -> ThreadStates]

\* The goroutines that own the UDP port of a network outside the map: between
\* nebula.Main and the insert, and between the removal and Close.
Holding(t, n) == th[t].pc \in {"insert", "close"} /\ th[t].net = n

\* A registered instance is alive: no entry of the map points to a lighthouse
\* that has been closed or that belongs to another network.
RegisteredIsLive ==
    \A n \in Networks : instances[n] = "running" => udp[port[n]] = n

\* No lighthouse leaks but by a service.New that fails: any other bound port belongs
\* to a registered instance or to a goroutine that is about to register or to close it.
NoLeakedLighthouse ==
    \A p \in Ports : udp[p] \notin {NoNet, Leaked} =>
        /\ port[udp[p]] = p
        /\ \/ instances[udp[p]] = "running"
           \/ \E t \in Threads : Holding(t, udp[p])

\* A lighthouse has one owner: two goroutines, or a goroutine and the map, never
\* both hold the same network's port (no double Close, no overwritten instance).
SoleOwner ==
    \A n \in Networks, t \in Threads : Holding(t, n) =>
        /\ udp[port[n]] = n
        /\ instances[n] # "running"
        /\ \A u \in Threads : Holding(u, n) => u = t

\* A nil sentinel always has a goroutine that will replace or remove it; without
\* one GetInstance would answer "is starting, retry shortly" forever.
NoStuckSentinel ==
    \A n \in Networks : instances[n] = "starting" =>
        \E t \in Threads : th[t].net = n /\ th[t].pc \in {"bind", "insert", "unplant"}

\* While the server runs, a registered instance is only ever removed: no step
\* turns it back into a sentinel or swaps another lighthouse in.
RunningOnlyRemoved ==
    [][\A n \in Networks :
          instances[n] = "running" /\ instances'[n] # "running" =>
              instances'[n] = "absent"]_vars

\* While the server runs, a UDP port passes from one network to another only through
\* its release, and a leaked one is never released.
PortHandover ==
    [][\A p \in Ports :
          /\ udp[p] \notin {NoNet, Leaked} /\ udp'[p] # udp[p] => udp'[p] \in {NoNet, Leaked}
          /\ up' /\ udp[p] = Leaked => udp'[p] = Leaked]_vars

\* Every start is resolved: a sentinel does not stay for ever.
SentinelResolved ==
    \A n \in Networks : instances[n] = "starting" ~> instances[n] # "starting"

\* The lighthouse of a deleted network does not run for ever: the reaper stops what
\* DeleteNetwork missed, once no node's row is left of the network.
DeletedEventuallyStopped ==
    \A n \in Networks :
        [](port[n] # NoPort /\ n \notin rows /\ n \notin nodes) ~> instances[n] = "absent"
=============================================================================
