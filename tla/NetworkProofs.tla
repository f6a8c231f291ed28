--------------------------- MODULE NetworkProofs ---------------------------
(***************************************************************************)
(* A network and its nodes on the server: LighthouseManager for any number *)
(* of networks, handlers and ports, NodeEnrollment for any number of       *)
(* codes, nodes and concurrent requests.                                   *)
(***************************************************************************)
EXTENDS LighthouseManager, NodeEnrollment, TLAPS

-----------------------------------------------------------------------------
\* The instances of the networks.

\* Rows have distinct ports (the UNIQUE constraint on lighthouse_port).
RowPorts ==
    /\ \A n \in rows : port[n] \in Ports
    /\ \A n, m \in rows : port[n] = port[m] => n = m

\* What a goroutine knows of its network at each point.  A network that is being
\* inserted is unknown to every other goroutine.
Locals ==
    \A t \in Threads :
        /\ th[t].pc # "idle" => th[t].net \in Networks
        /\ th[t].pc \in {"bind", "insert", "unplant", "close", "plant"} =>
               port[th[t].net] \in Ports
        /\ th[t].pc = "insertRow" =>
               /\ th[t].arg \in Ports
               /\ port[th[t].net] = NoPort
               /\ \A u \in Threads : th[u].net = th[t].net => u = t

\* A registered network has a port.
RegisteredHasPort == \A n \in Networks : instances[n] = "running" => port[n] \in Ports

\* Nothing runs while the process is down.
DownIsEmpty ==
    ~up => /\ \A n \in Networks : instances[n] = "absent"
           /\ \A p \in Ports : udp[p] = NoNet
           /\ \A t \in Threads : th[t] = Idle

IInv ==
    /\ TypeOK
    /\ RowPorts
    /\ Locals
    /\ RegisteredHasPort
    /\ RegisteredIsLive
    /\ NoLeakedLighthouse
    /\ SoleOwner
    /\ NoStuckSentinel
    /\ DownIsEmpty

-----------------------------------------------------------------------------
\* How a goroutine's record changes.

\* What the proofs use of the constants.
LEMMA Consts ==
    /\ Handlers \subseteq Threads /\ Reaper \in Threads
    /\ NoPort \notin Ports /\ NoNet \notin Networks /\ Leaked \notin Networks /\ NoNet # Leaked
  BY PortsAssumption, NetworksAssumption DEF Threads, NoPort, Ports, NoNet, Leaked

\* Only goroutine t moves, and the records keep their type.
Moves(t) ==
    /\ th' \in [Threads -> ThreadStates]
    /\ \A u \in Threads : u # t => th'[u] = th[u]

\* The record of a goroutine that has ended (Done) is well-typed.
LEMMA IdleType == Idle \in ThreadStates /\ Idle.pc = "idle" /\ Idle.net = NoNet
  BY NetworksAssumption, Zenon DEF Idle, ThreadStates, Pcs, NoNet, NoPort

\* A request's first record is well-typed.
LEMMA LocalType ==
    ASSUME NEW op \in {"none", "create", "get", "records", "delete", "reap"},
           NEW at \in Pcs, NEW n \in Networks, NEW a \in Ports \cup {NoPort}
    PROVE  /\ Local(op, at, n, a) \in ThreadStates
           /\ Local(op, at, n, a).pc = at
           /\ Local(op, at, n, a).net = n
           /\ Local(op, at, n, a).arg = a
  BY Zenon DEF Local, ThreadStates

\* Assigning one goroutine's record leaves the others alone.
LEMMA BecomeMoves ==
    ASSUME TypeOK, NEW t \in Threads, NEW l \in ThreadStates, Become(t, l)
    PROVE  Moves(t) /\ th'[t] = l
  BY Zenon DEF TypeOK, Become, Moves

\* The end of a request.
LEMMA DoneMoves ==
    ASSUME TypeOK, NEW t \in Threads, Done(t)
    PROVE  Moves(t) /\ th'[t].pc = "idle" /\ th'[t].net = NoNet
  BY BecomeMoves, IdleType, Zenon DEF Done

\* Going on to the next step of a handler keeps its network and argument.
LEMMA GotoMoves ==
    ASSUME TypeOK, NEW t \in Threads, NEW at \in Pcs, Goto(t, at)
    PROVE  Moves(t) /\ th'[t].pc = at /\ th'[t].net = th[t].net /\ th'[t].arg = th[t].arg
<1> DEFINE l == [th[t] EXCEPT !.pc = at]
<1>1. th[t] \in ThreadStates
  BY Zenon DEF TypeOK
<1>2. l \in ThreadStates /\ l.pc = at /\ l.net = th[t].net /\ l.arg = th[t].arg
  BY <1>1, Zenon DEF ThreadStates
<1>3. Become(t, l)
  BY Zenon DEF Goto
<1> QED  BY <1>2, <1>3, BecomeMoves, Zenon

-----------------------------------------------------------------------------
\* One lemma per action.

\* CreateNetwork reads a free port.
LEMMA CreateAllocateStep ==
    ASSUME IInv, NEW t \in Handlers, NEW n \in Networks, CreateAllocate(t, n)
    PROVE  IInv'
<1> USE Consts DEF IInv, Holding
<1>1. Moves(t) /\ th'[t].pc = "insertRow" /\ th'[t].net = n /\ th'[t].arg \in Ports
  <2> DEFINE p == FirstAvailableLighthousePort(UsedPorts)
  <2>1. p \in Ports
    BY Zenon DEF CreateAllocate
  <2>2. "insertRow" \in Pcs
    BY Zenon DEF Pcs
  <2>3. Become(t, Local("create", "insertRow", n, p))
    BY Zenon DEF CreateAllocate
  <2> QED  BY <2>1, <2>2, <2>3, LocalType, BecomeMoves
<1>2. TypeOK'
  BY <1>1, Zenon DEF CreateAllocate, At, Moves, TypeOK, Locals
<1>3. RowPorts'
  BY <1>1 DEF CreateAllocate, At, Moves, TypeOK, Locals, RowPorts
<1>4. Locals'
  BY <1>1 DEF CreateAllocate, At, Moves, TypeOK, Locals, RowPorts
<1>5. RegisteredHasPort'
  BY <1>1, Zenon DEF CreateAllocate, At, Moves, TypeOK, Locals, RegisteredHasPort, RowPorts
<1>6. RegisteredIsLive'
  BY <1>1, Zenon DEF CreateAllocate, At, Moves, TypeOK, Locals, RegisteredHasPort, RegisteredIsLive, SoleOwner, RowPorts
<1>7. NoLeakedLighthouse'
  BY <1>1 DEF CreateAllocate, At, Moves, TypeOK, Locals, NoLeakedLighthouse, SoleOwner
<1>8. SoleOwner'
  BY <1>1 DEF CreateAllocate, At, Moves, TypeOK, Locals, NoLeakedLighthouse, SoleOwner
<1>9. NoStuckSentinel'
  BY <1>1 DEF CreateAllocate, At, Moves, TypeOK, Locals, NoStuckSentinel
<1>10. DownIsEmpty'
  BY <1>1, Zenon DEF CreateAllocate, At, Moves, TypeOK, Locals, DownIsEmpty
<1> QED  BY <1>2, <1>3, <1>4, <1>5, <1>6, <1>7, <1>8, <1>9, <1>10, Zenon DEF IInv

\* Networks.Create inserts the row or fails on the UNIQUE constraint.
LEMMA CreateRowStep ==
    ASSUME IInv, NEW t \in Threads, CreateRow(t)
    PROVE  IInv'
<1> USE Consts DEF IInv, Holding
<1>1. /\ th[t].net \in Networks /\ Moves(t)
       /\ \/ /\ th'[t].pc = "idle" /\ th'[t].net = NoNet /\ UNCHANGED <<rows, port>>
          \/ /\ th'[t].pc = "plant" /\ th'[t].net = th[t].net
             /\ th[t].arg \notin UsedPorts
             /\ rows' = rows \cup {th[t].net}
             /\ port' = [port EXCEPT ![th[t].net] = th[t].arg]
  BY DoneMoves, GotoMoves, Zenon DEF CreateRow, At, Pcs, Locals
<1>2. TypeOK'
  BY <1>1, Zenon DEF CreateRow, At, Moves, UsedPorts, TypeOK, Locals
<1>3. RowPorts'
  BY <1>1 DEF CreateRow, At, Moves, UsedPorts, TypeOK, Locals, RowPorts
<1>4. Locals'
  BY <1>1 DEF CreateRow, At, Moves, UsedPorts, TypeOK, Locals, RowPorts
<1>5. RegisteredHasPort'
  BY <1>1 DEF CreateRow, At, Moves, UsedPorts, TypeOK, Locals, RegisteredHasPort, RowPorts
<1>6. RegisteredIsLive'
  BY <1>1 DEF CreateRow, At, Moves, UsedPorts, TypeOK, Locals, RegisteredHasPort, RegisteredIsLive, SoleOwner, RowPorts
<1>7. NoLeakedLighthouse'
  BY <1>1 DEF CreateRow, At, Moves, UsedPorts, TypeOK, Locals, NoLeakedLighthouse, SoleOwner
<1>8. SoleOwner'
  BY <1>1 DEF CreateRow, At, Moves, UsedPorts, TypeOK, Locals, NoLeakedLighthouse, SoleOwner
<1>9. NoStuckSentinel'
  BY <1>1 DEF CreateRow, At, Moves, UsedPorts, TypeOK, Locals, NoStuckSentinel
<1>10. DownIsEmpty'
  BY <1>1, Zenon DEF CreateRow, At, Moves, UsedPorts, TypeOK, Locals, DownIsEmpty
<1> QED  BY <1>2, <1>3, <1>4, <1>5, <1>6, <1>7, <1>8, <1>9, <1>10, Zenon DEF IInv

\* StartNetwork plants the sentinel or refuses.
LEMMA StartNetworkStep ==
    ASSUME IInv, NEW t \in Threads, StartNetwork(t)
    PROVE  IInv'
<1> USE Consts DEF IInv, Holding
<1>1. /\ th[t].net \in Networks /\ Moves(t)
       /\ \/ /\ th'[t].pc = "idle" /\ th'[t].net = NoNet /\ UNCHANGED instances
          \/ /\ th'[t].pc = "bind" /\ th'[t].net = th[t].net
             /\ instances[th[t].net] = "absent"
             /\ instances' = [instances EXCEPT ![th[t].net] = "starting"]
  BY DoneMoves, GotoMoves, Zenon DEF StartNetwork, At, Pcs, Locals
<1>2. TypeOK'
  BY <1>1, Zenon DEF StartNetwork, At, Moves, TypeOK, Locals
<1>3. RowPorts'
  BY <1>1 DEF StartNetwork, At, Moves, TypeOK, Locals, RowPorts
<1>4. Locals'
  BY <1>1 DEF StartNetwork, At, Moves, TypeOK, Locals, RowPorts
<1>5. RegisteredHasPort'
  BY <1>1 DEF StartNetwork, At, Moves, TypeOK, Locals, RegisteredHasPort, RowPorts
<1>6. RegisteredIsLive'
  BY <1>1 DEF StartNetwork, At, Moves, TypeOK, Locals, RegisteredHasPort, RegisteredIsLive, SoleOwner, RowPorts
<1>7. NoLeakedLighthouse'
  BY <1>1 DEF StartNetwork, At, Moves, TypeOK, Locals, NoLeakedLighthouse, SoleOwner
<1>8. SoleOwner'
  BY <1>1 DEF StartNetwork, At, Moves, TypeOK, Locals, NoLeakedLighthouse, SoleOwner
<1>9. NoStuckSentinel'
  BY <1>1 DEF StartNetwork, At, Moves, TypeOK, Locals, NoStuckSentinel
<1>10. DownIsEmpty'
  BY <1>1, Zenon DEF StartNetwork, At, Moves, TypeOK, Locals, DownIsEmpty
<1> QED  BY <1>2, <1>3, <1>4, <1>5, <1>6, <1>7, <1>8, <1>9, <1>10 DEF IInv

\* GetInstance plants the sentinel for a lazy restart.
LEMMA GetInstanceStep ==
    ASSUME IInv, NEW t \in Handlers, NEW n \in Networks, GetInstance(t, n)
    PROVE  IInv'
<1> USE Consts DEF IInv, Holding
<1>1. Moves(t) /\ th'[t].pc = "bind" /\ th'[t].net = n
  BY LocalType, BecomeMoves DEF GetInstance, Pcs
<1>2. TypeOK'
  BY <1>1, Zenon DEF GetInstance, At, Moves, TypeOK, Locals
<1>3. RowPorts'
  BY <1>1 DEF GetInstance, At, Moves, TypeOK, Locals, RowPorts
<1>4. Locals'
  BY <1>1 DEF GetInstance, At, Moves, TypeOK, Locals, RowPorts
<1>5. RegisteredHasPort'
  BY <1>1, Zenon DEF GetInstance, At, Moves, TypeOK, Locals, RegisteredHasPort, RowPorts
<1>6. RegisteredIsLive'
  BY <1>1 DEF GetInstance, At, Moves, TypeOK, Locals, RegisteredHasPort, RegisteredIsLive, SoleOwner, RowPorts
<1>7. NoLeakedLighthouse'
  BY <1>1 DEF GetInstance, At, Moves, TypeOK, Locals, NoLeakedLighthouse, SoleOwner
<1>8. SoleOwner'
  BY <1>1 DEF GetInstance, At, Moves, TypeOK, Locals, NoLeakedLighthouse, SoleOwner
<1>9. NoStuckSentinel'
  BY <1>1 DEF GetInstance, At, Moves, TypeOK, Locals, NoStuckSentinel
<1>10. DownIsEmpty'
  BY <1>1, Zenon DEF GetInstance, At, Moves, TypeOK, Locals, DownIsEmpty
<1> QED  BY <1>2, <1>3, <1>4, <1>5, <1>6, <1>7, <1>8, <1>9, <1>10 DEF IInv

\* nebula.Main binds the port.
LEMMA NebulaMainStep ==
    ASSUME IInv, NEW t \in Threads, NebulaMain(t)
    PROVE  IInv'
<1> USE Consts DEF IInv, Holding
<1>1. Moves(t) /\ th[t].net \in Networks /\ th'[t].pc = "insert" /\ th'[t].net = th[t].net
  BY GotoMoves, Zenon DEF NebulaMain, At, Pcs, Locals
<1>2. TypeOK'
  BY <1>1, Zenon DEF NebulaMain, At, Moves, TypeOK, Locals
<1>3. RowPorts'
  BY <1>1 DEF NebulaMain, At, Moves, TypeOK, Locals, RowPorts
<1>4. Locals'
  BY <1>1 DEF NebulaMain, At, Moves, TypeOK, Locals, RowPorts
<1>5. RegisteredHasPort'
  BY <1>1, Zenon DEF NebulaMain, At, Moves, TypeOK, Locals, RegisteredHasPort, RowPorts
<1>6. RegisteredIsLive'
  BY <1>1 DEF NebulaMain, At, Moves, TypeOK, Locals, RegisteredHasPort, RegisteredIsLive, SoleOwner, RowPorts
<1>7. NoLeakedLighthouse'
  BY <1>1 DEF NebulaMain, At, Moves, TypeOK, Locals, NoLeakedLighthouse, SoleOwner
<1>8. SoleOwner'
  <2> SUFFICES ASSUME NEW m \in Networks, NEW u \in Threads, Holding(u, m)'
                PROVE  /\ udp'[port'[m]] = m
                       /\ instances'[m] # "running"
                       /\ \A w \in Threads : Holding(w, m)' => w = u
    BY Zenon DEF SoleOwner
  <2>1. CASE m = th[t].net
    BY <1>1, <2>1 DEF NebulaMain, At, Moves, TypeOK, Locals, NoLeakedLighthouse, SoleOwner, RegisteredHasPort, RegisteredIsLive
  <2>2. CASE m # th[t].net
    <3>1. u # t /\ Holding(u, m)
      BY <1>1, <2>2, Zenon DEF Moves
    <3>2. udp[port[m]] = m /\ instances[m] # "running" /\ \A w \in Threads : Holding(w, m) => w = u
      BY <3>1, Zenon DEF SoleOwner
    <3> QED  BY <1>1, <2>2, <3>1, <3>2 DEF NebulaMain, At, Moves, TypeOK, Locals, NoLeakedLighthouse, SoleOwner, RegisteredHasPort, RegisteredIsLive
  <2> QED  BY <2>1, <2>2, Zenon
<1>9. NoStuckSentinel'
  BY <1>1 DEF NebulaMain, At, Moves, TypeOK, Locals, NoStuckSentinel
<1>10. DownIsEmpty'
  BY <1>1, Zenon DEF NebulaMain, At, Moves, TypeOK, Locals, DownIsEmpty
<1> QED  BY <1>2, <1>3, <1>4, <1>5, <1>6, <1>7, <1>8, <1>9, <1>10 DEF IInv

\* nebula.Main fails.
LEMMA NebulaMainFailsStep ==
    ASSUME IInv, NEW t \in Threads, NebulaMainFails(t)
    PROVE  IInv'
<1> USE Consts DEF IInv, Holding
<1>1. Moves(t) /\ th[t].net \in Networks /\ th'[t].pc = "unplant" /\ th'[t].net = th[t].net
  BY GotoMoves, Zenon DEF NebulaMainFails, At, Pcs, Locals
<1>2. TypeOK'
  BY <1>1, Zenon DEF NebulaMainFails, At, Moves, TypeOK, Locals
<1>3. RowPorts'
  BY <1>1 DEF NebulaMainFails, At, Moves, TypeOK, Locals, RowPorts
<1>4. Locals'
  BY <1>1 DEF NebulaMainFails, At, Moves, TypeOK, Locals, RowPorts
<1>5. RegisteredHasPort'
  BY <1>1, Zenon DEF NebulaMainFails, At, Moves, TypeOK, Locals, RegisteredHasPort, RowPorts
<1>6. RegisteredIsLive'
  BY <1>1, Zenon DEF NebulaMainFails, At, Moves, TypeOK, Locals, RegisteredHasPort, RegisteredIsLive, SoleOwner, RowPorts
<1>7. NoLeakedLighthouse'
  BY <1>1 DEF NebulaMainFails, At, Moves, TypeOK, Locals, NoLeakedLighthouse, SoleOwner
<1>8. SoleOwner'
  BY <1>1 DEF NebulaMainFails, At, Moves, TypeOK, Locals, NoLeakedLighthouse, SoleOwner
<1>9. NoStuckSentinel'
  BY <1>1 DEF NebulaMainFails, At, Moves, TypeOK, Locals, NoStuckSentinel
<1>10. DownIsEmpty'
  BY <1>1, Zenon DEF NebulaMainFails, At, Moves, TypeOK, Locals, DownIsEmpty
<1> QED  BY <1>2, <1>3, <1>4, <1>5, <1>6, <1>7, <1>8, <1>9, <1>10 DEF IInv

\* service.New fails and the port is left behind.
LEMMA ServiceNewFailsStep ==
    ASSUME IInv, NEW t \in Threads, ServiceNewFails(t)
    PROVE  IInv'
<1> USE Consts DEF IInv, Holding
<1>1. Moves(t) /\ th[t].net \in Networks /\ th'[t].pc = "unplant" /\ th'[t].net = th[t].net
  BY GotoMoves, Zenon DEF ServiceNewFails, At, Pcs, Locals
<1>2. TypeOK'
  BY <1>1, Zenon DEF ServiceNewFails, At, Moves, TypeOK, Locals
<1>3. RowPorts'
  BY <1>1 DEF ServiceNewFails, At, Moves, TypeOK, Locals, RowPorts
<1>4. Locals'
  BY <1>1 DEF ServiceNewFails, At, Moves, TypeOK, Locals, RowPorts
<1>5. RegisteredHasPort'
  BY <1>1, Zenon DEF ServiceNewFails, At, Moves, TypeOK, Locals, RegisteredHasPort, RowPorts
<1>6. RegisteredIsLive'
  BY <1>1 DEF ServiceNewFails, At, Moves, TypeOK, Locals, RegisteredHasPort, RegisteredIsLive, SoleOwner, RowPorts
<1>7. NoLeakedLighthouse'
  BY <1>1 DEF ServiceNewFails, At, Moves, TypeOK, Locals, NoLeakedLighthouse, SoleOwner
<1>8. SoleOwner'
  BY <1>1 DEF ServiceNewFails, At, Moves, TypeOK, Locals, NoLeakedLighthouse, SoleOwner
<1>9. NoStuckSentinel'
  BY <1>1 DEF ServiceNewFails, At, Moves, TypeOK, Locals, NoStuckSentinel
<1>10. DownIsEmpty'
  BY <1>1, Zenon DEF ServiceNewFails, At, Moves, TypeOK, Locals, DownIsEmpty
<1> QED  BY <1>2, <1>3, <1>4, <1>5, <1>6, <1>7, <1>8, <1>9, <1>10, Zenon DEF IInv

\* The failure path removes a nil entry.
LEMMA RemoveSentinelStep ==
    ASSUME IInv, NEW t \in Threads, RemoveSentinel(t)
    PROVE  IInv'
<1> USE Consts DEF IInv, Holding
<1>1. Moves(t) /\ th[t].net \in Networks /\ th'[t].pc = "idle" /\ th'[t].net = NoNet
  BY DoneMoves, Zenon DEF RemoveSentinel, At, Locals
<1>2. TypeOK'
  BY <1>1, Zenon DEF RemoveSentinel, At, Moves, TypeOK, Locals
<1>3. RowPorts'
  BY <1>1 DEF RemoveSentinel, At, Moves, TypeOK, Locals, RowPorts
<1>4. Locals'
  BY <1>1 DEF RemoveSentinel, At, Moves, TypeOK, Locals, RowPorts
<1>5. RegisteredHasPort'
  BY <1>1, Zenon DEF RemoveSentinel, At, Moves, TypeOK, Locals, RegisteredHasPort, RowPorts
<1>6. RegisteredIsLive'
  BY <1>1 DEF RemoveSentinel, At, Moves, TypeOK, Locals, RegisteredHasPort, RegisteredIsLive, SoleOwner, RowPorts
<1>7. NoLeakedLighthouse'
  BY <1>1 DEF RemoveSentinel, At, Moves, TypeOK, Locals, NoLeakedLighthouse, SoleOwner
<1>8. SoleOwner'
  BY <1>1 DEF RemoveSentinel, At, Moves, TypeOK, Locals, NoLeakedLighthouse, SoleOwner
<1>9. NoStuckSentinel'
  BY <1>1 DEF RemoveSentinel, At, Moves, TypeOK, Locals, NoStuckSentinel
<1>10. DownIsEmpty'
  BY <1>1, Zenon DEF RemoveSentinel, At, Moves, TypeOK, Locals, DownIsEmpty
<1> QED  BY <1>2, <1>3, <1>4, <1>5, <1>6, <1>7, <1>8, <1>9, <1>10 DEF IInv

\* startInstance registers the lighthouse it holds.
LEMMA InsertInstanceStep ==
    ASSUME IInv, NEW t \in Threads, InsertInstance(t)
    PROVE  IInv'
<1> USE Consts DEF IInv, Holding
<1>1. /\ th[t].net \in Networks /\ Moves(t)
       /\ \/ th'[t].pc = "idle" /\ th'[t].net = NoNet
          \/ th'[t].pc = "dns" /\ th'[t].net = th[t].net
       /\ dns' \in SUBSET Networks
  <2>1. th[t].net \in Networks /\ dns' \in SUBSET Networks
    BY DEF InsertInstance, At, Locals, TypeOK
  <2> QED  BY <2>1, DoneMoves, GotoMoves, Zenon DEF InsertInstance, At, Pcs
<1>2. TypeOK'
  BY <1>1, Zenon DEF InsertInstance, At, Moves, TypeOK, Locals
<1>3. RowPorts'
  BY <1>1 DEF InsertInstance, At, Moves, TypeOK, Locals, RowPorts
<1>4. Locals'
  BY <1>1 DEF InsertInstance, At, Moves, TypeOK, Locals, RowPorts
<1>5. RegisteredHasPort'
  BY <1>1, Zenon DEF InsertInstance, At, Moves, TypeOK, Locals, RegisteredHasPort, RowPorts
<1>6. RegisteredIsLive'
  BY <1>1 DEF InsertInstance, At, Moves, TypeOK, Locals, RegisteredHasPort, RegisteredIsLive, SoleOwner, RowPorts
<1>7. NoLeakedLighthouse'
  BY <1>1 DEF InsertInstance, At, Moves, TypeOK, Locals, NoLeakedLighthouse, SoleOwner
<1>8. SoleOwner'
  BY <1>1 DEF InsertInstance, At, Moves, TypeOK, Locals, NoLeakedLighthouse, SoleOwner
<1>9. NoStuckSentinel'
  BY <1>1 DEF InsertInstance, At, Moves, TypeOK, Locals, NoStuckSentinel
<1>10. DownIsEmpty'
  BY <1>1, Zenon DEF InsertInstance, At, Moves, TypeOK, Locals, DownIsEmpty
<1> QED  BY <1>2, <1>3, <1>4, <1>5, <1>6, <1>7, <1>8, <1>9, <1>10 DEF IInv

\* A handler looks the network up.
LEMMA ChangeRecordsStep ==
    ASSUME IInv, NEW t \in Handlers, NEW n \in Networks, ChangeRecords(t, n)
    PROVE  IInv'
<1> USE Consts DEF IInv, Holding
<1>1. Moves(t) /\ th'[t].pc = "write" /\ th'[t].net = n
  BY LocalType, BecomeMoves DEF ChangeRecords, Pcs
<1>2. TypeOK'
  BY <1>1 DEF ChangeRecords, At, Moves, TypeOK, Locals
<1>3. RowPorts'
  BY <1>1 DEF ChangeRecords, At, Moves, TypeOK, Locals, RowPorts
<1>4. Locals'
  BY <1>1 DEF ChangeRecords, At, Moves, TypeOK, Locals, RowPorts
<1>5. RegisteredHasPort'
  BY <1>1, Zenon DEF ChangeRecords, At, Moves, TypeOK, Locals, RegisteredHasPort, RowPorts
<1>6. RegisteredIsLive'
  BY <1>1, Zenon DEF ChangeRecords, At, Moves, TypeOK, Locals, RegisteredHasPort, RegisteredIsLive, SoleOwner, RowPorts
<1>7. NoLeakedLighthouse'
  BY <1>1 DEF ChangeRecords, At, Moves, TypeOK, Locals, NoLeakedLighthouse, SoleOwner
<1>8. SoleOwner'
  BY <1>1 DEF ChangeRecords, At, Moves, TypeOK, Locals, NoLeakedLighthouse, SoleOwner
<1>9. NoStuckSentinel'
  BY <1>1 DEF ChangeRecords, At, Moves, TypeOK, Locals, NoStuckSentinel
<1>10. DownIsEmpty'
  BY <1>1, Zenon DEF ChangeRecords, At, Moves, TypeOK, Locals, DownIsEmpty
<1> QED  BY <1>2, <1>3, <1>4, <1>5, <1>6, <1>7, <1>8, <1>9, <1>10 DEF IInv

\* It writes the nodes or records of the network.
LEMMA WriteRecordsStep ==
    ASSUME IInv, NEW t \in Threads, WriteRecords(t)
    PROVE  IInv'
<1> USE Consts DEF IInv, Holding
<1>1. /\ th[t].net \in Networks /\ Moves(t) /\ th'[t].pc = "dns" /\ th'[t].net = th[t].net
       /\ nodes' \in SUBSET Networks
  <2>1. th[t].net \in Networks /\ nodes' \in SUBSET Networks
    BY DEF WriteRecords, At, Locals, TypeOK
  <2> QED  BY <2>1, GotoMoves, Zenon DEF WriteRecords, At, Pcs
<1>2. TypeOK'
  BY <1>1, Zenon DEF WriteRecords, At, Moves, TypeOK, Locals
<1>3. RowPorts'
  BY <1>1 DEF WriteRecords, At, Moves, TypeOK, Locals, RowPorts
<1>4. Locals'
  BY <1>1 DEF WriteRecords, At, Moves, TypeOK, Locals, RowPorts
<1>5. RegisteredHasPort'
  BY <1>1, Zenon DEF WriteRecords, At, Moves, TypeOK, Locals, RegisteredHasPort, RowPorts
<1>6. RegisteredIsLive'
  BY <1>1 DEF WriteRecords, At, Moves, TypeOK, Locals, RegisteredHasPort, RegisteredIsLive, SoleOwner, RowPorts
<1>7. NoLeakedLighthouse'
  BY <1>1 DEF WriteRecords, At, Moves, TypeOK, Locals, NoLeakedLighthouse, SoleOwner
<1>8. SoleOwner'
  BY <1>1 DEF WriteRecords, At, Moves, TypeOK, Locals, NoLeakedLighthouse, SoleOwner
<1>9. NoStuckSentinel'
  BY <1>1 DEF WriteRecords, At, Moves, TypeOK, Locals, NoStuckSentinel
<1>10. DownIsEmpty'
  BY <1>1, Zenon DEF WriteRecords, At, Moves, TypeOK, Locals, DownIsEmpty
<1> QED  BY <1>2, <1>3, <1>4, <1>5, <1>6, <1>7, <1>8, <1>9, <1>10, Zenon DEF IInv

\* Pruning nodes touches nothing the invariant is about.
LEMMA PruneNodesStep ==
    ASSUME IInv, NEW n \in Networks, PruneNodes(n)
    PROVE  IInv'
<1>1. TypeOK'
  BY DEF PruneNodes, IInv, TypeOK
<1>2. RowPorts' /\ Locals' /\ RegisteredHasPort' /\ RegisteredIsLive'
  BY Zenon DEF PruneNodes, IInv, RowPorts, Locals, RegisteredHasPort, RegisteredIsLive
<1>3. NoLeakedLighthouse' /\ SoleOwner'
  BY DEF PruneNodes, IInv, NoLeakedLighthouse, SoleOwner, Holding
<1>4. NoStuckSentinel' /\ DownIsEmpty'
  BY DEF PruneNodes, IInv, NoStuckSentinel, DownIsEmpty
<1> QED  BY <1>1, <1>2, <1>3, <1>4, Zenon DEF IInv

\* RefreshDNS looks the instance up.
LEMMA RefreshDNSStep ==
    ASSUME IInv, NEW t \in Threads, RefreshDNS(t)
    PROVE  IInv'
<1> USE Consts DEF IInv, Holding
<1>1. /\ th[t].net \in Networks /\ Moves(t)
       /\ \/ th'[t].pc = "idle" /\ th'[t].net = NoNet
          \/ th'[t].pc = "dnsSet" /\ th'[t].net = th[t].net
  BY DoneMoves, GotoMoves, Zenon DEF RefreshDNS, At, Pcs, Locals
<1>2. TypeOK'
  BY <1>1, Zenon DEF RefreshDNS, At, Moves, TypeOK, Locals
<1>3. RowPorts'
  BY <1>1 DEF RefreshDNS, At, Moves, TypeOK, Locals, RowPorts
<1>4. Locals'
  BY <1>1 DEF RefreshDNS, At, Moves, TypeOK, Locals, RowPorts
<1>5. RegisteredHasPort'
  BY <1>1, Zenon DEF RefreshDNS, At, Moves, TypeOK, Locals, RegisteredHasPort, RowPorts
<1>6. RegisteredIsLive'
  BY <1>1, Zenon DEF RefreshDNS, At, Moves, TypeOK, Locals, RegisteredHasPort, RegisteredIsLive, SoleOwner, RowPorts
<1>7. NoLeakedLighthouse'
  BY <1>1 DEF RefreshDNS, At, Moves, TypeOK, Locals, NoLeakedLighthouse, SoleOwner
<1>8. SoleOwner'
  BY <1>1 DEF RefreshDNS, At, Moves, TypeOK, Locals, NoLeakedLighthouse, SoleOwner
<1>9. NoStuckSentinel'
  BY <1>1 DEF RefreshDNS, At, Moves, TypeOK, Locals, NoStuckSentinel
<1>10. DownIsEmpty'
  BY <1>1, Zenon DEF RefreshDNS, At, Moves, TypeOK, Locals, DownIsEmpty
<1> QED  BY <1>2, <1>3, <1>4, <1>5, <1>6, <1>7, <1>8, <1>9, <1>10 DEF IInv

\* RefreshDNS replaces the records.
LEMMA RefreshDNSSetStep ==
    ASSUME IInv, NEW t \in Threads, RefreshDNSSet(t)
    PROVE  IInv'
<1> USE Consts DEF IInv, Holding
<1>1. Moves(t) /\ th'[t].pc = "idle" /\ th'[t].net = NoNet
  BY DoneMoves, Zenon DEF RefreshDNSSet, At, TypeOK, ThreadStates
<1>2. TypeOK'
  BY <1>1, Zenon DEF RefreshDNSSet, At, Moves, TypeOK, Locals
<1>3. RowPorts'
  BY <1>1 DEF RefreshDNSSet, At, Moves, TypeOK, Locals, RowPorts
<1>4. Locals'
  BY <1>1 DEF RefreshDNSSet, At, Moves, TypeOK, Locals, RowPorts
<1>5. RegisteredHasPort'
  BY <1>1, Zenon DEF RefreshDNSSet, At, Moves, TypeOK, Locals, RegisteredHasPort, RowPorts
<1>6. RegisteredIsLive'
  BY <1>1, Zenon DEF RefreshDNSSet, At, Moves, TypeOK, Locals, RegisteredHasPort, RegisteredIsLive, SoleOwner, RowPorts
<1>7. NoLeakedLighthouse'
  BY <1>1 DEF RefreshDNSSet, At, Moves, TypeOK, Locals, NoLeakedLighthouse, SoleOwner
<1>8. SoleOwner'
  BY <1>1 DEF RefreshDNSSet, At, Moves, TypeOK, Locals, NoLeakedLighthouse, SoleOwner
<1>9. NoStuckSentinel'
  BY <1>1 DEF RefreshDNSSet, At, Moves, TypeOK, Locals, NoStuckSentinel
<1>10. DownIsEmpty'
  BY <1>1, Zenon DEF RefreshDNSSet, At, Moves, TypeOK, Locals, DownIsEmpty
<1> QED  BY <1>2, <1>3, <1>4, <1>5, <1>6, <1>7, <1>8, <1>9, <1>10 DEF IInv

\* Close releases the port.
LEMMA CloseInstanceStep ==
    ASSUME IInv, NEW t \in Threads, CloseInstance(t)
    PROVE  IInv'
<1> USE Consts DEF IInv, Holding
<1>1. /\ th[t].net \in Networks /\ Moves(t)
       /\ \/ th'[t].pc = "idle" /\ th'[t].net = NoNet
          \/ th'[t].pc = "delNodes" /\ th'[t].net = th[t].net
       /\ dns' \in SUBSET Networks
  <2>1. th[t].net \in Networks /\ dns' \in SUBSET Networks
    BY DEF CloseInstance, At, Locals, TypeOK
  <2> QED  BY <2>1, DoneMoves, GotoMoves, Zenon DEF CloseInstance, At, Pcs
<1>2. TypeOK'
  BY <1>1, Zenon DEF CloseInstance, At, Moves, TypeOK, Locals
<1>3. RowPorts'
  BY <1>1 DEF CloseInstance, At, Moves, TypeOK, Locals, RowPorts
<1>4. Locals'
  BY <1>1 DEF CloseInstance, At, Moves, TypeOK, Locals, RowPorts
<1>5. RegisteredHasPort'
  BY <1>1, Zenon DEF CloseInstance, At, Moves, TypeOK, Locals, RegisteredHasPort, RowPorts
<1>6. RegisteredIsLive'
  BY <1>1 DEF CloseInstance, At, Moves, TypeOK, Locals, RegisteredHasPort, RegisteredIsLive, SoleOwner, RowPorts
<1>7. NoLeakedLighthouse'
  BY <1>1 DEF CloseInstance, At, Moves, TypeOK, Locals, NoLeakedLighthouse, SoleOwner
<1>8. SoleOwner'
  BY <1>1 DEF CloseInstance, At, Moves, TypeOK, Locals, NoLeakedLighthouse, SoleOwner
<1>9. NoStuckSentinel'
  BY <1>1 DEF CloseInstance, At, Moves, TypeOK, Locals, NoStuckSentinel
<1>10. DownIsEmpty'
  BY <1>1, Zenon DEF CloseInstance, At, Moves, TypeOK, Locals, DownIsEmpty
<1> QED  BY <1>2, <1>3, <1>4, <1>5, <1>6, <1>7, <1>8, <1>9, <1>10 DEF IInv

\* DeleteNetwork removes the entry.
LEMMA DeleteNetworkStep ==
    ASSUME IInv, NEW t \in Handlers, NEW n \in Networks, DeleteNetwork(t, n)
    PROVE  IInv'
<1> USE Consts DEF IInv, Holding
<1>1. /\ Moves(t) /\ th'[t].net = n
       /\ \/ instances[n] = "running" /\ th'[t].pc = "close"
          \/ instances[n] # "running" /\ th'[t].pc = "delNodes"
       /\ instances' = [instances EXCEPT ![n] = "absent"]
  BY LocalType, BecomeMoves DEF DeleteNetwork, StopNetwork, Pcs
<1>2. TypeOK'
  BY <1>1, Zenon DEF DeleteNetwork, At, Moves, TypeOK, Locals
<1>3. RowPorts'
  BY <1>1 DEF DeleteNetwork, At, Moves, TypeOK, Locals, RowPorts
<1>4. Locals'
  BY <1>1 DEF DeleteNetwork, At, Moves, TypeOK, Locals, RowPorts
<1>5. RegisteredHasPort'
  BY <1>1, Zenon DEF DeleteNetwork, At, Moves, TypeOK, Locals, RegisteredHasPort, RowPorts
<1>6. RegisteredIsLive'
  BY <1>1 DEF DeleteNetwork, At, Moves, TypeOK, Locals, RegisteredHasPort, RegisteredIsLive, SoleOwner, RowPorts
<1>7. NoLeakedLighthouse'
  BY <1>1 DEF DeleteNetwork, At, Moves, TypeOK, Locals, NoLeakedLighthouse, SoleOwner
<1>8. SoleOwner'
  <2> SUFFICES ASSUME NEW m \in Networks, NEW u \in Threads, Holding(u, m)'
                PROVE  /\ udp'[port'[m]] = m
                       /\ instances'[m] # "running"
                       /\ \A w \in Threads : Holding(w, m)' => w = u
    BY Zenon DEF SoleOwner
  <2>1. CASE m = n
    BY <1>1, <2>1 DEF DeleteNetwork, At, Moves, TypeOK, Locals, NoLeakedLighthouse, SoleOwner, RegisteredHasPort, RegisteredIsLive
  <2>2. CASE m # n
    <3>1. u # t /\ Holding(u, m)
      BY <1>1, <2>2, Zenon DEF Moves
    <3>2. udp[port[m]] = m /\ instances[m] # "running" /\ \A w \in Threads : Holding(w, m) => w = u
      BY <3>1, Zenon DEF SoleOwner
    <3> QED  BY <1>1, <2>2, <3>1, <3>2 DEF DeleteNetwork, At, Moves, TypeOK, Locals, NoLeakedLighthouse, SoleOwner, RegisteredHasPort, RegisteredIsLive
  <2> QED  BY <2>1, <2>2, Zenon
<1>9. NoStuckSentinel'
  BY <1>1 DEF DeleteNetwork, At, Moves, TypeOK, Locals, NoStuckSentinel
<1>10. DownIsEmpty'
  BY <1>1, Zenon DEF DeleteNetwork, At, Moves, TypeOK, Locals, DownIsEmpty
<1> QED  BY <1>2, <1>3, <1>4, <1>5, <1>6, <1>7, <1>8, <1>9, <1>10 DEF IInv

\* DeleteNetwork deletes the rows of the nodes.
LEMMA DeleteNodesStep ==
    ASSUME IInv, NEW t \in Threads, DeleteNodes(t)
    PROVE  IInv'
<1> USE Consts DEF IInv, Holding
<1>1. /\ th[t].net \in Networks /\ Moves(t) /\ th'[t].pc = "delRow" /\ th'[t].net = th[t].net
       /\ nodes' \in SUBSET Networks
  <2>1. th[t].net \in Networks /\ nodes' \in SUBSET Networks
    BY DEF DeleteNodes, At, Locals, TypeOK
  <2> QED  BY <2>1, GotoMoves, Zenon DEF DeleteNodes, At, Pcs
<1>2. TypeOK'
  BY <1>1, Zenon DEF DeleteNodes, At, Moves, TypeOK, Locals
<1>3. RowPorts'
  BY <1>1 DEF DeleteNodes, At, Moves, TypeOK, Locals, RowPorts
<1>4. Locals'
  BY <1>1 DEF DeleteNodes, At, Moves, TypeOK, Locals, RowPorts
<1>5. RegisteredHasPort'
  BY <1>1, Zenon DEF DeleteNodes, At, Moves, TypeOK, Locals, RegisteredHasPort, RowPorts
<1>6. RegisteredIsLive'
  BY <1>1 DEF DeleteNodes, At, Moves, TypeOK, Locals, RegisteredHasPort, RegisteredIsLive, SoleOwner, RowPorts
<1>7. NoLeakedLighthouse'
  BY <1>1 DEF DeleteNodes, At, Moves, TypeOK, Locals, NoLeakedLighthouse, SoleOwner
<1>8. SoleOwner'
  BY <1>1 DEF DeleteNodes, At, Moves, TypeOK, Locals, NoLeakedLighthouse, SoleOwner
<1>9. NoStuckSentinel'
  BY <1>1 DEF DeleteNodes, At, Moves, TypeOK, Locals, NoStuckSentinel
<1>10. DownIsEmpty'
  BY <1>1, Zenon DEF DeleteNodes, At, Moves, TypeOK, Locals, DownIsEmpty
<1> QED  BY <1>2, <1>3, <1>4, <1>5, <1>6, <1>7, <1>8, <1>9, <1>10, Zenon DEF IInv

\* DeleteNetwork deletes the row.
LEMMA DeleteRowStep ==
    ASSUME IInv, NEW t \in Threads, DeleteRow(t)
    PROVE  IInv'
<1> USE Consts DEF IInv, Holding
<1>1. Moves(t) /\ th'[t].pc = "idle" /\ th'[t].net = NoNet /\ rows' \in SUBSET rows
  <2>1. rows' \in SUBSET rows
    BY DEF DeleteRow
  <2> QED  BY <2>1, DoneMoves, Zenon DEF DeleteRow
<1>2. TypeOK'
  BY <1>1, Zenon DEF DeleteRow, At, Moves, TypeOK, Locals
<1>3. RowPorts'
  BY <1>1 DEF DeleteRow, At, Moves, TypeOK, Locals, RowPorts
<1>4. Locals'
  BY <1>1 DEF DeleteRow, At, Moves, TypeOK, Locals, RowPorts
<1>5. RegisteredHasPort'
  BY <1>1, Zenon DEF DeleteRow, At, Moves, TypeOK, Locals, RegisteredHasPort, RowPorts
<1>6. RegisteredIsLive'
  BY <1>1, Zenon DEF DeleteRow, At, Moves, TypeOK, Locals, RegisteredHasPort, RegisteredIsLive, SoleOwner, RowPorts
<1>7. NoLeakedLighthouse'
  BY <1>1 DEF DeleteRow, At, Moves, TypeOK, Locals, NoLeakedLighthouse, SoleOwner
<1>8. SoleOwner'
  BY <1>1 DEF DeleteRow, At, Moves, TypeOK, Locals, NoLeakedLighthouse, SoleOwner
<1>9. NoStuckSentinel'
  BY <1>1 DEF DeleteRow, At, Moves, TypeOK, Locals, NoStuckSentinel
<1>10. DownIsEmpty'
  BY <1>1, Zenon DEF DeleteRow, At, Moves, TypeOK, Locals, DownIsEmpty
<1> QED  BY <1>2, <1>3, <1>4, <1>5, <1>6, <1>7, <1>8, <1>9, <1>10 DEF IInv

\* The reaper picks a registered instance.
LEMMA ReapCandidateStep ==
    ASSUME IInv, NEW n \in Networks, ReapCandidate(n)
    PROVE  IInv'
<1> USE Consts DEF IInv, Holding
<1>1. Moves(Reaper) /\ th'[Reaper].pc = "reapCheck" /\ th'[Reaper].net = n
  BY LocalType, BecomeMoves DEF ReapCandidate, Pcs
<1>2. TypeOK'
  BY <1>1, Zenon DEF ReapCandidate, At, Moves, TypeOK, Locals
<1>3. RowPorts'
  BY <1>1 DEF ReapCandidate, At, Moves, TypeOK, Locals, RowPorts
<1>4. Locals'
  BY <1>1 DEF ReapCandidate, At, Moves, TypeOK, Locals, RowPorts, RegisteredHasPort
<1>5. RegisteredHasPort'
  BY <1>1, Zenon DEF ReapCandidate, At, Moves, TypeOK, Locals, RegisteredHasPort, RowPorts
<1>6. RegisteredIsLive'
  BY <1>1, Zenon DEF ReapCandidate, At, Moves, TypeOK, Locals, RegisteredHasPort, RegisteredIsLive, SoleOwner, RowPorts
<1>7. NoLeakedLighthouse'
  BY <1>1 DEF ReapCandidate, At, Moves, TypeOK, Locals, NoLeakedLighthouse, SoleOwner
<1>8. SoleOwner'
  BY <1>1 DEF ReapCandidate, At, Moves, TypeOK, Locals, NoLeakedLighthouse, SoleOwner
<1>9. NoStuckSentinel'
  BY <1>1 DEF ReapCandidate, At, Moves, TypeOK, Locals, NoStuckSentinel
<1>10. DownIsEmpty'
  BY <1>1, Zenon DEF ReapCandidate, At, Moves, TypeOK, Locals, DownIsEmpty
<1> QED  BY <1>2, <1>3, <1>4, <1>5, <1>6, <1>7, <1>8, <1>9, <1>10, Zenon DEF IInv

\* The reaper consults the database.
LEMMA ReapCheckStep ==
    ASSUME IInv, ReapDecides \/ ReapKeeps
    PROVE  IInv'
<1> USE Consts DEF IInv, Holding
<1>1. /\ Moves(Reaper) /\ th[Reaper].net \in Networks
       /\ \/ th'[Reaper].pc = "idle" /\ th'[Reaper].net = NoNet
          \/ th'[Reaper].pc = "reapStop" /\ th'[Reaper].net = th[Reaper].net
  BY DoneMoves, GotoMoves, Zenon DEF ReapDecides, ReapKeeps, At, Pcs, Locals
<1>2. TypeOK'
  BY <1>1, Zenon DEF ReapDecides, ReapKeeps, At, Moves, TypeOK, Locals
<1>3. RowPorts'
  BY <1>1 DEF ReapDecides, ReapKeeps, At, Moves, TypeOK, Locals, RowPorts
<1>4. Locals'
  BY <1>1 DEF ReapDecides, ReapKeeps, At, Moves, TypeOK, Locals, RowPorts
<1>5. RegisteredHasPort'
  BY <1>1, Zenon DEF ReapDecides, ReapKeeps, At, Moves, TypeOK, Locals, RegisteredHasPort, RowPorts
<1>6. RegisteredIsLive'
  BY <1>1, Zenon DEF ReapDecides, ReapKeeps, At, Moves, TypeOK, Locals, RegisteredHasPort, RegisteredIsLive, SoleOwner, RowPorts
<1>7. NoLeakedLighthouse'
  BY <1>1 DEF ReapDecides, ReapKeeps, At, Moves, TypeOK, Locals, NoLeakedLighthouse, SoleOwner
<1>8. SoleOwner'
  BY <1>1 DEF ReapDecides, ReapKeeps, At, Moves, TypeOK, Locals, NoLeakedLighthouse, SoleOwner
<1>9. NoStuckSentinel'
  BY <1>1 DEF ReapDecides, ReapKeeps, At, Moves, TypeOK, Locals, NoStuckSentinel
<1>10. DownIsEmpty'
  BY <1>1, Zenon DEF ReapDecides, ReapKeeps, At, Moves, TypeOK, Locals, DownIsEmpty
<1> QED  BY <1>2, <1>3, <1>4, <1>5, <1>6, <1>7, <1>8, <1>9, <1>10, Zenon DEF IInv

\* The reaper calls StopNetwork.
LEMMA ReapStopStep ==
    ASSUME IInv, ReapStop
    PROVE  IInv'
<1> USE Consts DEF IInv, Holding
<1>1. /\ Moves(Reaper) /\ th[Reaper].net \in Networks
       /\ \/ /\ instances[th[Reaper].net] = "running"
             /\ th'[Reaper].pc = "close" /\ th'[Reaper].net = th[Reaper].net
          \/ /\ instances[th[Reaper].net] # "running"
             /\ th'[Reaper].pc = "idle" /\ th'[Reaper].net = NoNet
       /\ instances' = [instances EXCEPT ![th[Reaper].net] = "absent"]
  <2>1. th[Reaper].net \in Networks
    BY Zenon DEF ReapStop, At, Locals
  <2> QED  BY <2>1, LocalType, IdleType, BecomeMoves DEF ReapStop, StopNetwork, Pcs
<1>2. TypeOK'
  BY <1>1, Zenon DEF ReapStop, At, Moves, TypeOK, Locals
<1>3. RowPorts'
  BY <1>1 DEF ReapStop, At, Moves, TypeOK, Locals, RowPorts
<1>4. Locals'
  <2>1. th'[Reaper].pc # "idle" => th'[Reaper].pc = "close" /\ port[th[Reaper].net] \in Ports
    BY <1>1, Zenon DEF RegisteredHasPort
  <2>2. \A u \in Threads : th'[u].net = th[u].net \/ (u = Reaper /\ th'[u].net = NoNet)
    BY <1>1, Zenon DEF Moves
  <2> QED  BY <1>1, <2>1, <2>2 DEF ReapStop, At, Moves, TypeOK, Locals
<1>5. RegisteredHasPort'
  BY <1>1, Zenon DEF ReapStop, At, Moves, TypeOK, Locals, RegisteredHasPort, RowPorts
<1>6. RegisteredIsLive'
  BY <1>1 DEF ReapStop, At, Moves, TypeOK, Locals, RegisteredHasPort, RegisteredIsLive, SoleOwner, RowPorts
<1>7. NoLeakedLighthouse'
  BY <1>1 DEF ReapStop, At, Moves, TypeOK, Locals, NoLeakedLighthouse, SoleOwner
<1>8. SoleOwner'
  <2> SUFFICES ASSUME NEW m \in Networks, NEW u \in Threads, Holding(u, m)'
                PROVE  /\ udp'[port'[m]] = m
                       /\ instances'[m] # "running"
                       /\ \A w \in Threads : Holding(w, m)' => w = u
    BY Zenon DEF SoleOwner
  <2>1. CASE m = th[Reaper].net
    BY <1>1, <2>1 DEF ReapStop, At, Moves, TypeOK, Locals, NoLeakedLighthouse, SoleOwner, RegisteredHasPort, RegisteredIsLive
  <2>2. CASE m # th[Reaper].net
    <3>1. u # Reaper /\ Holding(u, m)
      BY <1>1, <2>2, Zenon DEF Moves
    <3>2. udp[port[m]] = m /\ instances[m] # "running" /\ \A w \in Threads : Holding(w, m) => w = u
      BY <3>1, Zenon DEF SoleOwner
    <3> QED  BY <1>1, <2>2, <3>1, <3>2 DEF ReapStop, At, Moves, TypeOK, Locals, NoLeakedLighthouse, SoleOwner, RegisteredHasPort, RegisteredIsLive
  <2> QED  BY <2>1, <2>2, Zenon
<1>9. NoStuckSentinel'
  BY <1>1 DEF ReapStop, At, Moves, TypeOK, Locals, NoStuckSentinel
<1>10. DownIsEmpty'
  BY <1>1, Zenon DEF ReapStop, At, Moves, TypeOK, Locals, DownIsEmpty
<1> QED  BY <1>2, <1>3, <1>4, <1>5, <1>6, <1>7, <1>8, <1>9, <1>10, SMTT(20) DEF IInv

\* The process ends.
LEMMA CrashStep ==
    ASSUME IInv, Crash
    PROVE  IInv'
<1> USE Consts DEF IInv, Holding
<1>1. \A t \in Threads : th'[t] \in ThreadStates /\ th'[t].pc = "idle" /\ th'[t].net = NoNet
  BY IdleType, Zenon DEF Crash
<1>2. TypeOK'
  BY <1>1, Zenon DEF Crash, At, Moves, TypeOK, Locals
<1>3. RowPorts'
  BY <1>1, Zenon DEF Crash, At, Moves, TypeOK, Locals, RowPorts
<1>4. Locals'
  BY <1>1, Zenon DEF Crash, At, Moves, TypeOK, Locals, RowPorts
<1>5. RegisteredHasPort'
  BY <1>1, Zenon DEF Crash, At, Moves, TypeOK, Locals, RegisteredHasPort, RowPorts
<1>6. RegisteredIsLive'
  BY <1>1, Zenon DEF Crash, At, Moves, TypeOK, Locals, RegisteredHasPort, RegisteredIsLive, SoleOwner, RowPorts
<1>7. NoLeakedLighthouse'
  BY <1>1, Zenon DEF Crash, At, Moves, TypeOK, Locals, NoLeakedLighthouse, SoleOwner
<1>8. SoleOwner'
  BY <1>1, Zenon DEF Crash, At, Moves, TypeOK, Locals, NoLeakedLighthouse, SoleOwner
<1>9. NoStuckSentinel'
  BY <1>1, Zenon DEF Crash, At, Moves, TypeOK, Locals, NoStuckSentinel
<1>10. DownIsEmpty'
  BY <1>1, Zenon DEF Crash, At, Moves, TypeOK, Locals, DownIsEmpty
<1> QED  BY <1>2, <1>3, <1>4, <1>5, <1>6, <1>7, <1>8, <1>9, <1>10 DEF IInv

\* The process starts again.
LEMMA NewNetworkManagerStep ==
    ASSUME IInv, NewNetworkManager
    PROVE  IInv'
<1> USE Consts DEF IInv, Holding
<1>1. /\ th' = th /\ \A t \in Threads : th[t].pc = "idle"
       /\ dns' \in SUBSET Networks
       /\ udp' \in [Ports -> Networks \cup {NoNet, Leaked}]
  <2>1. \A t \in Threads : th[t].pc = "idle"
    BY IdleType, Zenon DEF NewNetworkManager, DownIsEmpty
  <2>2. dns' \in SUBSET Networks
    BY DEF NewNetworkManager, TypeOK
  <2> QED  BY <2>1, <2>2, Zenon DEF NewNetworkManager
<1>2. TypeOK'
  BY <1>1 DEF NewNetworkManager, At, Moves, TypeOK, Locals
<1>3. RowPorts'
  BY <1>1 DEF NewNetworkManager, At, Moves, TypeOK, Locals, RowPorts
<1>4. Locals'
  BY <1>1, Zenon DEF NewNetworkManager, At, Moves, TypeOK, Locals, RowPorts
<1>5. RegisteredHasPort'
  BY <1>1, Zenon DEF NewNetworkManager, At, Moves, TypeOK, Locals, RegisteredHasPort, RowPorts
<1>6. RegisteredIsLive'
  BY <1>1 DEF NewNetworkManager, At, Moves, TypeOK, Locals, RegisteredHasPort, RegisteredIsLive, SoleOwner, RowPorts
<1>7. NoLeakedLighthouse'
  BY <1>1 DEF NewNetworkManager, At, Moves, TypeOK, Locals, NoLeakedLighthouse, SoleOwner
<1>8. SoleOwner'
  BY <1>1, Zenon DEF NewNetworkManager, At, Moves, TypeOK, Locals, NoLeakedLighthouse, SoleOwner
<1>9. NoStuckSentinel'
  BY <1>1, Zenon DEF NewNetworkManager, At, Moves, TypeOK, Locals, NoStuckSentinel
<1>10. DownIsEmpty'
  BY <1>1, Zenon DEF NewNetworkManager, At, Moves, TypeOK, Locals, DownIsEmpty
<1> QED  BY <1>2, <1>3, <1>4, <1>5, <1>6, <1>7, <1>8, <1>9, <1>10 DEF IInv

-----------------------------------------------------------------------------
\* The empty table, map and ports satisfy the invariant.
LEMMA InitInv == Init => IInv
<1> SUFFICES ASSUME Init PROVE IInv
  BY Zenon
<1>1. \A t \in Threads : th[t] \in ThreadStates /\ th[t].pc = "idle" /\ th[t] = Idle
  BY IdleType, Zenon DEF Init
<1>2. TypeOK
  BY <1>1, Zenon DEF Init, TypeOK
<1> QED
  BY <1>1, <1>2, Consts, Zenon DEF Init, IInv, RowPorts, Locals, RegisteredHasPort, RegisteredIsLive,
     NoLeakedLighthouse, SoleOwner, NoStuckSentinel, DownIsEmpty, Holding

\* Every step of the server preserves the invariant.
LEMMA NextInv == IInv /\ [Next]_vars => IInv'
<1> SUFFICES ASSUME IInv, [Next]_vars PROVE IInv'
  BY Zenon
<1>1. ASSUME NEW t \in Threads, Step(t) PROVE IInv'
  BY <1>1, CreateRowStep, StartNetworkStep, NebulaMainStep, NebulaMainFailsStep,
     RemoveSentinelStep, ServiceNewFailsStep, InsertInstanceStep, WriteRecordsStep,
     RefreshDNSStep, RefreshDNSSetStep, CloseInstanceStep, DeleteNodesStep, DeleteRowStep, Zenon DEF Step
<1>2. ASSUME NEW t \in Handlers, NEW n \in Networks, Request(t, n) PROVE IInv'
  BY <1>2, CreateAllocateStep, GetInstanceStep, ChangeRecordsStep, DeleteNetworkStep, ZenonT(40) DEF Request
<1>3. CASE UNCHANGED vars
  BY <1>3 DEF vars, IInv, TypeOK, RowPorts, Locals, RegisteredHasPort, RegisteredIsLive,
     NoLeakedLighthouse, SoleOwner, NoStuckSentinel, DownIsEmpty, Holding, UsedPorts
<1> QED
  BY <1>1, <1>2, <1>3, PruneNodesStep, ReapCandidateStep, ReapCheckStep, ReapStopStep, CrashStep,
     NewNetworkManagerStep, Zenon DEF Next, ReapStep

\* The inductive invariant holds throughout.
LEMMA Invariance == Spec => []IInv
  BY InitInv, NextInv, PTL DEF Spec

\* Type correctness of the lighthouse registry.
THEOREM TypeCorrect == Spec => []TypeOK
<1>1. IInv => TypeOK
  BY Zenon DEF IInv
<1> QED  BY <1>1, Invariance, PTL

\* An entry that GetInstance returns is a lighthouse that still holds its port.
THEOREM RegisteredIsLiveAlways == Spec => []RegisteredIsLive
<1>1. IInv => RegisteredIsLive
  BY Zenon DEF IInv
<1> QED  BY <1>1, Invariance, PTL

\* Whatever StopNetwork, the reaper and concurrent starts do to the map, a bound
\* lighthouse is registered or held by the one goroutine that will register or
\* close it, but for the port that a failing service.New leaves behind.
THEOREM NoLeak == Spec => [](NoLeakedLighthouse /\ SoleOwner)
<1>1. IInv => NoLeakedLighthouse /\ SoleOwner
  BY Zenon DEF IInv
<1> QED  BY <1>1, Invariance, PTL

\* A nil sentinel has a goroutine that resolves it.
THEOREM SentinelOwned == Spec => []NoStuckSentinel
<1>1. IInv => NoStuckSentinel
  BY Zenon DEF IInv
<1> QED  BY <1>1, Invariance, PTL

\* A registered instance only leaves the map by removal.
THEOREM RunningOnlyRemovedAlways == Spec => RunningOnlyRemoved
<1> DEFINE A == \A n \in Networks :
                  instances[n] = "running" /\ instances'[n] # "running" => instances'[n] = "absent"
<1>1. ASSUME IInv, [Next]_vars PROVE [A]_vars
  <2>1. ASSUME NEW t \in Threads, Step(t) PROVE A
    BY <1>1, <2>1, Zenon DEF Step, CreateRow, StartNetwork, NebulaMain, NebulaMainFails,
       RemoveSentinel, ServiceNewFails, InsertInstance, WriteRecords, RefreshDNS, RefreshDNSSet,
       CloseInstance, DeleteNodes, DeleteRow, IInv, TypeOK
  <2>2. ASSUME NEW t \in Handlers, NEW n \in Networks, Request(t, n) PROVE A
    BY <1>1, <2>2, Zenon DEF Request, CreateAllocate, GetInstance, ChangeRecords, DeleteNetwork,
       StopNetwork, IInv, TypeOK
  <2>3. ASSUME NEW n \in Networks, PruneNodes(n) \/ ReapCandidate(n) PROVE A
    BY <2>3, Zenon DEF PruneNodes, ReapCandidate
  <2>4. ASSUME ReapStep PROVE A
    BY <1>1, <2>4, Zenon DEF ReapStep, ReapDecides, ReapKeeps, ReapStop, StopNetwork, IInv, TypeOK
  <2>5. ASSUME Crash \/ NewNetworkManager PROVE A
    BY <1>1, <2>5, Zenon DEF Crash, NewNetworkManager, IInv, DownIsEmpty
  <2> QED  BY <1>1, <2>1, <2>2, <2>3, <2>4, <2>5, Zenon DEF Next
<1> QED  BY <1>1, Invariance, PTL DEF Spec, RunningOnlyRemoved

\* A UDP port passes between networks only through its release; the port that a
\* failing service.New leaves behind is not released while the process runs.
THEOREM PortHandoverAlways == Spec => PortHandover
<1> DEFINE A == \A p \in Ports :
                  /\ udp[p] \notin {NoNet, Leaked} /\ udp'[p] # udp[p] => udp'[p] \in {NoNet, Leaked}
                  /\ up' /\ udp[p] = Leaked => udp'[p] = Leaked
<1>1. ASSUME IInv, [Next]_vars PROVE [A]_vars
  <2>1. ASSUME NEW t \in Threads, Step(t) PROVE A
    <3>1. CASE NebulaMain(t)
      BY <1>1, <3>1, Consts DEF NebulaMain, IInv, TypeOK
    <3>2. CASE ServiceNewFails(t)
      BY <1>1, <3>2, Consts DEF ServiceNewFails, IInv, TypeOK
    <3>3. CASE CloseInstance(t)
      <4>1. th[t].net \in Networks /\ udp[port[th[t].net]] = th[t].net
        BY <1>1, <3>3, Zenon DEF CloseInstance, At, IInv, Locals, SoleOwner, Holding
      <4>2. udp' = [udp EXCEPT ![port[th[t].net]] = NoNet]
        BY <3>3, Zenon DEF CloseInstance
      <4> QED  BY <1>1, <4>1, <4>2, Consts DEF IInv, TypeOK
    <3>4. CASE UNCHANGED udp
      BY <3>4, Zenon
    <3> QED
      BY <2>1, <3>1, <3>2, <3>3, <3>4, Zenon DEF Step, CreateRow, StartNetwork, NebulaMainFails,
         RemoveSentinel, InsertInstance, WriteRecords, RefreshDNS, RefreshDNSSet, DeleteNodes, DeleteRow
  <2>2. ASSUME NEW t \in Handlers, NEW n \in Networks, Request(t, n) PROVE A
    BY <2>2, Zenon DEF Request, CreateAllocate, GetInstance, ChangeRecords, DeleteNetwork
  <2>3. ASSUME NEW n \in Networks, PruneNodes(n) \/ ReapCandidate(n) PROVE A
    BY <2>3, Zenon DEF PruneNodes, ReapCandidate
  <2>4. ASSUME ReapStep PROVE A
    BY <2>4, Zenon DEF ReapStep, ReapDecides, ReapKeeps, ReapStop
  <2>5. ASSUME Crash \/ NewNetworkManager PROVE A
    <3>1. CASE Crash
      BY <3>1, Zenon DEF Crash
    <3>2. CASE NewNetworkManager
      BY <1>1, <3>2, Consts, Zenon DEF NewNetworkManager, IInv, DownIsEmpty
    <3> QED  BY <2>5, <3>1, <3>2, Zenon
  <2> QED  BY <1>1, <2>1, <2>2, <2>3, <2>4, <2>5, Zenon DEF Next
<1> QED  BY <1>1, Invariance, PTL DEF Spec, PortHandover

-----------------------------------------------------------------------------
\* Enrollment.

Claimed(c) == code[c].status \in {"completed", "gone"}

\* A poll that holds the claim of its code and has not inserted a row yet.
Holds(r, c) == req[r].kind = "poll" /\ req[r].code = c /\ req[r].pc \in {"load", "index", "insert"}

\* A request that is going to hand out the credentials of node n.
Has(r, n) == req[r].pc # "idle" /\ req[r].node = n

\* What a request knows at each program counter.
LocalRec(q) ==
    /\ q.pc \in {"issue", "complete", "bundle", "record", "reply", "serve"} => q.node \in Nodes
    /\ q.pc = "load" /\ q.kind # "poll" => q.node \in Nodes
    /\ q.pc \in {"claim", "index", "insert"} => q.node = "none"
    /\ q.pc = "load" /\ q.kind = "poll" => q.node = "none"
    /\ q.kind = "poll" => q.code \in Codes
    /\ q.pc = "claim" => q.kind = "poll"
    /\ q.node \in Nodes => row[q.node].status # "fresh"
    /\ q.node \in Nodes /\ q.pc # "serve" => row[q.node].ip = q.ip
    /\ q.pc \in {"bundle", "record", "reply", "serve"} => row[q.node].status # "pending"

EnrollLocal == \A r \in Requests : LocalRec(req[r])

\* A code makes a row only through the one poll that holds its claim.
Claims ==
    \A c \in Codes :
        /\ ~Claimed(c) => made[c] = {}
        /\ \A r \in Requests : Holds(r, c) => Claimed(c) /\ made[c] = {}
        /\ \A r, s \in Requests : Holds(r, c) /\ Holds(s, c) => r = s

\* There is one way, at most, by which the credentials of n may still be handed out.
OneSource ==
    \A n \in Nodes :
        /\ row[n].status = "fresh" => given[n] = 0 /\ token[n] = "none" /\ bundle[n] = "none"
        /\ token[n] = "open" => given[n] = 0 /\ bundle[n] = "none"
        /\ bundle[n] = "open" => given[n] = 0 /\ row[n].status # "pending"
        /\ \A r \in Requests : Has(r, n) => given[n] = 0 /\ token[n] # "open" /\ bundle[n] = "none"
        /\ \A r, s \in Requests : Has(r, n) /\ Has(s, n) => r = s

CertRows == \A x \in certs : row[x[1]].status \in {"enrolled", "deleted"} /\ row[x[1]].ip = x[2]

EnrollInv ==
    /\ EnrollTypeOK
    /\ EnrollLocal
    /\ Claims
    /\ OneNodePerCode
    /\ OneSource
    /\ GivenOnce
    /\ CertRows
    /\ AddressesDiffer

-----------------------------------------------------------------------------
Rest == <<code, row, token, bundle, made, given, certs>>

Moved(r, q) == req' = [req EXCEPT ![r] = q] /\ UNCHANGED Rest

\* A step that moves only request r (the checks, the errors and the end of every
\* handler) keeps the invariant when r gains neither a claim nor a node.
LEMMA MovedStep ==
    ASSUME EnrollInv, NEW r \in Requests, NEW q \in ReqType, Moved(r, q), LocalRec(q),
           q.pc # "idle" /\ q.node \in Nodes => Has(r, q.node),
           \A c \in Codes : q.kind = "poll" /\ q.code = c /\ q.pc \in {"load", "index", "insert"}
                                => Holds(r, c)
    PROVE  EnrollInv'
<1>1. /\ req' = [req EXCEPT ![r] = q]
      /\ code' = code /\ row' = row /\ token' = token /\ bundle' = bundle
      /\ made' = made /\ given' = given /\ certs' = certs
      /\ req \in [Requests -> ReqType]
  BY Zenon DEF Moved, Rest, EnrollInv, EnrollTypeOK
<1>2. EnrollTypeOK'
  BY <1>1, ZenonT(40) DEF EnrollInv, EnrollTypeOK, CodeType
<1>3. EnrollLocal'
  BY <1>1, SMTT(20) DEF EnrollInv, EnrollLocal, LocalRec
<1>4. Claims'
  BY <1>1 DEF EnrollInv, Claims, Holds, Claimed, CodeType
<1>5. OneSource'
  BY <1>1 DEF EnrollInv, OneSource, Has
<1>6. OneNodePerCode' /\ GivenOnce' /\ CertRows' /\ AddressesDiffer'
  BY <1>1, Zenon DEF EnrollInv, OneNodePerCode, GivenOnce, CertRows, AddressesDiffer, Exists
<1>7. QED
  BY <1>2, <1>3, <1>4, <1>5, <1>6, Zenon DEF EnrollInv

\* A request that ends, with an error or without, keeps the invariant.
LEMMA FailStep ==
    ASSUME EnrollInv, NEW r \in Requests, Fail(r)
    PROVE  EnrollInv'
<1>1. IdleReq \in ReqType /\ LocalRec(IdleReq) /\ Moved(r, IdleReq)
  BY HostAssumption, NoneAssumption DEF IdleReq, State, ReqType, LocalRec, Moved, Rest, Fail, ReqBecomes
<1>2. QED
  BY <1>1, MovedStep, Zenon DEF IdleReq, State

\* Poll finds the code authorized; it has no claim yet.
LEMMA PollStep ==
    ASSUME EnrollInv, NEW r \in Requests, NEW c \in Codes, Poll(r, c)
    PROVE  EnrollInv'
<1> DEFINE q == [pc |-> "claim", kind |-> "poll", code |-> c, node |-> "none", ip |-> 0]
<1>1. Moved(r, q)
  BY Zenon DEF State, Poll, Moved, Rest, ReqBecomes
<1>2. q \in ReqType /\ LocalRec(q)
  BY HostAssumption, NoneAssumption DEF ReqType, LocalRec
<1>3. QED
  BY <1>1, <1>2, MovedStep, NoneAssumption, Zenon

\* CreateNode, JoinNetwork and CreateBundle pass their checks.
LEMMA RequestStep ==
    ASSUME EnrollInv, NEW r \in Requests, NewNodeRequest(r)
    PROVE  EnrollInv'
<1>1. PICK k \in {"create", "join", "bundle"} :
        ReqBecomes(r, State("index", k, "none", "none", 0)) /\ UNCHANGED Rest
  BY Zenon DEF NewNodeRequest, Rest
<1> DEFINE q == [pc |-> "index", kind |-> k, code |-> "none", node |-> "none", ip |-> 0]
<1>2. Moved(r, q)
  BY <1>1, Zenon DEF State, Moved, ReqBecomes
<1>3. q \in ReqType /\ LocalRec(q)
  BY HostAssumption, NoneAssumption DEF ReqType, LocalRec
<1>4. QED
  BY <1>2, <1>3, MovedStep, NoneAssumption, Zenon

\* Poll and Enroll go on with the network, or give up.
LEMMA LoadStep ==
    ASSUME EnrollInv, NEW r \in Requests, Load(r)
    PROVE  EnrollInv'
<1> DEFINE q == [req[r] EXCEPT !.pc = IF req[r].kind = "poll" THEN "index" ELSE "issue"]
<1>1. req[r] \in ReqType /\ LocalRec(req[r]) /\ req[r].pc = "load"
  BY Zenon DEF EnrollInv, EnrollTypeOK, EnrollLocal, Load, ReqAt
<1>2. CASE Moved(r, q)
  <2>1. q \in ReqType /\ LocalRec(q)
    BY <1>1, <1>2, HostAssumption, NoneAssumption DEF ReqType, LocalRec, Hosts
  <2>2. QED
    BY <1>1, <1>2, <2>1, MovedStep, NoneAssumption DEF Has, Holds, ReqType, LocalRec
<1>3. CASE Fail(r)
  BY <1>3, FailStep, Zenon
<1>4. QED
  BY <1>2, <1>3, Zenon DEF Load, Moved, ReqGoto, ReqBecomes, Rest

\* The address is chosen; nothing is reserved.
LEMMA NextNodeIndexStep ==
    ASSUME EnrollInv, NEW r \in Requests, NextNodeIndex(r)
    PROVE  EnrollInv'
<1>1. req[r] \in ReqType /\ LocalRec(req[r]) /\ req[r].pc = "index"
  BY Zenon DEF EnrollInv, EnrollTypeOK, EnrollLocal, NextNodeIndex, ReqAt
<1>2. PICK h \in Hosts : Moved(r, [req[r] EXCEPT !.pc = "insert", !.ip = h])
  BY Zenon DEF NextNodeIndex, Moved, ReqBecomes, Rest
<1> DEFINE q == [req[r] EXCEPT !.pc = "insert", !.ip = h]
<1>3. h \in 0..MaxHost
  BY HostAssumption DEF Hosts
<1>4. /\ q \in ReqType
      /\ q.pc = "insert" /\ q.ip = h /\ q.node = req[r].node
      /\ q.kind = req[r].kind /\ q.code = req[r].code
  BY <1>1, <1>3, Zenon DEF ReqType
<1> HIDE DEF q
<1>5. LocalRec(q)
  BY <1>1, <1>4, NoneAssumption, Zenon DEF LocalRec
<1>6. Moved(r, q)
  BY <1>2, Zenon DEF q
<1>7. q.pc # "idle" /\ q.node \in Nodes => Has(r, q.node)
  BY <1>1, <1>4, Zenon DEF Has
<1>8. \A c \in Codes : q.kind = "poll" /\ q.code = c /\ q.pc \in {"load", "index", "insert"} => Holds(r, c)
  BY <1>1, <1>4, Zenon DEF Holds
<1>9. QED
  BY <1>4, <1>5, <1>6, <1>7, <1>8, MovedStep, Zenon

\* The certificate is issued, or not.
LEMMA IssueCertStep ==
    ASSUME EnrollInv, NEW r \in Requests, IssueCert(r)
    PROVE  EnrollInv'
<1> DEFINE q == [req[r] EXCEPT !.pc = "complete"]
<1>1. req[r] \in ReqType /\ LocalRec(req[r]) /\ req[r].pc = "issue"
  BY Zenon DEF EnrollInv, EnrollTypeOK, EnrollLocal, IssueCert, ReqAt
<1>2. CASE Moved(r, q)
  <2>1. q \in ReqType /\ LocalRec(q)
    BY <1>1, <1>2, HostAssumption, NoneAssumption, Zenon DEF ReqType, LocalRec, Hosts
  <2>2. QED
    BY <1>1, <1>2, <2>1, MovedStep, NoneAssumption DEF Has, Holds, ReqType, LocalRec
<1>3. CASE Fail(r)
  BY <1>3, FailStep
<1>4. QED
  BY <1>2, <1>3, Zenon DEF IssueCert, Moved, ReqGoto, ReqBecomes, Rest

\* The steps of a device code itself: requested, authorized, cleaned up.
LEMMA SetStatusStep ==
    ASSUME EnrollInv, NEW c \in Codes,
           NEW s \in {"pending", "authorized", "gone"}, s # "gone" => ~Claimed(c), SetStatus(c, s)
    PROVE  EnrollInv'
<1>1. /\ code' = [code EXCEPT ![c].status = s]
      /\ code \in [Codes -> CodeType]
      /\ row' = row /\ token' = token /\ bundle' = bundle /\ req' = req
      /\ made' = made /\ given' = given /\ certs' = certs
      /\ s # "gone" => ~Claimed(c)
  BY Zenon DEF SetStatus, EnrollInv, EnrollTypeOK
<1>2. EnrollTypeOK'
  <2>1. code' \in [Codes -> CodeType]
    BY <1>1 DEF CodeType
  <2> QED  BY <1>1, <2>1, Zenon DEF EnrollInv, EnrollTypeOK
<1>3. EnrollLocal'
  BY <1>1, Zenon DEF EnrollInv, EnrollLocal, LocalRec
<1>4. Claims'
  BY <1>1 DEF EnrollInv, Claims, Holds, Claimed, CodeType
<1>5. OneNodePerCode'
  BY <1>1, Zenon DEF EnrollInv, OneNodePerCode, Claims, Holds, Claimed
<1>6. OneSource'
  BY <1>1 DEF EnrollInv, OneSource, Has
<1>7. GivenOnce'
  BY <1>1, Zenon DEF EnrollInv, GivenOnce, OneSource, Has
<1>8. CertRows'
  BY <1>1, Zenon DEF EnrollInv, CertRows
<1>9. AddressesDiffer'
  BY <1>1, Zenon DEF EnrollInv, AddressesDiffer, Exists, Addresses
<1>10. QED
  BY <1>2, <1>3, <1>4, <1>5, <1>6, <1>7, <1>8, <1>9, Zenon DEF EnrollInv

\* A device code expires.
LEMMA ExpireStep ==
    ASSUME EnrollInv, NEW c \in Codes, Expire(c)
    PROVE  EnrollInv'
<1>1. /\ code' = [code EXCEPT ![c].expired = TRUE]
      /\ code \in [Codes -> CodeType]
      /\ row' = row /\ token' = token /\ bundle' = bundle /\ req' = req
      /\ made' = made /\ given' = given /\ certs' = certs
  BY Zenon DEF Expire, EnrollInv, EnrollTypeOK
<1>2. EnrollTypeOK'
  <2>1. code' \in [Codes -> CodeType]
    BY <1>1, ZenonT(40) DEF CodeType
  <2> QED  BY <1>1, <2>1, Zenon DEF EnrollInv, EnrollTypeOK
<1>3. EnrollLocal'
  BY <1>1, Zenon DEF EnrollInv, EnrollLocal, LocalRec
<1>4. Claims'
  BY <1>1 DEF EnrollInv, Claims, Holds, Claimed, CodeType
<1>5. OneNodePerCode'
  BY <1>1, Zenon DEF EnrollInv, OneNodePerCode, Claims, Holds, Claimed
<1>6. OneSource'
  BY <1>1 DEF EnrollInv, OneSource, Has
<1>7. GivenOnce'
  BY <1>1, Zenon DEF EnrollInv, GivenOnce, OneSource, Has
<1>8. CertRows'
  BY <1>1, Zenon DEF EnrollInv, CertRows
<1>9. AddressesDiffer'
  BY <1>1, Zenon DEF EnrollInv, AddressesDiffer, Exists, Addresses
<1>10. QED
  BY <1>2, <1>3, <1>4, <1>5, <1>6, <1>7, <1>8, <1>9, Zenon DEF EnrollInv

\* The claim of a token moves the one source of n from the token to the request.
LEMMA EnrollStep ==
    ASSUME EnrollInv, NEW r \in Requests, NEW n \in Nodes, Enroll(r, n)
    PROVE  EnrollInv'
<1>1. /\ req' = [req EXCEPT ![r] = [pc |-> "load", kind |-> "enroll", code |-> "none", node |-> n, ip |-> row[n].ip]]
      /\ token' = [token EXCEPT ![n] = "none"]
      /\ token[n] = "open"
      /\ req[r].pc = "idle"
      /\ row[n].ip \in 0..MaxHost
      /\ req \in [Requests -> ReqType]
      /\ code' = code /\ row' = row /\ bundle' = bundle
      /\ made' = made /\ given' = given /\ certs' = certs
  BY Zenon DEF State, Enroll, ReqBecomes, ReqAt, EnrollInv, EnrollTypeOK
<1>2. EnrollTypeOK'
  BY <1>1, Zenon DEF EnrollInv, EnrollTypeOK, ReqType
<1>3. EnrollLocal'
  BY <1>1, NoneAssumption, ZenonT(40) DEF EnrollInv, EnrollLocal, LocalRec, OneSource
<1>4. Claims'
  BY <1>1 DEF EnrollInv, Claims, Holds, Claimed, CodeType
<1>5. OneNodePerCode'
  BY <1>1, SMTT(20) DEF EnrollInv, OneNodePerCode, Claims, Holds, Claimed
<1>6. OneSource'
  BY <1>1, NoneAssumption DEF EnrollInv, OneSource, Has, EnrollTypeOK
<1>7. GivenOnce'
  BY <1>1, Zenon DEF EnrollInv, GivenOnce, OneSource, Has
<1>8. CertRows'
  BY <1>1, Zenon DEF EnrollInv, CertRows
<1>9. AddressesDiffer'
  BY <1>1, Zenon DEF EnrollInv, AddressesDiffer, Exists, Addresses
<1>10. QED
  BY <1>2, <1>3, <1>4, <1>5, <1>6, <1>7, <1>8, <1>9, Zenon DEF EnrollInv

\* A token expires.
LEMMA ExpireTokenStep ==
    ASSUME EnrollInv, NEW n \in Nodes, ExpireToken(n)
    PROVE  EnrollInv'
<1>1. /\ token' = [token EXCEPT ![n] = "expired"]
      /\ token[n] = "open"
      /\ code' = code /\ row' = row /\ bundle' = bundle /\ req' = req
      /\ made' = made /\ given' = given /\ certs' = certs
  BY Zenon DEF ExpireToken
<1>2. EnrollTypeOK'
  BY <1>1, Zenon DEF EnrollInv, EnrollTypeOK, CodeType
<1>3. EnrollLocal'
  BY <1>1, Zenon DEF EnrollInv, EnrollLocal, LocalRec
<1>4. Claims'
  BY <1>1, Zenon DEF EnrollInv, Claims, Holds, Claimed, CodeType
<1>5. OneNodePerCode'
  BY <1>1 DEF EnrollInv, OneNodePerCode, Claims, Holds, Claimed
<1>6. OneSource'
  BY <1>1 DEF EnrollInv, OneSource, Has, EnrollTypeOK
<1>7. GivenOnce'
  BY <1>1, Zenon DEF EnrollInv, GivenOnce, OneSource, Has
<1>8. CertRows'
  BY <1>1, Zenon DEF EnrollInv, CertRows
<1>9. AddressesDiffer'
  BY <1>1, Zenon DEF EnrollInv, AddressesDiffer, Exists, Addresses
<1>10. QED
  BY <1>2, <1>3, <1>4, <1>5, <1>6, <1>7, <1>8, <1>9 DEF EnrollInv

\* A bundle expires.
LEMMA ExpireBundleStep ==
    ASSUME EnrollInv, NEW n \in Nodes, ExpireBundle(n)
    PROVE  EnrollInv'
<1>1. /\ bundle' = [bundle EXCEPT ![n] = "none"]
      /\ code' = code /\ row' = row /\ token' = token /\ req' = req
      /\ made' = made /\ given' = given /\ certs' = certs
  BY Zenon DEF ExpireBundle
<1>2. EnrollTypeOK'
  BY <1>1, ZenonT(40) DEF EnrollInv, EnrollTypeOK, CodeType
<1>3. EnrollLocal'
  BY <1>1 DEF EnrollInv, EnrollLocal, LocalRec
<1>4. Claims'
  BY <1>1 DEF EnrollInv, Claims, Holds, Claimed, CodeType
<1>5. OneNodePerCode'
  BY <1>1, Zenon DEF EnrollInv, OneNodePerCode, Claims, Holds, Claimed
<1>6. OneSource'
  BY <1>1 DEF EnrollInv, OneSource, Has, EnrollTypeOK
<1>7. GivenOnce'
  BY <1>1, Zenon DEF EnrollInv, GivenOnce, OneSource, Has
<1>8. CertRows'
  BY <1>1, Zenon DEF EnrollInv, CertRows
<1>9. AddressesDiffer'
  BY <1>1, Zenon DEF EnrollInv, AddressesDiffer, Exists, Addresses
<1>10. QED
  BY <1>2, <1>3, <1>4, <1>5, <1>6, <1>7, <1>8, <1>9 DEF EnrollInv

\* A row is deleted; a certificate for it stays in use.
LEMMA DeleteNodeStep ==
    ASSUME EnrollInv, NEW n \in Nodes, DeleteNode(n)
    PROVE  EnrollInv'
<1>1. /\ row' = [row EXCEPT ![n].status = "deleted"]
      /\ token' = [token EXCEPT ![n] = "none"]
      /\ row[n].status \in {"pending", "enrolled"}
      /\ code' = code /\ bundle' = bundle /\ req' = req
      /\ made' = made /\ given' = given /\ certs' = certs
  BY Zenon DEF DeleteNode, Exists
<1>2. EnrollTypeOK'
  BY <1>1 DEF EnrollInv, EnrollTypeOK, CodeType
<1>3. EnrollLocal'
  BY <1>1 DEF EnrollInv, EnrollLocal, LocalRec, EnrollTypeOK, ReqType
<1>4. Claims'
  BY <1>1 DEF EnrollInv, Claims, Holds, Claimed, CodeType
<1>5. OneNodePerCode'
  BY <1>1 DEF EnrollInv, OneNodePerCode, Claims, Holds, Claimed
<1>6. OneSource'
  BY <1>1 DEF EnrollInv, OneSource, Has, EnrollTypeOK
<1>7. GivenOnce'
  BY <1>1, Zenon DEF EnrollInv, GivenOnce, OneSource, Has
<1>8. CertRows'
  BY <1>1 DEF EnrollInv, CertRows, EnrollTypeOK
<1>9. AddressesDiffer'
  BY <1>1 DEF EnrollInv, AddressesDiffer, Exists, Addresses, EnrollTypeOK
<1>10. QED
  BY <1>2, <1>3, <1>4, <1>5, <1>6, <1>7, <1>8, <1>9 DEF EnrollInv

\* A certificate expires.
LEMMA CertExpiresStep ==
    ASSUME EnrollInv, NEW x \in certs, CertExpires(x)
    PROVE  EnrollInv'
<1>1. /\ certs' = certs \ {x}
      /\ code' = code /\ row' = row /\ token' = token /\ bundle' = bundle /\ req' = req
      /\ made' = made /\ given' = given
  BY Zenon DEF CertExpires
<1>2. EnrollTypeOK'
  BY <1>1, ZenonT(40) DEF EnrollInv, EnrollTypeOK, CodeType
<1>3. EnrollLocal'
  BY <1>1 DEF EnrollInv, EnrollLocal, LocalRec
<1>4. Claims'
  BY <1>1 DEF EnrollInv, Claims, Holds, Claimed, CodeType
<1>5. OneNodePerCode'
  BY <1>1, Zenon DEF EnrollInv, OneNodePerCode, Claims, Holds, Claimed
<1>6. OneSource'
  BY <1>1 DEF EnrollInv, OneSource, Has
<1>7. GivenOnce'
  BY <1>1, Zenon DEF EnrollInv, GivenOnce, OneSource, Has
<1>8. CertRows'
  BY <1>1, Zenon DEF EnrollInv, CertRows
<1>9. AddressesDiffer'
  BY <1>1, Zenon DEF EnrollInv, AddressesDiffer, Exists, Addresses
<1>10. QED
  BY <1>2, <1>3, <1>4, <1>5, <1>6, <1>7, <1>8, <1>9, Zenon DEF EnrollInv

\* SetNodeID writes at most node ids of codes.
LEMMA SetNodeIDStep ==
    ASSUME EnrollInv, NEW r \in Requests, SetNodeID(r)
    PROVE  EnrollInv'
<1>1. /\ req' = [req EXCEPT ![r] = [req[r] EXCEPT !.pc = "reply"]]
      /\ req[r] \in ReqType /\ req[r].pc = "record"
      /\ code' \in [Codes -> CodeType]
      /\ \A c \in Codes : code'[c].status = code[c].status
      /\ req \in [Requests -> ReqType]
      /\ row' = row /\ token' = token /\ bundle' = bundle
      /\ made' = made /\ given' = given /\ certs' = certs
  <2>1. req[r].node \in Nodes /\ req \in [Requests -> ReqType] /\ req[r].pc = "record"
    BY Zenon DEF SetNodeID, ReqAt, EnrollInv, EnrollTypeOK, EnrollLocal, LocalRec
  <2> DEFINE hit(c) == hashDeviceCode(c) = hashDeviceCode(hashDeviceCode(req[r].code))
  <2>2. code' = [c \in Codes |-> IF hit(c) THEN [code[c] EXCEPT !.node = req[r].node] ELSE code[c]]
    BY Zenon DEF SetNodeID
  <2> HIDE DEF hit
  <2>3. code \in [Codes -> CodeType]
    BY Zenon DEF EnrollInv, EnrollTypeOK
  <2>4. \A c \in Codes : /\ code'[c].status = code[c].status
                         /\ code'[c] \in CodeType
    BY <2>1, <2>2, <2>3 DEF CodeType
  <2>5. code' \in [Codes -> CodeType]
    BY <2>2, <2>4, Zenon
  <2>6. QED
    BY <2>1, <2>4, <2>5, Zenon DEF SetNodeID, ReqGoto, ReqBecomes
<1>2. EnrollTypeOK'
  BY <1>1, Zenon DEF EnrollInv, EnrollTypeOK, ReqType
<1>3. EnrollLocal'
  BY <1>1 DEF EnrollInv, EnrollLocal, LocalRec, ReqType
<1>4. Claims'
  BY <1>1 DEF EnrollInv, Claims, Holds, Claimed, ReqType
<1>5. OneNodePerCode'
  BY <1>1 DEF EnrollInv, OneNodePerCode, Claims, Holds, Claimed
<1>6. OneSource'
  BY <1>1 DEF EnrollInv, OneSource, Has, ReqType
<1>7. GivenOnce'
  BY <1>1, Zenon DEF EnrollInv, GivenOnce, OneSource, Has
<1>8. CertRows'
  BY <1>1, Zenon DEF EnrollInv, CertRows
<1>9. AddressesDiffer'
  BY <1>1, Zenon DEF EnrollInv, AddressesDiffer, Exists, Addresses
<1>10. QED
  BY <1>2, <1>3, <1>4, <1>5, <1>6, <1>7, <1>8, <1>9 DEF EnrollInv

\* The claim of a bundle moves the one source of n to the request.
LEMMA DownloadBundleStep ==
    ASSUME EnrollInv, NEW r \in Requests, NEW n \in Nodes, DownloadBundle(r, n)
    PROVE  EnrollInv'
<1>1. /\ req' = [req EXCEPT ![r] = [pc |-> "serve", kind |-> "download", code |-> "none", node |-> n, ip |-> 0]]
      /\ bundle' = [bundle EXCEPT ![n] = "none"]
      /\ bundle[n] = "open"
      /\ req[r].pc = "idle"
      /\ req \in [Requests -> ReqType]
      /\ code' = code /\ row' = row /\ token' = token
      /\ made' = made /\ given' = given /\ certs' = certs
  BY Zenon DEF State, DownloadBundle, ReqBecomes, ReqAt, EnrollInv, EnrollTypeOK
<1>2. EnrollTypeOK'
  BY <1>1, HostAssumption DEF EnrollInv, EnrollTypeOK, ReqType
<1>3. EnrollLocal'
  <2>1. row[n].status \notin {"fresh", "pending"}
    BY <1>1, ZenonT(40) DEF EnrollInv, OneSource
  <2>2. LocalRec(req[r])'
    BY <1>1, <2>1, NoneAssumption DEF LocalRec, EnrollInv, EnrollTypeOK
  <2>3. ASSUME NEW s \in Requests, s # r PROVE LocalRec(req[s])'
    <3>1. LocalRec(req[s]) /\ req'[s] = req[s]
      BY <1>1, <2>3, ZenonT(40) DEF EnrollInv, EnrollLocal
    <3> QED  BY <1>1, <3>1, Zenon DEF LocalRec
  <2> QED  BY <2>2, <2>3, Zenon DEF EnrollLocal
<1>4. Claims'
  BY <1>1 DEF EnrollInv, Claims, Holds, Claimed, CodeType
<1>5. OneNodePerCode'
  BY <1>1, SMTT(20) DEF EnrollInv, OneNodePerCode, Claims, Holds, Claimed
<1>6. OneSource'
  BY <1>1, NoneAssumption DEF EnrollInv, OneSource, Has, EnrollTypeOK
<1>7. GivenOnce'
  BY <1>1, Zenon DEF EnrollInv, GivenOnce, OneSource, Has
<1>8. CertRows'
  BY <1>1, Zenon DEF EnrollInv, CertRows
<1>9. AddressesDiffer'
  BY <1>1, Zenon DEF EnrollInv, AddressesDiffer, Exists, Addresses
<1>10. QED
  BY <1>2, <1>3, <1>4, <1>5, <1>6, <1>7, <1>8, <1>9 DEF EnrollInv

\* The claim makes r the only poll that holds its code.
LEMMA ClaimAuthorizedStep ==
    ASSUME EnrollInv, NEW r \in Requests, ClaimAuthorized(r)
    PROVE  EnrollInv'
<1>1. CASE Fail(r)
  BY <1>1, FailStep
<1>2. CASE ~Fail(r)
  <2>1. /\ code' = [code EXCEPT ![req[r].code].status = "completed"]
        /\ req' = [req EXCEPT ![r] = [req[r] EXCEPT !.pc = "load"]]
        /\ code[req[r].code].status = "authorized" /\ req[r].code \in Codes
        /\ req[r] \in ReqType /\ req[r].pc = "claim" /\ req[r].kind = "poll" /\ req[r].node = "none"
        /\ req \in [Requests -> ReqType]
        /\ code \in [Codes -> CodeType]
        /\ row' = row /\ token' = token /\ bundle' = bundle
        /\ made' = made /\ given' = given /\ certs' = certs
    BY <1>2, Zenon DEF ClaimAuthorized, ReqGoto, ReqBecomes, ReqAt, EnrollInv, EnrollTypeOK, EnrollLocal, LocalRec
  <2>2. EnrollTypeOK'
    <3>1. code' \in [Codes -> CodeType]
      BY <2>1 DEF CodeType
    <3>2. req' \in [Requests -> ReqType]
      BY <2>1, Zenon DEF ReqType
    <3>3. QED
      BY <2>1, <3>1, <3>2, Zenon DEF EnrollInv, EnrollTypeOK
  <2>3. EnrollLocal'
    BY <2>1, NoneAssumption DEF EnrollInv, EnrollLocal, LocalRec, ReqType
  <2>4. Claims'
    BY <2>1 DEF EnrollInv, Claims, Holds, Claimed, CodeType, ReqType
  <2>5. OneNodePerCode'
    BY <2>1 DEF EnrollInv, OneNodePerCode, Claims, Holds, Claimed
  <2>6. OneSource'
    BY <2>1, NoneAssumption DEF EnrollInv, OneSource, Has, ReqType
  <2>7. GivenOnce'
    BY <2>1, Zenon DEF EnrollInv, GivenOnce, OneSource, Has
  <2>8. CertRows'
    BY <2>1, Zenon DEF EnrollInv, CertRows
  <2>9. AddressesDiffer'
    BY <2>1, Zenon DEF EnrollInv, AddressesDiffer, Exists
  <2>10. QED
    BY <2>2, <2>3, <2>4, <2>5, <2>6, <2>7, <2>8, <2>9 DEF EnrollInv
<1>3. QED
  BY <1>1, <1>2, Zenon

\* The update enrolls the row if it is still there.
LEMMA CompleteEnrollmentStep ==
    ASSUME EnrollInv, NEW r \in Requests, CompleteEnrollment(r)
    PROVE  EnrollInv'
<1>1. CASE Fail(r)
  BY <1>1, FailStep
<1>2. CASE ~Fail(r)
  <2> DEFINE n == req[r].node
             q == [req[r] EXCEPT !.pc = AfterUpdate(req[r].kind)]
  <2>0. /\ req[r] \in ReqType /\ req[r].pc = "complete" /\ n \in Nodes
        /\ AfterUpdate(req[r].kind) \in {"record", "bundle", "reply"}
    BY Zenon DEF CompleteEnrollment, ReqAt, EnrollInv, EnrollTypeOK, EnrollLocal, LocalRec, AfterUpdate
  <2>a. /\ q \in ReqType /\ q.pc \in {"record", "bundle", "reply"} /\ q.node = n
        /\ q.ip = req[r].ip /\ q.kind = req[r].kind /\ q.code = req[r].code
    BY <2>0, Zenon DEF ReqType
  <2>b. req' = [req EXCEPT ![r] = q]
    BY <1>2, <2>0, Zenon DEF CompleteEnrollment, ReqGoto, ReqBecomes
  <2> HIDE DEF q
  <2>1. /\ row' = [row EXCEPT ![n].status = IF Exists(n) THEN "enrolled" ELSE row[n].status]
        /\ row[n] \in [status : {"fresh", "pending", "enrolled", "deleted"}, ip : 0..MaxHost]
        /\ n \in Nodes /\ row[n].status # "fresh" /\ req[r].node = n /\ row[n].ip = req[r].ip /\ req[r].pc = "complete"
        /\ req[r].kind = "poll" => req[r].code \in Codes
        /\ req \in [Requests -> ReqType]
        /\ code' = code /\ token' = token /\ bundle' = bundle
        /\ made' = made /\ given' = given /\ certs' = certs
    BY <1>2, <2>0, Zenon DEF CompleteEnrollment, EnrollInv, EnrollTypeOK, EnrollLocal, LocalRec
  <2>2. EnrollTypeOK'
    BY <2>1, <2>a, <2>b, Zenon DEF EnrollInv, EnrollTypeOK, Exists
  <2>3. EnrollLocal'
    BY <2>1, <2>a, <2>b DEF EnrollInv, EnrollLocal, LocalRec, EnrollTypeOK, ReqType, Exists
  <2>4. Claims'
    BY <2>1, <2>a, <2>b DEF EnrollInv, Claims, Holds, Claimed, EnrollTypeOK
  <2>5. OneNodePerCode'
    BY <2>1 DEF EnrollInv, OneNodePerCode, Claims, Holds, Claimed
  <2>6. OneSource'
    BY <2>1, <2>a, <2>b DEF EnrollInv, OneSource, Has, EnrollTypeOK, Exists
  <2>7. GivenOnce'
    BY <2>1, Zenon DEF EnrollInv, GivenOnce, OneSource, Has
  <2>8. CertRows'
    BY <2>1, <2>a, <2>b DEF EnrollInv, CertRows, EnrollTypeOK, Exists
  <2>9. AddressesDiffer'
    BY <2>1, <2>a, <2>b DEF EnrollInv, AddressesDiffer, Exists, EnrollTypeOK
  <2>10. QED
    BY <2>2, <2>3, <2>4, <2>5, <2>6, <2>7, <2>8, <2>9 DEF EnrollInv
<1>3. QED
  BY <1>1, <1>2

\* The bundle becomes the one source of its node.
LEMMA CreateBundleStep ==
    ASSUME EnrollInv, NEW r \in Requests, CreateBundle(r)
    PROVE  EnrollInv'
<1>1. CASE Fail(r)
  BY <1>1, FailStep
<1>2. CASE ~Fail(r)
  <2>1. /\ bundle' = [bundle EXCEPT ![req[r].node] = "open"]
        /\ req' = [req EXCEPT ![r] = IdleReq]
        /\ IdleReq \in ReqType /\ IdleReq.pc = "idle" /\ IdleReq.node = "none" /\ IdleReq.kind = "none"
        /\ req[r].node \in Nodes /\ req[r].pc = "bundle" /\ row[req[r].node].status \notin {"fresh", "pending"}
        /\ req \in [Requests -> ReqType]
        /\ code' = code /\ row' = row /\ token' = token
        /\ made' = made /\ given' = given /\ certs' = certs
    <3>1. IdleReq \in ReqType /\ IdleReq.pc = "idle" /\ IdleReq.node = "none" /\ IdleReq.kind = "none"
      BY HostAssumption DEF IdleReq, State, ReqType
    <3>2. req \in [Requests -> ReqType] /\ LocalRec(req[r])
      BY Zenon DEF EnrollInv, EnrollTypeOK, EnrollLocal
    <3>3. req[r].pc = "bundle"
      BY Zenon DEF CreateBundle, ReqAt
    <3>4. req[r].node \in Nodes /\ row[req[r].node].status \notin {"fresh", "pending"}
      BY <3>2, <3>3, Zenon DEF LocalRec
    <3>5. /\ bundle' = [bundle EXCEPT ![req[r].node] = "open"] /\ req' = [req EXCEPT ![r] = IdleReq]
          /\ UNCHANGED <<code, row, token, made, given, certs>>
      BY <1>2, Zenon DEF CreateBundle, ReqBecomes
    <3> QED  BY <3>1, <3>2, <3>3, <3>4, <3>5, Zenon
  <2>2. EnrollTypeOK'
    BY <2>1, ZenonT(40) DEF EnrollInv, EnrollTypeOK
  <2>3. EnrollLocal'
    BY <2>1, NoneAssumption DEF EnrollInv, EnrollLocal, LocalRec
  <2>4. Claims'
    BY <2>1 DEF EnrollInv, Claims, Holds, Claimed
  <2>5. OneNodePerCode'
    BY <2>1, SMTT(20) DEF EnrollInv, OneNodePerCode, Claims, Holds, Claimed
  <2>6. OneSource'
    BY <2>1 DEF EnrollInv, OneSource, Has, EnrollTypeOK
  <2>7. GivenOnce'
    BY <2>1, Zenon DEF EnrollInv, GivenOnce, OneSource, Has
  <2>8. CertRows'
    BY <2>1, Zenon DEF EnrollInv, CertRows
  <2>9. AddressesDiffer'
    BY <2>1, Zenon DEF EnrollInv, AddressesDiffer, Exists
  <2>10. QED
    BY <2>2, <2>3, <2>4, <2>5, <2>6, <2>7, <2>8, <2>9 DEF EnrollInv
<1>3. QED
  BY <1>1, <1>2

\* The credentials of a node are handed out; the request was their one source.
LEMMA DeliverStep ==
    ASSUME EnrollInv, NEW r \in Requests, NEW n \in Nodes, Has(r, n),
           row[n].status \in {"enrolled", "deleted"},
           given' = [given EXCEPT ![n] = given[n] + 1],
           certs' = certs \cup {<<n, row[n].ip>>},
           req' = [req EXCEPT ![r] = IdleReq],
           code' = code, row' = row, token' = token, bundle' = bundle, made' = made
    PROVE  EnrollInv'
<1>1. IdleReq \in ReqType /\ IdleReq.pc = "idle" /\ IdleReq.node = "none" /\ IdleReq.kind = "none"
  BY HostAssumption DEF IdleReq, State, ReqType
<1>2. req \in [Requests -> ReqType] /\ given \in [Nodes -> Nat] /\ certs \subseteq Nodes \X (0..MaxHost)
      /\ row[n].ip \in 0..MaxHost
  BY Zenon DEF EnrollInv, EnrollTypeOK
<1>3. req'[r] = IdleReq /\ \A s \in Requests : s # r => req'[s] = req[s]
  BY <1>2, Zenon
<1>4. given'[n] = given[n] + 1 /\ \A m \in Nodes : m # n => given'[m] = given[m]
  BY <1>2, Zenon
<1>5. EnrollTypeOK'
  <2>1. req' \in [Requests -> ReqType] /\ given' \in [Nodes -> Nat] /\ certs' \subseteq Nodes \X (0..MaxHost)
    BY <1>1, <1>2
  <2> QED  BY <2>1, Zenon DEF EnrollInv, EnrollTypeOK
<1>6. EnrollLocal'
  <2>1. LocalRec(req[r])'
    BY <1>1, <1>3, NoneAssumption, Zenon DEF LocalRec
  <2>2. ASSUME NEW s \in Requests, s # r PROVE LocalRec(req[s])'
    <3>1. LocalRec(req[s]) /\ req'[s] = req[s]
      BY <1>3, <2>2, Zenon DEF EnrollInv, EnrollLocal
    <3> QED  BY <3>1, Zenon DEF LocalRec
  <2> QED  BY <2>1, <2>2, Zenon DEF EnrollLocal
<1>7. \A s \in Requests : (\A c \in Codes : Holds(s, c)' => Holds(s, c)) /\ (\A m \in Nodes : Has(s, m)' => Has(s, m) /\ s # r)
  BY <1>1, <1>3, Zenon DEF Holds, Has
<1>8. Claims'
  BY <1>7, Zenon DEF EnrollInv, Claims, Claimed
<1>9. OneSource'
  <2>1. \A s \in Requests : Has(s, n) => s = r
    BY Zenon DEF EnrollInv, OneSource
  <2>2. token[n] # "open" /\ bundle[n] = "none" /\ row[n].status # "fresh"
    BY Zenon DEF EnrollInv, OneSource
  <2>3. \A s \in Requests : ~Has(s, n)'
    BY <1>7, <2>1, Zenon
  <2>4. ASSUME NEW m \in Nodes, m # n PROVE given'[m] = given[m]
    BY <1>4, <2>4, Zenon
  <2> QED  BY <1>7, <2>2, <2>3, <2>4, ZenonT(40) DEF EnrollInv, OneSource
<1>10. GivenOnce'
  <2>1. given[n] = 0
    BY Zenon DEF EnrollInv, OneSource
  <2> QED  BY <1>4, <2>1 DEF EnrollInv, GivenOnce
<1>11. CertRows'
  <2>1. \A x \in certs : row[x[1]].status \in {"enrolled", "deleted"} /\ row[x[1]].ip = x[2]
    BY Zenon DEF EnrollInv, CertRows
  <2> QED  BY <2>1 DEF CertRows
<1>12. OneNodePerCode' /\ AddressesDiffer'
  BY Zenon DEF EnrollInv, OneNodePerCode, AddressesDiffer, Exists
<1> QED  BY <1>5, <1>6, <1>8, <1>9, <1>10, <1>11, <1>12, ZenonT(40) DEF EnrollInv

LEMMA ReplyStep ==
    ASSUME EnrollInv, NEW r \in Requests, Reply(r)
    PROVE  EnrollInv'
<1>1. CASE Fail(r)
  BY <1>1, FailStep
<1>2. CASE ~Fail(r)
  <2>1. /\ given' = [given EXCEPT ![req[r].node] = given[req[r].node] + 1]
        /\ certs' = certs \cup {<<req[r].node, req[r].ip>>}
        /\ req' = [req EXCEPT ![r] = IdleReq]
        /\ req[r].pc = "reply"
        /\ code' = code /\ row' = row /\ token' = token /\ bundle' = bundle /\ made' = made
    BY <1>2, Zenon DEF Reply, Deliver, ReqBecomes, ReqAt
  <2>2. LocalRec(req[r])
    BY Zenon DEF EnrollInv, EnrollLocal
  <2>3. PICK n \in Nodes : n = req[r].node /\ row[n].ip = req[r].ip /\ row[n].status \notin {"fresh", "pending"}
    BY <2>1, <2>2, Zenon DEF LocalRec
  <2>4. row[n].status \in {"enrolled", "deleted"}
    BY <2>3, Zenon DEF EnrollInv, EnrollTypeOK
  <2>5. Has(r, n)
    BY <2>1, <2>3, Zenon DEF Has
  <2> QED  BY <2>1, <2>3, <2>4, <2>5, DeliverStep, Zenon
<1>3. QED
  BY <1>1, <1>2

LEMMA ServeBundleStep ==
    ASSUME EnrollInv, NEW r \in Requests, ServeBundle(r)
    PROVE  EnrollInv'
<1>1. CASE Fail(r)
  BY <1>1, FailStep
<1>2. CASE ~Fail(r)
  <2>1. /\ given' = [given EXCEPT ![req[r].node] = given[req[r].node] + 1]
        /\ certs' = certs \cup {<<req[r].node, row[req[r].node].ip>>}
        /\ req' = [req EXCEPT ![r] = IdleReq]
        /\ req[r].pc = "serve"
        /\ code' = code /\ row' = row /\ token' = token /\ bundle' = bundle /\ made' = made
    BY <1>2, Zenon DEF ServeBundle, Deliver, ReqBecomes, ReqAt
  <2>2. LocalRec(req[r])
    BY DEF EnrollInv, EnrollLocal
  <2>3. PICK n \in Nodes : n = req[r].node /\ row[n].status \notin {"fresh", "pending"}
    BY <2>1, <2>2, Zenon DEF LocalRec
  <2>4. row[n].status \in {"enrolled", "deleted"}
    BY <2>3, Zenon DEF EnrollInv, EnrollTypeOK
  <2>5. Has(r, n)
    BY <2>1, <2>3, Zenon DEF Has
  <2> QED  BY <2>1, <2>3, <2>4, <2>5, DeliverStep, Zenon
<1>3. QED
  BY <1>1, <1>2

\* The new row is the node of the request, and of the code whose claim it holds.
LEMMA CreateStep ==
    ASSUME EnrollInv, NEW r \in Requests, NEW n \in Nodes, Create(r, n)
    PROVE  EnrollInv'
<1> DEFINE k == req[r].kind
           st == IF k = "join" THEN "enrolled" ELSE "pending"
           tk == IF k = "create" THEN "open" ELSE token[n]
           q == IF k = "create" THEN IdleReq ELSE [req[r] EXCEPT !.pc = "issue", !.node = n]
<1>0. req[r] \in ReqType /\ req[r].pc = "insert" /\ req[r].node = "none" /\ LocalRec(req[r])
  BY Zenon DEF Create, ReqAt, EnrollInv, EnrollTypeOK, EnrollLocal, LocalRec
<1>a. /\ q \in ReqType /\ q.pc \in {"idle", "issue"}
      /\ q.pc = "idle" => k = "create" /\ q.node = "none" /\ q.kind = "none"
      /\ q.pc = "issue" => k # "create" /\ q.node = n /\ q.kind = k /\ q.code = req[r].code /\ q.ip = req[r].ip
  <2>1. CASE k = "create"
    BY <2>1, HostAssumption DEF IdleReq, State, ReqType
  <2>2. CASE k # "create"
    <3>1. q = [req[r] EXCEPT !.pc = "issue", !.node = n]
      BY <2>2, Zenon
    <3>2. QED
      BY <1>0, <2>2, <3>1, Zenon DEF ReqType
  <2>3. QED
    BY <2>1, <2>2, Zenon
<1>b. /\ st \in {"enrolled", "pending"}
      /\ tk \in {"none", "open", "expired"} /\ (k # "create" => tk = token[n])
  BY Zenon DEF EnrollInv, EnrollTypeOK
<1>c. /\ req' = [req EXCEPT ![r] = q]
      /\ row' = [row EXCEPT ![n] = [status |-> st, ip |-> req[r].ip]]
      /\ token' = [token EXCEPT ![n] = tk]
      /\ made' = [d \in Codes |-> IF k = "poll" /\ d = req[r].code THEN made[d] \cup {n} ELSE made[d]]
  BY Zenon DEF Create, ReqBecomes
<1> HIDE DEF q, st, tk
<1>1. /\ row[n].status = "fresh" /\ req[r].ip \notin Addresses
      /\ req[r].ip \in 0..MaxHost /\ req[r].pc = "insert"
      /\ k = "poll" => req[r].code \in Codes /\ Holds(r, req[r].code)
      /\ req \in [Requests -> ReqType]
      /\ code' = code /\ bundle' = bundle
      /\ given' = given /\ certs' = certs
  BY <1>0, Zenon DEF Create, EnrollInv, EnrollTypeOK, ReqType, LocalRec, Holds
<1>2. EnrollTypeOK'
  BY <1>1, <1>a, <1>b, <1>c, Zenon DEF EnrollInv, EnrollTypeOK
<1>d. /\ req'[r] = q /\ \A s \in Requests : s # r => req'[s] = req[s]
      /\ row'[n] = [status |-> st, ip |-> req[r].ip] /\ \A m \in Nodes : m # n => row'[m] = row[m]
      /\ token'[n] = tk /\ \A m \in Nodes : m # n => token'[m] = token[m]
  BY <1>1, <1>c, Zenon DEF EnrollInv, EnrollTypeOK
<1>e. \A s \in Requests : ~Has(s, n)
  <2>1. ASSUME NEW s \in Requests, Has(s, n) PROVE FALSE
    <3>1. LocalRec(req[s]) /\ req[s].node = n
      BY <2>1, Zenon DEF EnrollInv, EnrollLocal, Has
    <3> QED  BY <1>1, <3>1, Zenon DEF LocalRec
  <2> QED  BY <2>1, Zenon
<1>3. EnrollLocal'
  <2>1. ASSUME NEW s \in Requests, s # r PROVE LocalRec(req[s])'
    <3>1. LocalRec(req[s]) /\ req[s].node # n
      BY <1>1, Zenon DEF EnrollInv, EnrollLocal, LocalRec
    <3> QED  BY <1>d, <2>1, <3>1, ZenonT(40) DEF LocalRec
  <2>2. ASSUME NEW p, p = q PROVE LocalRec(p)'
    <3>1. CASE p.pc = "idle"
      BY <1>a, <2>2, <3>1, NoneAssumption, Zenon DEF LocalRec
    <3>2. CASE p.pc = "issue"
      <4>1. p.node = n /\ p.kind = k /\ p.code = req[r].code /\ p.ip = req[r].ip
        BY <1>a, <2>2, <3>2, Zenon
      <4>2. row'[n].status \in {"enrolled", "pending"} /\ row'[n].ip = p.ip
        BY <1>b, <1>d, <4>1
      <4>3. k = "poll" => p.code \in Codes
        BY <1>1, <4>1, Zenon
      <4> QED  BY <3>2, <4>1, <4>2, <4>3, Zenon DEF LocalRec
    <3> QED  BY <1>a, <2>2, <3>1, <3>2, Zenon
  <2>3. req'[r] = q
    BY <1>d, Zenon
  <2>4. LocalRec(req[r])'
    BY <2>2, <2>3, Zenon DEF LocalRec
  <2> QED  BY <2>1, <2>4, ZenonT(40) DEF EnrollLocal
<1>f. \A s \in Requests, c \in Codes : Holds(s, c)' => s # r /\ Holds(s, c)
  BY <1>a, <1>d, Zenon DEF Holds
<1>g. \A c \in Codes : made'[c] = made[c] \/ (Holds(r, c) /\ made'[c] = made[c] \cup {n})
  BY <1>c, <1>1, ZenonT(40) DEF Holds
<1>4. Claims'
  BY <1>1, <1>f, <1>g DEF EnrollInv, Claims, Claimed
<1>5. OneNodePerCode'
  BY <1>g, ZenonT(40) DEF EnrollInv, OneNodePerCode, Claims
<1>h. \A s \in Requests, m \in Nodes : Has(s, m)' => (m # n /\ s # r /\ Has(s, m)) \/ (m = n /\ s = r /\ q.pc = "issue")
  BY <1>a, <1>d, <1>e, NoneAssumption, ZenonT(40) DEF Has
<1>6. OneSource'
  <2>1. /\ given[n] = 0 /\ token[n] = "none" /\ bundle[n] = "none"
    BY <1>1, Zenon DEF EnrollInv, OneSource
  <2>2. q.pc = "issue" => tk = "none"
    BY <1>a, <1>b, <2>1, Zenon
  <2>3. row'[n].status \in {"enrolled", "pending"}
    BY <1>b, <1>d
  <2>4. ASSUME NEW m \in Nodes, m # n
        PROVE  /\ row'[m] = row[m] /\ token'[m] = token[m] /\ bundle'[m] = bundle[m] /\ given'[m] = given[m]
               /\ \A s \in Requests : Has(s, m)' => Has(s, m)
    BY <1>1, <1>d, <1>h, <2>4, Zenon
  <2>5. /\ token'[n] = tk /\ bundle'[n] = "none" /\ given'[n] = 0
        /\ \A s \in Requests : Has(s, n)' => s = r /\ q.pc = "issue"
    BY <1>1, <1>d, <1>h, <2>1, Zenon
  <2>6. OneSource
    BY Zenon DEF EnrollInv
  <2> QED  BY <2>2, <2>3, <2>4, <2>5, <2>6 DEF OneSource
<1>7. GivenOnce'
  BY <1>1, Zenon DEF EnrollInv, GivenOnce, OneSource, Has
<1>8. CertRows'
  BY <1>1, <1>a, <1>b, <1>c, ZenonT(40) DEF EnrollInv, CertRows, EnrollTypeOK
<1>9. AddressesDiffer'
  <2>1. \A m \in Nodes : Exists(m) => row[m].ip # req[r].ip
    BY <1>1, ZenonT(40) DEF Addresses
  <2>2. row'[n].ip = req[r].ip /\ \A m \in Nodes : m # n => row'[m] = row[m]
    BY <1>d
  <2> QED  BY <2>1, <2>2 DEF EnrollInv, AddressesDiffer, Exists
<1>10. QED
  BY <1>2, <1>3, <1>4, <1>5, <1>6, <1>7, <1>8, <1>9 DEF EnrollInv

-----------------------------------------------------------------------------
\* The empty database satisfies the invariant.
LEMMA EnrollInitInv == EnrollInit => EnrollInv
<1> SUFFICES ASSUME EnrollInit PROVE EnrollInv
  OBVIOUS
<1>1. IdleReq \in ReqType /\ LocalRec(IdleReq) /\ IdleReq.pc = "idle" /\ IdleReq.kind = "none"
  BY HostAssumption, NoneAssumption DEF IdleReq, State, ReqType, LocalRec
<1>2. EnrollTypeOK /\ EnrollLocal
  BY <1>1, HostAssumption DEF EnrollInit, EnrollTypeOK, CodeType, EnrollLocal
<1>3. Claims /\ OneNodePerCode /\ OneSource
  BY <1>1, Zenon DEF EnrollInit, Claims, Holds, OneNodePerCode, OneSource, Has
<1>4. GivenOnce /\ CertRows /\ AddressesDiffer
  BY DEF EnrollInit, GivenOnce, CertRows, AddressesDiffer, Exists
<1>5. QED
  BY <1>2, <1>3, <1>4, Zenon DEF EnrollInv

\* Every step of every handler preserves the invariant.
LEMMA EnrollNextInv == EnrollInv /\ [EnrollNext]_enrollVars => EnrollInv'
<1> SUFFICES ASSUME EnrollInv, [EnrollNext]_enrollVars PROVE EnrollInv'
  OBVIOUS
<1>1. ASSUME NEW c \in Codes, Code(c) PROVE EnrollInv'
  <2>1. CASE RequestCode(c)
    BY <2>1, SetStatusStep, Zenon DEF RequestCode, Claimed
  <2>2. CASE Authorize(c)
    BY <2>2, SetStatusStep, Zenon DEF Authorize, Claimed
  <2>3. CASE DeleteExpired(c)
    BY <2>3, SetStatusStep, Zenon DEF DeleteExpired
  <2>4. QED
    BY <1>1, <2>1, <2>2, <2>3, ExpireStep, Zenon DEF Code
<1>2. ASSUME NEW r \in Requests, Begin(r) PROVE EnrollInv'
  BY <1>2, PollStep, EnrollStep, DownloadBundleStep, RequestStep, Zenon DEF Begin
<1>3. ASSUME NEW r \in Requests, Continue(r) PROVE EnrollInv'
  <2>1. CASE OutOfRange(r) \/ CreateFails(r)
    BY <2>1, FailStep, Zenon DEF OutOfRange, CreateFails
  <2>2. CASE ClaimAuthorized(r) \/ Load(r) \/ NextNodeIndex(r) \/ \E n \in Nodes : Create(r, n)
    BY <2>2, ClaimAuthorizedStep, LoadStep, NextNodeIndexStep, CreateStep, Zenon
  <2>3. QED
    BY <1>3, <2>1, <2>2, IssueCertStep, CompleteEnrollmentStep, CreateBundleStep, SetNodeIDStep,
       ReplyStep, ServeBundleStep, Zenon DEF Continue
<1>4. ASSUME NEW n \in Nodes, Node(n) PROVE EnrollInv'
  BY <1>4, ExpireTokenStep, ExpireBundleStep, DeleteNodeStep, Zenon DEF Node
<1>5. ASSUME NEW x \in certs, CertExpires(x) PROVE EnrollInv'
  BY <1>5, CertExpiresStep, Zenon
<1>6. CASE UNCHANGED enrollVars
  <2>1. EnrollTypeOK' /\ EnrollLocal'
    BY <1>6, ZenonT(40) DEF enrollVars, EnrollInv, EnrollTypeOK, EnrollLocal, LocalRec
  <2>2. Claims' /\ OneNodePerCode' /\ OneSource'
    BY <1>6 DEF enrollVars, EnrollInv, Claims, Holds, Claimed, OneNodePerCode, OneSource, Has
  <2>3. GivenOnce' /\ CertRows' /\ AddressesDiffer'
    BY <1>6, Zenon DEF enrollVars, EnrollInv, GivenOnce, CertRows, AddressesDiffer, Exists
  <2> QED  BY <2>1, <2>2, <2>3, ZenonT(40) DEF EnrollInv
<1>7. QED
  BY <1>1, <1>2, <1>3, <1>4, <1>5, <1>6, Zenon DEF EnrollNext

\* The inductive invariant holds of every behaviour of the enrollment handlers.
THEOREM EnrollInvariance == EnrollSpec => []EnrollInv
BY EnrollInitInv, EnrollNextInv, PTL DEF EnrollSpec

\* A device code makes at most one node.
THEOREM OneNode == EnrollSpec => []OneNodePerCode
<1>1. EnrollInv => OneNodePerCode
  BY Zenon DEF EnrollInv
<1>2. QED
  BY <1>1, EnrollInvariance, PTL

\* Credentials are handed out at most once, by poll, token, join or bundle.
THEOREM CredentialsOnce == EnrollSpec => []GivenOnce
<1>1. EnrollInv => GivenOnce
  BY Zenon DEF EnrollInv
<1>2. QED
  BY <1>1, EnrollInvariance, PTL

\* NextNodeIndex and Create are not atomic, and yet no two rows share an address.
THEOREM DistinctAddresses == EnrollSpec => []AddressesDiffer
<1>1. EnrollInv => AddressesDiffer
  BY Zenon DEF EnrollInv
<1>2. QED
  BY <1>1, EnrollInvariance, PTL

\* A certificate in use belongs to an enrolled row with its address, or to none.
THEOREM CertificatesMatch == EnrollSpec => []CertMatchesRow
<1>1. EnrollInv => CertMatchesRow
  <2> SUFFICES ASSUME EnrollInv, NEW x \in certs, Exists(x[1])
               PROVE  row[x[1]] = [status |-> "enrolled", ip |-> x[2]]
    BY Zenon DEF CertMatchesRow
  <2>1. /\ x[1] \in Nodes
        /\ row[x[1]] \in [status : {"fresh", "pending", "enrolled", "deleted"}, ip : 0..MaxHost]
        /\ row[x[1]].status = "enrolled" /\ row[x[1]].ip = x[2]
    BY Zenon DEF EnrollInv, EnrollTypeOK, CertRows, Exists
  <2>2. QED
    BY <2>1, Zenon
<1>2. QED
  BY <1>1, EnrollInvariance, PTL

-----------------------------------------------------------------------------
\* Every step of the enrollment handlers is a step of the one-time grants, or a stutter.
LEMMA StepRefines == EnrollInv /\ [EnrollNext]_enrollVars => [Shot!Next]_(Shot!vars)
<1> SUFFICES ASSUME EnrollInv, [EnrollNext]_enrollVars PROVE [Shot!Next]_(Shot!vars)
  BY Zenon
<1>1. code \in [Codes -> CodeType] /\ made \in [Codes -> SUBSET Nodes]
  BY Zenon DEF EnrollInv, EnrollTypeOK
<1>2. CASE code' = code /\ made' = made
  BY <1>2, Zenon DEF CodeState, Shot!vars
<1>3. ASSUME NEW c \in Codes, Code(c) PROVE [Shot!Next]_(Shot!vars)
  <2>1. made' = made
    BY <1>3, Zenon DEF Code, RequestCode, Authorize, DeleteExpired, Expire, SetStatus
  <2>2. CASE RequestCode(c)
    <3>1. CodeState[c] = "unused" /\ CodeState' = [CodeState EXCEPT ![c] = "open"]
      BY <1>1, <2>2, Zenon DEF RequestCode, SetStatus, CodeState, CodeType
    <3>2. Shot!Offer(c)
      BY <2>1, <3>1, Zenon DEF Shot!Offer
    <3>3. QED
      BY <3>2, Zenon DEF Shot!Next
  <2>3. CASE Authorize(c)
    <3>1. CodeState' = CodeState
      BY <1>1, <2>3, Zenon DEF Authorize, SetStatus, CodeState, CodeType
    <3>2. QED
      BY <2>1, <3>1, Zenon DEF Shot!vars
  <2>4. CASE Expire(c)
    <3>1. CodeState' = CodeState
      BY <1>1, <2>4, Zenon DEF Expire, CodeState, CodeType
    <3>2. QED
      BY <2>1, <3>1 DEF Shot!vars
  <2>5. CASE DeleteExpired(c)
    <3>1. CodeState' = [CodeState EXCEPT ![c] = "spent"]
      BY <1>1, <2>5, Zenon DEF DeleteExpired, SetStatus, CodeState, CodeType
    <3>2. CASE CodeState[c] = "spent"
      <4>1. CodeState' = CodeState
        BY <3>1, <3>2, Zenon DEF CodeState
      <4>2. QED
        BY <2>1, <4>1 DEF Shot!vars
    <3>3. CASE CodeState[c] # "spent"
      <4>1. Shot!Spend(c)
        BY <2>1, <3>1, <3>3, Zenon DEF Shot!Spend
      <4>2. QED
        BY <4>1, Zenon DEF Shot!Next
    <3>4. QED
      BY <3>2, <3>3, Zenon
  <2>6. QED
    BY <1>3, <2>2, <2>3, <2>4, <2>5, Zenon DEF Code
<1>4. ASSUME NEW r \in Requests, ClaimAuthorized(r), code' # code PROVE [Shot!Next]_(Shot!vars)
  <2>1. /\ req[r].code \in Codes /\ code[req[r].code].status = "authorized"
        /\ code' = [code EXCEPT ![req[r].code].status = "completed"] /\ made' = made
    BY <1>4, Zenon DEF ClaimAuthorized, Fail, ReqAt, EnrollInv, EnrollLocal, LocalRec
  <2>2. CodeState[req[r].code] = "open" /\ CodeState' = [CodeState EXCEPT ![req[r].code] = "spent"]
    BY <1>1, <2>1 DEF CodeState, CodeType
  <2>3. Shot!Spend(req[r].code)
    BY <2>1, <2>2, Zenon DEF Shot!Spend
  <2>4. QED
    BY <2>1, <2>3, Zenon DEF Shot!Next
<1>5. ASSUME NEW r \in Requests, NEW n \in Nodes, Create(r, n) PROVE [Shot!Next]_(Shot!vars)
  <2>1. CodeState' = CodeState
    BY <1>5, Zenon DEF Create, CodeState
  <2>2. CASE req[r].kind = "poll"
    <3>1. req[r].code \in Codes /\ made[req[r].code] = {} /\ Claimed(req[r].code)
      BY <1>5, <2>2, Zenon DEF Create, ReqAt, EnrollInv, EnrollLocal, LocalRec, Claims, Holds
    <3>2. made' = [made EXCEPT ![req[r].code] = {n}]
      BY <1>1, <1>5, <2>2, <3>1, Zenon DEF Create
    <3>3. CodeState[req[r].code] = "spent"
      BY <3>1, Zenon DEF CodeState, Claimed
    <3>4. Shot!Obtain(req[r].code, n)
      BY <2>1, <3>1, <3>2, <3>3, Zenon DEF Shot!Obtain
    <3>5. QED
      BY <3>1, <3>4, Zenon DEF Shot!Next
  <2>3. CASE req[r].kind # "poll"
    <3>1. made' = made
      BY <1>1, <1>5, <2>3, Zenon DEF Create
    <3>2. QED
      BY <2>1, <3>1, Zenon DEF Shot!vars
  <2>4. QED
    BY <2>2, <2>3, Zenon
<1>6. ASSUME NEW r \in Requests, SetNodeID(r) PROVE [Shot!Next]_(Shot!vars)
  <2>1. made' = made /\ \A c \in Codes : code'[c].status = code[c].status
    <3> DEFINE hit(c) == hashDeviceCode(c) = hashDeviceCode(hashDeviceCode(req[r].code))
    <3>1. code' = [c \in Codes |-> IF hit(c) THEN [code[c] EXCEPT !.node = req[r].node] ELSE code[c]]
      BY <1>6, Zenon DEF SetNodeID
    <3> HIDE DEF hit
    <3>2. QED
      BY <1>1, <1>6, <3>1 DEF SetNodeID, CodeType
  <2>2. CodeState' = CodeState
    BY <2>1, Zenon DEF CodeState
  <2>3. QED
    BY <2>1, <2>2, Zenon DEF Shot!vars
<1>7. ASSUME NEW r \in Requests, Begin(r) PROVE code' = code /\ made' = made
  BY <1>7, Zenon DEF Begin, Poll, Enroll, DownloadBundle, NewNodeRequest
<1>8. ASSUME NEW r \in Requests, Continue(r) PROVE [Shot!Next]_(Shot!vars)
  <2>1. CASE Load(r) \/ NextNodeIndex(r) \/ OutOfRange(r) \/ CreateFails(r) \/ IssueCert(r)
    BY <1>2, <2>1, Zenon DEF Load, NextNodeIndex, OutOfRange, CreateFails, IssueCert, Fail
  <2>2. CASE CompleteEnrollment(r) \/ CreateBundle(r) \/ Reply(r) \/ ServeBundle(r)
    BY <1>2, <2>2, Zenon DEF CompleteEnrollment, CreateBundle, Reply, ServeBundle, Fail
  <2>3. CASE ClaimAuthorized(r)
    <3>1. made' = made
      BY <2>3, Zenon DEF ClaimAuthorized, Fail
    <3>2. QED
      BY <1>2, <1>4, <2>3, <3>1, Zenon
  <2>4. QED
    BY <1>8, <1>5, <1>6, <2>1, <2>2, <2>3, Zenon DEF Continue
<1>9. ASSUME NEW n \in Nodes, Node(n) PROVE code' = code /\ made' = made
  BY <1>9, Zenon DEF Node, ExpireToken, ExpireBundle, DeleteNode
<1>10. ASSUME NEW x \in certs, CertExpires(x) PROVE code' = code /\ made' = made
  BY <1>10, Zenon DEF CertExpires
<1>11. CASE UNCHANGED enrollVars
  BY <1>2, <1>11, Zenon DEF enrollVars
<1>12. QED
  BY <1>2, <1>3, <1>7, <1>8, <1>9, <1>10, <1>11, Zenon DEF EnrollNext

\* The device flow implements the one-time grant: for every code, polls in any number
\* and order are together one claim and one node.
THEOREM Refinement == EnrollSpec => CodesAreOneShot
<1>1. EnrollInit => Shot!Init
  BY DEF EnrollInit, Shot!Init, CodeState
<1>2. QED
  BY <1>1, StepRefines, EnrollInvariance, PTL DEF EnrollSpec, Shot!Spec, CodesAreOneShot
=============================================================================
