SPECIFICATION Spec
CHECK_DEADLOCK FALSE
CONSTANTS
    \* Two routers, one of them with a private address, that speak different protocols.
    Offers <- MCOffers
    Private = {2}
    PortmapMaxMoves = 1
    PortmapMaxFaults = 1
    MaxReloads = 1
    \* Two goroutines that reconnect, a network that goes down and comes back.
    Callers = {1, 2}
    Conns = {1, 2, 3}
    QuicMaxChanges = 2
    \* Two starts, one change at the server, one failure, any crashes; the port has drifted, and the mode may be upgraded.
    Routes = {"none", "a"}
    NoRoutes = "none"
    Relays = {"r"}
    MaxBoots = 2
    ConfigMaxChanges = 1
    ConfigMaxFaults = 1
    \* Two calls, two instances and two servers: a rebind or a publication meets a shutdown and the server that follows.
    Threads = {1, 2}
    MaxInsts = 2
    MaxServers = 2
INVARIANTS
    CurrentAdvertised
    OneConnection
    RunsTheFile
    NoLostServer
PROPERTIES
    MappingFollowsHost
    NothingOutlives
