---------------------------- MODULE NebulaConfig ----------------------------
(***************************************************************************)
(* The configuration file of an enrollment, nebula.yaml, and everything    *)
(* that rewrites it: the heal of the listen port before the agent's        *)
(* instances start (listenport.go), the switch to a kernel TUN             *)
(* (nebula.go), ensureP2PConfig at the start of an instance and the        *)
(* settings a renewal carries (renew.go), and the subnet routes a          *)
(* heartbeat carries (routes.go).  Each reads the file, changes its part   *)
(* and writes the whole back; no lock is held, and the heartbeat and       *)
(* renewal goroutines already run while the instance starts.  Some writers *)
(* replace the file with a rename, others truncate it and write.  The      *)
(* rename is one step here; what comes of two writers that share the       *)
(* temporary name is modelled in PeerEndpoints.                            *)
(*                                                                         *)
(* Nebula is started from the file by the start of the instance and by     *)
(* reloadNebula, in steps: the running service is taken out and closed,    *)
(* the file is loaded, the port is bound.  Two of them may be under way at *)
(* once, and any may fail.                                                 *)
(*                                                                         *)
(* An empty file parses as no settings at all, and every writer then       *)
(* assigns into a nil map: the agent panics.  Routes and relays are        *)
(* members of small sets; the settings that are constants of the build are *)
(* left out.                                                               *)
(***************************************************************************)
EXTENDS Naturals

CONSTANTS
  Routes,       \* route lists; NoRoutes stands for the empty one
  NoRoutes,
  Relays,       \* mesh addresses of relay-capable peers
  MaxBoots, MaxChanges, MaxFaults   \* bounds

VARIABLES
  routes, relays,         \* what the server wants of this node
  yaml,                   \* nebula.yaml
  routesFile, relayFile,  \* routes.json, relay-state.json
  mode, root,             \* the tun-mode file; the agent is privileged
  agent, hb, rn,          \* start of the instance, heartbeat, renewal
  snap,                   \* what each of them has read of the file
  start,                  \* where each of them is in starting Nebula
  live,                   \* inst.svc: what the running Nebula was started with
  astray,                 \* the last start failed, or overlapped another
  boots, changes, faults

server == <<routes, relays>>
files == <<routesFile, relayFile>>
procs == <<agent, hb, rn>>
nebula == <<start, live, astray>>
vars == <<routes, relays, yaml, routesFile, relayFile, mode, root, agent, hb,
          rn, snap, start, live, astray, boots, changes, faults>>

Ports == {"own", "other"}
Lighthouse == "lighthouse"
Settings == [routes : Routes, port : Ports, relays : SUBSET (Relays \cup {Lighthouse})]
None == [routes |-> NoRoutes, port |-> "own", relays |-> {}]
Empty == [some |-> FALSE, cfg |-> None]
Some(c) == [some |-> TRUE, cfg |-> c]

\* Who starts Nebula: startInstance, and reloadNebula in the heartbeat, in the
\* renewal and in the goroutine of scheduleRetryReload.
Starters == {"agent", "hb", "rn", "retry"}
Binding == {"coldBind", "hotBind"}
NothingRead == [w \in Starters |-> None]
NothingStarts == [w \in Starters |-> "none"]

TypeOK ==
  /\ routes \in Routes /\ relays \subseteq Relays
  /\ yaml.some \in BOOLEAN /\ yaml.cfg \in Settings \cup {None}
  /\ routesFile \in Routes /\ relayFile \subseteq Relays
  /\ mode \in {"userspace", "kernel"} /\ root \in BOOLEAN
  /\ agent \in {"down", "heal", "healWrite", "tun", "upgrade", "p2p",
                "p2pWrite", "up"}
  /\ hb \in {"idle", "rewrite", "truncate", "write"} /\ rn \in {"idle", "write"}
  /\ start \in [Starters -> {"none", "check", "cold", "hot", "wait"} \cup Binding]
  /\ live.some \in BOOLEAN /\ astray \in BOOLEAN
  /\ boots \in 0..MaxBoots /\ changes \in 0..MaxChanges
  /\ faults \in 0..MaxFaults

\* After enrollment, or after an older version that let the port drift.
Init ==
  /\ routes = NoRoutes /\ relays = {}
  /\ \E p \in Ports :
       yaml = Some([routes |-> NoRoutes, port |-> p, relays |-> {Lighthouse}])
  /\ routesFile = NoRoutes /\ relayFile = {}
  /\ mode \in {"userspace", "kernel"} /\ root = FALSE
  /\ agent = "down" /\ hb = "idle" /\ rn = "idle"
  /\ snap = NothingRead /\ start = NothingStarts
  /\ live = Empty /\ astray = FALSE
  /\ boots = 0 /\ changes = 0 /\ faults = 0

Fault == faults < MaxFaults /\ faults' = faults + 1

(***************************************************************************)
(* The start of the agent and of the instance.                             *)
(***************************************************************************)
\* An empty nebula.yaml panics in healListenPortYAML at every start.
Boot ==
  /\ agent = "down" /\ boots < MaxBoots /\ yaml.some
  /\ boots' = boots + 1 /\ agent' = "heal"
  /\ root' \in {root, TRUE}
  /\ UNCHANGED <<server, yaml, files, mode, hb, rn, snap, nebula, changes, faults>>

\* healListenPortYAML rewrites the file in place when the port has drifted;
\* an error is logged and the start goes on.
Heal ==
  /\ agent = "heal"
  /\ \/ yaml.cfg.port = "own" /\ agent' = "tun" /\ UNCHANGED <<yaml, snap, faults>>
     \/ yaml.cfg.port # "own" /\ Fault /\ agent' = "tun" /\ UNCHANGED <<yaml, snap>>
     \/ /\ yaml.cfg.port # "own" /\ agent' = "healWrite"
        /\ snap' = [snap EXCEPT !["agent"] = yaml.cfg]
        /\ yaml' = Empty /\ UNCHANGED faults
  /\ UNCHANGED <<server, files, mode, root, hb, rn, nebula, boots, changes>>

HealWrite ==
  /\ agent = "healWrite"
  /\ yaml' = Some([snap["agent"] EXCEPT !.port = "own"]) /\ agent' = "tun"
  /\ snap' = [snap EXCEPT !["agent"] = None]
  /\ UNCHANGED <<server, files, mode, root, hb, rn, nebula, boots, changes, faults>>

\* The process ends, with its goroutines and its Nebula.
Exit ==
  /\ agent' = "down" /\ hb' = "idle" /\ rn' = "idle"
  /\ snap' = NothingRead /\ start' = NothingStarts
  /\ live' = Empty /\ astray' = FALSE

\* An empty file is assigned into: the process ends.
Panic == Exit /\ UNCHANGED yaml

\* A writer reads the file; `next` says where it goes from there.
Read(w, next) ==
  IF yaml.some
    THEN next /\ snap' = [snap EXCEPT ![w] = yaml.cfg] /\ UNCHANGED <<yaml, nebula>>
    ELSE Panic

\* startInstance has started the heartbeat and renewal goroutines; then
\* readTunMode upgrades an agent that has become privileged.
ReadTunMode ==
  /\ agent = "tun"
  /\ IF root /\ mode = "userspace"
       THEN mode' = "kernel" /\ Read("agent", agent' = "upgrade" /\ UNCHANGED <<hb, rn>>)
       ELSE agent' = "p2p" /\ UNCHANGED <<mode, yaml, hb, rn, snap, nebula>>
  /\ UNCHANGED <<server, files, root, boots, changes, faults>>

\* Peers are added to the relays the enrollment listed, never dropped.
MergeRelayList(existing, peers) == existing \cup peers

\* The relays of relay-state.json, when it lists any.
WithRelays(existing) ==
  IF relayFile = {} THEN existing ELSE MergeRelayList(existing, relayFile)

\* The settings of the build and of the registry, then the relays.
Tuned(cfg) == [cfg EXCEPT !.port = "own", !.relays = WithRelays(@)]

\* atomicWrite of a new version of what was read, or its failure.
Replace(w, cfg) ==
  /\ snap' = [snap EXCEPT ![w] = None]
  /\ \/ yaml' = Some(cfg) /\ UNCHANGED faults
     \/ Fault /\ UNCHANGED yaml

\* No setting of the build or of the server differs: nothing is written.
NothingChanged(w) ==
  /\ w = "agent" => Tuned(snap[w]) = snap[w]
  /\ snap' = [snap EXCEPT ![w] = None]
  /\ UNCHANGED <<yaml, faults>>

\* The tun section is replaced, and the routes in it are gone.
UpgradeTunMode ==
  /\ agent = "upgrade" /\ agent' = "p2p"
  /\ Replace("agent", [snap["agent"] EXCEPT !.routes = NoRoutes])
  /\ UNCHANGED <<server, files, mode, root, hb, rn, nebula, boots, changes>>

EnsureRead ==
  /\ agent = "p2p"
  /\ Read("agent", agent' = "p2pWrite" /\ UNCHANGED <<hb, rn>>)
  /\ UNCHANGED <<server, files, mode, root, boots, changes, faults>>

\* startMeshWithError, which has no retry.
StartMesh == start' = [start EXCEPT !["agent"] = "cold"]

EnsureP2PConfig ==
  /\ agent = "p2pWrite" /\ agent' = "up"
  /\ Replace("agent", Tuned(snap["agent"])) \/ NothingChanged("agent")
  /\ StartMesh
  /\ UNCHANGED <<server, files, mode, root, hb, rn, live, astray, boots, changes>>

(***************************************************************************)
(* The start of Nebula (reloadNebula, scheduleRetryReload).                *)
(***************************************************************************)
\* A service that runs is taken out of the instance and closed.
CheckSvc(w) ==
  /\ start[w] = "check"
  /\ IF live.some THEN start' = [start EXCEPT ![w] = "hot"] /\ live' = Empty
                  ELSE start' = [start EXCEPT ![w] = "cold"] /\ UNCHANGED live
  /\ UNCHANGED <<server, yaml, files, mode, root, procs, snap, astray, boots,
                 changes, faults>>

\* Only a reload that has closed a service is tried again, and ten times at most.
AfterFailure(w) ==
  IF w = "retry" THEN {"wait", "none"}
  ELSE {IF start[w] \in {"hot", "hotBind"} /\ start["retry"] = "none"
          THEN "wait" ELSE start["retry"]}

StartFails(w) ==
  /\ \E r \in AfterFailure(w) :
       start' = [v \in Starters |-> IF v = "retry" THEN r
                                   ELSE IF v = w THEN "none" ELSE start[v]]
  /\ snap' = [snap EXCEPT ![w] = None]
  /\ astray' = TRUE /\ UNCHANGED live

\* config.C.Load; nothing starts from an empty file.
LoadConfig(w) ==
  /\ start[w] \in {"cold", "hot"}
  /\ \/ /\ yaml.some
        /\ snap' = [snap EXCEPT ![w] = yaml.cfg]
        /\ start' = [start EXCEPT ![w] = IF @ = "hot" THEN "hotBind" ELSE "coldBind"]
        /\ astray' = \E v \in Starters \ {w} : start[v] \in Binding
        /\ UNCHANGED live
     \/ ~yaml.some /\ StartFails(w)
  /\ UNCHANGED <<server, yaml, files, mode, root, procs, boots, changes, faults>>

\* A port is bound once.
PortFree(w) == live.some => live.cfg.port # snap[w].port

\* Another goroutine has taken a service out and may not have closed it yet.
Closing(w) == \E v \in Starters \ {w} : start[v] = "hot"

\* nebula.Main binds the port, and setSvc puts the service into the instance.
NebulaMain(w) ==
  /\ start[w] \in Binding
  /\ \/ /\ PortFree(w)
        /\ live' = Some(snap[w])
        /\ start' = [start EXCEPT ![w] = "none"]
        /\ snap' = [snap EXCEPT ![w] = None]
        /\ UNCHANGED <<astray, faults>>
     \/ (~PortFree(w) \/ Closing(w)) /\ StartFails(w) /\ UNCHANGED faults
     \/ Fault /\ StartFails(w)
  /\ UNCHANGED <<server, yaml, files, mode, root, procs, boots, changes>>

\* The backoff is over; a service that is there is left alone.
RetryReload ==
  /\ start["retry"] = "wait"
  /\ start' = [start EXCEPT !["retry"] = IF live.some THEN "none" ELSE "cold"]
  /\ UNCHANGED <<server, yaml, files, mode, root, procs, snap, live, astray, boots,
                 changes, faults>>

\* The goroutines of the instance start just before readTunMode; their first
\* answer from the server comes after its check of the mode.
Running == agent \in {"upgrade", "p2p", "p2pWrite", "up"}

(***************************************************************************)
(* The heartbeat's answer: relays and routes.                              *)
(***************************************************************************)
SaveRelayState == relayFile' = relays

\* A list that was persisted is written to nebula.yaml next.
PersistRoutes ==
  \/ routesFile' = routes /\ hb' = "rewrite" /\ UNCHANGED faults
  \/ Fault /\ UNCHANGED <<routesFile, hb>>

\* saveRelayState, then applyRoutesUpdate: a list that equals routes.json
\* counts as applied.
HeartbeatAnswer ==
  /\ hb = "idle" /\ start["hb"] = "none" /\ Running
  /\ SaveRelayState
  /\ \/ routes = routesFile /\ UNCHANGED <<routesFile, hb, faults>>
     \/ routes # routesFile /\ PersistRoutes
  /\ UNCHANGED <<server, yaml, mode, root, agent, rn, snap, nebula, boots, changes>>

\* rewriteNebulaUnsafeRoutes reads the file ...
RewriteRead ==
  /\ hb = "rewrite"
  /\ \/ Read("hb", hb' = "truncate" /\ UNCHANGED <<agent, rn>>) /\ UNCHANGED faults
     \/ Fault /\ hb' = "idle" /\ UNCHANGED <<yaml, snap, nebula, agent, rn>>
  /\ UNCHANGED <<server, files, mode, root, boots, changes>>

\* ... and writes it in place: os.WriteFile truncates first.
RewriteTruncate ==
  /\ hb = "truncate"
  /\ \/ yaml' = Empty /\ hb' = "write" /\ UNCHANGED <<snap, faults>>
     \/ /\ Fault /\ hb' = "idle" /\ UNCHANGED yaml
        /\ snap' = [snap EXCEPT !["hb"] = None]
  /\ UNCHANGED <<server, files, mode, root, agent, rn, nebula, boots, changes>>

NoReload == "none"

\* applyRoutesUpdate ends with reloadNebula.
AfterRewrite == "check"

\* The bytes go to the file that was opened: if another writer has renamed
\* its version into place since, they are lost.
RewriteWrite ==
  /\ hb = "write" /\ hb' = "idle"
  /\ start' = [start EXCEPT !["hb"] = AfterRewrite]
  /\ yaml' = IF yaml.some THEN yaml
             ELSE Some([snap["hb"] EXCEPT !.routes = routesFile])
  /\ snap' = [snap EXCEPT !["hb"] = None]
  /\ UNCHANGED <<server, files, mode, root, agent, rn, live, astray, boots, changes,
                 faults>>

(***************************************************************************)
(* A renewal, with the settings the server pushes.                         *)
(***************************************************************************)

\* A pushed port other than the enrollment's own is ignored.
PushedPort(port, cfg) == IF port # "own" THEN cfg.port ELSE port

\* renewCert has written the certificate: applyNebulaConfigUpdate.
RenewRead ==
  /\ rn = "idle" /\ start["rn"] = "none" /\ Running
  /\ Read("rn", rn' = "write" /\ UNCHANGED <<agent, hb>>)
  /\ UNCHANGED <<server, files, mode, root, boots, changes, faults>>

\* mergeNebulaConfig and atomicWrite; older servers push a port.
RenewWrite ==
  /\ rn = "write" /\ rn' = "idle"
  /\ start' = [start EXCEPT !["rn"] = "check"]
  /\ \/ NothingChanged("rn")
     \/ Replace("rn", snap["rn"])
     \/ \E port \in Ports :
          Replace("rn", [snap["rn"] EXCEPT !.port = PushedPort(port, snap["rn"])])
  /\ UNCHANGED <<server, files, mode, root, agent, hb, live, astray, boots, changes>>

\* A renewal that carries no settings; a tunnel that is down (triggerReload) is
\* reloaded in the same way.
RenewCert ==
  /\ rn = "idle" /\ start["rn"] = "none" /\ Running
  /\ start' = [start EXCEPT !["rn"] = "check"]
  /\ UNCHANGED <<server, yaml, files, mode, root, procs, snap, live, astray, boots,
                 changes, faults>>

(***************************************************************************)
(* The environment.                                                        *)
(***************************************************************************)
\* An administrator edits the node's routes, or a peer's relay capability.
Admin ==
  /\ changes < MaxChanges /\ changes' = changes + 1
  /\ \/ routes' \in Routes \ {routes} /\ UNCHANGED relays
     \/ relays' \in (SUBSET Relays) \ {relays} /\ UNCHANGED routes
  /\ UNCHANGED <<yaml, files, mode, root, procs, snap, nebula, boots, faults>>

\* The agent is killed or restarted at any point.
Crash ==
  /\ agent # "down" /\ Exit
  /\ UNCHANGED <<server, yaml, files, mode, root, boots, changes, faults>>

Next ==
  \/ Boot \/ Heal \/ HealWrite \/ ReadTunMode \/ UpgradeTunMode
  \/ EnsureRead \/ EnsureP2PConfig
  \/ \E w \in Starters : CheckSvc(w) \/ LoadConfig(w) \/ NebulaMain(w)
  \/ RetryReload
  \/ HeartbeatAnswer \/ RewriteRead \/ RewriteTruncate \/ RewriteWrite
  \/ RenewRead \/ RenewWrite \/ RenewCert
  \/ Admin \/ Crash

Spec == Init /\ [][Next]_vars

(***************************************************************************)
(* Properties.                                                             *)
(***************************************************************************)
\* Once the start, the heartbeat and the renewal are through, Nebula runs
\* with the settings that are in the file, whatever the order in which they
\* read, wrote and reloaded: every writer starts Nebula again after its
\* write (routes.go 63, renew.go 630, client.go 217).  This is all the code
\* gives: `astray` excepts what followed a start that failed, or that loaded
\* the file while another one had loaded it and not yet bound the port, up to
\* the next start that had the port to itself.
RunsTheFile ==
  /\ agent = "up" /\ hb = "idle" /\ rn = "idle"
  /\ \A w \in Starters : start[w] \in {"none", "wait"}
  /\ yaml.some /\ ~astray
  => live = yaml

\* The heartbeat loop and the start of the instance go on.
FairSpec ==
  /\ Spec
  /\ WF_vars(HeartbeatAnswer \/ RewriteRead \/ RewriteTruncate \/ RewriteWrite)
  /\ \A w \in Starters : WF_vars(CheckSvc(w) \/ LoadConfig(w) \/ NebulaMain(w))

\* Once an administrator leaves the routes of a node alone and its agent
\* stays up, the routes get into nebula.yaml: a heartbeat that could not
\* apply them is followed by one that does (routes.go 38-40).
RoutesCatchUp ==
  \A r \in Routes :
    <>[](agent = "up" /\ routes = r) => <>[](yaml.cfg.routes = r)
=============================================================================
