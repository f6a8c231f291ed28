---------------------------- MODULE EnrollStore ----------------------------
(***************************************************************************)
(* The enrollments of one agent: enrollments.json with its backup, the     *)
(* subdirectory of each enrollment, the copy of the registry in the        *)
(* memory of the running agent, the requests of the local API that change  *)
(* it (enroll, leave, settings), and the commands hop-agent enroll, enroll *)
(* --force and leave, which run in a process of their own and work on the  *)
(* same files.  Every network asks for the same preferred name, the case   *)
(* in which names collide: name 1 is the preferred one, 2, 3, ... are the  *)
(* suffixed candidates.                                                    *)
(***************************************************************************)
EXTENDS Naturals, FiniteSets

CONSTANTS
  Requests,         \* goroutines of the agent: requests of the local API, heartbeats
  Cli,              \* the command line process
  Nets,             \* networks, 1..n
  Codes,            \* device codes of the local API
  MaxName,          \* names are 1..MaxName
  BasePort,         \* nebulacfg.ListenPort
  LastPort,         \* the last UDP port that is tried
  Busy,             \* ports some other program holds
  InstallRestarts,  \* may hop-agent install restart a running service?
  MaxNode,          \* bound on the nodes the server grants
  MaxFaults         \* bound on failing writes, corrupted files, crashes, interrupts
                    \* and attempts to stop the service that fail

\* Port 0 stands for none; the enrollments of an older release may have two names.
ASSUME EnrollStoreAssumption ==
  /\ Cli \notin Requests
  /\ Nets \subseteq Nat /\ 1..2 \subseteq Nets
  /\ MaxName \in Nat /\ MaxName >= 2
  /\ BasePort \in Nat \ {0} /\ LastPort \in Nat
  /\ MaxNode \in Nat /\ MaxFaults \in Nat

VARIABLES
  main, bak,   \* enrollments.json and enrollments.json.bak
  dir,         \* dir[n]: the files of subdirectory n
  phase,       \* of the agent: "down", "loaded", "ported", "up"
  service,     \* is the service enabled, so that the agent is started again?
  mem,         \* the registry in the memory of the agent
  req,         \* req[r]: what request r, or the command, is doing; the command
               \* and a heartbeat work on req[r].reg, the registry they have read
  flows,       \* activeDeviceFlow: device codes being polled
  granted,     \* device codes the server has honoured
  node,        \* number of nodes the server has granted
  faults,
  acked,       \* nodes whose enrollment was reported as done and not left since
  stale,       \* processes whose registry is older than the file
  clobbered,   \* has a process saved a stale registry, or the file been damaged while
               \* its backup was behind?
  torn         \* names on which two operations overlapped

files == <<main, bak>>
ghosts == <<acked, stale, clobbered, torn>>
vars == <<main, bak, dir, phase, service, mem, req, flows, granted, node, faults, ghosts>>

Procs == Requests \cup {Cli}
Ports == BasePort..LastPort
\* What validateEnrollmentName accepts of the candidates.
Names == 1..MaxName
NoCode == "none"
NoDir == [crt |-> 0, key |-> 0, port |-> 0]
\* A request, or a command with the registry it has read, that has no node yet.
Doing(pc, name, reg) ==
  [pc |-> pc, name |-> name, net |-> 1, node |-> 0, port |-> 0, code |-> NoCode, want |-> 0, reg |-> reg]
Idle == Doing("idle", 0, {})

----------------------------------------------------------------------------
(* The registry.                                                           *)

Fault == faults < MaxFaults /\ faults' = faults + 1
Saved(reg) == [st |-> "ok", reg |-> reg]

\* loadEnrollmentRegistry: the backup is used when the file is missing or
\* cannot be parsed; with neither the load fails, unless the file is missing.
LoadFails == main.st = "corrupt" /\ bak.st # "ok"
LoadedNoBackup == IF main.st = "ok" THEN main.reg ELSE {}
Loaded == IF main.st # "ok" /\ bak.st = "ok" THEN bak.reg ELSE main.reg

ProcOf(r) == IF r = Cli THEN "cli" ELSE "agent"
Reg(r) == IF r = Cli THEN req[Cli].reg ELSE mem
\* The command ends, or reads the file again, before it uses its registry after a save.
SetReg(r, reg) == mem' = IF r = Cli THEN mem ELSE reg
Get(reg, n) == {e \in reg : e.name = n}

\* saveLocked: the file is replaced, then the backup; a failing backup is logged.
Write(reg) ==
  /\ main' = Saved(reg)
  /\ \/ bak' = Saved(reg) /\ UNCHANGED faults
     \/ bak' = bak /\ Fault
\* Ghosts: the other process, if there is one, now has an old copy.
SaveOk(proc, reg) ==
  /\ Write(reg)
  /\ clobbered' = (clobbered \/ proc \in stale)
  /\ stale' = IF proc = "cli" THEN (IF phase = "down" THEN {} ELSE {"agent"})
                             ELSE (IF req[Cli].pc = "idle" THEN {} ELSE {"cli"})
SaveFails == Fault /\ UNCHANGED <<main, bak, clobbered, stale>>

\* The free port with k free ports below it, 0 when there are not so many.
FreePorts(reg) == {p \in Ports : p \notin Busy /\ p \notin {e.port : e \in reg}}
FreePort(reg, k) ==
  LET nth == {p \in FreePorts(reg) : Cardinality({q \in FreePorts(reg) : q < p}) = k}
  IN IF nth = {} THEN 0 ELSE CHOOSE p \in nth : TRUE
NextAvailableListenPort(reg) == FreePort(reg, 0)

\* The entries of S get the next available port one after the other.  Node numbers
\* grow with time and stand for EnrolledAt and the order of the list.
Reassign(reg, S) ==
  (reg \ S) \cup {[e EXCEPT !.port = FreePort(reg, Cardinality({f \in S : f.node < e.node}))] : e \in S}

AssignMissingListenPorts(reg) == Reassign(reg, {e \in reg : e.port = 0})
HealDuplicateListenPortsNone(reg) == reg
\* The oldest keeps the port, so that none becomes free.
HealDuplicateListenPorts(reg) ==
  Reassign(reg, {e \in reg : e.port # 0 /\ \E f \in reg : f.port = e.port /\ f.node < e.node})

\* healListenPortYAML for every enrollment that has a nebula.yaml, but for those
\* where it cannot be read, parsed or written.
HealListenPortYAML(failed) ==
  [n \in Names |-> IF n \notin failed /\ dir[n].key # 0 /\ Get(mem, n) # {}
                     THEN [dir[n] EXCEPT !.port = (CHOOSE e \in mem : e.name = n).port] ELSE dir[n]]

----------------------------------------------------------------------------
(* The agent process.                                                      *)

Boot ==
  /\ phase = "down" /\ service /\ ~LoadFails
  /\ phase' = "loaded" /\ mem' = Loaded /\ stale' = stale \ {"agent"}
  /\ UNCHANGED <<files, dir, service, req, flows, granted, node, faults, acked, clobbered, torn>>

\* migrateListenPorts at the start of Client.Start: the registry.  A failing save
\* of the missing ports ends it; one of the duplicates does not.
MigrateListenPorts ==
  LET a == AssignMissingListenPorts(mem)
      h == HealDuplicateListenPorts(a)
  IN
  /\ phase = "loaded"
  /\ \/ h = mem /\ mem' = mem /\ phase' = "ported" /\ UNCHANGED <<files, faults, clobbered, stale>>
     \/ h # mem /\ mem' = h /\ phase' = "ported" /\ SaveOk("agent", h)
     \/ a # mem /\ mem' = a /\ phase' = "up" /\ SaveFails
     \/ /\ h # a /\ mem' = h /\ phase' = "ported"
        /\ IF a = mem THEN SaveFails
                      ELSE /\ Fault /\ main' = Saved(a) /\ bak' = Saved(a)
                           /\ clobbered' = (clobbered \/ "agent" \in stale)
                           /\ stale' = IF req[Cli].pc = "idle" THEN {} ELSE {"cli"}
  /\ UNCHANGED <<dir, service, req, flows, granted, node, acked, torn>>

\* ... and the configurations: what fails is logged, and the others are healed.
MigrateYAML ==
  /\ phase = "ported" /\ phase' = "up"
  /\ \/ dir' = HealListenPortYAML({}) /\ UNCHANGED faults
     \/ \E failed \in SUBSET Names : dir' = HealListenPortYAML(failed) /\ Fault
  /\ UNCHANGED <<files, service, mem, req, flows, granted, node, ghosts>>

\* The process ends: requests in flight are gone, the device flows with them.
Down ==
  /\ phase' = "down" /\ mem' = {} /\ flows' = {}
  /\ req' = [r \in Procs |-> IF r = Cli THEN req[r] ELSE Idle]
  /\ stale' = stale \ {"agent"}

Crash ==
  /\ phase # "down" /\ Fault /\ Down
  /\ UNCHANGED <<files, dir, service, granted, node, acked, clobbered, torn>>

\* A truncated or otherwise unreadable file, as loadEnrollmentRegistry expects it.
Corrupt ==
  /\ main.st = "ok" /\ Fault
  /\ main' = [main EXCEPT !.st = "corrupt"]
  /\ clobbered' = (clobbered \/ bak # main)
  /\ UNCHANGED <<bak, dir, phase, service, mem, req, flows, granted, node, acked, stale, torn>>

----------------------------------------------------------------------------
(* Enrolling.                                                              *)

At(r, pc) == req[r].pc = pc /\ (r = Cli \/ phase = "up")
Goto(r, pc) == req' = [req EXCEPT ![r].pc = pc]
Done(r) == req' = [req EXCEPT ![r] = Idle]
Others(r, n) == \E s \in Procs \ {r} : req[s].name = n /\ req[s].pc \notin {"idle", "grant", "service"}
\* Ghost: r starts to work on name n.
Touch(r, n) == torn' = IF Others(r, n) \/ ProcOf(r) \in stale THEN torn \cup {n} ELSE torn

EnrollDeviceFlowStart ==
  /\ phase = "up"
  /\ \E c \in Codes \ (flows \cup granted) : flows' = flows \cup {c}
  /\ UNCHANGED <<files, dir, phase, service, mem, req, granted, node, faults, ghosts>>

\* CAFingerprints: the networks the agent knows; the server refuses them with 409.
CAFingerprints(reg) == {e.net : e \in reg}

\* External: the server grants a node.
Grant(r, x, net, c) ==
  /\ node < MaxNode /\ node' = node + 1
  /\ req' = [req EXCEPT ![r] = [pc |-> "install", name |-> x, net |-> net, node |-> node + 1,
                                port |-> 0, code |-> c, want |-> 0, reg |-> {}]]

EnrollDeviceFlowPoll(r) ==
  /\ phase = "up" /\ req[r].pc = "idle"
  /\ \E c \in flows, net \in Nets :
       \/ /\ net \notin CAFingerprints(mem) /\ c \notin granted
          /\ \E x \in 0..MaxName : Grant(r, x, net, c)
          /\ granted' = granted \cup {c} /\ UNCHANGED flows
       \/ /\ flows' = flows \ {c}                    \* expired, or 409
          /\ UNCHANGED <<granted, node, req>>
  /\ UNCHANGED <<files, dir, phase, service, mem, faults, ghosts>>

EnrollToken(r) ==
  /\ phase = "up" /\ req[r].pc = "idle"
  /\ \E net \in Nets \ CAFingerprints(mem), x \in 0..MaxName : Grant(r, x, net, NoCode)
  /\ UNCHANGED <<files, dir, phase, service, mem, flows, granted, faults, ghosts>>

ExistingEnrollmentForNetwork(reg, net) == \E e \in reg : e.net = net
FreeNames(reg) == Names \ {e.name : e \in reg}
\* chooseEnrollmentName: the explicit name if it is free, else the first free
\* candidate; the set is empty when that is an error.
ChooseEnrollmentName(reg, x) ==
  {n \in FreeNames(reg) : IF x = 0 THEN \A m \in FreeNames(reg) : n <= m ELSE n = x}

\* installEnrollment, installCerts up to the choice of the name.  The command
\* reads the file again; on an error the node stays behind on the server.
Install(r) ==
  LET reg == IF r = Cli THEN Loaded ELSE mem
      names == ChooseEnrollmentName(reg, req[r].name)
  IN
  /\ At(r, "install") /\ ~(r = Cli /\ LoadFails)
  /\ IF ExistingEnrollmentForNetwork(reg, req[r].net) \/ names = {}
       THEN Done(r) /\ UNCHANGED torn
       ELSE \E n \in names :
              /\ req' = [req EXCEPT ![r].pc = "crt", ![r].name = n, ![r].reg = IF r = Cli THEN reg ELSE {}]
              /\ torn' = IF Others(r, n) \/ (r # Cli /\ "agent" \in stale) THEN torn \cup {n} ELSE torn
  /\ stale' = IF r = Cli THEN stale \ {"cli"} ELSE stale
  /\ UNCHANGED <<files, dir, phase, service, mem, flows, granted, node, faults, acked, clobbered>>

WriteCrtIgnoringErrors(r) ==
  /\ At(r, "crt") /\ Goto(r, "key")
  /\ \/ dir' = [dir EXCEPT ![req[r].name].crt = req[r].node] /\ UNCHANGED faults
     \/ Fault /\ UNCHANGED dir
  /\ UNCHANGED <<files, phase, service, mem, flows, granted, node, ghosts>>

\* The files are written one after the other: ca.crt and node.crt ...
WriteCrt(r) ==
  /\ At(r, "crt")
  /\ \/ /\ dir' = [dir EXCEPT ![req[r].name].crt = req[r].node]
        /\ Goto(r, "key") /\ UNCHANGED faults
     \/ Fault /\ Done(r) /\ UNCHANGED dir
  /\ UNCHANGED <<files, phase, service, mem, flows, granted, node, ghosts>>

\* ... then node.key, token, endpoint and node-id, and nebula.yaml with the next
\* free port.
WriteKeyAndConfig(r) ==
  /\ At(r, "key")
  /\ \/ LET p == NextAvailableListenPort(Reg(r)) IN
          /\ dir' = [dir EXCEPT ![req[r].name].key = req[r].node, ![req[r].name].port = p]
          /\ req' = [req EXCEPT ![r].pc = "add", ![r].port = p]
          /\ UNCHANGED faults
     \/ Fault /\ Done(r) /\ UNCHANGED dir
  /\ UNCHANGED <<files, phase, service, mem, flows, granted, node, ghosts>>

NewEnrollment(r) == [name |-> req[r].name, node |-> req[r].node, net |-> req[r].net, port |-> req[r].port]
NameTaken(r) == Get(Reg(r), req[r].name) # {}
AddAfter(r) == IF r = Cli THEN Goto(r, "service") ELSE Done(r)

\* Add: the name is checked again under the lock, and a failing save is undone.
AfterFailedAdd(r) == Reg(r)

Add(r) ==
  /\ At(r, "add")
  /\ \/ /\ ~NameTaken(r)
        /\ SetReg(r, Reg(r) \cup {NewEnrollment(r)}) /\ SaveOk(ProcOf(r), Reg(r) \cup {NewEnrollment(r)})
        /\ AddAfter(r) /\ flows' = flows \ {req[r].code} /\ acked' = acked \cup {req[r].node}
     \/ /\ \/ ~NameTaken(r) /\ SaveFails /\ SetReg(r, AfterFailedAdd(r))
           \/ NameTaken(r) /\ UNCHANGED <<files, mem, faults, clobbered, stale>>
        /\ (IF r = Cli THEN Done(r) ELSE Goto(r, "unwind")) /\ UNCHANGED <<flows, acked>>
  /\ UNCHANGED <<dir, phase, service, granted, node, torn>>

\* installEnrollment: the subdirectory is removed when Add failed.
Unwind(r) ==
  /\ At(r, "unwind")
  /\ dir' = [dir EXCEPT ![req[r].name] = NoDir] /\ Done(r)
  /\ UNCHANGED <<files, phase, service, mem, flows, granted, node, faults, ghosts>>

----------------------------------------------------------------------------
(* Leaving, and the settings of an enrollment.                             *)

\* handleLeave up to the teardown of the instance; the name is looked up once.
Leave(r) ==
  /\ phase = "up" /\ req[r].pc = "idle"
  /\ \E e \in mem :
       /\ req' = [req EXCEPT ![r] = Doing("leave", e.name, {})]
       /\ Touch(r, e.name)
  /\ UNCHANGED <<files, dir, phase, service, mem, flows, granted, node, faults, acked, stale, clobbered>>

\* Remove, undone when the save fails; an unknown name is an error.
RemoveAfter(r) ==
  IF req[r].pc = "forced"
    THEN req' = [req EXCEPT ![r].pc = "grant", ![r].name = req[r].want, ![r].want = 0]
    ELSE Goto(r, "rmdir")
Remove(r) ==
  /\ At(r, "leave") \/ At(r, "forced")
  /\ LET gone == Get(Reg(r), req[r].name) IN
       \/ /\ gone # {}
          /\ SetReg(r, Reg(r) \ gone) /\ SaveOk(ProcOf(r), Reg(r) \ gone)
          /\ RemoveAfter(r) /\ acked' = acked \ {e.node : e \in gone}
          /\ torn' = IF req[r].pc = "forced" /\ ~Others(r, req[r].name) THEN torn \ {req[r].name} ELSE torn
       \/ /\ \/ gone # {} /\ SaveFails
             \/ gone = {} /\ UNCHANGED <<files, faults, clobbered, stale>>
          /\ Done(r) /\ UNCHANGED <<mem, acked, torn>>
  /\ UNCHANGED <<dir, phase, service, flows, granted, node>>

\* RemoveAll of the subdirectory after the registry was saved.
RemoveDir(r) ==
  /\ At(r, "rmdir")
  /\ dir' = [dir EXCEPT ![req[r].name] = NoDir]
  /\ Done(r)
  /\ service' = (service \/ (r = Cli /\ \E e \in Reg(r) : e.name # req[r].name))     \* startAgentService if others remain
  /\ UNCHANGED <<files, phase, mem, flows, granted, node, faults, ghosts>>

\* SetClipboardSync: one field of an entry changes, and the agent saves its whole
\* copy (the values of the fields are left out).
SaveSettings ==
  /\ phase = "up" /\ mem # {}
  /\ SaveOk("agent", mem) \/ SaveFails
  /\ UNCHANGED <<dir, phase, service, mem, req, flows, granted, node, acked, torn>>

\* sendHeartbeat: to keep the id of its network, an instance reads a registry of
\* its own, with a lock of its own, ...
HeartbeatLoads(r) ==
  /\ phase = "up" /\ req[r].pc = "idle" /\ ~LoadFails
  /\ \E e \in mem : Get(Loaded, e.name) # {}
  /\ req' = [req EXCEPT ![r] = Doing("beat", 0, Loaded)]
  /\ UNCHANGED <<files, dir, phase, service, mem, flows, granted, node, faults, ghosts>>

\* ... and saves it.  Ghost: what others saved in between is lost.
SetNetworkID(r) ==
  /\ At(r, "beat") /\ Done(r)
  /\ \/ Write(req[r].reg) /\ clobbered' = (clobbered \/ req[r].reg # Loaded)
     \/ Fault /\ UNCHANGED <<files, clobbered>>
  /\ UNCHANGED <<dir, phase, service, mem, flows, granted, node, acked, stale, torn>>

----------------------------------------------------------------------------
(* The commands.                                                           *)

CliLoad == ~LoadFails /\ stale' = stale \ {"cli"}

\* stopAgentService ignores errors: without the rights, or with the service of
\* the user, the agent keeps running.  The command goes on as c.
StopAgentService(c) ==
  \/ /\ phase' = "down" /\ mem' = {} /\ flows' = {} /\ service' = FALSE
     /\ req' = [r \in Procs |-> IF r = Cli THEN c ELSE Idle]
     /\ UNCHANGED faults
  \/ /\ Fault /\ req' = [req EXCEPT ![Cli] = c]
     /\ UNCHANGED <<phase, mem, flows, service>>

\* RunEnroll: an explicit name must be free; --force stops the service, unless
\* nothing is enrolled, and takes the entry to replace: the one named, or the
\* only one.
CliEnroll ==
  /\ req[Cli].pc = "idle" /\ CliLoad
  /\ \E x \in 0..MaxName, force \in BOOLEAN :
       LET victims == IF x = 0 THEN Loaded ELSE Get(Loaded, x)
       IN
       \/ /\ force /\ Loaded # {}
          /\ StopAgentService(IF victims = {} THEN Doing("grant", x, Loaded)
                              ELSE IF Cardinality(victims) > 1 THEN Idle
                              ELSE [Doing("force", (CHOOSE e \in victims : TRUE).name, Loaded) EXCEPT !.want = x])
       \/ /\ IF force THEN Loaded = {} ELSE x = 0 \/ victims = {}
          /\ req' = [req EXCEPT ![Cli] = Doing("grant", x, Loaded)]
          /\ UNCHANGED <<phase, mem, flows, service, faults>>
  /\ UNCHANGED <<files, dir, granted, node, acked, clobbered, torn>>

\* handleForce removes the subdirectory, and then the entry (Remove above).
ForceRemoveDir ==
  /\ At(Cli, "force")
  /\ dir' = [dir EXCEPT ![req[Cli].name] = NoDir]
  /\ Goto(Cli, "forced") /\ torn' = torn \cup {req[Cli].name}
  /\ UNCHANGED <<files, phase, service, mem, flows, granted, node, faults, acked, stale, clobbered>>

\* enrollDeviceFlow, enrollWithToken: the command sends no fingerprints; it ends
\* when the server refuses or the code expires.
CliGrant ==
  /\ At(Cli, "grant")
  /\ \/ \E net \in Nets : Grant(Cli, req[Cli].name, net, NoCode)
     \/ Done(Cli) /\ UNCHANGED node
  /\ UNCHANGED <<files, dir, phase, service, mem, flows, granted, faults, ghosts>>

\* installService: on Linux a running service is left alone, on macOS it is
\* reloaded; with --no-service nothing is done.
InstallService ==
  /\ At(Cli, "service")
  /\ \/ Done(Cli) /\ UNCHANGED <<phase, service, mem, flows, stale>>
     \/ /\ service' = TRUE
        /\ \E restart \in InstallRestarts :
             IF restart /\ phase # "down"
               THEN /\ phase' = "down" /\ mem' = {} /\ flows' = {} /\ stale' = stale \ {"agent"}
                    /\ req' = [r \in Procs |-> Idle]
               ELSE Done(Cli) /\ UNCHANGED <<phase, mem, flows, stale>>
  /\ UNCHANGED <<files, dir, granted, node, faults, acked, clobbered, torn>>

\* RunLeave: the registry is read and the user asked before the service is stopped.
CliLeave ==
  /\ req[Cli].pc = "idle" /\ CliLoad
  /\ \E e \in Loaded : req' = [req EXCEPT ![Cli] = Doing("stop", e.name, Loaded)]
  /\ UNCHANGED <<files, dir, phase, service, mem, flows, granted, node, faults, acked, clobbered, torn>>

CliStop ==
  /\ At(Cli, "stop")
  /\ StopAgentService([req[Cli] EXCEPT !.pc = "leave"]) /\ Touch(Cli, req[Cli].name)
  /\ UNCHANGED <<files, dir, granted, node, acked, stale, clobbered>>

\* The user interrupts the command.
CliAbort ==
  /\ req[Cli].pc # "idle" /\ Fault /\ Done(Cli)
  /\ UNCHANGED <<files, dir, phase, service, mem, flows, granted, node, ghosts>>

\* hop-agent restart, after a command that left the service stopped.
RunRestart ==
  /\ ~service /\ req[Cli].pc = "idle" /\ service' = TRUE
  /\ UNCHANGED <<files, dir, phase, mem, req, flows, granted, node, faults, ghosts>>

----------------------------------------------------------------------------
\* A new machine, or one or two enrollments of an older release, without a
\* recorded port (0) or with the port every release before gave out.
Init ==
  /\ \E k \in 0..2, p \in {0, BasePort} :
       LET old == {[name |-> i, node |-> i, net |-> i, port |-> p] : i \in 1..k} IN
       /\ main = [st |-> IF k = 0 THEN "missing" ELSE "ok", reg |-> old] /\ bak = main
       /\ dir = [n \in Names |-> IF n <= k THEN [crt |-> n, key |-> n, port |-> BasePort] ELSE NoDir]
       /\ node = k /\ acked = 1..k
  /\ phase = "down" /\ service = TRUE /\ mem = {}
  /\ req = [r \in Procs |-> Idle] /\ flows = {} /\ granted = {}
  /\ faults = 0 /\ stale = {} /\ clobbered = FALSE /\ torn = {}

Next ==
  \/ Boot \/ MigrateListenPorts \/ MigrateYAML \/ Crash \/ Corrupt
  \/ EnrollDeviceFlowStart \/ SaveSettings
  \/ \E r \in Requests : EnrollDeviceFlowPoll(r) \/ EnrollToken(r) \/ Leave(r) \/ Unwind(r)
                         \/ HeartbeatLoads(r) \/ SetNetworkID(r)
  \/ \E r \in Procs : Install(r) \/ WriteCrt(r) \/ WriteKeyAndConfig(r) \/ Add(r)
                      \/ Remove(r) \/ RemoveDir(r)
  \/ CliEnroll \/ ForceRemoveDir \/ CliGrant \/ InstallService \/ CliLeave \/ CliStop \/ CliAbort \/ RunRestart

Spec == Init /\ [][Next]_vars

----------------------------------------------------------------------------
(* Properties.                                                             *)

\* enrollments.go, saveLocked and loadEnrollmentRegistry: through crashes, a
\* failing write or a corrupted file, the registry a restart would read holds
\* every enrollment that was reported as done and not left, unless the agent
\* and a command overwrote each other, or the file was damaged while its backup
\* was behind.
AckedSurvive == \A k \in acked : clobbered \/ (~LoadFails /\ \E e \in Loaded : e.node = k)

\* installEnrollment, handleLeave, handleForce: an enrollment in the registry has
\* its own certificate and its own key, so the agent can start it, unless
\* operations on the same name overlapped.
RegisteredHasCredentials ==
  \A e \in Loaded :
     \/ clobbered
     \/ e.name \in torn
     \/ dir[e.name].crt = e.node /\ dir[e.name].key = e.node

\* migrateListenPorts: when the agent has started, no two enrollments share a
\* port and each nebula.yaml names the port of its entry, whatever the registry
\* held before; the exceptions are a failing save of missing ports, which ends
\* the migration, and a nebula.yaml that cannot be read or written.
PortsHealedAtBoot ==
  [][phase = "ported" /\ phase' = "up"
      => \A e \in mem' :
           /\ e.port # 0 => \A f \in mem' : f.port = e.port => f = e
           /\ dir[e.name].key # 0 => dir'[e.name].port = e.port \/ faults' # faults]_vars

=============================================================================
