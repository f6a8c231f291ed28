# A TLA+ verification of hopssh

hopssh is a self-hosted mesh network: a control plane (`hop-server`) that enrolls
machines, issues short-lived Nebula certificates and runs one Nebula lighthouse per
network, and an agent (`hop-agent`, package `internal/client`) that keeps one Nebula
instance per enrollment alive, renews its certificate and reports to the control
plane by heartbeat.

## 1. Inventory

Line numbers are in `PROJECT.json` (`map` for what a definition models, `hazards`
for the place where each difficulty bites).

### Control plane

| part | state | operations | what makes it hard |
|------|-------|-----------|--------------------|
| Lighthouse registry (`internal/mesh/network_manager.go`, `internal/api/networks.go`) | `nm.instances` with nil sentinels, bound UDP ports, `networks` and `nodes` rows, DNS servers | CreateNetwork, StartNetwork, GetInstance, startInstance, StopNetwork, reapIdleInstances, RefreshDNS, DeleteNetwork, restart | the lock is released around nebula.Main; delete, reap and lazy restart interleave |
| Node status (`internal/db/nodes.go`, `status_sweeper.go`, `internal/api/renew.go`) | node rows, buffered heartbeats, events | Heartbeat, FlushHeartbeats, StatusTransition, sweeper, PruneOfflineSince, CompleteEnrollment | heartbeats are buffered in memory while the sweeper and the pruner read the database |
| Enrollment (`internal/api/enroll.go`, `device.go`, `internal/db/device_codes.go`) | enrollment tokens, device codes, node rows, certificates | CreateNode, Enroll, JoinNetwork, RequestCode, Authorize, Poll | one-time claims, followed by steps that can fail |
| Certificate renewal, server side (`internal/api/renew.go`) | node row, token hash | Renew | the response may be lost after the row changed |
| Port forwards (`internal/mesh/forward.go`) | map of forwards, listeners | Start, Stop, StopAllForNetwork | a start races the deletion of its network |
| Events (`internal/api/events.go`, `internal/db/network_events.go`, `audit.go`) | subscribers' channels, batches | Subscribe, Publish, flush | publish races unsubscribe; a batch fails as a whole |
| Invitations and members (`internal/api/invites.go`, `members.go`) | invite uses, member rows | CreateInvite, AcceptInvite, DeleteMember | use count and membership are two statements |
| Proxy, terminals, files (`internal/api/proxy.go`) | cached access decisions, open connections | requireNode, cachedRequireNode, InvalidateProxyCache | a decision is read before and stored after an invalidation |
| Accounts (`internal/api/auth*.go`, `internal/auth`) | users, sessions, rate limiter | register, login, GitHub login, logout, limiter | look-up and insert are two statements; time windows |
| Clipboard (`internal/api/clipboard.go`) | clips announced | announce, poll | clocks truncated to the second |
| Distribution, bundles, frontend, swagger | files served | HTTP GET | none |

### Agent

| part | state | operations | what makes it hard |
|------|-------|-----------|--------------------|
| Instance lifecycle (`client.go`, `instance.go`, `api.go`, `renew.go`, `nebula.go`, `keepalive.go`, `watcher_watchdog.go`) | registry, `meshInstance` objects, Nebula services, contexts, watchers | Start, Stop, connect, disconnect, close, reloadNebula, retry, watchdog restart | no lock spans a call; requests, renewal, retry, watcher and watchdogs meet in one instance |
| Certificate renewal (`renew.go`) | `node.crt`, `node.key`, clock | runCertRenewal, renewCert, watchdog | timing against expiry; two files, one pair |
| HTTP listeners (`serverset.go`) | listener per instance | startMeshListener, rebindMesh, shutdownInstance | rebind on reload races shutdown |
| Enrollment store (`enrollments.go`, `enroll.go`, `listenport.go`) | `enrollments.json`, per-network directories | Load, Add, Remove, save, installEnrollment | file and directory change in separate steps; crash in between |
| Layout migrations (`legacy_migrate.go`, `migrate.go`) | old and new configuration trees | migrateLegacy, migrateToSystem | must be re-runnable after a crash |
| Port mapping (`internal/portmap`) | winning mapper, lease | Start, race of protocols, refresh, Stop | losers' answers arrive late |
| Clipboard (`clipboard.go`) | last text seen and sent | poll, push, receive | echo of one's own update |
| Nebula configuration (`routes.go`, `listenport.go`, `relay_state.go`, `renew.go`, `nebula.go`) | `nebula.yaml`, `routes.json`, `relay-state.json` | heal, upgrade, ensureP2PConfig, renewal, heartbeat | five writers of one file and no lock; two files that must agree |
| Peer endpoints (`peer_cache.go`) | `peers.json`, Nebula's hostmap | load, inject, answers of heartbeat and warm-up | answers applied out of order, saves that overwrite each other |
| Path quality (`path_quality.go`) | moving average and streaks | record, timeout | thresholds against an average that contains the sample |
| QUIC session (`internal/quictransport`) | connection, flags, receivers | send, reconnect, close | reconnects race each other and Close |
| Services, CLI, self-update (`install*.go`, `uninstall.go`, `cli_*.go`, `internal/selfupdate`) | binary, service, files | install, restart, stop, update, uninstall | killed between two renames; three operating systems |
| DNS files, endpoint probe, `burstsock` | operating-system files, sockets | write, probe | I/O, or not used |

What correctness means, part by part: a lighthouse or an agent's Nebula service that
holds a port always has somebody responsible for it, and exactly one; what a registry
hands out is alive; a status shown for a node follows the heartbeats received; a
one-time code yields at most one node; a certificate is replaced before it expires and
together with its key; a migration or a save that is interrupted can be repeated.

## 2. Plan

| order | module | part | abstract specification / theorems |
|-------|--------|------|-----------------------------------|
| 1 | `LighthouseManager` | lighthouse registry | inductive invariant, proved |
| 2 | `AgentLifecycle` | instance lifecycle | inductive invariant, proved |
| 3 | `NodeStatus` | heartbeat buffer, sweeper, pruner | inductive invariant with time bounds, proved |
| 4 | `NodeEnrollment`, `OneShot` | device codes, tokens, bundles | inductive invariant and refinement of `OneShot`, proved |
| 5 | `CertRenewal`, `CertFiles` | renewal schedule; certificate and key files | inductive invariants over times and over files, proved |
| 6 | `EnrollStore` | the agent's enrollments on disk and in memory | inductive invariants, proved |
| 7 | `Installation`, `NebulaConfig`, `SystemMove`, `ServerSet`, `Portmap`, `PeerEndpoints`, `QuicSession`, `PathQuality`, `Clipboard` | the agent around its instances | inductive invariants, proved; liveness |
| 8 | `Forwards`, `EventHub`, `LogStore`, `Membership`, `ProxyAuth`, `RateLimiter`, `Accounts` | the rest of the control plane | inductive invariants, proved; liveness |
| 9 | `LegacyLayout` | the move from the layout before 0.10 | inductive invariant, proved |

The parts in rows 7 to 9, and `NodeStatus` and `CertFiles`, share no state with each other
while they run. They are put together in four groups:

| group | parts |
|-------|-------|
| `AgentHost` | `Installation`, `PeerEndpoints`, `PathQuality`, `CertFiles`, `Clipboard`, `SystemMove`, `LegacyLayout` |
| `AgentNet` | `ServerSet`, `NebulaConfig`, `Portmap`, `QuicSession` |
| `ServerResources` | `Membership`, `LogStore`, `Forwards`, `EventHub` |
| `ServerAccess` | `NodeStatus`, `ProxyAuth`, `Accounts`, `RateLimiter` |

`<group>Proofs` (for `AgentHost` two modules: `AgentDesktopProofs` has the last three parts)
declares the constants and the variables of its parts, states what is assumed of the
constants, instantiates the modules, names their properties, and proves the safety properties.
`MC<group>` extends it, so that TLC evaluates the same assumptions and checks the same
definitions, and lets one run go through all parts of the group: `sel` names the module a
behaviour is about, and the others stay in one of their initial states. The state space is the
sum of the parts' state spaces, not their product; the fairness is that of each part's own
specification.

## 3. LighthouseManager

State: `instances` (a network's entry is absent, the nil sentinel or a lighthouse),
`udp` (who holds each port), `rows` and `port` (the networks table), `nodes` (the networks
with rows in the nodes table), `dns` (the lighthouses with a DNS server; which records it
serves is left out), `th` (a program counter and locals per request handler and for the
reaper), `up`. A handler's critical section is one action; wherever the code releases `nm.mu`,
another handler may run. When `service.New` fails the Nebula that `nebula.Main` made is not
stopped and its port is `Leaked`. Foreign keys are not enforced (`db.go:40` passes
`_foreign_keys=on`, which the driver does not read), so a row of a node can be written after
its network was deleted.

* `lighthouse`: two handlers, the reaper and crashes over two networks that compete for
  one port. The bounds give every pair of operations on one network a third party, the
  reaper. `NoLeakedLighthouse` (up to a failed `service.New`); under weak fairness of every
  started call and of the reaper's ticker, and when the queries about a network without nodes
  do not fail every time, every sentinel is resolved (`SentinelResolved`) and a lighthouse that
  outlives its network stops once no node row is left of it (`DeletedEventuallyStopped`).
* proved only: `RegisteredIsLive`, `SoleOwner`, `NoStuckSentinel` and the action properties
  `RunningOnlyRemoved`, `PortHandover`.

## 4. AgentLifecycle

One enrollment. `insts` are the `meshInstance` objects, `reg` the registry entry,
`port` the UDP listen port, `th` the goroutines, `started` the agent's context. All
Nebula services of an enrollment bind one port, so at most one is open and a pointer to
a service is `none`, `open` or `closed`. Each request, renewal, retry and watchdog is a
goroutine that runs through the steps of the functions it calls; a step ends where the
code blocks, unlocks or reads shared state again. A start of Nebula may fail at any
time; when `service.New` fails after `nebula.Main` has bound the port, nothing stops that
Nebula and the port is `lost` until the process ends. An instance object that nothing refers
to any more is reused.

* `agent_safety`: two goroutines of any kind and two instances. `OneOwner` (no service is
  closed twice or overwritten). Proved only: `PortHasOwner` (no service is leaked, but by a
  failing `service.New`), `SvcIsOpen` (`control()` never leads to a closed service),
  `RegisteredNotClosed`. Deadlock is not checked: two calls of connect stop when all instance
  objects are in use, which is the bound of the model and not a state of the agent.

## 5. NodeStatus

State per node: `agent` (running or asleep) and `since` (time since its last attempt),
the row's `status` and `age` (time since `last_seen_at`), the in-memory heartbeat buffer
`buf` with `wait` (time since it was drained), the `batch` being written, the counters
`lost` of consecutive beats that reached no row, and `logged`/`last` for the event log.
`th` holds the request handlers and the sweeper between their steps. Time is a `Tick`
that the timers bound: it may not pass a point where a ticker of the code must fire.

* `server_access` (`sel = "status"`): `LiveNotStale`, a running node is never shown or swept as stale,
  although beats are coalesced, one in a row may be lost, a flush may fail as a whole and
  the server may restart. One node is enough because the code never relates two
  nodes' rows except by failing a batch as a whole, which `FlushFails` allows for one
  node as well; the proof is for any number. Requests are alike, so a new one takes the
  first goroutine that is free (`MCServerAccess`); the theorems are about the
  specification without this. A running node comes online again after the
  sweeper overwrote its status (`LiveComesOnline`), a silent one goes offline
  (`SilentGoesOffline`). Fairness: time passes, tickers
  and started requests go on, a running agent beats; a failing update may be retried by
  the next sweep.

The numbers of the code satisfy the assumption `(MaxLost + 1) * Gap <= Stale` for one lost
beat: 2 * (66 s interval with jitter + 10 s HTTP timeout + 5 s flush) = 162 s <= 180 s. They
do not for two. A server that is down for longer is modelled as sleeping agents.

## 6. NodeEnrollment

`code`, `row`, `token` and `bundle` are the tables, `req` the requests between two
database statements, `certs` the certificates agents hold; `made` and `given` record
what came of a code and of a node. Poll, Enroll, CreateNode, JoinNetwork and CreateBundle
share their steps (address, insert, certificate, update, response), each of which may
fail. A network deleted meanwhile shows as a failing step.

* `enroll`: two requests of any kind, one code, two rows and a subnet of two addresses:
  every race for a code, a token, a bundle or an address needs two requests.
  `CertMatchesRow`: the certificate an agent holds is that of its node's row.
  `CodesAreOneShot`: the device flow implements `OneShot`, the one-time grant. Proved only:
  `OneNodePerCode`, `GivenOnce`, `AddressesDiffer`.

## 7. CertRenewal and CertFiles

`CertRenewal` has the times. `left` is the time until NotAfter of `node.crt`, `got` that of
a certificate received and not yet written; `pc` and `wait` are the loop of
runCertRenewal and the timer, backoff or attempt it is in; `fails` counts the failures of
the present renewNow. `left` and `got` go below zero, and `Late` is how long `node.crt` has been
past NotAfter by the wall clock, as peers read it. `missed` says that it expired while the
loop could not act: the machine slept, the agent was not running, or the loop gave up, hung or
could not read the file. `silent` is the time since markRenewalActivity, `cool` the watchdog's
cooldown. Deep sleep ages certificates while timers stand still. A reload may hang, with
`inst.svc` nil (`hungDown`) or set (`hungUp`). The intervals are constants; the assumptions
on them are what the code's numbers satisfy: polls of 1 min, attempts of 30 s plus a
restart, backoffs of 1, 2, 4, 8, 16, 30, 30, ... min, 1 h of tolerance, 6 h of silence. Five
failures in a row end within 40 min of expiry, six do not end within the hour.

* `cert`: two retries, one doubling and a life of three polls, so that the certificate
  expires in every state of the loop. `PeersAccept`: unless the expiry was `missed`, up to
  MaxFails failures in a row are covered by the tolerance of peers. `WatchdogQuiet` (proved only): a loop that hangs is the
  only one that looks dead.
  `ExpiredRenewed`: an expired certificate is replaced, after exhausted retries and
  after a restart by the watchdog. Fairness: time passes, goroutines go on, the watchdog
  ticks; a request, a write and a read that are tried again and again succeed in the end
  (strong fairness), because the server and the disk are not down for ever. Two
  disturbances (sleep, hang, restart) suffice for a hang that follows a restart.
* `cert_expiry`: see `findings`; the loop renews after expiry, and it is the tolerance
  that keeps the mesh alive.

`CertFiles` has the files: `node.crt` and `node.key`, the temporary file of each, every call
of renewCert with the file it writes and where its open descriptor leads, and whether
Nebula runs with a valid certificate. os.WriteFile is two steps, truncation and writing;
os.Rename moves a file under the descriptor of another call. The reload is one step here
(`AgentLifecycle` has its interleavings), and the settings merged into `nebula.yaml`
are left out.

* `agent_host` (`sel = "files"`): the loop, one forced renewal at a time, two disturbances (forced
  renewals and crashes). Six certificates are as many as files, temporary files and
  calls can refer to. When a new one is issued, those still around are numbered by age
  (`Rank`), since only whether two are the same matters; `RankKeepsApart` shows that this
  confuses no two of them. `AloneWritesPair`: a
  renewal that no other one overlapped leaves a certificate with its key.
  `MeshRecovers`: Nebula comes back with a valid certificate, whatever pair of files was
  left, unless `node.crt` cannot be parsed. Deadlock is not checked: with such a file
  the loop only polls. A certificate does not expire within the seconds between
  response and reload. Fairness as above.

## 8. EnrollStore

State: `enrollments.json` and its backup (`main`, `bak`: missing, readable or corrupt), the
subdirectory of every name, the agent's copy of the registry (`mem`), one record per
request of the local API and one for the command line, which is a process of its own and
works on the registry it has read. Enrolling is the code's sequence: a name is chosen, the
server grants a node, `ca.crt` and `node.crt` are written, then the key and the
configuration, then the entry is added and saved; leaving and `--force` undo this in their
own orders. A heartbeat is a request of two steps, which reads a registry of its own
(HeartbeatLoads) and saves it with the network id (SetNetworkID). The start heals the ports of
the registry (MigrateListenPorts) and then the configurations (MigrateYAML), each of which may
fail to be written. A save is the write of the file and of the backup. Faults are failing writes,
a corrupted file, a crash of the agent, an interrupted command and a service that cannot be
stopped.

* `enroll_store`: two requests and the command, two networks that ask for the same name,
  two names, three ports of which another program uses one, one fault; an older registry
  with up to two entries that share a port. `AckedSurvive`: what was reported as done and not
  left is what a restart reads. `RegisteredHasCredentials`: an entry leads to its own
  certificate and key. `PortsHealedAtBoot`: after a start no two enrollments share a port and
  each `nebula.yaml` has that of its entry, unless a write of one failed. The first two are
  stated up to `clobbered` (a heartbeat, or agent and command, overwrote the registry of
  another, or the file was damaged while its backup was
  behind) and `torn` (two operations on one name), ghosts that name what the code leaves open;
  every other order is covered. The first two say nothing once `clobbered` holds, and it is
  never reset, so the run explores such states no further (`NotOverwritten`). Two requests and a command are the smallest case
  with a race in one process and one across two. Requests are interchangeable and the run
  uses their symmetry; it has no liveness property.

## 9. The agent around its instances

Runs `agent_host` and `agent_net`. Deadlock is not checked: every part may come to rest.
The type invariants are part of the theorems.

* `LegacyLayout`: the move of the files of releases before 0.10, and of a bundle that tar
  unpacks file by file, into the subdirectory of the enrollment, one rename per step, started
  over after every interruption; three interruptions. `RegisteredIsComplete`: what is
  registered has its certificates, its key and its token in its subdirectory, up to a bundle of
  which tar unpacked a part (`partial`, see the observations). Run `legacy_half_moved` (see
  `findings`), with one interruption: a move that ends between `ca.crt` and `node.crt` is
  resolved by no later start, so that `MoveEnds` fails. It assumes weak fairness of the steps
  of the move, which every start of the agent runs again.
* `SystemMove`: `install --migrate-from` and the mirror files of the system service; two
  enrollments, two faults, and directories that were at the destination before (`stale`) and
  make the move skip those of the same name. `RegistryFindsDirs`: where the registry has arrived
  every enrollment has a directory, and only one that met a stale one was left behind. It holds
  because the registry is renamed last.
* `Installation`: binary, `.old` binary, service, configuration and log, with the commands
  of the three systems, two releases and two faults. `ABinaryRemains`: an update that fails
  or is killed leaves a binary to start. On Windows an earlier `.old` is gone also when the
  rename after its removal fails.
* `Portmap`: the manager's loop, the three clients as conversations with a router, the
  change handler, and the reload that replaces Nebula's Control; two routers, of which one
  speaks NAT-PMP and UPnP, the other PCP with a private address. One move, one fault and one
  reload already cross each other. `CurrentAdvertised`; `MappingFollowsHost` under weak
  fairness of the loop, the clients and the handler, which are goroutines with timers.
* `QuicSession`: two reconnecting goroutines, the probe's loop and its deferred calls; the
  network goes down and comes back (two changes). `OneConnection`; `NothingOutlives` under
  weak fairness of started reconnects, sends, deferred calls and receivers.
* `PathQuality`: six probes out of four round-trip times and a timeout; averages are exact,
  scaled to integers. `AlarmIsReal` compares the tracker with the history of the probes. The
  four times lie on both sides of the threshold, and six probes are a streak of three, a
  pause and another streak.
* `NebulaConfig`: every writer of `nebula.yaml` with its reads and writes as steps of
  their own, and the starts of Nebula: the service that runs is taken out (CheckSvc), the file
  is loaded, the port is bound or the start fails, and only a reload that had closed a service
  is retried. Two starts of the agent, one change, one fault. `RunsTheFile`: when the writers
  are through, Nebula runs with what the file says. The ghost `astray` excepts what the code
  leaves open: a start that failed, or that overlapped another, until one has the port to itself.
  Renewals, forced renewals and the watcher of the tunnel reload alike; the model has one of
  them at a time, and one retrying goroutine. Run `routes_catch_up` (see `findings`): a rewrite that
  fails after `routes.json` was written is not repeated. It assumes weak fairness of the
  heartbeat and of its steps.
* `PeerEndpoints`: the cache file, the hostmap, and two goroutines that apply answers; one
  peer (entries of peers do not meet), two moves, two starts, a lifetime of one hour in three.
  `InjectedIsRecent`: the cache never outlives its lifetime, over restarts and lost saves. The
  file may be one of an older release that lists the agent itself; that entry is kept out once
  the instance has read its own address from the certificate (`ownIP`), and until then it is
  not, as the filter needs the address.
* `ServerSet`: the HTTP servers of the agent's API and the calls of connect, disconnect, Stop
  and reloadNebula on them, for one enrollment in kernel TUN mode, where a listener outlives
  the Nebula service. No lock spans a call. `NoLostServer`: an open listener belongs to a
  server that a later shutdown finds or that a call holds. It is stated up to `crossed`, a
  ghost that names the two gaps of the code (see the observations); the run follows a
  behaviour up to the first crossing. Two calls, two instances and two servers let a rebind
  or a publication meet a shutdown and its successor; three servers (1.3 million states)
  show nothing else.
* `Clipboard`: watcher and receiver on two machines of one network, and the server's list
  between them; two copies, three announcements. `OnlySameSecondMissed`.

## 10. The rest of the control plane

Runs `server_resources` and `server_access`. Deadlock is not checked: every part may come to
rest. The type invariants are part of the theorems.

* `Forwards`: start, the four stoppers (user, deletion, idle reaper, shutdown), the accept
  loop and the copying of a connection; two forwards in two networks, one client.
  `ListenerOwned`; `StopsReturn` under fairness of the started calls, of the reaper's ticker
  and of the drain's timeout.
* `EventHub`: two dashboards, two publishers, channels for one event. Publish walks the
  subscribers' map after it has released the lock; the walk may end the process or panic,
  both are outcomes of the model. `Delivered`: a slow or leaving subscriber takes nothing
  from the others.
* `LogStore`: the buffered stores of audit entries and network events; four entries, room
  for three, batches of two, one failing transaction, the ticker's and the shutdown's flush
  at once. `Accounted`; `EventuallyWritten` under weak fairness of the ticker's and of main's
  flush.
* `Membership`: two users, two invitations with a limit of one or none, two requests.
  `LimitKept`. A deleted network leaves its members and invitations, and these still admit
  users, because foreign keys are not enforced.
* `ProxyAuth`: the access cache, with reads, store and invalidation as separate steps.
  A request that read before a change and stores after the invalidation leaves a stale
  entry; `RevokedWithinTTL` says that the lifetime of an entry bounds what comes of it. The
  ghost `since` has one clock for the membership and one for the node, because a request
  reads the two at different times and may combine a membership that has just ended with
  a capability that has just begun. One user and three changes; two users share no entry.
* `RateLimiter`: one address over twenty ticks, long enough for a bucket to be forgotten.
  `RateKept` bounds what passes, also across forgotten buckets.
* `Accounts`: registration, password and GitHub logins; GitHub reports any address, or none,
  at each login; three requests at once. `SameAccount`: a later login with a GitHub account leads
  to the user of the earlier one, unless a login with another GitHub account and the same
  address has overwritten the link (`displaced`, see the observations).

## 11. Proofs

What TLAPS proves holds for every instance, so the runs check of each proved module only
the property that matters most and leave most type invariants and the rest to the proofs.

### The modules with a run of their own

`AgentLifecycleProofs` is about `AgentLifecycle`, `NetworkProofs` about `LighthouseManager` and
`NodeEnrollment`, `AgentEnrollmentProofs` about `CertRenewal` and `EnrollStore`. Modules that share
a module of proofs share no variable. Most leaves name the prover: Zenon is quick at steps
without arithmetic, and the others go to the SMT solver.

`LighthouseManager` and `AgentLifecycle`: the safety properties hold for any number of
networks, handlers, goroutines, instances and attempts. The only assumptions are those
named in the modules: the nil value is no instance, and the bounds are positive numbers.
In each, `IInv` conjoins the properties with what a goroutine knows at each program
counter: `Locals` (its instance is one, a service it is about to install is open),
`Unregistered` (close runs on an instance that has left the registry), `Launching` (an
instance has one launcher and no context before it), `Closing`. Without them the
properties are not inductive: setSvc preserves `OneOwner` only because the goroutine at
that point owns the service that holds the port. One lemma per action shows that the
action preserves `IInv`.

`NodeEnrollment`: proved are `CertMatchesRow`, `OneNodePerCode`, `GivenOnce`,
`AddressesDiffer` and the refinement of `OneShot`. `Claims` says that only one poll holds
the claim of a code and has not yet made its row; `OneSource` that a node's credentials have
one way out at most: its token, its bundle or one request. Steps that only move a request
share the lemma `MovedStep`.

`CertRenewal`: proved are `PeersAccept` and `WatchdogQuiet` for all intervals that satisfy
the assumptions. `LateBounded` adds to `Late` the time until the loop next acts and
bounds the sum by the deadline `Due` of the failures so far; `SilenceBounded` does the same
for the watchdog's stamp.

`EnrollStore`: the inductive invariant is `Types /\ (clobbered \/ Core)`; `clobbered` is never
reset, so that `Core` is what holds until then. `Core` has six parts. `Files`: a missing
registry has no backup and no entries, and a damaged one has a backup that is up to date.
`Synced`: the agent's copy, and the command's, name the enrollments of the file, unless marked
`stale`. `Local`: what a request has written for the name it installs, and that the registry
does not have this name. `Pairs`: two requests under way have different names. `Registered` and `Kept`: the
two properties, about the file. Each is stated up to `torn` where it is about a name. The
properties follow because a restart reads the file, or the backup of a damaged one.
`AckedAlwaysSurvive` and `RegisteredAlwaysComplete` hold for any number of requests, networks,
names, nodes and faults.

`PortsAlwaysHealed` needs another invariant, `PortInv`: in the file, its backup and both
copies, names and nodes are unique, and a node that a request has been granted is in none of
them and is no other request's. The start keeps an entry's port when no entry with a smaller
node has it, and gives the others the free ports in the order of their nodes. So the proof
counts: the ranks of two nodes differ (`RanksDiffer`, a fact about cardinalities of finite sets),
the k-th free port is one port, and it is free, so it is nobody's.

### The groups

Every part has its inductive invariant, which includes its type invariant: a lemma shows that
it holds initially, one lemma per action or per kind of action that a step keeps it, one that
it implies the property; the theorem follows by temporal reasoning alone. What each needs
beyond the property:

* `CertFiles` (`PairIsWritten`): `Own` says what a call that writes alone finds in its
  temporary file and in `node.crt`. A renewal renumbers the certificates still around:
  there are finitely many (`LiveFinite`) and `RankKeepsApart` keeps them apart, so a pair
  of files stays a pair or stays none.
* `ServerSet` (`ServerSetSafe`): a server that a call has made and not published is known to
  nobody else (`SetFresh`); the mesh address has one listener (`SetOneMesh`); the entry of a
  rebind is in the set and that of a shutdown is not (`SetPlace`); a rebind has closed the
  entry's old server (`SetOld`); Stop holds the bare server until it is closed (`SetStops`).
* `Installation` (`InstallSafe`): `CommandKnows`, what each step of a command rests on: a binary
  is in place until the step that renames it, the downloaded one is complete from its
  verification on, and only Windows moves a binary aside.
* `NebulaConfig` (`ConfigSafe`): `FollowsFile` extends the property to a writer that has
  read and not yet written, and to the goroutine that has loaded the file and is alone to
  bind the port (`Brings`); those between their write and their load are the exception.
* `SystemMove` (`MoveSafe`): the directories have all arrived, or met a stale one, from the step
  on that moves the registry, and wherever the registry has.
* `PeerEndpoints` (`PeersRecent`): an endpoint in the file, in a request's merged copy or in a
  start's copy was named by the server no earlier than its time stamp says (`SaidBy`); the
  body of an answer is of the present time (`SaidNow`), as requests are answered within the
  hour.
* `Portmap` (`PortmapSafe`): `Injected` says who still has to inject a mapping that is not
  advertised: the reload that is about to read it or to inject it. It rests on `Generations`
  (the handler's Control is not newer than the instance's) and on `Mapped` and `Obtained` (where
  the loop, the handler and a conversation have an address).
* `QuicSession` (`QuicSafe`): `SingleFlight`, one goroutine past the flag; `OpenIsKnown`, what is
  open is the session's connection or the one that goroutine has dialed after it closed
  the old one.
* `PathQuality` (`PathSafe`): `RowIsHigh`, the counter of concerning samples counts answered
  probes at the end of the history, each high above the average before it.
* `LegacyLayout` (`LegacySafe`): `Whole`, the files of an enrollment are all there at the two
  places taken together, unless they are a part of a bundle; tar knows which files it has
  unpacked and a run which files of its list it has moved, and only the run that has moved all
  of them registers.
* `Clipboard` (`ClipboardSafe`): `Stamped`, clips have times in the order of their ids;
  `SinceIsReal`, the second a receiver asks from is that of a clip still there for it, or
  longer ago than clips are kept.
* `Membership` (`MembershipSafe`): `Uses`, the members admitted by an invitation and the requests
  between their claim and their insertion (a cardinality) are at most its uses, and these at
  most its limit.
* `LogStore` (`LogSafe`): `OnePlace`, every entry is in exactly one of the channel, the two batches,
  the table, those still to be logged and those given up, and there once; `BatchKept`, a
  flusher that drains has room and one that rests holds nothing.
* `Forwards` (`ForwardsSafe`): `Counted`, the count of a forward's connections is the number of
  those with a handler; `NotStarted`, nobody is connected to a forward that was not started.
* `EventHub` (`HubTyped`, `HubDelivers`): `MapContents`, the hub's map holds exactly the channels
  whose Connect has not returned; `WalkKnows`, a walk meets every channel that stays and has
  served those it left behind. There are never more maps in use than subscriptions
  (a cardinality), which gives the type of a new map's number.
* `NodeStatus` (`NoFlapping`): `AgeBound` bounds the age of a running node's row by what is
  known of the beat that is on its way: buffered, in the batch, or lost for the k-th time.
* `ProxyAuth` (`ProxySafe`): `Timely`, what is left of an entry's life and the time since
  the right ended are together at most the lifetime, for the membership and for the node's
  capability; a request that will store one has seen the right within this tick.
* `Accounts` (`AccountsSafe`): `UserTable`, rows differ in id, address and GitHub account;
  `RequestKnows` and `SessionKnows`, the row that a request or a session refers to exists and has
  the session's GitHub account as its link, unless this is `displaced`.
* `RateLimiter` (`RateSafe`): `Spent`, what was granted and what the bucket holds are together at
  most the burst and the rate for the intervals up to the bucket's last refill; for a forgotten
  bucket what was granted is at most the rate for all intervals, because it was full again
  (`Burst <= Rate * (Stale \div Interval)`, which the code's numbers satisfy).

Assumed of the constants is only what the `ASSUME` of each part states: bounds are natural
numbers, some sets are finite, some names differ, and the two relations between the code's
times above (`TimesAssumption`, `RateAssumption`). `PathAssumption` says of `10 ^ MaxProbes` that it
is a positive number, a fact of arithmetic that the prover does not have.

Writing the proofs changed the models in small ways: a `CASE` in `ServerSet` had two guards that
can hold together, which TLC reads as the first and TLA+ leaves open; it is an `IF` now.
`EnrollStore` has the name that `chooseEnrollmentName` picks as a set with at most one member,
empty where the code returns an error, in place of a number with a special value.

### Model-checked only

* Liveness, as the prover does not reason about fairness: `SentinelResolved`,
  `DeletedEventuallyStopped`, `LiveComesOnline`, `SilentGoesOffline`,
  `ExpiredRenewed`, `MeshRecovers`, `MappingFollowsHost`, `NothingOutlives`,
  `StopsReturn`, `EventuallyWritten`.

Every safety property that a passing run checks is also the statement of a theorem.

## 12. Not modelled

`components` in `PROJECT.json` lists every part with its sources. Left out are:

* the relaying of bodies, terminals and web sockets, the listing queries and the DTOs of the
  API: they change no state that two requests share;
* the resolver files (`dns*.go`), which nothing in the program reads back, the endpoint probe,
  which `client.go:304` disables, and the package `burstsock`, which no binary uses;
* flag parsing of the two programs, static files, generated code;
* the internals of Nebula, quic-go and SQLite: where the code depends on them (a port that
  can be bound once, a unique index, a transaction that fails as a whole) the models state
  that behaviour.

## 13. Observations

Places where the models show the code to do less than a comment or a document says, or
where two steps that belong together can be separated, and no run keeps the property:

* `network_manager.go:616`: StopNetwork removes the nil sentinel of a start in flight and the
  start registers its lighthouse afterwards, so that a deleted network keeps one until the
  idle reaper comes ("stops and removes a lighthouse instance. Called when a network is
  deleted.", line 262).
* `network_manager.go:587`, `client/nebula.go:81`: when `service.New` fails the Nebula that
  `nebula.Main` has started is not stopped; its port stays bound until the process ends.
* `db.go:40`: `_foreign_keys=on` is not a parameter of the SQLite driver in use (the test
  `prune_test.go:101` passes `_pragma=foreign_keys(1)`), so that no `ON DELETE CASCADE` of the
  migrations is in force: rows of a deleted network that no handler deletes stay, and its
  invitations still make members of it.
* `network_manager.go:430`: RefreshDNS dereferences the nil sentinel of a start in
  flight; the start does not load records added meanwhile.
* `queries/networks.sql:32`: the gap-filling query considers only successors of ports in
  use, so the base port is not found again once its network is deleted.
* `client/renew.go:1090`: a renewal that is past its context check when `close` runs
  starts Nebula again in the closed instance (`instance.go:490`).
* `client/instance.go:416`: setSvc and startWatcher are two steps; a close in between
  leaves a watcher on a closed control.
* `client/api.go:175`: Stop waits for no goroutine ("returns when fully drained").
* `client/client.go:38`: the watchdog's restart is connect, which returns at once while
  `inst.control()` is not nil, as it is in the stuck state the watchdog has found ("bring the
  instance down + back up cleanly", `keepalive.go:171`).
* `client/client.go:65`: an instance is registered before it can be cancelled, so a
  disconnect in between leaves it running outside the registry.
* `db/nodes.go:126`: MarkOfflineOnStale updates by id after a separate scan and overwrites
  a row that a flush made fresh meanwhile.
* `db/nodes.go:657`: the prune reads the database only, so a machine that came back after
  the prune age and whose accepted heartbeat is still buffered loses its row
  (`status_sweeper.go:66` means machines that are "re-enrolled-and-never-returning").
* `db/nodes.go:108`: two requests of a returning node may both log its transition.
* `db/nodes.go:410`: the address is read and stored by two statements, so two requests may
  pick one; the unique index fails the second after its device code is used up.
* `db/nodes.go:421`: the address of a deleted node with the highest address is given to the
  next one ("using MAX to avoid collisions after deletes", `api/enroll.go:66`) while the
  certificate of the first is still valid (`api/proxy.go:1262`).
* `db/nodes.go:429`: with the last address taken no node can be added although addresses
  below are free.
* `db/device_codes.go:186`: SetNodeID hashes a key that is already hashed and matches no
  row.
* `api/enroll.go:153`: pending rows do not expire; the expiry guards only the token.
* `client/renew.go:1064`: the temporary path is shared by all calls of renewCert, so that
  a forced renewal and the loop may mix their files, or rename a half-written one.
* `client/renew.go:515`: a `node.crt` that cannot be parsed is never renewed by the loop
  ("will retry on next poll"), only by a forced renewal.
* `client/renew.go:617`: when the key cannot be written after the certificate, a forced
  renewal leaves a fresh certificate with an old key until the certificate expires.
* `client/renew.go:1091`: a cold start that fails schedules no retry. Two reloads that overlap
  can leave Nebula with the settings the earlier one has loaded: the later one finds the port
  taken, and gives up or, when it had closed a service, finds one there when it retries.
* `client/watchdog_escalation.go:11`: a failed restartFn has closed the instance whose
  context the watchdog runs on, so it does not "wait for the next cooldown window (30
  min), try again".
* `client/local_api.go:1321`: the limit of forced renewals is a Load and a Store, not a
  "CAS via sync.Map LoadOrStore".
* `client/enroll.go:138`: a command and the running agent overwrite each other's registry.
* `client/renew.go:252`: a heartbeat loads a registry object of its own and saves it, so that the
  mutex of `enrollments.go:77` ("all mutations go through the registry's mutex") does not order it
  with a request of the same agent: an entry added in between is lost, one removed is back.
* `client/enroll.go:182` (handleForce): the directory is removed before the entry; an ambiguous
  `--force` leaves the service stopped.
* `client/local_api.go:1171`: a failed add removes the directory of the name, which may be
  that of a concurrent request that won; SetClipboardSync and SetNetworkID
  (`enrollments.go:417`) are not undone when the save fails.
* `client/legacy_migrate.go:157`: files of a bundle that tar unpacked in part are taken for an
  old layout and registered without what is missing.
* `api/auth_oauth.go:221`: a GitHub login whose address is that of a user overwrites the link to
  the GitHub account this user had; the next login with that account creates or finds another
  user.
* `client/renew.go:400`: "never inject this enrollment's OWN VPN IP" holds only once the
  certificate has been read (`instance.go:326`).
* `client/migrate.go:94`: an interrupted `--migrate-from` cannot be run again, as the source is
  incomplete by then.
* `client/cli_update.go:30`: an update through the control plane installs the version the
  control plane has, whatever `--version` says; `installAgentWindows` restarts a service
  that exists although its comment says it "exits non-zero" (`service_windows.go:112`).
* `portmap/portmap.go:155`: the gateway is looked up only by Start, a UPnP service found is
  kept for good, a Map that fails after AddPortMapping leaves the mapping, a second Start
  returns an error where its comment says no-op, a network change during a reload is missed,
  and an address of an old mapping may stay advertised.
* `mesh/forward.go:161`: a Start that races the deletion of its network lists a forward
  afterwards (until it is idle); connections that do not drain in time are not closed by
  force; DeleteNode closes no forward and refreshes no DNS (`network_manager.go:424`).
* `api/events.go:62`: Publish walks the map of subscribers after the unlock ("sends an event
  to all subscribers of a network"); the runtime may end the process, and a send on a channel
  that Unsubscribe has closed panics.
* `api/invites.go:211`: AcceptInvite claims before it looks for a membership, so that a member
  who accepts again uses the invitation up. Logout with a header and a cookie ends only the
  cookie's session (`api/auth.go:172`).
* `api/networks.go:398`: DeleteNetwork invalidates the cache before it deletes, and the
  prune of offline nodes does not invalidate it.
* `client/clipboard.go`: a clip announced in the same second as another is never delivered;
  a slow announcement comes back as an echo; a restarted receiver fetches the latest clip
  again; a machine in two networks passes clips on from one to the other.
* `cmd/server/main.go:320`: the audit log is flushed before the HTTP server stops, so that
  entries of the last requests are lost.
* `client/serverset.go:128`: rebindMesh that races shutdownInstance calls Shutdown on a nil
  server, or puts its new server into an entry that is no longer in the set; a listener
  published over an entry hides the old one (line 58). A Serve that ends because its
  listener was closed ends the process (line 62).
* `client/client.go:147`: disconnect shuts servers down by name, so that one that is slow to
  close its instance takes the server of an instance connected meanwhile.
* `client/nebula.go:565`: upgradeTunMode drops the routes of `nebula.yaml`, and `routes.json`
  hides it; a crash during os.WriteFile leaves an empty `nebula.yaml`, on which every later
  start panics; unlocked writers lose each other's updates and share one temporary name;
  `relay.relays` only grows.
* `client/path_quality.go:121`: a lasting rise of less than 146 ms is never reported, and a
  timeout resets the streak that it "counts toward" (line 35).
* `quictransport/probe.go:225`: the receiver ends after 30 s of silence and is not started
  again while its connection lives; a late reconnect may tear a fresh connection down.
* `client/peer_cache.go`: entries of `peers.json` are never removed from the file.
