---------------------------- MODULE PeerEndpoints ---------------------------
(***************************************************************************)
(* How an agent learns where its peers are: every answer to a heartbeat    *)
(* carries the endpoints the server knows; they replace what Nebula's      *)
(* hostmap holds and are merged into a file, peers.json, that the next     *)
(* start of the instance puts into the hostmap before the first handshake  *)
(* (internal/client/peer_cache.go, renew.go, lifecycle.go).  Two           *)
(* goroutines read answers, the heartbeat loop and the warm-up of a        *)
(* (re)started mesh, and neither holds a lock: an answer may be applied    *)
(* after a newer one, the start may inject what it loaded before an        *)
(* answer, and two saves may overwrite each other.                         *)
(*                                                                         *)
(* The endpoints of a peer are a number, higher for newer ones.  Time runs *)
(* in hours, requests take seconds: time stands still while one is open.   *)
(***************************************************************************)
EXTENDS Naturals

CONSTANTS
  Peers,        \* mesh addresses in the server's answers
  Self,         \* the agent's own address, which older files may contain
  TTL,          \* peerCacheTTL, in hours
  MaxMoves,     \* bound: how often peers change their endpoints
  MaxTime, MaxStarts   \* bounds

VARIABLES
  truth,        \* the endpoints the server knows, 0: none (peer offline)
  told,         \* when the server last told the agent each of them
  moves, now, starts,
  up,           \* a Nebula runs, so its control is available
  hostmap,      \* the endpoints Nebula has, 0: none
  ownIP,        \* has the instance read its own address (cachedMeshIP)?
  file,         \* peers.json: endpoints and SeenAt; ep = 0: no entry
  boot,         \* the start of the instance, and the entries it has loaded
  req           \* the two readers of answers

vars == <<truth, told, moves, now, starts, up, hostmap, ownIP, file, boot, req>>

Readers == {"heartbeat", "warm"}
All == Peers \cup {Self}
Eps == 0..MaxMoves
NoEntry == [ep |-> 0, at |-> 0]
Nothing == [p \in All |-> NoEntry]
Quiet == [pc |-> "idle", body |-> [p \in All |-> 0], file |-> Nothing]

TypeOK ==
  /\ truth \in [All -> Eps] /\ moves \in Eps
  /\ told \in [All -> [Eps -> 0..MaxTime]]
  /\ now \in 0..MaxTime /\ starts \in 0..MaxStarts
  /\ up \in BOOLEAN /\ ownIP \in BOOLEAN
  /\ hostmap \in [All -> Eps]
  /\ file \in [All -> [ep : Eps, at : 0..MaxTime]]
  /\ boot.pc \in {"down", "load", "inject", "warm", "wait", "done"}
  /\ \A r \in Readers : req[r].pc \in {"idle", "answer", "save", "write"}

\* A file left by an earlier version may list the agent itself.
Init ==
  /\ truth = [p \in All |-> 0] /\ moves = 0 /\ now = 0 /\ starts = 0
  /\ told = [p \in All |-> [e \in Eps |-> 0]]
  /\ up = FALSE /\ ownIP = FALSE /\ hostmap = [p \in All |-> 0]
  /\ file \in {Nothing, [Nothing EXCEPT ![Self] = [ep |-> 1, at |-> 0]]}
  /\ boot = [pc |-> "down", file |-> Nothing]
  /\ req = [r \in Readers |-> Quiet]

Busy == \/ boot.pc \in {"load", "inject", "warm", "wait"}
        \/ \E r \in Readers : req[r].pc # "idle"

(***************************************************************************)
(* The world.                                                              *)
(***************************************************************************)
\* A peer moves, or comes online, and the server's lighthouse learns it.
Move(p) ==
  /\ moves < MaxMoves /\ moves' = moves + 1
  /\ truth' = [truth EXCEPT ![p] = moves + 1]
  /\ UNCHANGED <<told, now, starts, up, hostmap, file, boot, req, ownIP>>

\* A peer goes offline: the answers no longer list it.
Leave(p) ==
  /\ truth[p] # 0 /\ truth' = [truth EXCEPT ![p] = 0]
  /\ UNCHANGED <<told, moves, now, starts, up, hostmap, file, boot, req, ownIP>>

Tick ==
  /\ now < MaxTime /\ ~Busy /\ now' = now + 1
  /\ UNCHANGED <<truth, told, moves, starts, up, hostmap, file, boot, req, ownIP>>

(***************************************************************************)
(* The start of an instance.                                               *)
(***************************************************************************)
\* startMesh: the heartbeat loop already runs; the hostmap is new.
Start ==
  /\ boot.pc = "down" /\ starts < MaxStarts /\ starts' = starts + 1
  /\ up' = TRUE /\ hostmap' = [p \in All |-> 0]
  /\ boot' = [boot EXCEPT !.pc = "load"]
  /\ UNCHANGED <<truth, told, moves, now, file, req, ownIP>>

FreshAlways(e) == TRUE

\* Entries older than the TTL are left out when the file is loaded.
Fresh(e) == e.at + TTL >= now

LoadPeerCache ==
  /\ boot.pc = "load"
  /\ boot' = [pc |-> "inject",
              file |-> [p \in All |-> IF Fresh(file[p]) THEN file[p] ELSE NoEntry]]
  /\ UNCHANGED <<truth, told, moves, now, starts, up, hostmap, file, req, ownIP>>

\* meshIP reads the agent's own address from the certificate once; it may be unreadable.
MeshIP == ownIP' \in {ownIP, TRUE}

\* acceptPeerEndpoint: not the agent's own address, if it is known.
AcceptPeerEndpoint(p, own) == ~(own /\ p = Self)

\* The endpoints that are listed replace those in the hostmap.
ReplaceStaticHostMap(eps, own) ==
  [p \in All |-> IF AcceptPeerEndpoint(p, own) /\ eps[p] # 0 THEN eps[p] ELSE hostmap[p]]

InjectCachedPeerEndpoints ==
  /\ boot.pc = "inject"
  /\ MeshIP /\ hostmap' = ReplaceStaticHostMap([p \in All |-> boot.file[p].ep], ownIP')
  /\ boot' = [pc |-> "warm", file |-> Nothing]
  /\ UNCHANGED <<truth, told, moves, now, starts, up, file, req>>

\* reloadNebula starts another Nebula with an empty hostmap; only a cold
\* start is followed by the warm-up.
Reload ==
  /\ boot.pc = "done" /\ starts < MaxStarts /\ starts' = starts + 1
  /\ hostmap' = [p \in All |-> 0] /\ boot' = [boot EXCEPT !.pc = "warm"]
  /\ UNCHANGED <<truth, told, moves, now, up, file, req, ownIP>>

\* The warm-up gets no answer, or is through with it.
WarmEnds ==
  /\ boot.pc \in {"warm", "wait"} /\ req["warm"].pc = "idle"
  /\ boot' = [boot EXCEPT !.pc = "done"]
  /\ UNCHANGED <<truth, told, moves, now, starts, up, hostmap, file, req, ownIP>>

\* The agent stops at any point; a save under way may be cut off.
Stop ==
  /\ boot.pc # "down" /\ boot' = [pc |-> "down", file |-> Nothing]
  /\ up' = FALSE /\ ownIP' = FALSE /\ hostmap' = [p \in All |-> 0]
  /\ req' = [r \in Readers |-> Quiet]
  /\ UNCHANGED <<truth, told, moves, now, starts, file>>

(***************************************************************************)
(* An answer of the server, read by r.                                     *)
(***************************************************************************)
\* The server has put its current view into the answer.
Answer(r) ==
  /\ req[r].pc = "idle" /\ boot.pc # "down"
  /\ IF r = "warm" THEN boot.pc = "warm" /\ boot' = [boot EXCEPT !.pc = "wait"]
                   ELSE UNCHANGED boot
  /\ req' = [req EXCEPT ![r].pc = "answer", ![r].body = truth]
  /\ told' = [p \in All |-> [told[p] EXCEPT ![truth[p]] = now]]
  /\ UNCHANGED <<truth, moves, now, starts, up, hostmap, file, ownIP>>

\* injectPeerEndpoints: the hostmap, when a Nebula runs ...
InjectPeerEndpoints(r) ==
  /\ req[r].pc = "answer"
  /\ MeshIP /\ hostmap' = IF up THEN ReplaceStaticHostMap(req[r].body, ownIP') ELSE hostmap
  /\ req' = [req EXCEPT ![r].pc = IF \A p \in All : req[r].body[p] = 0
                                    THEN "idle" ELSE "save"]
  /\ UNCHANGED <<truth, told, moves, now, starts, up, file, boot>>

\* ... then savePeerCache: listed peers are updated, the others kept.
Merge(old, body) ==
  [p \in All |-> IF body[p] # 0 THEN [ep |-> body[p], at |-> now] ELSE old[p]]

SaveReads(r) ==
  /\ req[r].pc = "save"
  /\ req' = [req EXCEPT ![r].pc = "write", ![r].file = Merge(file, req[r].body)]
  /\ UNCHANGED <<truth, told, moves, now, starts, up, hostmap, file, boot, ownIP>>

\* Both savers use the same temporary file: when the other is writing too,
\* the rename may fail or leave a file that does not parse, which counts as
\* no file at all.
SaveWrites(r) ==
  /\ req[r].pc = "write"
  /\ file' \in {req[r].file} \cup (IF \A q \in Readers : req[q].pc = "write"
                                  THEN {file, Nothing} ELSE {})
  /\ req' = [req EXCEPT ![r] = Quiet]
  /\ UNCHANGED <<truth, told, moves, now, starts, up, hostmap, boot, ownIP>>

Reads(r) == Answer(r) \/ InjectPeerEndpoints(r) \/ SaveReads(r) \/ SaveWrites(r)

Next ==
  \/ \E p \in Peers : Move(p) \/ Leave(p)
  \/ Tick
  \/ Start \/ LoadPeerCache \/ InjectCachedPeerEndpoints \/ Reload \/ WarmEnds
  \/ Stop
  \/ \E r \in Readers : Reads(r)

Spec == Init /\ [][Next]_vars

(***************************************************************************)
(* Properties.                                                             *)
(***************************************************************************)
\* What enters the hostmap is what the server said of that peer, and said
\* within the last 24 hours: the cache ages with the certificate, over any
\* number of restarts, merges and lost saves (peer_cache.go 40-44, 157-172),
\* and the agent's own address enters only from an old file, while the certificate
\* that holds it cannot be read (renew.go 394-402).
InjectedIsRecent ==
  [][\A p \in All :
       hostmap'[p] # hostmap[p] /\ hostmap'[p] # 0 =>
         \/ p = Self /\ ~ownIP'
         \/ /\ p # Self /\ hostmap'[p] <= moves
            /\ told[p][hostmap'[p]] + TTL >= now]_vars

=============================================================================
