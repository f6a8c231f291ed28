------------------------------ MODULE Clipboard ------------------------------
(***************************************************************************)
(* Shared clipboards: internal/client/clipboard.go on the machines and     *)
(* internal/api/clipboard.go on the server.  Each enrollment of a machine  *)
(* has a watcher, which announces what changes on the machine's clipboard, *)
(* and a receiver, which polls the server and writes what other machines   *)
(* of the network announced.  A tick is a second: the suppression window   *)
(* covers the second of the write, clocks are truncated to it.             *)
(***************************************************************************)
EXTENDS Naturals

CONSTANTS
  Machines,
  NetsOf,      \* NetsOf[m]: the networks machine m shares its clipboard with
  TTL,         \* clipboardTTL in ticks
  MaxCopies,   \* bound on copies made by users
  MaxClips,    \* bound on announcements
  MaxTime      \* bound on time

Nets == UNION {NetsOf[m] : m \in Machines}
Syncs == {s \in Machines \X Nets : s[2] \in NetsOf[s[1]]}

VARIABLES
  now,
  copies,    \* copies made so far; a copy's number is its text
  watch,     \* watch[s]: a text the watcher has not looked at, 0 for none
  sync,      \* the mutable part of clipboardSync
  write,     \* write[s]: a text the receiver is about to write, 0 for none
  clips,     \* the server's cache; ids grow with time
  last       \* the last id given

vars == <<now, copies, watch, sync, write, clips, last>>

NoSync == [hash |-> 0, at |-> 0, seen |-> 0, since |-> 0]

TypeOK ==
  /\ now \in 1..MaxTime /\ last \in 0..MaxClips /\ copies \in 0..MaxCopies
  /\ watch \in [Syncs -> 0..MaxCopies] /\ write \in [Syncs -> 0..MaxCopies]
  /\ sync \in [Syncs -> [hash : 0..MaxCopies, at : 0..MaxTime, seen : 0..MaxClips, since : 0..MaxTime]]
  /\ clips \subseteq [id : 1..MaxClips, net : Nets, node : Machines, text : 1..MaxCopies,
                      at : 1..MaxTime]
  /\ \A c, d \in clips : (c.id <= d.id => c.at <= d.at) /\ (c.id = d.id => c = d)

Init ==
  /\ now = 1 /\ copies = 0
  /\ watch = [s \in Syncs |-> 0] /\ sync = [s \in Syncs |-> NoSync]
  /\ write = [s \in Syncs |-> 0] /\ clips = {} /\ last = 0

----------------------------------------------------------------------------
\* External: the operating system's clipboard tells every watcher of the machine.
Put(m, text) == watch' = [s \in Syncs |-> IF s[1] = m THEN text ELSE watch[s]]

\* External: the user copies something.
UserCopies(m) ==
  /\ copies < MaxCopies /\ copies' = copies + 1
  /\ Put(m, copies + 1)
  /\ UNCHANGED <<now, sync, write, clips, last>>

\* startClipboardSync: a new clipboardSync remembers nothing, its watcher starts from
\* what is there.
StartClipboardSync(s) ==
  /\ sync[s] # NoSync /\ write[s] = 0
  /\ sync' = [sync EXCEPT ![s] = NoSync] /\ watch' = [watch EXCEPT ![s] = 0]
  /\ UNCHANGED <<now, copies, write, clips, last>>

----------------------------------------------------------------------------
\* The watcher.

\* isOurOwnRemoteWrite.
OwnRemoteWrite(s, text) == sync[s].hash = text /\ now - sync[s].at < 1

\* The server's Announce caches the text under a new id, stamped with its own clock.
Cached(s) ==
  clips \cup {[id |-> last + 1, net |-> s[2], node |-> s[1], text |-> watch[s], at |-> now]}

\* runWatcher and announce: skipped if the text came from the receiver, lost if the
\* server does not answer.
Announce(s, ok) ==
  /\ watch[s] # 0
  /\ watch' = [watch EXCEPT ![s] = 0]
  /\ IF OwnRemoteWrite(s, watch[s]) \/ ~ok
     THEN UNCHANGED <<clips, last>>
     ELSE last < MaxClips /\ last' = last + 1 /\ clips' = Cached(s)
  /\ UNCHANGED <<now, copies, sync, write>>

----------------------------------------------------------------------------
\* The receiver.

\* get refuses what is too old, also before evictExpired removed it.
Alive(c) == now - c.at <= TTL
Candidates(s) == {c \in clips : c.net = s[2] /\ c.node # s[1] /\ Alive(c)}

\* latestForNetwork.
Latest(s) == CHOOSE c \in Candidates(s) : \A d \in Candidates(s) : d.id <= c.id

\* A plausible bug: an answer is held back for a second more.
NewerByTwo(c, since) == c.at > since + 1

\* Poll compares whole seconds.
Newer(c, since) == c.at > since

\* Poll and poll: the answer is remembered and stamped before it is written.  The next
\* poll comes after the window.
Poll(s) ==
  /\ write[s] = 0 /\ now > sync[s].at /\ Candidates(s) # {} /\ Newer(Latest(s), sync[s].since)
  /\ Latest(s).id # sync[s].seen
  /\ sync' = [sync EXCEPT ![s] = [hash |-> Latest(s).text, at |-> now, seen |-> Latest(s).id,
                                  since |-> Latest(s).at]]
  /\ write' = [write EXCEPT ![s] = Latest(s).text]
  /\ UNCHANGED <<now, copies, watch, clips, last>>

WriteClipboard(s) ==
  /\ write[s] # 0
  /\ Put(s[1], write[s])
  /\ write' = [write EXCEPT ![s] = 0]
  /\ UNCHANGED <<now, copies, sync, clips, last>>

----------------------------------------------------------------------------
\* Time passes when the watchers and receivers are done with what they began: the
\* server answers and the watcher wakes up within the suppression window.  evictExpired
\* removes what is too old; get and latestForNetwork skip it before that.
Tick ==
  /\ now < MaxTime
  /\ \A s \in Syncs : watch[s] = 0 /\ write[s] = 0
  /\ now' = now + 1
  /\ UNCHANGED <<copies, watch, sync, write, clips, last>>

EvictExpired ==
  /\ \E c \in clips : ~Alive(c)
  /\ clips' = {c \in clips : Alive(c)}
  /\ UNCHANGED <<now, copies, watch, sync, write, last>>

Next ==
  \/ \E m \in Machines : UserCopies(m)
  \/ \E s \in Syncs : StartClipboardSync(s) \/ Poll(s) \/ WriteClipboard(s)
  \/ \E s \in Syncs, ok \in BOOLEAN : Announce(s, ok)
  \/ Tick
  \/ EvictExpired

Spec == Init /\ [][Next]_vars

----------------------------------------------------------------------------
\* A receiver that has nothing to fetch has the newest clip of the other machines, or
\* one announced in the same second: only the truncation of the clock hides a clip
\* (Poll's since, poll's lastSeenClipID).
OnlySameSecondMissed ==
  \A s \in Syncs : Candidates(s) # {} /\ ~Newer(Latest(s), sync[s].since) =>
    Latest(s).id = sync[s].seen \/ Latest(s).at = sync[s].since

=============================================================================
