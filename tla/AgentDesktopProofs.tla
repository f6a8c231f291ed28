------------------------- MODULE AgentDesktopProofs -------------------------
(***************************************************************************)
(* What the agent does for the user of the machine: the clipboard, and the *)
(* moves of the files of old releases and of the desktop app: Clipboard,   *)
(* SystemMove and LegacyLayout, each with its constants, what is assumed   *)
(* of them, its instance and the properties that MCAgentHost checks; and   *)
(* the proofs of the safety properties for every value of the constants:   *)
(* the inductive invariant of each part, that its initial states satisfy   *)
(* it and its steps keep it, and the theorem about its specification.  The *)
(* parts share no state with each other while they run.                    *)
(***************************************************************************)
EXTENDS Integers, Sequences, FiniteSets, TLAPS

LOCAL INSTANCE WellFoundedInduction

-----------------------------------------------------------------------------
(* Facts about numbers.                                                    *)

\* A set of naturals has a least element ...
LEMMA LeastExists ==
    ASSUME NEW T \in SUBSET Nat, T # {}
    PROVE  \E x \in T : \A y \in T : x <= y
<1>1. PICK x \in T : \A y \in T : ~(<<y, x>> \in OpToRel(<, Nat))
  BY NatLessThanWellFounded, WFMin, Zenon
<1>2. \A y \in T : ~(y < x)
  BY <1>1, Zenon DEF OpToRel
<1> QED  BY <1>2

\* ... and a greatest one if it is bounded.
LEMMA GreatestExists ==
    ASSUME NEW n \in Nat, NEW T \in SUBSET (0..n), T # {}
    PROVE  \E x \in T : \A y \in T : y <= x
<1> DEFINE D == {n - y : y \in T}
<1>1. \A y \in T : y \in Nat /\ n - y \in Nat
  <2>1. \A y \in T : y \in 0..n
    BY Zenon
  <2> QED  BY <2>1
<1>2. D \in SUBSET Nat
  BY <1>1, Zenon
<1>3. D # {}
  BY Zenon
<1>4. PICK d \in D : \A e \in D : d <= e
  <2> HIDE DEF D
  <2> QED  BY <1>2, <1>3, LeastExists, Zenon
<1>5. PICK x \in T : d = n - x
  BY Zenon
<1>6. ASSUME NEW y \in T PROVE y <= x
  <2>1. n - y \in D
    BY Zenon
  <2> HIDE DEF D
  <2>2. d <= n - y
    BY <1>4, <2>1, Zenon
  <2> QED  BY <1>1, <1>5, <2>2
<1> QED  BY <1>6, Zenon

-----------------------------------------------------------------------------
(* Clipboard.                                                              *)

CONSTANTS
  Machines, NetsOf, ClipTTL, MaxCopies, MaxClips, ClipMaxTime

\* Bounds are numbers, and the clock starts at 1.
ASSUME ClipboardAssumption ==
  /\ ClipTTL \in Nat /\ MaxCopies \in Nat /\ MaxClips \in Nat
  /\ ClipMaxTime \in Nat \ {0}

VARIABLES
  clipNow, copies, watch, sync, write, clips, last

C == INSTANCE Clipboard WITH
       TTL <- ClipTTL, MaxTime <- ClipMaxTime, now <- clipNow

clipVars == <<clipNow, copies, watch, sync, write, clips, last>>

\* A receiver that has nothing to fetch has the newest clip of the other machines, or
\* one announced in the same second: only the truncation of the clock hides a clip
\* (Poll's since, poll's lastSeenClipID).
OnlySameSecondMissed == C!OnlySameSecondMissed

ClipType == [id : 1..MaxClips, net : C!Nets, node : Machines, text : 1..MaxCopies,
             at : 1..ClipMaxTime]
SyncType == [hash : 0..MaxCopies, at : 0..ClipMaxTime, seen : 0..MaxClips, since : 0..ClipMaxTime]

ClipTypes ==
  /\ clipNow \in 1..ClipMaxTime /\ last \in 0..MaxClips /\ copies \in 0..MaxCopies
  /\ watch \in [C!Syncs -> 0..MaxCopies] /\ write \in [C!Syncs -> 0..MaxCopies]
  /\ sync \in [C!Syncs -> SyncType]

\* The server stamps clips in the order of their ids.
Stamped ==
  /\ clips \subseteq ClipType
  /\ \A c \in clips : c.id <= last /\ c.at <= clipNow
  /\ \A c, d \in clips : (c.id <= d.id => c.at <= d.at) /\ (c.id = d.id => c = d)

\* The second a receiver asks from is that of a clip that is still there for it, or it is
\* longer ago than clips are kept.
SinceIsReal ==
  \A s \in C!Syncs : sync[s].since # 0 =>
    \/ \E c \in clips : c.at = sync[s].since /\ c.net = s[2] /\ c.node # s[1]
    \/ clipNow - sync[s].since > ClipTTL

\* The inductive invariant.
ClipInv == ClipTypes /\ Stamped /\ SinceIsReal

\* The invariant contains the type invariant of the module.
LEMMA ClipTypeOK == ClipInv => C!TypeOK
  BY Zenon DEF ClipInv, ClipTypes, Stamped, C!TypeOK, ClipType, SyncType

\* The newest candidate exists.
LEMMA LatestIsNewest ==
    ASSUME ClipInv, NEW s \in C!Syncs, C!Candidates(s) # {}
    PROVE  C!Latest(s) \in C!Candidates(s) /\ \A d \in C!Candidates(s) : d.id <= C!Latest(s).id
<1> DEFINE T == {c.id : c \in C!Candidates(s)}
<1>1. \A c \in C!Candidates(s) : c.id \in 0..MaxClips
  BY ClipboardAssumption DEF ClipInv, Stamped, C!Candidates, ClipType
<1>2. T \in SUBSET (0..MaxClips) /\ T # {}
  BY <1>1, Zenon
<1>3. \E x \in T : \A y \in T : y <= x
  <2> HIDE DEF T
  <2> QED  BY <1>2, GreatestExists, ClipboardAssumption, Zenon
<1>4. \E c \in C!Candidates(s) : \A d \in C!Candidates(s) : d.id <= c.id
  BY <1>3, Zenon
<1> QED  BY <1>4, Zenon DEF C!Latest

\* It implies that only the truncation of the clock hides a clip.
LEMMA ClipMissed == ClipInv => C!OnlySameSecondMissed
<1> SUFFICES ASSUME ClipInv, NEW s \in C!Syncs, C!Candidates(s) # {},
                    ~C!Newer(C!Latest(s), sync[s].since)
             PROVE  C!Latest(s).at = sync[s].since
  BY Zenon DEF C!OnlySameSecondMissed
<1>1. PICK l \in clips : l = C!Latest(s) /\ l \in C!Candidates(s) /\ \A d \in C!Candidates(s) : d.id <= l.id
  BY LatestIsNewest, Zenon DEF C!Candidates
<1>2. l.at \in 1..ClipMaxTime /\ sync[s].since \in Nat /\ clipNow \in Nat /\ l.id \in Nat
  BY DEF ClipInv, ClipTypes, Stamped, ClipType, SyncType
<1>3. ~(l.at > sync[s].since)
  BY <1>1, Zenon DEF C!Newer
<1>4. clipNow - l.at <= ClipTTL
  BY <1>1, Zenon DEF C!Candidates, C!Alive
<1>5. sync[s].since # 0
  BY <1>2, <1>3
<1>6. ~(clipNow - sync[s].since > ClipTTL)
  BY <1>2, <1>3, <1>4, ClipboardAssumption
<1>7. PICK c \in clips : c.at = sync[s].since /\ c.net = s[2] /\ c.node # s[1]
  BY <1>5, <1>6, Zenon DEF ClipInv, SinceIsReal
<1>8. c \in C!Candidates(s)
  BY <1>2, <1>6, <1>7, ClipboardAssumption DEF C!Candidates, C!Alive
<1>9. c.id <= l.id
  BY <1>1, <1>8, Zenon
<1>10. c.at <= l.at
  BY <1>9, Zenon DEF ClipInv, Stamped
<1> QED  BY <1>1, <1>2, <1>3, <1>7, <1>10

\* What the fresh receiver is.
LEMMA NoSyncType == C!NoSync \in SyncType /\ C!NoSync.since = 0
  BY ClipboardAssumption DEF C!NoSync, SyncType

\* No clip yet.
LEMMA ClipInit == C!Init => ClipInv
  BY NoSyncType, ClipboardAssumption DEF C!Init, ClipInv, ClipTypes, Stamped, SinceIsReal

\* Nothing that the server knows changes.
LEMMA ServerKept ==
    ASSUME ClipInv, ClipTypes', UNCHANGED <<clips, last, clipNow>>,
           \A s \in C!Syncs : sync'[s].since = sync[s].since \/ sync'[s].since = 0
    PROVE  ClipInv'
<1>1. Stamped'
  BY Zenon DEF ClipInv, Stamped
<1>2. SinceIsReal'
  BY Zenon DEF ClipInv, SinceIsReal
<1> QED  BY <1>1, <1>2, Zenon DEF ClipInv

\* A text appears on the clipboard of a machine.
LEMMA PutType ==
    ASSUME ClipInv, NEW x, NEW text \in 0..MaxCopies, C!Put(x, text)
    PROVE  watch' \in [C!Syncs -> 0..MaxCopies]
  BY Zenon DEF C!Put, ClipInv, ClipTypes

\* The user copies.
LEMMA UserCopiesStep == ASSUME ClipInv, NEW x \in Machines, C!UserCopies(x) PROVE ClipInv'
<1>1. copies + 1 \in 0..MaxCopies
  BY ClipboardAssumption DEF C!UserCopies, ClipInv, ClipTypes
<1>2. watch' \in [C!Syncs -> 0..MaxCopies]
  BY <1>1, PutType, Zenon DEF C!UserCopies
<1>3. ClipTypes'
  BY <1>1, <1>2, Zenon DEF C!UserCopies, ClipInv, ClipTypes
<1> QED  BY <1>3, ServerKept, Zenon DEF C!UserCopies

\* startClipboardSync.
LEMMA StartSyncStep == ASSUME ClipInv, NEW s \in C!Syncs, C!StartClipboardSync(s) PROVE ClipInv'
<1>1. ClipTypes'
  BY NoSyncType, ClipboardAssumption, Zenon DEF C!StartClipboardSync, ClipInv, ClipTypes
<1>2. \A t \in C!Syncs : sync'[t].since = sync[t].since \/ sync'[t].since = 0
  BY NoSyncType, Zenon DEF C!StartClipboardSync, ClipInv, ClipTypes
<1> QED  BY <1>1, <1>2, ServerKept, Zenon DEF C!StartClipboardSync

\* The receiver writes.
LEMMA WriteClipboardStep == ASSUME ClipInv, NEW s \in C!Syncs, C!WriteClipboard(s) PROVE ClipInv'
<1>1. write[s] \in 0..MaxCopies
  BY Zenon DEF ClipInv, ClipTypes
<1>2. watch' \in [C!Syncs -> 0..MaxCopies]
  BY <1>1, PutType, Zenon DEF C!WriteClipboard
<1>3. write' \in [C!Syncs -> 0..MaxCopies]
  BY ClipboardAssumption DEF C!WriteClipboard, ClipInv, ClipTypes
<1>4. ClipTypes'
  BY <1>2, <1>3, Zenon DEF C!WriteClipboard, ClipInv, ClipTypes
<1> QED  BY <1>4, ServerKept, Zenon DEF C!WriteClipboard

\* The server answers a poll with the newest clip.
LEMMA PollStep == ASSUME ClipInv, NEW s \in C!Syncs, C!Poll(s) PROVE ClipInv'
<1>1. PICK l \in clips : l = C!Latest(s) /\ l \in C!Candidates(s)
  BY LatestIsNewest, Zenon DEF C!Candidates, C!Poll
<1> DEFINE x == [hash |-> l.text, at |-> clipNow, seen |-> l.id, since |-> l.at]
<1>2. /\ sync' = [sync EXCEPT ![s] = x] /\ write' = [write EXCEPT ![s] = l.text]
      /\ UNCHANGED <<clipNow, copies, watch, clips, last>>
  BY <1>1, Zenon DEF C!Poll
<1>3. /\ l.text \in 0..MaxCopies /\ l.id \in 0..MaxClips /\ l.at \in 0..ClipMaxTime /\ clipNow \in 0..ClipMaxTime
      /\ l.net = s[2] /\ l.node # s[1]
  BY <1>1, ClipboardAssumption DEF ClipInv, ClipTypes, Stamped, ClipType, C!Candidates
<1>4. x \in SyncType /\ x.since = l.at
  BY <1>3, Zenon DEF SyncType
<1> HIDE DEF x
<1>5. ClipTypes'
  BY <1>2, <1>3, <1>4, Zenon DEF ClipInv, ClipTypes
<1>6. Stamped'
  BY <1>2, Zenon DEF ClipInv, Stamped
<1>7. ASSUME NEW t \in C!Syncs, sync'[t].since # 0
      PROVE  \/ \E c \in clips : c.at = sync'[t].since /\ c.net = t[2] /\ c.node # t[1]
             \/ clipNow - sync'[t].since > ClipTTL
  <2>1. CASE t = s
    BY <1>2, <1>3, <1>4, <2>1 DEF ClipInv, ClipTypes
  <2>2. CASE t # s
    <3>1. sync'[t] = sync[t]
      BY <1>2, <2>2, Zenon DEF ClipInv, ClipTypes
    <3> QED  BY <1>7, <3>1, Zenon DEF ClipInv, SinceIsReal
  <2> QED  BY <2>1, <2>2, Zenon
<1>8. SinceIsReal'
  BY <1>2, <1>7, Zenon DEF SinceIsReal
<1> QED  BY <1>5, <1>6, <1>8, Zenon DEF ClipInv

\* The watcher announces, and the server stamps the clip.
LEMMA AnnounceStep ==
    ASSUME ClipInv, NEW s \in C!Syncs, NEW ok \in BOOLEAN, C!Announce(s, ok) PROVE ClipInv'
<1>1. watch' \in [C!Syncs -> 0..MaxCopies] /\ UNCHANGED <<clipNow, copies, sync, write>>
  BY ClipboardAssumption DEF C!Announce, ClipInv, ClipTypes
<1>2. CASE UNCHANGED <<clips, last>>
  <2>1. ClipTypes'
    BY <1>1, <1>2, Zenon DEF ClipInv, ClipTypes
  <2> QED  BY <1>1, <1>2, <2>1, ServerKept, Zenon
<1>3. CASE last < MaxClips /\ last' = last + 1 /\ clips' = C!Cached(s)
  <2> DEFINE c == [id |-> last + 1, net |-> s[2], node |-> s[1], text |-> watch[s], at |-> clipNow]
  <2>1. /\ last \in Nat /\ last + 1 \in 1..MaxClips /\ s[2] \in C!Nets /\ s[1] \in Machines
        /\ watch[s] \in 1..MaxCopies /\ clipNow \in 1..ClipMaxTime
    <3>1. last \in Nat /\ last + 1 \in 1..MaxClips
      BY <1>3, ClipboardAssumption DEF ClipInv, ClipTypes
    <3>2. s[2] \in C!Nets /\ s[1] \in Machines
      BY Zenon DEF C!Syncs
    <3>3. watch[s] \in 1..MaxCopies
      BY ClipboardAssumption DEF C!Announce, ClipInv, ClipTypes
    <3> QED  BY <3>1, <3>2, <3>3, Zenon DEF ClipInv, ClipTypes
  <2>2. c \in ClipType /\ c.id = last + 1 /\ c.at = clipNow
    BY <2>1, Zenon DEF ClipType
  <2>3. clips' = clips \cup {c}
    BY <1>3, Zenon DEF C!Cached
  <2> HIDE DEF c
  <2>4. \A d \in clips : d.id \in Nat /\ d.at \in Nat /\ d.id <= last /\ d.at <= clipNow
    BY DEF ClipInv, Stamped, ClipType
  <2>5. ClipTypes'
    BY <1>1, <1>3, <2>1, ClipboardAssumption DEF ClipInv, ClipTypes
  <2>6. \A d \in clips' : d.id <= last' /\ d.at <= clipNow'
    <3>1. last' = last + 1 /\ clipNow' = clipNow /\ last \in Nat /\ clipNow \in Nat
      BY <1>1, <1>3, <2>1
    <3>2. \A d \in clips : d.id <= last + 1 /\ d.at <= clipNow
      BY <2>4, <3>1
    <3>3. c.id <= last + 1 /\ c.at <= clipNow
      BY <2>2, <3>1
    <3> QED  BY <2>3, <3>1, <3>2, <3>3
  <2>7. \A d, e \in clips' : (d.id <= e.id => d.at <= e.at) /\ (d.id = e.id => d = e)
    <3>1. \A d \in clips : ~(c.id <= d.id) /\ c.id # d.id /\ d.at <= c.at
      BY <2>1, <2>2, <2>4
    <3>2. \A d, e \in clips : (d.id <= e.id => d.at <= e.at) /\ (d.id = e.id => d = e)
      BY Zenon DEF ClipInv, Stamped
    <3>3. c.at <= c.at
      BY <2>1, <2>2
    <3> QED  BY <2>3, <3>1, <3>2, <3>3
  <2>8. Stamped'
    BY <2>2, <2>3, <2>6, <2>7 DEF ClipInv, Stamped
  <2>9. SinceIsReal'
    BY <1>1, <2>3 DEF ClipInv, SinceIsReal
  <2> QED  BY <2>5, <2>8, <2>9, Zenon DEF ClipInv
<1> QED  BY <1>2, <1>3 DEF C!Announce

\* Time passes.
LEMMA ClipTickStep == ASSUME ClipInv, C!Tick PROVE ClipInv'
<1>1. /\ clipNow' = clipNow + 1 /\ clipNow' \in 1..ClipMaxTime /\ clipNow \in Nat
      /\ UNCHANGED <<copies, watch, sync, write, clips, last>>
  BY ClipboardAssumption DEF C!Tick, ClipInv, ClipTypes
<1>2. ClipTypes'
  BY <1>1, Zenon DEF ClipInv, ClipTypes
<1>3. \A c \in clips : c.at \in Nat /\ c.at <= clipNow
  BY DEF ClipInv, Stamped, ClipType
<1>4. \A c \in clips : c.at <= clipNow'
  BY <1>1, <1>3
<1>5. Stamped'
  BY <1>1, <1>4, Zenon DEF ClipInv, Stamped
<1>6. \A s \in C!Syncs : sync[s].since \in Nat
  BY DEF ClipInv, ClipTypes, SyncType
<1>7. \A s \in C!Syncs : clipNow - sync[s].since > ClipTTL => clipNow' - sync[s].since > ClipTTL
  BY <1>1, <1>6, ClipboardAssumption
<1>8. SinceIsReal'
  BY <1>1, <1>7, Zenon DEF ClipInv, SinceIsReal
<1> QED  BY <1>2, <1>5, <1>8 DEF ClipInv

\* evictExpired.
LEMMA EvictStep == ASSUME ClipInv, C!EvictExpired PROVE ClipInv'
<1>1. /\ clips' = {c \in clips : C!Alive(c)}
      /\ UNCHANGED <<clipNow, copies, watch, sync, write, last>>
  BY Zenon DEF C!EvictExpired
<1>2. ClipTypes'
  BY <1>1, Zenon DEF ClipInv, ClipTypes
<1>3. Stamped'
  BY <1>1, Zenon DEF ClipInv, Stamped
<1>4. clipNow \in Nat /\ \A s \in C!Syncs : sync[s].since \in Nat
  BY DEF ClipInv, ClipTypes, SyncType
<1>5. ASSUME NEW s \in C!Syncs, sync[s].since # 0
      PROVE  \/ \E c \in clips' : c.at = sync[s].since /\ c.net = s[2] /\ c.node # s[1]
             \/ clipNow - sync[s].since > ClipTTL
  <2>1. CASE clipNow - sync[s].since > ClipTTL
    BY <2>1, Zenon
  <2>2. CASE ~(clipNow - sync[s].since > ClipTTL)
    <3>1. PICK c \in clips : c.at = sync[s].since /\ c.net = s[2] /\ c.node # s[1]
      BY <1>5, <2>2, Zenon DEF ClipInv, SinceIsReal
    <3>2. C!Alive(c)
      BY <1>4, <2>2, <3>1, ClipboardAssumption DEF C!Alive
    <3> QED  BY <1>1, <3>1, <3>2, Zenon
  <2> QED  BY <2>1, <2>2, Zenon
<1>6. SinceIsReal'
  BY <1>1, <1>5 DEF SinceIsReal
<1> QED  BY <1>2, <1>3, <1>6 DEF ClipInv

\* Every step of Clipboard keeps the invariant.
LEMMA ClipStep == ClipInv /\ [C!Next]_clipVars => ClipInv'
<1> SUFFICES ASSUME ClipInv, [C!Next]_clipVars PROVE ClipInv'
  OBVIOUS
<1>1. CASE UNCHANGED clipVars
  BY <1>1, Zenon DEF ClipInv, ClipTypes, Stamped, SinceIsReal, clipVars
<1>2. CASE C!Next
  BY <1>2, UserCopiesStep, StartSyncStep, PollStep, WriteClipboardStep, AnnounceStep, ClipTickStep,
     EvictStep DEF C!Next
<1> QED  BY <1>1, <1>2

\* A receiver misses no clip but one of the second of the last it saw, for any machines,
\* networks and lifetimes (Poll's since, evictExpired).
THEOREM ClipboardSafe == C!Spec => [](C!TypeOK /\ OnlySameSecondMissed)
<1>1. C!Init => ClipInv
  BY ClipInit
<1>2. ClipInv /\ [C!Next]_(C!vars) => ClipInv'
  BY ClipStep, Zenon DEF clipVars, C!vars
<1>3. ClipInv => C!TypeOK /\ OnlySameSecondMissed
  BY ClipTypeOK, ClipMissed, Zenon DEF OnlySameSecondMissed
<1> QED  BY <1>1, <1>2, <1>3, PTL DEF C!Spec

-----------------------------------------------------------------------------
(* SystemMove.                                                             *)

CONSTANTS
  Enrollments, MoveMaxFaults

\* A bound.
ASSUME MoveAssumption ==
  MoveMaxFaults \in Nat

VARIABLES
  src, dst, stale, sReg, sBak, dReg, dBak, movePc, moveAgent, console, home, token, port,
  moveFaults

S == INSTANCE SystemMove WITH
       MaxFaults <- MoveMaxFaults, pc <- movePc, agent <- moveAgent, faults <- moveFaults

moveVars == <<src, dst, stale, sReg, sBak, dReg, dBak, movePc, moveAgent, console, home,
              token, port, moveFaults>>

\* migrateEnrollmentsToSystem moves the registry last: a registry at the destination
\* finds every directory it names, and the service can start all enrollments; each is the
\* one the source had, unless the destination had one of that name before.
RegistryFindsDirs == S!RegistryFindsDirs

MoveTypes ==
  /\ src \subseteq Enrollments /\ dst \subseteq Enrollments /\ stale \subseteq Enrollments
  /\ sReg \in BOOLEAN /\ sBak \in BOOLEAN /\ dReg \in BOOLEAN /\ dBak \in BOOLEAN /\ moveAgent \in BOOLEAN
  /\ movePc \in {"idle", "dirs", "registry", "backup", "install"}
  /\ console \in {"root", "user"} /\ home \in {"root", "user"}
  /\ token \in {"none", "root", "user"} /\ port \in {"none", "root", "user"}
  /\ moveFaults \in 0..MoveMaxFaults

\* Once the command is past the directories they are all at the destination, and the
\* registry comes after them; a directory is at both places only if it was before.
MoveInv ==
  /\ MoveTypes
  /\ src \cap dst \subseteq stale
  /\ movePc \in {"registry", "backup", "install"} => dst = Enrollments
  /\ dReg => dst = Enrollments

\* Nothing has been moved.
LEMMA MoveInit == S!Init => MoveInv
<1> SUFFICES ASSUME S!Init PROVE MoveInv
  OBVIOUS
<1>1. 0 \in 0..MoveMaxFaults
  BY MoveAssumption
<1>2. sReg \in BOOLEAN /\ sBak \in BOOLEAN /\ dReg \in BOOLEAN /\ dBak \in BOOLEAN /\ moveAgent \in BOOLEAN /\ ~dReg
  BY Zenon DEF S!Init
<1>3. /\ src \subseteq Enrollments /\ dst \subseteq Enrollments /\ stale = dst /\ movePc = "idle"
      /\ console \in {"root", "user"} /\ home = "root" /\ token = "none" /\ port = "none" /\ moveFaults = 0
  BY Zenon DEF S!Init
<1> QED  BY <1>1, <1>2, <1>3 DEF MoveInv, MoveTypes

\* A failure is counted.
LEMMA MoveFault == ASSUME moveFaults \in 0..MoveMaxFaults, S!Fault PROVE moveFaults' \in 0..MoveMaxFaults
  BY MoveAssumption DEF S!Fault

\* The steps of the command.
LEMMA CommandStep ==
    ASSUME MoveInv, S!Validate \/ S!MoveDirs \/ S!MoveRegistry \/ S!MoveBackup \/ S!InstallService
    PROVE  MoveInv'
<1>1. CASE S!Validate
  BY <1>1, Zenon DEF MoveInv, MoveTypes, S!Validate, S!mirror
<1>2. CASE S!MoveDirs
  <2>1. UNCHANGED <<stale, sReg, sBak, dReg, dBak, moveAgent, console, home, token, port>> /\ movePc = "dirs"
    BY <1>2, Zenon DEF S!MoveDirs, S!mirror
  <2>2. \/ \E e \in Enrollments \ dst : dst' = dst \cup {e} /\ src' = src \ {e} /\ UNCHANGED <<movePc, moveFaults>>
        \/ dst = Enrollments /\ movePc' = "registry" /\ UNCHANGED <<src, dst, moveFaults>>
        \/ S!Fault /\ movePc' = "idle" /\ UNCHANGED <<src, dst>>
    BY <1>2, Zenon DEF S!MoveDirs, S!Abort
  <2> QED  BY <2>1, <2>2, MoveFault DEF MoveInv, MoveTypes
<1>3. CASE S!MoveRegistry
  BY <1>3, MoveFault, ZenonT(40) DEF MoveInv, MoveTypes, S!MoveRegistry, S!Abort, S!mirror
<1>4. CASE S!MoveBackup
  <2>1. UNCHANGED <<src, dst, stale, sReg, dReg, moveAgent, console, home, token, port>> /\ movePc = "backup"
    BY <1>4, Zenon DEF S!MoveBackup, S!mirror
  <2>2. \/ dBak' = (dBak \/ sBak) /\ sBak' = FALSE /\ movePc' = "install" /\ UNCHANGED moveFaults
        \/ S!Fault /\ movePc' \in {"idle", "install"} /\ UNCHANGED <<sBak, dBak>>
    BY <1>4, Zenon DEF S!MoveBackup, S!Abort
  <2>3. sBak' \in BOOLEAN /\ dBak' \in BOOLEAN
    BY <2>2, Zenon DEF MoveInv, MoveTypes
  <2>4. moveFaults' \in 0..MoveMaxFaults /\ movePc' \in {"idle", "install"}
    BY <2>2, MoveFault, Zenon DEF MoveInv, MoveTypes
  <2> QED  BY <2>1, <2>3, <2>4 DEF MoveInv, MoveTypes
<1>5. CASE S!InstallService
  BY <1>5, MoveFault, ZenonT(40) DEF MoveInv, MoveTypes, S!InstallService
<1> QED  BY <1>1, <1>2, <1>3, <1>4, <1>5

\* The mirror of the local API's files.
LEMMA MirrorStep ==
    ASSUME MoveInv, S!WriteMirror \/ S!SelfHeal \/ S!Reboot \/ S!Login
    PROVE  MoveInv'
<1>1. /\ UNCHANGED <<src, dst, stale, sReg, sBak, dReg, dBak, movePc, moveAgent, home>> /\ console' \in {console, "root", "user"}
  BY Zenon DEF S!WriteMirror, S!SelfHeal, S!Reboot, S!Login, S!moved
<1>2. /\ token' \in {token, "none", "root", "user"} /\ port' \in {port, "none", "root", "user"}
      /\ UNCHANGED moveFaults \/ S!Fault
  BY Zenon DEF S!WriteMirror, S!SelfHeal, S!Reboot, S!Login, S!ChownMirrorFiles, S!Chown
<1> QED  BY <1>1, <1>2, MoveFault DEF MoveInv, MoveTypes

\* Every step of the module, and none.
LEMMA MoveStep == MoveInv /\ [S!Next]_(S!vars) => MoveInv'
<1> SUFFICES ASSUME MoveInv, [S!Next]_(S!vars) PROVE MoveInv'
  BY Zenon
<1>1. CASE UNCHANGED S!vars
  BY <1>1 DEF S!vars, S!moved, S!mirror, MoveInv, MoveTypes
<1>2. CASE S!Next
  BY <1>2, CommandStep, MirrorStep, Zenon DEF S!Next
<1> QED  BY <1>1, <1>2

\* A registry at the destination finds every directory it names, and those of the source
\* but for names the destination had before, for any enrollments and any number of
\* failures and kills (migrateEnrollmentsToSystem).
THEOREM MoveSafe == S!Spec => [](S!TypeOK /\ RegistryFindsDirs)
<1>1. S!Init => MoveInv
  BY MoveInit
<1>2. MoveInv /\ [S!Next]_(S!vars) => MoveInv'
  BY MoveStep, Zenon
<1>3. MoveInv => S!TypeOK /\ RegistryFindsDirs
  <2>1. MoveInv => S!TypeOK
    BY Zenon DEF MoveInv, MoveTypes, S!TypeOK
  <2>2. MoveInv => RegistryFindsDirs
    BY Zenon DEF MoveInv, MoveTypes, RegistryFindsDirs, S!RegistryFindsDirs
  <2> QED  BY <2>1, <2>2
<1> QED  BY <1>1, <1>2, <1>3, PTL DEF S!Spec

-----------------------------------------------------------------------------
(* LegacyLayout.                                                           *)

CONSTANTS
  LegacyMaxFaults

\* A bound.
ASSUME LegacyAssumption ==
  LegacyMaxFaults \in Nat

VARIABLES
  legacyRoot, sub, legacyReg, legacyPc, nth, partial, legacyFaults

L == INSTANCE LegacyLayout WITH
       MaxFaults <- LegacyMaxFaults, root <- legacyRoot, reg <- legacyReg, pc <- legacyPc,
       faults <- legacyFaults

legacyVars == <<legacyRoot, sub, legacyReg, legacyPc, nth, partial, legacyFaults>>

\* completeMigration, registerMigratedEnrollment, enrollFromBundle: whatever was
\* interrupted before, an enrollment is registered only with its certificates, its key
\* and its token in the subdirectory; except after a bundle that tar did not unpack to
\* the end, whose files are then taken for an old layout.
RegisteredIsComplete == L!RegisteredIsComplete

\* The files of an enrollment by their places in the lists.
FileNames == {"ca.crt", "node.crt", "node.key", "token", "endpoint", "node-id"}
Delivered4 == {"ca.crt", "node.crt", "node.key", "token"}

LegacyTypes ==
  /\ legacyRoot \subseteq FileNames /\ sub \subseteq FileNames /\ legacyReg \in BOOLEAN
  /\ partial \in BOOLEAN
  /\ legacyPc \in {"idle", "move", "complete", "tar", "unpack", "register"}
  /\ nth \in 1..7 /\ legacyFaults \in 0..LegacyMaxFaults
  /\ legacyPc \in {"move", "complete"} => nth \in 1..6
  /\ legacyPc \in {"tar", "unpack"} => nth \in 1..5

\* There is an enrollment, complete at the two places taken together, or a bundle of which
\* tar left the rest.
Whole == partial \/ Delivered4 \subseteq legacyRoot \cup sub

\* What a run has done with the files before the next one, and what is registered.
LegacyInv ==
  /\ LegacyTypes
  /\ Whole \/ (legacyRoot = {} /\ sub = {})
  /\ legacyPc # "idle" => Whole
  /\ legacyPc = "tar" => \A k \in 1..4 : k < nth => L!BundledFiles[k] \in legacyRoot
  /\ legacyPc = "move" => \A k \in 1..6 : k < nth => L!Files[k] \in sub \cup {"node-id"}
  /\ legacyPc = "complete" => \A k \in 1..6 : k < nth => L!Files[k] \notin legacyRoot
  /\ legacyPc = "unpack" => ~partial /\ \A k \in 1..4 : k < nth => L!BundledFiles[k] \in sub
  /\ legacyPc = "register" \/ legacyReg => partial \/ Delivered4 \subseteq sub
  /\ legacyReg => legacyPc = "idle"
  /\ legacyPc = "idle" => nth = 1

\* The lists, by their places.
LEMMA LegacyFiles ==
  /\ L!Range(L!Files) = FileNames /\ L!Range(L!BundledFiles) = Delivered4
  /\ Len(L!Files) = 6 /\ Len(L!BundledFiles) = 4 /\ L!Optional = {"node-id"}
  /\ L!Required = {"ca.crt", "node.crt", "node.key", "token", "endpoint"}
  /\ \A k \in 1..6 : L!Files[k] \in FileNames
  /\ \A k \in 1..4 : L!BundledFiles[k] \in Delivered4
  /\ L!Files[1] = "ca.crt" /\ L!Files[2] = "node.crt" /\ L!Files[3] = "node.key" /\ L!Files[4] = "token"
  /\ L!BundledFiles[1] = "ca.crt" /\ L!BundledFiles[2] = "node.crt"
  /\ L!BundledFiles[3] = "node.key" /\ L!BundledFiles[4] = "token"
<1>1. /\ Len(L!Files) = 6 /\ Len(L!BundledFiles) = 4
      /\ L!Files[1] = "ca.crt" /\ L!Files[2] = "node.crt" /\ L!Files[3] = "node.key"
      /\ L!Files[4] = "token" /\ L!Files[5] = "endpoint" /\ L!Files[6] = "node-id"
      /\ L!BundledFiles[1] = "ca.crt" /\ L!BundledFiles[2] = "node.crt"
      /\ L!BundledFiles[3] = "node.key" /\ L!BundledFiles[4] = "token"
  BY Zenon DEF L!Files, L!BundledFiles
<1>2. DOMAIN L!Files = {1, 2, 3, 4, 5, 6} /\ DOMAIN L!BundledFiles = {1, 2, 3, 4}
  BY DEF L!Files, L!BundledFiles
<1>3. L!Range(L!Files) = FileNames
  BY <1>1, <1>2 DEF L!Range, FileNames
<1>4. L!Range(L!BundledFiles) = Delivered4
  BY <1>1, <1>2 DEF L!Range, Delivered4
<1>5. L!Optional = {"node-id"}
  BY Zenon DEF L!Optional
<1>6. L!Required = {"ca.crt", "node.crt", "node.key", "token", "endpoint"}
  BY <1>3, <1>5 DEF L!Required, FileNames
<1>7. \A k \in 1..6 : L!Files[k] \in FileNames
  BY <1>1 DEF FileNames
<1>8. \A k \in 1..4 : L!BundledFiles[k] \in Delivered4
  BY <1>1 DEF Delivered4
<1> QED  BY <1>1, <1>3, <1>4, <1>5, <1>6, <1>7, <1>8, Zenon

\* The invariant contains the type invariant of the module and the property.
LEMMA LegacySays == LegacyInv => L!TypeOK /\ RegisteredIsComplete
<1>1. LegacyInv => L!TypeOK
  BY LegacyFiles DEF LegacyInv, LegacyTypes, L!TypeOK
<1>2. LegacyInv => RegisteredIsComplete
  BY LegacyFiles, Zenon DEF LegacyInv, RegisteredIsComplete, L!RegisteredIsComplete
<1> QED  BY <1>1, <1>2

\* It holds on a machine with the old layout and on a new one.
LEMMA LegacyInit == L!Init => LegacyInv
<1> SUFFICES ASSUME L!Init PROVE LegacyInv
  OBVIOUS
<1>1. /\ legacyRoot \in {FileNames, {"ca.crt", "node.crt", "node.key", "token", "endpoint"}, {}}
      /\ sub = {} /\ legacyReg = FALSE /\ legacyPc = "idle" /\ nth = 1
      /\ partial = FALSE /\ legacyFaults = 0
  BY LegacyFiles, Zenon DEF L!Init
<1>2. LegacyTypes
  <2>1. legacyRoot \subseteq FileNames /\ sub \subseteq FileNames
    BY <1>1, Zenon DEF FileNames
  <2>2. nth \in 1..7 /\ legacyFaults \in 0..LegacyMaxFaults
    BY <1>1, LegacyAssumption
  <2> QED  BY <1>1, <2>1, <2>2, Zenon DEF LegacyTypes
<1>3. Whole \/ (legacyRoot = {} /\ sub = {})
  BY <1>1, Zenon DEF Whole, FileNames, Delivered4
<1> QED  BY <1>1, <1>2, <1>3, Zenon DEF LegacyInv

\* A run that ends early leaves the files as they are.
LEMMA LegacyQuit ==
    ASSUME LegacyInv, legacyPc # "idle", L!Quit, L!Fault \/ UNCHANGED legacyFaults,
           UNCHANGED <<legacyRoot, sub, legacyReg, partial>>
    PROVE  LegacyInv'
<1>1. legacyFaults' \in 0..LegacyMaxFaults
  BY LegacyAssumption DEF LegacyInv, LegacyTypes, L!Fault
<1> QED  BY <1>1 DEF LegacyInv, LegacyTypes, L!Quit, Whole

\* The next file, after one that is where it belongs.
LEMMA LegacyAfter ==
    ASSUME LegacyInv, legacyPc \in {"move", "complete"}, L!After(L!Files)
    PROVE  \/ nth = 6 /\ legacyPc' = "register" /\ nth' = 1
           \/ nth \in 1..5 /\ nth' = nth + 1 /\ nth' \in 1..6 /\ legacyPc' = legacyPc
  BY LegacyFiles DEF LegacyInv, LegacyTypes, L!After

\* A file moves from the root to the subdirectory.
LEMMA LegacyRename ==
    ASSUME LegacyInv, legacyPc # "idle", NEW f \in FileNames, L!Rename(f), partial' = partial
    PROVE  /\ legacyRoot' \subseteq FileNames /\ sub' \subseteq FileNames
           /\ Whole' /\ f \in sub' /\ f \notin legacyRoot' /\ sub \subseteq sub' /\ legacyRoot' \subseteq legacyRoot
  BY Zenon DEF LegacyInv, LegacyTypes, L!Rename, Whole

\* The loop of migrateLegacyLayout keeps the invariant.
LEMMA LegacyMove == ASSUME LegacyInv, L!Move PROVE LegacyInv'
<1> DEFINE f == L!Files[nth]
<1>1. f \in FileNames /\ legacyPc = "move" /\ ~legacyReg /\ nth \in 1..6
  BY LegacyFiles, Zenon DEF LegacyInv, LegacyTypes, L!Move
<1>2. CASE L!Quit /\ (L!Fault \/ UNCHANGED legacyFaults) /\ UNCHANGED <<legacyRoot, sub, legacyReg, partial>>
  BY <1>1, <1>2, LegacyQuit, Zenon
<1>3. ASSUME L!After(L!Files), UNCHANGED <<legacyFaults, legacyReg, partial>>,
             legacyRoot' \subseteq FileNames, sub' \subseteq FileNames, Whole',
             sub \subseteq sub', f \in sub' \cup {"node-id"}
      PROVE  LegacyInv'
  <2> HIDE DEF f
  <2>1. \A k \in 1..6 : k < nth => L!Files[k] \in sub' \cup {"node-id"}
    BY <1>1, <1>3 DEF LegacyInv
  <2>2. CASE nth = 6 /\ legacyPc' = "register" /\ nth' = 1
    <3>1. \A k \in 1..6 : L!Files[k] \in sub' \cup {"node-id"}
      BY <1>3, <2>1, <2>2 DEF f
    <3>2. Delivered4 \subseteq sub'
      BY <3>1, LegacyFiles DEF Delivered4
    <3> QED  BY <1>1, <1>3, <2>2, <3>2 DEF LegacyInv, LegacyTypes
  <2>3. CASE nth' = nth + 1 /\ nth' \in 1..6 /\ legacyPc' = legacyPc
    <3>1. \A k \in 1..6 : k < nth' => L!Files[k] \in sub' \cup {"node-id"}
      BY <1>1, <1>3, <2>1, <2>3 DEF f
    <3> QED  BY <1>1, <1>3, <2>3, <3>1 DEF LegacyInv, LegacyTypes
  <2> QED  BY <1>1, <1>3, <2>2, <2>3, LegacyAfter
<1>4. CASE f \in legacyRoot /\ L!Rename(f) /\ L!After(L!Files) /\ UNCHANGED <<legacyFaults, legacyReg, partial>>
  <2> HIDE DEF f
  <2>1. /\ legacyRoot' \subseteq FileNames /\ sub' \subseteq FileNames
        /\ Whole' /\ f \in sub' /\ sub \subseteq sub'
    BY <1>1, <1>4, LegacyRename
  <2> QED  BY <1>3, <1>4, <2>1
<1>5. CASE f \in L!Optional /\ L!After(L!Files) /\ UNCHANGED <<legacyRoot, sub, legacyFaults, legacyReg, partial>>
  <2> HIDE DEF f
  <2>1. f \in {"node-id"}
    BY <1>5, LegacyFiles
  <2>2. legacyRoot' \subseteq FileNames /\ sub' \subseteq FileNames /\ Whole' /\ sub \subseteq sub'
    BY <1>1, <1>5 DEF LegacyInv, LegacyTypes, Whole
  <2> QED  BY <1>3, <1>5, <2>1, <2>2
<1> QED  BY <1>2, <1>4, <1>5, Zenon DEF L!Move

\* completeMigration keeps the invariant.
LEMMA LegacyComplete == ASSUME LegacyInv, L!Complete PROVE LegacyInv'
<1> DEFINE f == L!Files[nth]
<1>1. f \in FileNames /\ legacyPc = "complete" /\ ~legacyReg /\ nth \in 1..6 /\ Whole
  BY LegacyFiles DEF LegacyInv, LegacyTypes, L!Complete
<1>2. CASE L!Quit /\ L!Fault /\ UNCHANGED <<legacyRoot, sub, legacyReg, partial>>
  BY <1>1, <1>2, LegacyQuit
<1>3. ASSUME L!After(L!Files), UNCHANGED <<legacyFaults, legacyReg, partial>>,
             legacyRoot' \subseteq legacyRoot, sub' \subseteq FileNames, Whole', f \notin legacyRoot'
      PROVE  LegacyInv'
  <2> HIDE DEF f
  <2>1. \A k \in 1..6 : k < nth => L!Files[k] \notin legacyRoot'
    BY <1>1, <1>3 DEF LegacyInv
  <2>2. legacyRoot' \subseteq FileNames
    BY <1>3 DEF LegacyInv, LegacyTypes
  <2>3. CASE nth = 6 /\ legacyPc' = "register" /\ nth' = 1
    <3>1. \A k \in 1..6 : L!Files[k] \notin legacyRoot'
      BY <1>3, <2>1, <2>3 DEF f
    <3>2. Delivered4 \cap legacyRoot' = {}
      BY <3>1, LegacyFiles DEF Delivered4
    <3>3. partial' \/ Delivered4 \subseteq sub'
      BY <1>3, <3>2, Zenon DEF Whole
    <3> QED  BY <1>1, <1>3, <2>2, <2>3, <3>3 DEF LegacyInv, LegacyTypes
  <2>4. CASE nth' = nth + 1 /\ nth' \in 1..6 /\ legacyPc' = legacyPc
    <3>1. \A k \in 1..6 : k < nth' => L!Files[k] \notin legacyRoot'
      BY <1>1, <1>3, <2>1, <2>4 DEF f
    <3> QED  BY <1>1, <1>3, <2>2, <2>4, <3>1 DEF LegacyInv, LegacyTypes
  <2> QED  BY <1>1, <1>3, <2>3, <2>4, LegacyAfter
<1>4. CASE L!Rename(f) /\ L!After(L!Files) /\ UNCHANGED <<legacyFaults, legacyReg, partial>>
  <2> HIDE DEF f
  <2>1. legacyRoot' \subseteq legacyRoot /\ sub' \subseteq FileNames /\ Whole' /\ f \notin legacyRoot'
    BY <1>1, <1>4, LegacyRename, Zenon
  <2> QED  BY <1>3, <1>4, <2>1, Zenon
<1>5. CASE /\ f \in sub /\ legacyRoot' = legacyRoot \ {f} /\ L!After(L!Files)
           /\ UNCHANGED <<sub, legacyFaults, legacyReg, partial>>
  <2> HIDE DEF f
  <2>1. legacyRoot' \subseteq legacyRoot /\ sub' \subseteq FileNames /\ Whole' /\ f \notin legacyRoot'
    BY <1>1, <1>5 DEF LegacyInv, LegacyTypes, Whole
  <2> QED  BY <1>3, <1>5, <2>1
<1>6. CASE f \notin legacyRoot /\ L!After(L!Files) /\ UNCHANGED <<legacyRoot, sub, legacyFaults, legacyReg, partial>>
  <2> HIDE DEF f
  <2>1. legacyRoot' \subseteq legacyRoot /\ sub' \subseteq FileNames /\ Whole' /\ f \notin legacyRoot'
    BY <1>1, <1>6 DEF LegacyInv, LegacyTypes, Whole
  <2> QED  BY <1>3, <1>6, <2>1
<1> QED  BY <1>2, <1>4, <1>5, <1>6 DEF L!Complete

\* tar keeps the invariant.
LEMMA LegacyUntar == ASSUME LegacyInv, L!Untar PROVE LegacyInv'
<1>0. /\ UNCHANGED <<sub, legacyReg>>
      /\ \/ /\ nth <= 4 /\ legacyRoot' = legacyRoot \cup {L!BundledFiles[nth]}
            /\ nth' = nth + 1 /\ UNCHANGED <<legacyPc, partial, legacyFaults>>
         \/ /\ nth > 4 /\ legacyPc' = "unpack" /\ nth' = 1
            /\ partial' = FALSE /\ UNCHANGED <<legacyRoot, legacyFaults>>
         \/ L!Fault /\ L!Quit /\ UNCHANGED <<legacyRoot, partial>>
  BY LegacyFiles, Zenon DEF L!Untar
<1>1. legacyPc = "tar" /\ ~legacyReg /\ nth \in 1..5 /\ Whole
  BY Zenon DEF LegacyInv, LegacyTypes, L!Untar
<1>2. CASE L!Quit /\ L!Fault /\ UNCHANGED <<legacyRoot, sub, legacyReg, partial>>
  BY <1>1, <1>2, LegacyQuit
<1>3. CASE /\ nth <= 4 /\ legacyRoot' = legacyRoot \cup {L!BundledFiles[nth]} /\ nth' = nth + 1
           /\ UNCHANGED <<sub, legacyPc, legacyFaults, legacyReg, partial>>
  <2>1. L!BundledFiles[nth] \in FileNames
    BY <1>1, <1>3, LegacyFiles DEF FileNames, Delivered4
  <2>2. legacyRoot' \subseteq FileNames /\ sub' \subseteq FileNames /\ Whole'
    BY <1>1, <1>3, <2>1, Zenon DEF LegacyInv, LegacyTypes, Whole
  <2>3. \A k \in 1..4 : k < nth' => L!BundledFiles[k] \in legacyRoot'
    BY <1>1, <1>3 DEF LegacyInv
  <2> QED  BY <1>1, <1>3, <2>2, <2>3 DEF LegacyInv, LegacyTypes
<1>4. CASE /\ nth > 4 /\ legacyPc' = "unpack" /\ nth' = 1 /\ partial' = FALSE
           /\ UNCHANGED <<legacyRoot, sub, legacyFaults, legacyReg>>
  <2>1. \A k \in 1..4 : L!BundledFiles[k] \in legacyRoot
    BY <1>1, <1>4 DEF LegacyInv
  <2>2. Delivered4 \subseteq legacyRoot
    BY <2>1, LegacyFiles DEF Delivered4
  <2>3. Whole'
    BY <1>4, <2>2, Zenon DEF Whole
  <2>4. partial' \in BOOLEAN /\ ~partial'
    BY <1>4, Zenon
  <2>5. legacyPc' = "unpack" /\ nth' = 1 /\ UNCHANGED <<legacyRoot, sub, legacyFaults, legacyReg>>
    BY <1>4, Zenon
  <2> QED  BY <1>1, <2>3, <2>4, <2>5 DEF LegacyInv, LegacyTypes
<1> QED  BY <1>0, <1>2, <1>3, <1>4, Zenon

\* enrollFromBundle, from the first file to the last, keeps the invariant.
LEMMA LegacyMoveBundle == ASSUME LegacyInv, L!MoveBundle PROVE LegacyInv'
<1>1. legacyPc = "unpack" /\ ~legacyReg /\ nth \in 1..5 /\ Whole /\ ~partial
  BY Zenon DEF LegacyInv, LegacyTypes, L!MoveBundle
<1>2. CASE L!Quit /\ L!Fault /\ UNCHANGED <<legacyRoot, sub, legacyReg, partial>>
  BY <1>1, <1>2, LegacyQuit
<1>3. CASE /\ nth <= 4
           /\ LET there == {L!BundledFiles[nth]} \cap legacyRoot IN
                legacyRoot' = legacyRoot \ there /\ sub' = sub \cup there
           /\ nth' = nth + 1 /\ UNCHANGED <<legacyPc, legacyFaults, legacyReg, partial>>
  <2>1. PICK f \in Delivered4 : f = L!BundledFiles[nth]
    BY <1>1, <1>3, LegacyFiles
  <2>2. /\ legacyRoot' = legacyRoot \ ({f} \cap legacyRoot)
        /\ sub' = sub \cup ({f} \cap legacyRoot)
    BY <1>3, <2>1, Zenon
  <2>3. f \in legacyRoot \cup sub
    BY <1>1, Zenon DEF Whole
  <2>4. /\ legacyRoot' \subseteq FileNames /\ sub' \subseteq FileNames
        /\ f \in sub' /\ sub \subseteq sub' /\ legacyRoot \cup sub \subseteq legacyRoot' \cup sub'
    BY <2>2, <2>3, Zenon DEF LegacyInv, LegacyTypes
  <2>5. Whole'
    BY <1>1, <2>4, Zenon DEF Whole
  <2>6. \A k \in 1..4 : k < nth' => L!BundledFiles[k] \in sub'
    BY <1>1, <1>3, <2>1, <2>4 DEF LegacyInv
  <2> QED  BY <1>1, <1>3, <2>4, <2>5, <2>6 DEF LegacyInv, LegacyTypes
<1>4. CASE /\ nth > 4 /\ sub' = sub \cup {"endpoint", "node-id"} /\ legacyPc' = "register" /\ nth' = 1
           /\ UNCHANGED <<legacyRoot, legacyFaults, legacyReg, partial>>
  <2>1. \A k \in 1..4 : L!BundledFiles[k] \in sub
    BY <1>1, <1>4 DEF LegacyInv
  <2>2. Delivered4 \subseteq sub'
    BY <1>4, <2>1, LegacyFiles DEF Delivered4
  <2>3. sub' \subseteq FileNames /\ Whole'
    BY <1>1, <1>4 DEF LegacyInv, LegacyTypes, Whole, FileNames
  <2> QED  BY <1>1, <1>4, <2>2, <2>3 DEF LegacyInv, LegacyTypes
<1> QED  BY <1>2, <1>3, <1>4, LegacyFiles DEF L!MoveBundle

\* Every step keeps the invariant.
LEMMA LegacyStep == ASSUME LegacyInv, [L!Next]_(L!vars) PROVE LegacyInv'
<1>1. CASE L!MigrateLegacyLayout
  BY <1>1 DEF L!MigrateLegacyLayout, L!HalfMigrated, L!LegacyAtRoot, LegacyInv, LegacyTypes, Whole
<1>2. CASE L!Register
  <2>1. legacyPc = "register" /\ legacyPc' = "idle" /\ nth' = 1 /\ UNCHANGED <<legacyRoot, sub, partial>>
    BY <1>2 DEF L!Register, L!Quit
  <2>2. legacyFaults' \in 0..LegacyMaxFaults
    BY <1>2, LegacyAssumption DEF L!Register, L!Fault, LegacyInv, LegacyTypes
  <2>3. legacyReg \in BOOLEAN
    BY Zenon DEF LegacyInv, LegacyTypes
  <2>4. legacyReg' \in BOOLEAN
    <3>1. CASE UNCHANGED legacyReg
      BY <2>3, <3>1, Zenon
    <3>2. CASE legacyReg' = ("ca.crt" \in sub)
      <4>1. CASE "ca.crt" \in sub
        BY <3>2, <4>1, Zenon
      <4>2. CASE "ca.crt" \notin sub
        BY <3>2, <4>2
      <4> QED  BY <4>1, <4>2, Zenon
    <3> QED  BY <1>2, <3>1, <3>2, Zenon DEF L!Register
  <2> QED  BY <2>1, <2>2, <2>4 DEF LegacyInv, LegacyTypes, Whole
<1>3. CASE L!Crash
  BY <1>3, LegacyQuit DEF L!Crash
<1>4. CASE L!EnrollFromBundle
  <2>1. /\ legacyPc = "idle" /\ legacyPc' = "tar" /\ ~legacyReg /\ partial' = TRUE
        /\ UNCHANGED <<legacyRoot, sub, legacyReg, nth, legacyFaults>>
    BY <1>4, Zenon DEF L!EnrollFromBundle
  <2>2. nth = 1
    BY <2>1, Zenon DEF LegacyInv
  <2>3. Whole'
    BY <2>1, Zenon DEF Whole
  <2> QED  BY <2>1, <2>2, <2>3 DEF LegacyInv, LegacyTypes
<1>5. CASE UNCHANGED L!vars
  BY <1>5, Zenon DEF L!vars, LegacyInv, LegacyTypes, Whole
<1> QED  BY <1>1, <1>2, <1>3, <1>4, <1>5, LegacyMove, LegacyComplete, LegacyUntar, LegacyMoveBundle DEF L!Next, L!Step

\* Through any number of interruptions, an enrollment is registered only with its
\* certificates, its key and its token in place, unless tar left a bundle unpacked in
\* part (completeMigration, enrollFromBundle).
THEOREM LegacySafe == L!Spec => [](L!TypeOK /\ RegisteredIsComplete)
<1>1. LegacyInv /\ [L!Next]_(L!vars) => LegacyInv'
  BY LegacyStep
<1> QED  BY <1>1, LegacyInit, LegacySays, PTL DEF L!Spec

=============================================================================
