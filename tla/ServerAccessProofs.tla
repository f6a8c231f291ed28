------------------------- MODULE ServerAccessProofs -------------------------
(***************************************************************************)
(* Who is known to the control plane: NodeStatus, ProxyAuth, Accounts and  *)
(* RateLimiter, each with its constants, what is assumed of them, its      *)
(* instance and the properties that MCServerAccess checks; and the proofs  *)
(* of the safety properties for every value of the constants: the          *)
(* inductive invariant of each part, that its initial states satisfy it    *)
(* and its steps keep it, and the theorem about its specification.  The    *)
(* parts share no state with each other.                                   *)
(***************************************************************************)
EXTENDS Integers, Sequences, FiniteSets, TLAPS

-----------------------------------------------------------------------------
(* NodeStatus.                                                             *)

CONSTANTS
  Nodes, Handlers, Sweeper, Beat, Flush, MaxLost, StatusStale, PruneAge

\* The sweeper is a goroutine of its own.
ASSUME SweeperAssumption ==
  Sweeper \notin Handlers

\* The stale threshold covers MaxLost missed heartbeats and the wait for the flush
\* (types.go: 180 s; 60 s and 5 s).
ASSUME TimesAssumption ==
  /\ Beat \in Nat \ {0} /\ Flush \in Nat /\ MaxLost \in Nat
  /\ StatusStale \in Nat /\ PruneAge \in Nat
  /\ (MaxLost + 1) * (Beat + Flush) <= StatusStale /\ StatusStale <= PruneAge

VARIABLES
  agent, statusSince, status, age, statusBuf, wait, statusBatch, lost, logged, statusLast,
  th, statusTodo

NS == INSTANCE NodeStatus WITH
       Stale <- StatusStale, since <- statusSince, buf <- statusBuf, batch <- statusBatch,
       last <- statusLast, todo <- statusTodo

statusVars == <<agent, statusSince, status, age, statusBuf, wait, statusBatch, lost,
                logged, statusLast, th, statusTodo>>

\* nodeStaleThreshold avoids "flapping on a single missed beat": a node whose agent
\* runs is never found stale by effectiveStatus or the sweeper, although heartbeats
\* wait in a buffer and up to MaxLost in a row are missed or dropped with a batch.
LiveNotStale == NS!LiveNotStale

\* A node that is running again is shown online again, even when the sweeper has
\* overwritten a newer heartbeat.
LiveComesOnline == NS!LiveComesOnline

\* A node that stays silent is marked offline.
SilentGoesOffline == NS!SilentGoesOffline

\* What k missed heartbeats allow last_seen_at to lag behind.
Lag(k) == k * NS!Gap

\* How old the row of a running node may be: the lag of what was lost, and in
\* addition the time since the last beat, or until its beat was buffered and since,
\* or both intervals in full when its beat is being written.
AgeBound(n) ==
    /\ n \in statusBatch => age[n] <= Lag(lost[n] + 1)
    /\ n \in statusBuf \ statusBatch => age[n] <= Lag(lost[n]) + Beat + wait[n]
    /\ n \notin statusBuf \cup statusBatch => age[n] <= Lag(lost[n]) + statusSince[n]

StatusFresh == \A n \in Nodes : agent[n] = "seen" /\ status[n] # "none" => AgeBound(n)

\* The types of what the bound speaks of.
StatusTypes ==
    /\ agent \in [Nodes -> {"asleep", "waking", "seen"}]
    /\ statusSince \in [Nodes -> 0..Beat]
    /\ status \in [Nodes -> NS!Statuses]
    /\ age \in [Nodes -> 0..(PruneAge + 1)]
    /\ statusBuf \subseteq Nodes /\ statusBatch \subseteq Nodes
    /\ wait \in [Nodes -> 0..Flush]
    /\ lost \in [Nodes -> 0..MaxLost]

StatusInv == StatusTypes /\ StatusFresh

-----------------------------------------------------------------------------
\* The time between two flushed heartbeats is a number.
LEMMA GapNat == NS!Gap \in Nat /\ NS!Gap = Beat + Flush
BY TimesAssumption DEF NS!Gap

\* One missed heartbeat adds one interval.
LEMMA LagNext == ASSUME NEW k \in Nat PROVE Lag(k) \in Nat /\ Lag(k + 1) = Lag(k) + NS!Gap
<1>1. NS!Gap \in Nat BY GapNat, Zenon
<1>2. (k + 1) * NS!Gap = k * NS!Gap + NS!Gap BY <1>1, SMT
<1>3. k * NS!Gap \in Nat BY <1>1, SMT
<1> QED BY <1>2, <1>3, Zenon DEF Lag

\* Fewer missed heartbeats are a shorter time.
LEMMA LagMonotone ==
    ASSUME NEW k \in Nat, NEW m \in Nat, k <= m PROVE Lag(k) <= Lag(m)
<1>1. NS!Gap \in Nat BY GapNat, Zenon
<1>2. PICK d \in Nat : m = k + d
  <2>1. m - k \in Nat /\ m = k + (m - k) OBVIOUS
  <2> QED BY <2>1, Zenon
<1>3. (k + d) * NS!Gap = k * NS!Gap + d * NS!Gap BY <1>1, SMT
<1>4. k * NS!Gap \in Nat /\ d * NS!Gap \in Nat BY <1>1, SMT
<1> QED BY <1>2, <1>3, <1>4 DEF Lag

\* The bound implies freshness: the threshold has room for MaxLost missed beats.
LEMMA FreshEnough == StatusInv => LiveNotStale
<1> SUFFICES ASSUME StatusInv, NEW n \in Nodes, agent[n] = "seen", status[n] # "none"
             PROVE  age[n] <= StatusStale
    BY TimesAssumption DEF LiveNotStale, NS!LiveNotStale, NS!effectiveStatus, StatusInv, StatusTypes
<1>1. /\ lost[n] \in Nat /\ lost[n] <= MaxLost /\ MaxLost \in Nat /\ StatusStale \in Nat
      /\ age[n] \in Nat /\ statusSince[n] \in Nat /\ statusSince[n] <= Beat
      /\ wait[n] \in Nat /\ wait[n] <= Flush /\ Beat \in Nat /\ Flush \in Nat
    BY TimesAssumption DEF StatusInv, StatusTypes
<1>2. AgeBound(n) BY Zenon DEF StatusInv, StatusFresh
<1>3. Lag(lost[n]) \in Nat /\ Lag(lost[n] + 1) = Lag(lost[n]) + NS!Gap BY <1>1, LagNext, Zenon
<1>4. age[n] <= Lag(lost[n] + 1) BY <1>1, <1>2, <1>3, GapNat DEF AgeBound
<1>5. lost[n] + 1 \in Nat /\ MaxLost + 1 \in Nat /\ lost[n] + 1 <= MaxLost + 1 BY <1>1
<1>6. Lag(lost[n] + 1) <= Lag(MaxLost + 1) BY <1>5, LagMonotone, Zenon
<1>7. Lag(MaxLost + 1) <= StatusStale BY TimesAssumption, Zenon DEF Lag, NS!Gap
<1>8. Lag(lost[n] + 1) \in Nat /\ Lag(MaxLost + 1) \in Nat BY <1>5, LagNext, Zenon
<1> QED BY <1>1, <1>4, <1>6, <1>7, <1>8

\* The invariant holds at first.
LEMMA StatusInit == NS!Init => StatusInv
BY TimesAssumption DEF NS!Init, StatusInv, StatusTypes, StatusFresh, NS!Statuses

-----------------------------------------------------------------------------
\* One step of one node: how the bound carries over.
LEMMA Lossless ==
    ASSUME StatusInv, NEW n \in Nodes, AgeBound(n),
           age'[n] = age[n], lost'[n] = lost[n], statusSince'[n] \in 0..Beat,
           n \in statusBatch <=> n \in statusBatch',
           \/ n \in statusBuf /\ n \in statusBuf' /\ wait'[n] = wait[n]
           \/ n \notin statusBuf /\ n \in statusBuf' /\ wait'[n] = 0
           \/ n \notin statusBuf /\ n \notin statusBuf' /\ statusSince'[n] = statusSince[n]
    PROVE  AgeBound(n)'
<1>1. /\ lost[n] \in Nat /\ age[n] \in Nat /\ statusSince[n] \in Nat /\ statusSince[n] <= Beat
      /\ wait[n] \in Nat /\ Beat \in Nat
    BY TimesAssumption DEF StatusInv, StatusTypes
<1>2. Lag(lost[n]) \in Nat BY <1>1, LagNext, Zenon
<1>3. Lag(lost[n])' = Lag(lost[n]) /\ Lag(lost[n] + 1)' = Lag(lost[n] + 1) BY Zenon DEF Lag, NS!Gap
<1> QED BY <1>1, <1>2, <1>3 DEF AgeBound

\* A lost heartbeat raises the bound by more than it takes away.
LEMMA Losing ==
    ASSUME StatusInv, NEW n \in Nodes, AgeBound(n),
           age'[n] = age[n], lost'[n] = lost[n] + 1,
           statusSince'[n] \in 0..Beat, wait'[n] \in 0..Flush
    PROVE  AgeBound(n)'
<1>1. /\ lost[n] \in Nat /\ age[n] \in Nat /\ statusSince[n] \in Nat /\ statusSince[n] <= Beat
      /\ wait[n] \in Nat /\ wait[n] <= Flush /\ Beat \in Nat /\ Flush \in Nat
      /\ statusSince'[n] \in Nat /\ wait'[n] \in Nat
    BY TimesAssumption DEF StatusInv, StatusTypes
<1>2. lost[n] + 1 \in Nat BY <1>1
<1>3. /\ Lag(lost[n]) \in Nat /\ Lag(lost[n] + 1) = Lag(lost[n]) + NS!Gap
      /\ Lag(lost[n] + 1 + 1) = Lag(lost[n] + 1) + NS!Gap
    BY <1>1, <1>2, LagNext, Zenon
<1>4. age[n] <= Lag(lost[n] + 1) BY <1>1, <1>3, GapNat DEF AgeBound
<1>5. Lag(lost[n])' = Lag(lost[n] + 1) /\ Lag(lost[n] + 1)' = Lag(lost[n] + 1 + 1)
    BY Zenon DEF Lag, NS!Gap
<1> QED BY <1>1, <1>3, <1>4, <1>5, GapNat DEF AgeBound

-----------------------------------------------------------------------------
\* Time passes.
LEMMA StatusTick == ASSUME StatusInv, NS!Tick PROVE StatusInv'
<1>1. StatusTypes'
  <2>1. statusSince' \in [Nodes -> 0..Beat] BY TimesAssumption DEF StatusInv, StatusTypes, NS!Tick
  <2>2. age' \in [Nodes -> 0..(PruneAge + 1)] BY TimesAssumption DEF StatusInv, StatusTypes, NS!Tick
  <2>3. wait' \in [Nodes -> 0..Flush] BY TimesAssumption DEF StatusInv, StatusTypes, NS!Tick
  <2> QED BY <2>1, <2>2, <2>3, Zenon DEF StatusInv, StatusTypes, NS!Tick
<1>2. ASSUME NEW n \in Nodes, agent'[n] = "seen", status'[n] # "none" PROVE AgeBound(n)'
  <2>1. /\ lost[n] \in Nat /\ age[n] \in Nat /\ statusSince[n] \in Nat
        /\ wait[n] \in Nat /\ Beat \in Nat /\ PruneAge \in Nat
      BY TimesAssumption DEF StatusInv, StatusTypes
  <2>2. Lag(lost[n]) \in Nat BY <2>1, LagNext, Zenon
  <2>3. AgeBound(n) /\ statusSince[n] < Beat BY <1>2, Zenon DEF StatusInv, StatusFresh, NS!Tick
  <2>4. /\ age'[n] <= age[n] + 1 /\ age'[n] \in Nat /\ statusSince'[n] = statusSince[n] + 1
        /\ n \in statusBuf => wait'[n] = wait[n] + 1
        /\ statusBatch = {} /\ statusBatch' = {} /\ statusBuf' = statusBuf /\ lost' = lost
      BY <2>1, <2>3 DEF NS!Tick
  <2>5. Lag(lost[n])' = Lag(lost[n]) BY <2>4, Zenon DEF Lag, NS!Gap
  <2> QED BY <2>1, <2>2, <2>3, <2>4, <2>5 DEF AgeBound
<1> QED BY <1>1, <1>2, Zenon DEF StatusInv, StatusFresh

\* The steps that change neither ages nor what is buffered.
StatusQuiet == UNCHANGED <<statusSince, age, statusBuf, wait, statusBatch, lost>>

\* A step that leaves ages and heartbeats alone.
LEMMA StatusQuietStep ==
    ASSUME StatusInv, StatusQuiet, StatusTypes',
           \A n \in Nodes : agent'[n] = "seen" /\ status'[n] # "none" =>
                            agent[n] = "seen" /\ status[n] # "none"
    PROVE  StatusInv'
<1>1. ASSUME NEW n \in Nodes, agent'[n] = "seen", status'[n] # "none" PROVE AgeBound(n)'
  <2>1. AgeBound(n) BY <1>1, Zenon DEF StatusInv, StatusFresh
  <2> QED BY <2>1, Zenon DEF AgeBound, StatusQuiet, Lag, NS!Gap
<1> QED BY <1>1, Zenon DEF StatusInv, StatusFresh

\* A node enrolls, wakes up or falls asleep.
LEMMA NodeAgentStep ==
    ASSUME StatusInv, NEW n \in Nodes,
           NS!CompleteEnrollment(n) \/ NS!Wake(n) \/ NS!Sleep(n)
    PROVE  StatusInv'
<1>1. CASE NS!Sleep(n)
  <2>1. StatusTypes' BY <1>1, Zenon DEF StatusInv, StatusTypes, NS!Sleep
  <2>2. StatusQuiet BY <1>1, Zenon DEF StatusQuiet, NS!Sleep
  <2>3. \A k \in Nodes : agent'[k] = "seen" => agent[k] = "seen"
      BY <1>1, Zenon DEF NS!Sleep, StatusInv, StatusTypes
  <2> QED BY <1>1, <2>1, <2>2, <2>3, StatusQuietStep, Zenon DEF NS!Sleep
<1>2. CASE NS!Wake(n)
  <2>1. StatusTypes' BY <1>2, TimesAssumption DEF StatusInv, StatusTypes, NS!Wake
  <2>2. ASSUME NEW k \in Nodes, agent'[k] = "seen", status'[k] # "none" PROVE AgeBound(k)'
    <3>1. k # n /\ agent[k] = "seen" /\ status[k] # "none" /\ statusSince'[k] = statusSince[k]
        BY <1>2, <2>2, Zenon DEF NS!Wake, StatusInv, StatusTypes
    <3>2. AgeBound(k) BY <3>1, Zenon DEF StatusInv, StatusFresh
    <3> QED BY <1>2, <3>1, <3>2, Zenon DEF AgeBound, NS!Wake, Lag, NS!Gap
  <2> QED BY <2>1, <2>2, Zenon DEF StatusInv, StatusFresh
<1>3. CASE NS!CompleteEnrollment(n)
  <2>1. StatusTypes' BY <1>3, TimesAssumption DEF StatusInv, StatusTypes, NS!CompleteEnrollment, NS!Statuses
  <2>2. ASSUME NEW k \in Nodes, agent'[k] = "seen", status'[k] # "none" PROVE AgeBound(k)'
    <3>1. /\ k # n /\ agent[k] = "seen" /\ status[k] # "none"
          /\ age'[k] = age[k] /\ lost'[k] = lost[k]
        BY <1>3, <2>2, Zenon DEF NS!CompleteEnrollment, StatusInv, StatusTypes
    <3>2. AgeBound(k) BY <3>1, Zenon DEF StatusInv, StatusFresh
    <3> QED BY <1>3, <3>1, <3>2, Zenon DEF AgeBound, NS!CompleteEnrollment, Lag, NS!Gap
  <2> QED BY <2>1, <2>2 DEF StatusInv, StatusFresh
<1> QED BY <1>1, <1>2, <1>3, Zenon

\* A heartbeat does not arrive.
LEMMA BeatMissed == ASSUME StatusInv, NEW n \in Nodes, NS!Miss(n) PROVE StatusInv'
<1>1. StatusTypes'
  <2>1. lost' \in [Nodes -> 0..MaxLost]
      BY TimesAssumption DEF StatusInv, StatusTypes, NS!Miss, NS!Lose
  <2>2. statusSince' \in [Nodes -> 0..Beat] BY TimesAssumption DEF StatusInv, StatusTypes, NS!Miss
  <2> QED BY <2>1, <2>2, Zenon DEF StatusInv, StatusTypes, NS!Miss
<1>2. ASSUME NEW k \in Nodes, agent'[k] = "seen", status'[k] # "none" PROVE AgeBound(k)'
  <2>1. AgeBound(k) BY <1>2, Zenon DEF StatusInv, StatusFresh, NS!Miss
  <2>2. CASE k = n
    <3>1. lost'[k] = lost[k] + 1 /\ statusSince'[k] \in 0..Beat /\ wait'[k] \in 0..Flush
        BY <1>1, <2>2, Zenon DEF NS!Miss, NS!Lose, StatusTypes
    <3> QED BY <2>1, <3>1, Losing, Zenon DEF NS!Miss
  <2>3. CASE k # n
    <3>1. lost'[k] = lost[k] /\ statusSince'[k] = statusSince[k]
        BY <2>3, Zenon DEF NS!Miss, NS!Lose, StatusInv, StatusTypes
    <3> QED BY <2>1, <3>1, Zenon DEF AgeBound, NS!Miss, Lag, NS!Gap
  <2> QED BY <2>2, <2>3, Zenon
<1> QED BY <1>1, <1>2, Zenon DEF StatusInv, StatusFresh

\* Heartbeat, NodeHealth and Renew record a beat, or leave the buffer alone.
LEMMA RecordStep ==
    ASSUME StatusInv, NEW n \in Nodes,
           NS!RecordHeartbeat(n) \/ UNCHANGED <<statusBuf, wait>>,
           \/ NS!RecordHeartbeat(n) /\ statusSince' = [statusSince EXCEPT ![n] = 0]
           \/ UNCHANGED statusSince,
           UNCHANGED <<agent, status, age, statusBatch, lost>>
    PROVE  StatusInv'
<1>1. StatusTypes'
  <2>1. statusBuf' \subseteq Nodes BY Zenon DEF NS!RecordHeartbeat, StatusInv, StatusTypes
  <2>2. wait' \in [Nodes -> 0..Flush] BY TimesAssumption DEF NS!RecordHeartbeat, StatusInv, StatusTypes
  <2>3. statusSince' \in [Nodes -> 0..Beat] BY TimesAssumption DEF StatusInv, StatusTypes
  <2> QED BY <2>1, <2>2, <2>3, Zenon DEF StatusInv, StatusTypes
<1>2. ASSUME NEW k \in Nodes, agent'[k] = "seen", status'[k] # "none" PROVE AgeBound(k)'
  <2>1. AgeBound(k) BY <1>2, Zenon DEF StatusInv, StatusFresh
  <2>2. statusSince'[k] \in 0..Beat BY <1>1, Zenon DEF StatusTypes
  <2>3. \/ k \in statusBuf /\ k \in statusBuf' /\ wait'[k] = wait[k]
        \/ k \notin statusBuf /\ k \in statusBuf' /\ wait'[k] = 0
        \/ k \notin statusBuf /\ k \notin statusBuf' /\ statusSince'[k] = statusSince[k]
    <3>1. CASE k = n BY <3>1, Zenon DEF NS!RecordHeartbeat, StatusInv, StatusTypes
    <3>2. CASE k # n BY <3>2 DEF NS!RecordHeartbeat, StatusInv, StatusTypes
    <3> QED BY <3>1, <3>2, Zenon
  <2> QED BY <2>1, <2>2, <2>3, Lossless, Zenon
<1> QED BY <1>1, <1>2, Zenon DEF StatusInv, StatusFresh

\* The flusher takes the buffer.
LEMMA FlushDrainStep == ASSUME StatusInv, NS!FlushDrain PROVE StatusInv'
<1>1. StatusTypes' BY Zenon DEF StatusInv, StatusTypes, NS!FlushDrain
<1>2. ASSUME NEW n \in Nodes, agent'[n] = "seen", status'[n] # "none" PROVE AgeBound(n)'
  <2>1. AgeBound(n) BY <1>2, Zenon DEF StatusInv, StatusFresh, NS!FlushDrain
  <2>2. /\ lost[n] \in Nat /\ age[n] \in Nat /\ statusSince[n] \in Nat
        /\ wait[n] \in Nat /\ wait[n] <= Flush /\ Beat \in Nat /\ Flush \in Nat
      BY TimesAssumption DEF StatusInv, StatusTypes
  <2>3. Lag(lost[n]) \in Nat /\ Lag(lost[n] + 1) = Lag(lost[n]) + NS!Gap BY <2>2, LagNext, Zenon
  <2>4. Lag(lost[n])' = Lag(lost[n]) /\ Lag(lost[n] + 1)' = Lag(lost[n] + 1)
      BY Zenon DEF Lag, NS!Gap, NS!FlushDrain
  <2> QED BY <2>1, <2>2, <2>3, <2>4, GapNat DEF AgeBound, NS!FlushDrain
<1> QED BY <1>1, <1>2 DEF StatusInv, StatusFresh

\* The flusher's transaction.
LEMMA FlushCommitStep == ASSUME StatusInv, NS!FlushCommit PROVE StatusInv'
<1>1. StatusTypes'
  <2>1. status' \in [Nodes -> NS!Statuses] BY Zenon DEF StatusInv, StatusTypes, NS!FlushCommit, NS!Statuses
  <2>2. age' \in [Nodes -> 0..(PruneAge + 1)] BY TimesAssumption DEF StatusInv, StatusTypes, NS!FlushCommit
  <2>3. agent' \in [Nodes -> {"asleep", "waking", "seen"}] BY Zenon DEF StatusInv, StatusTypes, NS!FlushCommit
  <2>4. lost' \in [Nodes -> 0..MaxLost] BY TimesAssumption DEF StatusInv, StatusTypes, NS!FlushCommit
  <2> QED BY <2>1, <2>2, <2>3, <2>4, Zenon DEF StatusInv, StatusTypes, NS!FlushCommit
<1>2. ASSUME NEW n \in Nodes, agent'[n] = "seen", status'[n] # "none" PROVE AgeBound(n)'
  <2>1. CASE n \in statusBatch
    <3>1. age'[n] = 0 /\ lost'[n] = 0 BY <1>2, <2>1, Zenon DEF NS!FlushCommit, StatusInv, StatusTypes
    <3>2. Lag(lost[n])' \in Nat /\ Lag(lost[n] + 1)' \in Nat
      <4>1. Lag(0) \in Nat /\ Lag(0 + 1) \in Nat BY LagNext, GapNat
      <4> QED BY <3>1, <4>1, Zenon DEF Lag, NS!Gap
    <3>3. statusSince'[n] \in Nat /\ wait'[n] \in Nat /\ Beat \in Nat
        BY <1>1, TimesAssumption DEF StatusTypes
    <3> QED BY <3>1, <3>2, <3>3 DEF AgeBound
  <2>2. CASE n \notin statusBatch
    <3>1. /\ age'[n] = age[n] /\ lost'[n] = lost[n] /\ agent[n] = "seen" /\ status[n] # "none"
          /\ statusBatch' = {}
        BY <1>2, <2>2, Zenon DEF NS!FlushCommit, StatusInv, StatusTypes
    <3>2. AgeBound(n) BY <3>1, Zenon DEF StatusInv, StatusFresh
    <3> QED BY <2>2, <3>1, <3>2, Zenon DEF AgeBound, NS!FlushCommit, Lag, NS!Gap
  <2> QED BY <2>1, <2>2, Zenon
<1> QED BY <1>1, <1>2 DEF StatusInv, StatusFresh

\* FlushFails and Restart lose a set of buffered heartbeats.
LEMMA LoseStep ==
    ASSUME StatusInv, NEW ns \in SUBSET Nodes, NS!Lose(ns),
           statusBatch \subseteq ns, statusBatch' = {}, statusBuf' = statusBuf \/ (statusBuf \subseteq ns /\ statusBuf' = {}),
           UNCHANGED <<agent, statusSince, status, age, wait>>
    PROVE  StatusInv'
<1>1. StatusTypes'
  <2>1. lost' \in [Nodes -> 0..MaxLost] BY TimesAssumption DEF StatusInv, StatusTypes, NS!Lose
  <2> QED BY <2>1, Zenon DEF StatusInv, StatusTypes
<1>2. ASSUME NEW n \in Nodes, agent'[n] = "seen", status'[n] # "none" PROVE AgeBound(n)'
  <2>1. AgeBound(n) BY <1>2, Zenon DEF StatusInv, StatusFresh
  <2>2. CASE n \in ns
    <3>1. lost'[n] = lost[n] + 1 BY <2>2, Zenon DEF NS!Lose
    <3>2. statusSince'[n] \in 0..Beat /\ wait'[n] \in 0..Flush BY <1>1, Zenon DEF StatusTypes
    <3> QED BY <2>1, <3>1, <3>2, Losing, Zenon
  <2>3. CASE n \notin ns
    <3>1. lost'[n] = lost[n] BY <2>3, Zenon DEF NS!Lose
    <3> QED BY <2>1, <2>3, <3>1, Zenon DEF AgeBound, Lag, NS!Gap
  <2> QED BY <2>2, <2>3, Zenon
<1> QED BY <1>1, <1>2, Zenon DEF StatusInv, StatusFresh

-----------------------------------------------------------------------------
\* Every step of the module, and none.
LEMMA StatusStep == StatusInv /\ [NS!Next]_(NS!vars) => StatusInv'
<1> SUFFICES ASSUME StatusInv, [NS!Next]_(NS!vars) PROVE StatusInv' BY Zenon
<1>1. CASE NS!Tick BY <1>1, StatusTick, Zenon
<1>2. CASE \E t \in Handlers : NS!Request(t)
  <2>1. PICK t \in Handlers, n \in Nodes : NS!Heartbeat(t, n) \/ NS!NodeHealth(t, n)
      BY <1>2, Zenon DEF NS!Request
  <2> QED BY <2>1, RecordStep, Zenon DEF NS!Heartbeat, NS!NodeHealth
<1>3. CASE \E t \in NS!Threads : NS!Transition(t)
  <2>1. UNCHANGED <<agent, statusSince, status, age, statusBuf, wait, statusBatch, lost>>
      BY <1>3, Zenon DEF NS!Transition, NS!StatusTransition, NS!StatusStore, NS!Record
  <2>2. StatusTypes' BY <2>1, Zenon DEF StatusInv, StatusTypes
  <2> QED BY <2>1, <2>2, StatusQuietStep, Zenon DEF StatusQuiet
<1>4. CASE \E n \in Nodes : NS!Agent(n)
  <2>1. PICK n \in Nodes : NS!Agent(n) BY <1>4, Zenon
  <2>2. CASE NS!CompleteEnrollment(n) \/ NS!Wake(n) \/ NS!Sleep(n) BY <2>2, NodeAgentStep, Zenon
  <2>3. CASE NS!Miss(n) BY <2>3, BeatMissed, Zenon
  <2>4. CASE NS!Renew(n) BY <2>4, RecordStep, Zenon DEF NS!Renew
  <2> QED BY <2>1, <2>2, <2>3, <2>4, Zenon DEF NS!Agent
<1>5. CASE NS!FlushDrain BY <1>5, FlushDrainStep
<1>6. CASE NS!FlushCommit BY <1>6, FlushCommitStep
<1>7. CASE NS!FlushFails
  <2>1. statusBatch \in SUBSET Nodes BY Zenon DEF StatusInv, StatusTypes
  <2> QED BY <1>7, <2>1, LoseStep, Zenon DEF NS!FlushFails
<1>8. CASE NS!Sweep
  <2>1. PICK n \in Nodes : NS!ScanStaleOnlineNodes \/ NS!MarkOfflineOnStale(n) \/ NS!MarkOfflineFails(n)
      BY <1>8, Zenon DEF NS!Sweep, NS!ScanStaleOnlineNodes
  <2>2. StatusQuiet /\ agent' = agent
      BY <2>1, Zenon DEF StatusQuiet, NS!ScanStaleOnlineNodes, NS!MarkOfflineOnStale, NS!MarkOfflineFails
  <2>3. /\ status' \in [Nodes -> NS!Statuses]
        /\ \A k \in Nodes : status'[k] # "none" => status[k] # "none"
      BY <2>1, Zenon DEF NS!ScanStaleOnlineNodes, NS!MarkOfflineOnStale, NS!MarkOfflineFails, StatusInv, StatusTypes, NS!Statuses
  <2>4. StatusTypes' BY <2>2, <2>3, Zenon DEF StatusInv, StatusTypes, StatusQuiet
  <2> QED BY <2>2, <2>3, <2>4, StatusQuietStep, Zenon
<1>9. CASE NS!Prune
  <2>1. PICK ns : NS!DeleteRows(ns)
      BY <1>9, Zenon DEF NS!Prune, NS!PruneOfflineSinceAllNetworks, NS!PruneOfflineNodes, NS!Delete
  <2>2. StatusQuiet /\ agent' = agent BY <2>1, Zenon DEF StatusQuiet, NS!DeleteRows
  <2>3. /\ status' \in [Nodes -> NS!Statuses]
        /\ \A k \in Nodes : status'[k] # "none" => status[k] # "none"
      BY <2>1, Zenon DEF NS!DeleteRows, StatusInv, StatusTypes, NS!Statuses
  <2>4. StatusTypes' BY <2>2, <2>3, Zenon DEF StatusInv, StatusTypes, StatusQuiet
  <2> QED BY <2>2, <2>3, <2>4, StatusQuietStep, Zenon
<1>10. CASE NS!Restart
  <2>1. statusBuf \cup statusBatch \in SUBSET Nodes BY Zenon DEF StatusInv, StatusTypes
  <2> QED BY <1>10, <2>1, LoseStep, Zenon DEF NS!Restart
<1>11. CASE UNCHANGED NS!vars
  <2>1. StatusTypes' BY <1>11, Zenon DEF StatusInv, StatusTypes, NS!vars
  <2> QED BY <1>11, <2>1, StatusQuietStep, Zenon DEF StatusQuiet, NS!vars
<1> QED BY <1>1, <1>2, <1>3, <1>4, <1>5, <1>6, <1>7, <1>8, <1>9, <1>10, <1>11, Zenon DEF NS!Next

\* The bound on ages holds in every state.
THEOREM StatusInvariance == NS!Spec => []StatusInv
BY StatusInit, StatusStep, PTL DEF NS!Spec

\* The status of a running node does not flap: with heartbeats every Beat, flushes
\* every Flush and at most MaxLost missed or dropped in a row, no running node is
\* found stale by effectiveStatus or by the sweeper's scan.
THEOREM NoFlapping == NS!Spec => []LiveNotStale
BY StatusInvariance, FreshEnough, PTL

-----------------------------------------------------------------------------
\* The types of the rest: the log's memory, the requests and the sweep.
StatusLogTypes ==
    /\ statusTodo \subseteq Nodes
    /\ logged \in [Nodes -> NS!Statuses] /\ statusLast \in [Nodes -> NS!Statuses]
    /\ th \in [NS!Threads -> [pc : {"idle", "load", "store", "log"},
                           node : Nodes \cup {"none"}, new : NS!Statuses]]

\* Every step keeps the types of the transitions' log.
LEMMA StatusLogStep == StatusLogTypes /\ [NS!Next]_(NS!vars) => StatusLogTypes'
<1> SUFFICES ASSUME StatusLogTypes, [NS!Next]_(NS!vars) PROVE StatusLogTypes' OBVIOUS
<1> USE DEF StatusLogTypes
<1>1. CASE UNCHANGED <<statusTodo, logged, statusLast, th>> BY <1>1, Zenon
<1>2. CASE \E t \in Handlers : NS!Request(t)
  <2>1. PICK t \in Handlers, n \in Nodes : NS!Heartbeat(t, n) \/ NS!NodeHealth(t, n)
      BY <1>2, Zenon DEF NS!Request
  <2> QED BY <2>1 DEF NS!Heartbeat, NS!NodeHealth, NS!Threads, NS!Statuses
<1>3. CASE \E t \in NS!Threads : NS!Transition(t)
  <2>1. PICK t \in NS!Threads : NS!Transition(t) BY <1>3, Zenon
  <2>2. th[t].new \in NS!Statuses BY <2>1, Zenon
  <2> DEFINE StatusThread == [pc : {"idle", "load", "store", "log"}, node : Nodes \cup {"none"}, new : NS!Statuses]
  <2>g. ASSUME NEW pc \in {"idle", "store", "log"}, NS!Goto(t, pc) PROVE th' \in [NS!Threads -> StatusThread]
    <3>1. CASE pc = "idle"
      <4>1. th' = [th EXCEPT ![t] = NS!Idle] BY <2>g, <3>1, Zenon DEF NS!Goto
      <4>2. NS!Idle \in StatusThread BY Zenon DEF NS!Idle, NS!Statuses
      <4> QED BY <4>1, <4>2, Zenon
    <3>2. CASE pc # "idle"
      <4>1. th' = [th EXCEPT ![t] = [th[t] EXCEPT !.pc = pc]] BY <2>g, <3>2, Zenon DEF NS!Goto
      <4>2. [th[t] EXCEPT !.pc = pc] \in StatusThread BY <2>1
      <4> QED BY <4>1, <4>2, Zenon
    <3> QED BY <3>1, <3>2, Zenon
  <2>3. CASE NS!StatusTransition(t)
    <3>1. logged' \in [Nodes -> NS!Statuses] BY <2>2, <2>3, Zenon DEF NS!StatusTransition
    <3>2. PICK pc \in {"idle", "store", "log"} : NS!Goto(t, pc) BY <2>3, Zenon DEF NS!StatusTransition
    <3> QED BY <2>3, <2>g, <3>1, <3>2, Zenon DEF NS!StatusTransition
  <2>4. CASE NS!StatusStore(t)
    <3>1. th' \in [NS!Threads -> StatusThread] BY <2>4, <2>g, Zenon DEF NS!StatusStore
    <3> QED BY <2>2, <2>4, <3>1, Zenon DEF NS!StatusStore
  <2>5. CASE NS!Record(t)
    <3>1. th' \in [NS!Threads -> StatusThread] BY <2>5, <2>g, Zenon DEF NS!Record
    <3> QED BY <2>2, <2>5, <3>1, Zenon DEF NS!Record
  <2> QED BY <2>1, <2>3, <2>4, <2>5, Zenon DEF NS!Transition
<1>4. CASE \E n \in Nodes : NS!Agent(n)
  BY <1>1, <1>4 DEF NS!Agent, NS!CompleteEnrollment, NS!Wake, NS!Sleep, NS!Miss, NS!Renew, NS!Statuses
<1>5. CASE NS!Sweep
  BY <1>5 DEF NS!Sweep, NS!ScanStaleOnlineNodes, NS!MarkOfflineOnStale, NS!MarkOfflineFails, NS!Threads, NS!Statuses
<1>6. CASE NS!Restart BY <1>6, Zenon DEF NS!Restart, NS!Idle, NS!Statuses
<1>7. CASE NS!Tick \/ NS!FlushDrain \/ NS!FlushCommit \/ NS!FlushFails \/ NS!Prune \/ UNCHANGED NS!vars
  <2>1. UNCHANGED <<statusTodo, logged, statusLast, th>>
      BY <1>7, Zenon DEF NS!Tick, NS!FlushDrain, NS!FlushCommit, NS!FlushFails, NS!Prune, NS!PruneOfflineSinceAllNetworks,
         NS!PruneOfflineNodes, NS!Delete, NS!DeleteRows, NS!vars
  <2> QED BY <1>1, <2>1, Zenon
<1> QED BY <1>2, <1>3, <1>4, <1>5, <1>6, <1>7, Zenon DEF NS!Next

\* Type correctness; ages, waits and losses stay within their bounds.
THEOREM StatusTyped == NS!Spec => []NS!TypeOK
<1>1. NS!Init => StatusLogTypes BY DEF NS!Init, StatusLogTypes, NS!Idle, NS!Statuses
<1>2. NS!Spec => []StatusLogTypes BY <1>1, StatusLogStep, PTL DEF NS!Spec
<1>3. StatusInv /\ StatusLogTypes => NS!TypeOK BY Zenon DEF StatusInv, StatusTypes, StatusLogTypes, NS!TypeOK
<1> QED BY <1>2, <1>3, StatusInvariance, PTL

-----------------------------------------------------------------------------
(* ProxyAuth.                                                              *)

CONSTANTS
  ProxyUsers, ProxyReqs, ProxyTTL, MaxChanges

\* An entry of the cache lives for a while.
ASSUME ProxyAssumption ==
  ProxyTTL \in Nat \ {0} /\ MaxChanges \in Nat

VARIABLES
  proxyNet, node, proxyRole, cache, proxyReq, op, proxySince, worst, changes

P == INSTANCE ProxyAuth WITH
       Users <- ProxyUsers, Reqs <- ProxyReqs, TTL <- ProxyTTL, net <- proxyNet,
       role <- proxyRole, req <- proxyReq, since <- proxySince

proxyVars == <<proxyNet, node, proxyRole, cache, proxyReq, op, proxySince, worst, changes>>

\* A request that read before a change and stores after its invalidation leaves a stale
\* entry; access ends with it all the same: nobody is let in more than proxyAuthTTL after
\* the membership, the node or its capability went.
RevokedWithinTTL == P!RevokedWithinTTL

EntryType == [left : 0..ProxyTTL, cap : BOOLEAN, routes : 0..1]
AccessType == [pc : {"idle", "node", "store"}, u : ProxyUsers \cup {"nobody"},
               cap : BOOLEAN, routes : 0..1]
NodeType == [there : BOOLEAN, cap : BOOLEAN, routes : 0..1]
SinceType == [view : [ProxyUsers -> 0..ProxyTTL + 1], node : 0..ProxyTTL + 1]

ProxyTypes ==
  /\ proxyNet \in BOOLEAN /\ node \in NodeType
  /\ proxyRole \in [ProxyUsers -> P!Roles \cup {"none"}]
  /\ cache \in [ProxyUsers -> EntryType] /\ proxyReq \in [ProxyReqs -> AccessType]
  /\ op \in [pc : {"idle", "invalidate", "delete"}, all : BOOLEAN]
  /\ proxySince \in SinceType /\ worst \in 0..ProxyTTL /\ changes \in 0..MaxChanges
  /\ \A r \in ProxyReqs : proxyReq[r].pc # "idle" => proxyReq[r].u \in ProxyUsers

\* An entry runs out before a right has been gone for longer than the entry lives; a
\* request that will store one has seen the right within this tick.
Timely ==
  /\ \A u \in ProxyUsers : cache[u].left > 0 =>
       /\ P!CanView(u) \/ proxySince.view[u] + cache[u].left <= ProxyTTL
       /\ cache[u].cap => P!Offered \/ proxySince.node + cache[u].left <= ProxyTTL
  /\ \A r \in ProxyReqs :
       /\ proxyReq[r].pc # "idle" => P!CanView(proxyReq[r].u) \/ proxySince.view[proxyReq[r].u] = 0
       /\ proxyReq[r].pc = "store" /\ proxyReq[r].cap => P!Offered \/ proxySince.node = 0

\* The inductive invariant.
ProxyInv == ProxyTypes /\ Timely

\* The invariant contains the type invariant of the module.
LEMMA ProxyTypeOK == ProxyInv => P!TypeOK
<1> SUFFICES ASSUME ProxyInv PROVE P!TypeOK
  BY Zenon
<1>1. worst \in 0..ProxyTTL + 2
  BY ProxyAssumption DEF ProxyInv, ProxyTypes
<1> QED  BY <1>1, Zenon DEF ProxyInv, ProxyTypes, P!TypeOK, EntryType, AccessType, NodeType, SinceType,
             P!Roles

\* What the empty entry and the empty request are.
LEMMA NoEntryType ==
    /\ P!NoEntry \in EntryType /\ P!NoEntry.left = 0
    /\ P!NoReq \in AccessType /\ P!NoReq.pc = "idle"
  BY ProxyAssumption DEF P!NoEntry, P!NoReq, EntryType, AccessType

\* Nothing is cached at first.
LEMMA ProxyInit == P!Init => ProxyInv
<1> SUFFICES ASSUME P!Init PROVE ProxyInv
  BY Zenon
<1>1. /\ proxyNet = TRUE /\ node = [there |-> TRUE, cap |-> TRUE, routes |-> 0]
      /\ proxyRole \in [ProxyUsers -> {"none", "member"}]
      /\ cache = [u \in ProxyUsers |-> P!NoEntry] /\ proxyReq = [r \in ProxyReqs |-> P!NoReq]
      /\ op = P!NoOp /\ proxySince = [view |-> [u \in ProxyUsers |-> 0], node |-> 0]
      /\ worst = 0 /\ changes = 0
  BY Zenon DEF P!Init
<1>2. node \in NodeType
  BY <1>1 DEF NodeType
<1>3. proxySince \in SinceType
  BY <1>1, ProxyAssumption DEF SinceType
<1>4. op \in [pc : {"idle", "invalidate", "delete"}, all : BOOLEAN]
  BY <1>1, Zenon DEF P!NoOp
<1>5. ProxyTypes
  BY <1>1, <1>2, <1>3, <1>4, NoEntryType, ProxyAssumption DEF ProxyTypes, P!Roles
<1>6. Timely
  BY <1>1, NoEntryType DEF Timely
<1> QED  BY <1>5, <1>6, Zenon DEF ProxyInv

\* The rows and the administrator's request have their types.
RowTypes ==
  /\ proxyNet \in BOOLEAN /\ node \in NodeType
  /\ proxyRole \in [ProxyUsers -> P!Roles \cup {"none"}]
  /\ op \in [pc : {"idle", "invalidate", "delete"}, all : BOOLEAN] /\ changes \in 0..MaxChanges

\* Clocks are clocks.
LEMMA ClocksType ==
    ASSUME ProxyInv
    PROVE  /\ P!Clocks \in SinceType
           /\ \A u \in ProxyUsers : P!Clocks.view[u] = IF P!CanView(u) THEN 0 ELSE proxySince.view[u]
           /\ P!Clocks.node = IF P!Offered THEN 0 ELSE proxySince.node
<1>1. /\ proxySince \in SinceType /\ \A u \in ProxyUsers : proxySince.view[u] \in 0..ProxyTTL + 1
      /\ proxySince.node \in 0..ProxyTTL + 1
  BY Zenon DEF ProxyInv, ProxyTypes, SinceType
<1> DEFINE W == [u \in ProxyUsers |-> IF P!CanView(u) THEN 0 ELSE proxySince.view[u]]
           N == IF P!Offered THEN 0 ELSE proxySince.node
<1>2. W \in [ProxyUsers -> 0..ProxyTTL + 1] /\ N \in 0..ProxyTTL + 1
  BY <1>1, ProxyAssumption
<1>3. P!Clocks = [view |-> W, node |-> N]
  BY Zenon DEF P!Clocks
<1>4. \A u \in ProxyUsers : W[u] = IF P!CanView(u) THEN 0 ELSE proxySince.view[u]
  BY Zenon
<1>5. N = IF P!Offered THEN 0 ELSE proxySince.node
  BY Zenon
<1> HIDE DEF W, N
<1>6. P!Clocks \in SinceType /\ P!Clocks.view = W /\ P!Clocks.node = N
  BY <1>2, <1>3, Zenon DEF SinceType
<1> QED  BY <1>4, <1>5, <1>6, Zenon

\* Whatever a change takes away is gone for no time yet.
LEMMA RightsTaken ==
    ASSUME ProxyInv, RowTypes', proxySince' = P!Clocks, cache' = cache, proxyReq' = proxyReq,
           worst' = worst
    PROVE  ProxyInv'
<1>1. ProxyTypes'
  BY ClocksType, Zenon DEF ProxyInv, ProxyTypes, RowTypes
<1>2. \A u \in ProxyUsers : proxySince'.view[u] = 0 \/ (proxySince'.view[u] = proxySince.view[u] /\ ~P!CanView(u))
  BY ClocksType, Zenon
<1>3. proxySince'.node = 0 \/ (proxySince'.node = proxySince.node /\ ~P!Offered)
  BY ClocksType, Zenon
<1>4. \A u \in ProxyUsers : cache[u].left \in 0..ProxyTTL
  BY Zenon DEF ProxyInv, ProxyTypes, EntryType
<1>5. ASSUME NEW u \in ProxyUsers, cache[u].left > 0
      PROVE  proxySince'.view[u] + cache[u].left <= ProxyTTL
  BY <1>2, <1>4, <1>5, ProxyAssumption DEF ProxyInv, Timely
<1>6. ASSUME NEW u \in ProxyUsers, cache[u].left > 0, cache[u].cap
      PROVE  proxySince'.node + cache[u].left <= ProxyTTL
  BY <1>3, <1>4, <1>6, ProxyAssumption DEF ProxyInv, Timely
<1>7. ASSUME NEW r \in ProxyReqs, proxyReq[r].pc # "idle" PROVE proxySince'.view[proxyReq[r].u] = 0
  <2>1. proxyReq[r].u \in ProxyUsers
    BY <1>7, Zenon DEF ProxyInv, ProxyTypes
  <2> QED  BY <1>2, <1>7, <2>1, Zenon DEF ProxyInv, Timely
<1>8. ASSUME NEW r \in ProxyReqs, proxyReq[r].pc = "store", proxyReq[r].cap PROVE proxySince'.node = 0
  BY <1>3, <1>8, Zenon DEF ProxyInv, Timely
<1>9. Timely'
  BY <1>5, <1>6, <1>7, <1>8, Zenon DEF Timely
<1> QED  BY <1>1, <1>9, Zenon DEF ProxyInv

\* A change that takes nothing away.
LEMMA RightsKept ==
    ASSUME ProxyInv, RowTypes', UNCHANGED <<cache, proxyReq, proxySince, worst>>,
           \A u \in ProxyUsers : P!CanView(u) => P!CanView(u)', P!Offered => P!Offered'
    PROVE  ProxyInv'
<1>1. ProxyTypes'
  BY Zenon DEF ProxyInv, ProxyTypes, RowTypes
<1>2. \A r \in ProxyReqs : proxyReq[r].pc # "idle" => proxyReq[r].u \in ProxyUsers
  BY Zenon DEF ProxyInv, ProxyTypes
<1>3. \A u \in ProxyUsers : cache'[u].left > 0 =>
       /\ P!CanView(u)' \/ proxySince'.view[u] + cache'[u].left <= ProxyTTL
       /\ cache'[u].cap => P!Offered' \/ proxySince'.node + cache'[u].left <= ProxyTTL
  BY Zenon DEF ProxyInv, Timely
<1>4. ASSUME NEW r \in ProxyReqs, proxyReq[r].pc # "idle"
      PROVE  P!CanView(proxyReq[r].u)' \/ proxySince.view[proxyReq[r].u] = 0
  <2>1. PICK u \in ProxyUsers : u = proxyReq[r].u
    BY <1>2, <1>4, Zenon
  <2>2. P!CanView(u) \/ proxySince.view[u] = 0
    BY <1>4, <2>1, Zenon DEF ProxyInv, Timely
  <2>3. P!CanView(u)' \/ proxySince.view[u] = 0
    BY <2>2, Zenon
  <2>4. u = proxyReq'[r].u
    BY <2>1, Zenon
  <2> QED  BY <2>1, <2>3, <2>4, Zenon DEF P!CanView
<1>5. ASSUME NEW r \in ProxyReqs, proxyReq[r].pc = "store", proxyReq[r].cap
      PROVE  P!Offered' \/ proxySince.node = 0
  BY <1>5, Zenon DEF ProxyInv, Timely
<1>6. Timely'
  BY <1>3, <1>4, <1>5, Zenon DEF Timely
<1> QED  BY <1>1, <1>6, Zenon DEF ProxyInv

\* One more change, within the bound.
LEMMA OneMoreChange == ASSUME ProxyInv, P!Change PROVE changes' \in 0..MaxChanges
  BY ProxyAssumption DEF ProxyInv, ProxyTypes, P!Change

\* AcceptInvite.
LEMMA JoinStep == ASSUME ProxyInv, NEW u \in ProxyUsers, P!Join(u) PROVE ProxyInv'
<1>1. changes' \in 0..MaxChanges
  BY ProxyAssumption DEF ProxyInv, ProxyTypes, P!Join
<1>2. RowTypes'
  BY <1>1, Zenon DEF ProxyInv, ProxyTypes, RowTypes, P!Join, P!Roles
<1>3. \A w \in ProxyUsers : P!CanView(w) => P!CanView(w)'
  BY Zenon DEF P!CanView, P!Join, ProxyInv, ProxyTypes
<1>4. P!Offered => P!Offered'
  BY Zenon DEF P!Offered, P!Join
<1> QED  BY <1>2, <1>3, <1>4, RightsKept, Zenon DEF P!Join, P!proxying

\* RemoveMember's write.
LEMMA ProxyRemoveStep == ASSUME ProxyInv, NEW u \in ProxyUsers, P!RemoveMember(u) PROVE ProxyInv'
<1>1. RowTypes'
  BY OneMoreChange, Zenon DEF ProxyInv, ProxyTypes, RowTypes, P!RemoveMember
<1> QED  BY <1>1, RightsTaken, Zenon DEF P!RemoveMember

\* UpdateCapabilities' write.
LEMMA CapabilitiesStep == ASSUME ProxyInv, P!UpdateCapabilities PROVE ProxyInv'
<1>1. node' \in NodeType
  BY Zenon DEF P!UpdateCapabilities, ProxyInv, ProxyTypes, NodeType
<1>2. RowTypes'
  BY <1>1, OneMoreChange, Zenon DEF ProxyInv, ProxyTypes, RowTypes, P!UpdateCapabilities
<1> QED  BY <1>2, RightsTaken, Zenon DEF P!UpdateCapabilities

\* UpdateProxyRoutes' write.
LEMMA RoutesStep == ASSUME ProxyInv, P!UpdateRoutes PROVE ProxyInv'
<1>0. node \in NodeType /\ node.routes \in {0, 1} /\ node' = [node EXCEPT !.routes = 1 - node.routes]
  BY DEF P!UpdateRoutes, ProxyInv, ProxyTypes, NodeType
<1>r. 1 - node.routes \in 0..1
  BY <1>0
<1>1. node' \in NodeType /\ node'.there = node.there /\ node'.cap = node.cap
  BY <1>0, <1>r, Zenon DEF NodeType
<1>2. RowTypes'
  BY <1>1, OneMoreChange, Zenon DEF ProxyInv, ProxyTypes, RowTypes, P!UpdateRoutes
<1>3. P!Offered => P!Offered'
  BY <1>1, Zenon DEF P!Offered
<1>4. \A w \in ProxyUsers : P!CanView(w) => P!CanView(w)'
  BY Zenon DEF P!CanView, P!UpdateRoutes
<1> QED  BY <1>2, <1>3, <1>4, RightsKept, Zenon DEF P!UpdateRoutes, P!proxying

\* DeleteNode's write.
LEMMA ProxyDeleteNodeStep == ASSUME ProxyInv, P!DeleteNode PROVE ProxyInv'
<1>1. node' \in NodeType
  BY Zenon DEF P!DeleteNode, ProxyInv, ProxyTypes, NodeType
<1>2. RowTypes'
  BY <1>1, OneMoreChange, Zenon DEF ProxyInv, ProxyTypes, RowTypes, P!DeleteNode
<1> QED  BY <1>2, RightsTaken, Zenon DEF P!DeleteNode

\* DeleteNetwork's write.
LEMMA NetworkDeletedStep == ASSUME ProxyInv, P!NetworkDeleted PROVE ProxyInv'
<1>1. node' \in NodeType
  BY Zenon DEF P!NetworkDeleted, ProxyInv, ProxyTypes, NodeType
<1>2. RowTypes'
  BY <1>1, Zenon DEF ProxyInv, ProxyTypes, RowTypes, P!NetworkDeleted, P!NoOp
<1> QED  BY <1>2, RightsTaken, Zenon DEF P!NetworkDeleted

\* Entries only go.
LEMMA Emptied ==
    ASSUME ProxyInv, cache' = P!Invalidated(TRUE), UNCHANGED <<proxyReq, proxySince, worst, P!rows>>,
           changes' \in 0..MaxChanges,
           op' \in [pc : {"idle", "invalidate", "delete"}, all : BOOLEAN]
    PROVE  ProxyInv'
<1>1. cache' \in [ProxyUsers -> EntryType] /\ \A u \in ProxyUsers : cache'[u].left = 0
  BY NoEntryType, Zenon DEF P!Invalidated
<1>2. P!Offered' = P!Offered /\ \A u : P!CanView(u)' = P!CanView(u)
  BY Zenon DEF P!Offered, P!CanView, P!rows
<1>3. ProxyTypes'
  BY <1>1, Zenon DEF ProxyInv, ProxyTypes, P!rows
<1>4. ASSUME NEW r \in ProxyReqs, proxyReq[r].pc # "idle"
      PROVE  P!CanView(proxyReq[r].u)' \/ proxySince.view[proxyReq[r].u] = 0
  BY <1>4, Zenon DEF ProxyInv, Timely, P!CanView, P!rows
<1>5. ASSUME NEW r \in ProxyReqs, proxyReq[r].pc = "store", proxyReq[r].cap
      PROVE  P!Offered' \/ proxySince.node = 0
  BY <1>2, <1>5, Zenon DEF ProxyInv, Timely
<1>6. \A u \in ProxyUsers : ~(cache'[u].left > 0)
  <2>1. ~(0 > 0)
    OBVIOUS
  <2> QED  BY <1>1, <2>1, Zenon
<1>7. proxyReq' = proxyReq /\ proxySince' = proxySince
  BY Zenon
<1>8. Timely'
  BY <1>4, <1>5, <1>6, <1>7, Zenon DEF Timely
<1> QED  BY <1>3, <1>8, Zenon DEF ProxyInv

\* InvalidateProxyCache.
LEMMA InvalidateStep == ASSUME ProxyInv, P!InvalidateProxyCache PROVE ProxyInv'
<1>1. op' \in [pc : {"idle", "invalidate", "delete"}, all : BOOLEAN]
  BY Zenon DEF P!InvalidateProxyCache, P!NoOp
<1>2. changes' \in 0..MaxChanges
  BY Zenon DEF P!InvalidateProxyCache, ProxyInv, ProxyTypes
<1> QED  BY <1>1, <1>2, Emptied, Zenon DEF P!InvalidateProxyCache, P!Invalidated

\* DeleteNetwork's invalidation.
LEMMA ProxyDeleteNetworkStep == ASSUME ProxyInv, P!DeleteNetwork PROVE ProxyInv'
<1>1. op' \in [pc : {"idle", "invalidate", "delete"}, all : BOOLEAN]
  BY Zenon DEF P!DeleteNetwork
<1> QED  BY <1>1, OneMoreChange, Emptied, Zenon DEF P!DeleteNetwork

\* Whoever is let in with a right that was taken was so in time.
LEMMA LetInTimely ==
    ASSUME ProxyInv, NEW u \in ProxyUsers, NEW cap \in BOOLEAN, P!LetIn(u, cap),
           P!CanView(u) \/ proxySince.view[u] < ProxyTTL, cap => P!Offered \/ proxySince.node < ProxyTTL
    PROVE  worst' \in 0..ProxyTTL
<1> DEFINE a == IF P!CanView(u) THEN 0 ELSE proxySince.view[u] + 1
           b == IF P!Offered THEN 0 ELSE proxySince.node + 1
<1>1. proxySince.view[u] \in Nat /\ proxySince.node \in Nat /\ worst \in 0..ProxyTTL
  BY DEF ProxyInv, ProxyTypes, SinceType
<1>2. a \in 0..ProxyTTL /\ (cap => b \in 0..ProxyTTL)
  BY <1>1, ProxyAssumption
<1>3. worst' = IF cap THEN P!Larger(worst, P!Larger(a, b)) ELSE worst
  BY Zenon DEF P!LetIn
<1> HIDE DEF a, b
<1> QED  BY <1>1, <1>2, <1>3, Zenon DEF P!Larger

\* A valid entry answers.
LEMMA HitStep ==
    ASSUME ProxyInv, NEW r \in ProxyReqs, NEW u \in ProxyUsers, P!Hit(r, u) PROVE ProxyInv'
<1>1. /\ cache[u] \in EntryType /\ cache[u].left \in 0..ProxyTTL /\ cache[u].left > 0
      /\ cache[u].cap \in BOOLEAN
      /\ proxySince.view[u] \in Nat /\ proxySince.node \in Nat
  BY DEF ProxyInv, ProxyTypes, EntryType, SinceType, P!Hit
<1>2. /\ P!CanView(u) \/ proxySince.view[u] + cache[u].left <= ProxyTTL
      /\ cache[u].cap => P!Offered \/ proxySince.node + cache[u].left <= ProxyTTL
  BY <1>1, Zenon DEF ProxyInv, Timely
<1>3. worst' \in 0..ProxyTTL
  <2>1. P!CanView(u) \/ proxySince.view[u] < ProxyTTL
    BY <1>1, <1>2, ProxyAssumption
  <2>2. cache[u].cap => P!Offered \/ proxySince.node < ProxyTTL
    BY <1>1, <1>2, ProxyAssumption
  <2> QED  BY <1>1, <2>1, <2>2, LetInTimely, Zenon DEF P!Hit
<1>4. UNCHANGED <<proxyNet, node, proxyRole, cache, proxyReq, op, proxySince, changes>>
  BY Zenon DEF P!Hit, P!AfterHit, P!rows
<1>5. ProxyTypes'
  BY <1>3, <1>4, Zenon DEF ProxyInv, ProxyTypes
<1>6. Timely'
  BY <1>4, Zenon DEF ProxyInv, Timely, P!CanView, P!Offered
<1> QED  BY <1>5, <1>6, Zenon DEF ProxyInv

\* A request changes, and what it has seen is true now or was just before.
LEMMA AccessChanges ==
    ASSUME ProxyInv, NEW r \in ProxyReqs, NEW q \in AccessType, proxyReq' = [proxyReq EXCEPT ![r] = q],
           UNCHANGED <<P!rows, cache, op, proxySince, worst, changes>>,
           q.pc # "idle" => q.u \in ProxyUsers /\ (P!CanView(q.u) \/ proxySince.view[q.u] = 0),
           q.pc = "store" /\ q.cap => P!Offered \/ proxySince.node = 0
    PROVE  ProxyInv'
<1>1. ProxyTypes'
  BY Zenon DEF ProxyInv, ProxyTypes, P!rows
<1>2. P!Offered' = P!Offered /\ proxyReq \in [ProxyReqs -> AccessType]
  BY Zenon DEF P!Offered, P!rows, ProxyInv, ProxyTypes
<1>3. \A u \in ProxyUsers : cache'[u].left > 0 =>
       /\ P!CanView(u)' \/ proxySince'.view[u] + cache'[u].left <= ProxyTTL
       /\ cache'[u].cap => P!Offered' \/ proxySince'.node + cache'[u].left <= ProxyTTL
  BY <1>2, Zenon DEF ProxyInv, Timely, P!CanView, P!rows
<1>4. ASSUME NEW s \in ProxyReqs
      PROVE  /\ proxyReq'[s].pc # "idle" => P!CanView(proxyReq[s].u)' \/ proxySince'.view[proxyReq'[s].u] = 0
             /\ proxyReq'[s].pc = "store" /\ proxyReq'[s].cap => P!Offered' \/ proxySince'.node = 0
  <2>1. CASE s = r
    <3>1. proxyReq'[s] = q
      BY <1>2, <2>1, Zenon
    <3> QED  BY <1>2, <3>1, Zenon DEF P!CanView, P!rows
  <2>2. CASE s # r
    <3>1. proxyReq'[s] = proxyReq[s]
      BY <1>2, <2>2, Zenon
    <3>2. proxyReq[s].pc # "idle" => P!CanView(proxyReq[s].u) \/ proxySince.view[proxyReq[s].u] = 0
      BY Zenon DEF ProxyInv, Timely
    <3>3. proxyReq[s].pc = "store" /\ proxyReq[s].cap => P!Offered \/ proxySince.node = 0
      BY Zenon DEF ProxyInv, Timely
    <3> QED  BY <1>2, <3>1, <3>2, <3>3, Zenon DEF P!CanView, P!rows
  <2> QED  BY <2>1, <2>2, Zenon
<1>5. Timely'
  BY <1>3, <1>4, Zenon DEF Timely
<1> QED  BY <1>1, <1>5, Zenon DEF ProxyInv

\* The membership is read.
LEMMA MissStep ==
    ASSUME ProxyInv, NEW r \in ProxyReqs, NEW u \in ProxyUsers, P!Miss(r, u) PROVE ProxyInv'
<1> DEFINE q == [P!NoReq EXCEPT !.pc = "node", !.u = u]
<1>1. q \in AccessType /\ q.pc = "node" /\ q.u = u
  BY NoEntryType, Zenon DEF AccessType
<1>2. proxyReq' = [proxyReq EXCEPT ![r] = q] /\ P!CanView(u)
  BY Zenon DEF P!Miss
<1> HIDE DEF q
<1> QED  BY <1>1, <1>2, AccessChanges, Zenon DEF P!Miss

\* The node is read.
LEMMA ReadNodeStep == ASSUME ProxyInv, NEW r \in ProxyReqs, P!ReadNode(r) PROVE ProxyInv'
<1> DEFINE q == [proxyReq[r] EXCEPT !.pc = "store", !.cap = node.cap, !.routes = node.routes]
<1>1. /\ proxyReq[r] \in AccessType /\ proxyReq[r].pc = "node" /\ proxyReq[r].u \in ProxyUsers
      /\ node \in NodeType /\ node.cap \in BOOLEAN /\ node.routes \in 0..1
      /\ P!CanView(proxyReq[r].u) \/ proxySince.view[proxyReq[r].u] = 0
  BY Zenon DEF ProxyInv, ProxyTypes, Timely, P!ReadNode, NodeType
<1>2. CASE node.there
  <2>1. q \in AccessType /\ q.pc = "store" /\ q.u = proxyReq[r].u /\ q.cap = node.cap
    BY <1>1, Zenon DEF AccessType
  <2>2. proxyReq' = [proxyReq EXCEPT ![r] = q]
    BY <1>2, Zenon DEF P!ReadNode
  <2>3. node.cap => P!Offered
    BY <1>2, Zenon DEF P!Offered
  <2> HIDE DEF q
  <2> QED  BY <1>1, <2>1, <2>2, <2>3, AccessChanges DEF P!ReadNode
<1>3. CASE ~node.there
  <2>1. proxyReq' = [proxyReq EXCEPT ![r] = P!NoReq]
    BY <1>3, Zenon DEF P!ReadNode
  <2> QED  BY <2>1, NoEntryType, AccessChanges, Zenon DEF P!ReadNode
<1> QED  BY <1>2, <1>3, Zenon

\* The entry is stored, from now on, and the request is let in.
LEMMA StoreStep == ASSUME ProxyInv, NEW r \in ProxyReqs, P!Store(r) PROVE ProxyInv'
<1>0. proxyReq[r] \in AccessType /\ proxyReq[r].u \in ProxyUsers
  BY Zenon DEF ProxyInv, ProxyTypes, P!Store
<1>u. PICK u \in ProxyUsers : u = proxyReq[r].u
  BY <1>0, Zenon
<1>c. PICK cap \in BOOLEAN : cap = proxyReq[r].cap
  BY <1>0, Zenon DEF AccessType
<1> DEFINE e == [left |-> ProxyTTL, cap |-> cap, routes |-> proxyReq[r].routes]
<1>1. /\ P!CanView(u) \/ proxySince.view[u] = 0
      /\ cap => P!Offered \/ proxySince.node = 0
  BY <1>u, <1>c, Zenon DEF ProxyInv, Timely, P!Store
<1>2. e \in EntryType /\ e.left = ProxyTTL /\ e.cap = cap
  BY <1>0, ProxyAssumption DEF EntryType, AccessType
<1>3. /\ cache' = [cache EXCEPT ![u] = e] /\ proxyReq' = [proxyReq EXCEPT ![r] = P!NoReq]
      /\ P!LetIn(u, cap) /\ UNCHANGED <<proxyNet, node, proxyRole, op, proxySince, changes>>
  BY <1>u, <1>c, Zenon DEF P!Store, P!rows
<1> HIDE DEF e
<1>4. worst' \in 0..ProxyTTL
  <2>1. (P!CanView(u) \/ proxySince.view[u] < ProxyTTL) /\ (cap => P!Offered \/ proxySince.node < ProxyTTL)
    BY <1>1, ProxyAssumption
  <2> QED  BY <1>3, <2>1, LetInTimely, Zenon
<1>5. ProxyTypes'
  BY <1>2, <1>3, <1>4, NoEntryType, Zenon DEF ProxyInv, ProxyTypes
<1>6. P!Offered' = P!Offered /\ \A w \in ProxyUsers : P!CanView(w)' = P!CanView(w)
  BY <1>3, Zenon DEF P!Offered, P!CanView
<1>7. ASSUME NEW w \in ProxyUsers, cache'[w].left > 0
      PROVE  /\ P!CanView(w)' \/ proxySince'.view[w] + cache'[w].left <= ProxyTTL
             /\ cache'[w].cap => P!Offered' \/ proxySince'.node + cache'[w].left <= ProxyTTL
  <2>1. cache \in [ProxyUsers -> EntryType]
    BY Zenon DEF ProxyInv, ProxyTypes
  <2>2. CASE w = u
    <3>1. cache'[w] = e
      BY <1>3, <2>1, <2>2, Zenon
    <3> QED  BY <1>1, <1>2, <1>3, <1>6, <2>2, <3>1, ProxyAssumption
  <2>3. CASE w # u
    <3>1. cache'[w] = cache[w]
      BY <1>3, <2>1, <2>3, Zenon
    <3> QED  BY <1>3, <1>6, <1>7, <3>1, Zenon DEF ProxyInv, Timely
  <2> QED  BY <2>2, <2>3, Zenon
<1>8. ASSUME NEW s \in ProxyReqs
      PROVE  /\ proxyReq'[s].pc # "idle" => P!CanView(proxyReq[s].u)' \/ proxySince'.view[proxyReq'[s].u] = 0
             /\ proxyReq'[s].pc = "store" /\ proxyReq'[s].cap => P!Offered' \/ proxySince'.node = 0
  <2>1. proxyReq \in [ProxyReqs -> AccessType]
    BY Zenon DEF ProxyInv, ProxyTypes
  <2>2. CASE s = r
    BY <1>3, <2>1, <2>2, NoEntryType, Zenon
  <2>3. CASE s # r
    <3>1. proxyReq'[s] = proxyReq[s]
      BY <1>3, <2>1, <2>3, Zenon
    <3>2. proxyReq[s].pc # "idle" => P!CanView(proxyReq[s].u) \/ proxySince.view[proxyReq[s].u] = 0
      BY Zenon DEF ProxyInv, Timely
    <3>3. proxyReq[s].pc = "store" /\ proxyReq[s].cap => P!Offered \/ proxySince.node = 0
      BY Zenon DEF ProxyInv, Timely
    <3> QED  BY <1>3, <1>6, <3>1, <3>2, <3>3, Zenon DEF P!CanView
  <2> QED  BY <2>2, <2>3, Zenon
<1>9. Timely'
  BY <1>7, <1>8, Zenon DEF Timely
<1> QED  BY <1>5, <1>9, Zenon DEF ProxyInv

\* A tick takes as much from an entry as it adds to the time a right has been gone.
LEMMA ProxyTickStep == ASSUME ProxyInv, P!Tick PROVE ProxyInv'
<1> DEFINE W == [u \in ProxyUsers |-> IF P!CanView(u) THEN 0 ELSE P!Later(proxySince.view[u])]
           N == IF P!Offered THEN 0 ELSE P!Later(proxySince.node)
           D(u) == [cache[u] EXCEPT !.left = @ - 1]
           E(u) == IF cache[u].left <= 1 THEN P!NoEntry ELSE D(u)
<1>1. /\ cache \in [ProxyUsers -> EntryType]
      /\ \A u \in ProxyUsers : /\ cache[u] \in EntryType /\ cache[u].left \in 0..ProxyTTL
                               /\ proxySince.view[u] \in 0..ProxyTTL + 1
      /\ proxySince.node \in 0..ProxyTTL + 1
  BY Zenon DEF ProxyInv, ProxyTypes, EntryType, SinceType
<1>2. W \in [ProxyUsers -> 0..ProxyTTL + 1] /\ N \in 0..ProxyTTL + 1
  BY <1>1, ProxyAssumption DEF P!Later
<1>3. \A u \in ProxyUsers : cache[u].left > 1 =>
        D(u) \in EntryType /\ D(u).left = cache[u].left - 1 /\ D(u).cap = cache[u].cap
  <2> SUFFICES ASSUME NEW u \in ProxyUsers, cache[u].left > 1
               PROVE  D(u) \in EntryType /\ D(u).left = cache[u].left - 1 /\ D(u).cap = cache[u].cap
    BY Zenon
  <2>1. cache[u].left - 1 \in 0..ProxyTTL
    BY <1>1, ProxyAssumption
  <2> QED  BY <1>1, <2>1, Zenon DEF EntryType
<1> HIDE DEF D
<1>4. /\ cache' = [u \in ProxyUsers |-> E(u)] /\ proxySince' = [view |-> W, node |-> N]
      /\ UNCHANGED <<proxyNet, node, proxyRole, proxyReq, op, worst, changes>>
      /\ \A r \in ProxyReqs : proxyReq[r].pc = "idle"
  BY Zenon DEF P!Tick, P!ClocksAfterTick, P!rows, D
<1>5. \A u \in ProxyUsers : W[u] = IF P!CanView(u) THEN 0 ELSE P!Later(proxySince.view[u])
  BY Zenon
<1>6. N = IF P!Offered THEN 0 ELSE P!Later(proxySince.node)
  BY Zenon
<1> HIDE DEF W, N
<1>7. proxySince' \in SinceType /\ proxySince'.view = W /\ proxySince'.node = N
  BY <1>2, <1>4, Zenon DEF SinceType
<1>8. \A u \in ProxyUsers : /\ E(u) \in EntryType
                            /\ E(u).left > 0 => /\ cache[u].left > 1 /\ E(u).left = cache[u].left - 1
                                                /\ E(u).cap = cache[u].cap
  <2> SUFFICES ASSUME NEW u \in ProxyUsers
               PROVE  /\ E(u) \in EntryType
                      /\ E(u).left > 0 => /\ cache[u].left > 1 /\ E(u).left = cache[u].left - 1
                                          /\ E(u).cap = cache[u].cap
    BY Zenon
  <2>1. CASE cache[u].left <= 1
    BY <1>1, <2>1, NoEntryType
  <2>2. CASE ~(cache[u].left <= 1)
    BY <1>1, <1>3, <2>2, ProxyAssumption
  <2> QED  BY <2>1, <2>2, Zenon
<1> HIDE DEF E
<1>9. ProxyTypes'
  BY <1>4, <1>7, <1>8, Zenon DEF ProxyInv, ProxyTypes
<1>10. P!Offered' = P!Offered /\ \A w \in ProxyUsers : P!CanView(w)' = P!CanView(w)
  BY <1>4, Zenon DEF P!Offered, P!CanView
<1>11. ASSUME NEW u \in ProxyUsers, cache'[u].left > 0
       PROVE  /\ P!CanView(u)' \/ proxySince'.view[u] + cache'[u].left <= ProxyTTL
              /\ cache'[u].cap => P!Offered' \/ proxySince'.node + cache'[u].left <= ProxyTTL
  <2>1. cache'[u] = E(u) /\ cache[u].left > 1 /\ E(u).left = cache[u].left - 1 /\ E(u).cap = cache[u].cap
    BY <1>4, <1>8, <1>11, Zenon
  <2>2. cache[u].left > 0
    BY <1>1, <2>1
  <2>3. /\ P!CanView(u) \/ proxySince.view[u] + cache[u].left <= ProxyTTL
        /\ cache[u].cap => P!Offered \/ proxySince.node + cache[u].left <= ProxyTTL
    BY <2>2, Zenon DEF ProxyInv, Timely
  <2>4. P!CanView(u)' \/ proxySince'.view[u] + cache'[u].left <= ProxyTTL
    BY <1>1, <1>5, <1>7, <1>10, <2>1, <2>3, ProxyAssumption DEF P!Later
  <2>5. cache'[u].cap => P!Offered' \/ proxySince'.node + cache'[u].left <= ProxyTTL
    BY <1>1, <1>6, <1>7, <1>10, <2>1, <2>3, ProxyAssumption DEF P!Later
  <2> QED  BY <2>4, <2>5, Zenon
<1>12. Timely'
  BY <1>4, <1>11, Zenon DEF Timely
<1> QED  BY <1>9, <1>12, Zenon DEF ProxyInv

\* Every step of ProxyAuth keeps the invariant.
LEMMA ProxyStep == ProxyInv /\ [P!Next]_proxyVars => ProxyInv'
<1> SUFFICES ASSUME ProxyInv, [P!Next]_proxyVars PROVE ProxyInv'
  BY Zenon
<1>1. CASE UNCHANGED proxyVars
  BY <1>1 DEF ProxyInv, ProxyTypes, Timely, P!CanView, P!Offered, proxyVars
<1>2. CASE P!Next
  BY <1>2, JoinStep, ProxyRemoveStep, CapabilitiesStep, RoutesStep, ProxyDeleteNodeStep,
     ProxyDeleteNetworkStep, InvalidateStep, NetworkDeletedStep, HitStep, MissStep, ReadNodeStep,
     StoreStep, ProxyTickStep, Zenon DEF P!Next
<1> QED  BY <1>1, <1>2, Zenon

\* Access ends proxyAuthTTL after the right to it, at the latest, for every number of users
\* and requests and whatever the order of reads, changes, invalidations and stores
\* (cachedRequireNode, InvalidateProxyCache).
THEOREM ProxySafe == P!Spec => [](P!TypeOK /\ RevokedWithinTTL)
<1>1. P!Init => ProxyInv
  BY ProxyInit, Zenon
<1>2. ProxyInv /\ [P!Next]_(P!vars) => ProxyInv'
  BY ProxyStep, Zenon DEF proxyVars, P!vars
<1>3. ProxyInv => P!TypeOK /\ RevokedWithinTTL
  BY ProxyTypeOK, ProxyAssumption DEF ProxyInv, ProxyTypes, RevokedWithinTTL, P!RevokedWithinTTL
<1> QED  BY <1>1, <1>2, <1>3, PTL DEF P!Spec

-----------------------------------------------------------------------------
(* Accounts.                                                               *)

CONSTANTS
  Emails, GitHub, Logins, AccountReqs

\* 0 stands for no request, no GitHub account and no address.
ASSUME AccountsAssumption ==
  0 \notin AccountReqs /\ 0 \notin GitHub /\ 0 \notin Emails

VARIABLES
  users, accountReq, sess, home, displaced

A == INSTANCE Accounts WITH
       Reqs <- AccountReqs, req <- accountReq

accountVars == <<users, accountReq, sess, home, displaced>>

\* A GitHub account always arrives in the same hopssh account, also when its first
\* logins run in two tabs or race with a registration of the same address, and whatever
\* address and login name GitHub reports each time, for as long as no other GitHub
\* account has reported the address of that hopssh account and taken its link over
\* (findOrCreateUser's lookups, SetGitHubID, the UNIQUE constraints).
SameAccount == A!SameAccount

RowType == [id : AccountReqs, email : A!Addresses, gh : GitHub \cup {0}, pw : BOOLEAN]
LoginType == [kind : {"none", "register", "login", "oauth"},
              pc : {"idle", "create", "email", "link", "session", "over"},
              email : A!Addresses \cup {0}, gh : GitHub \cup {0}, uid : AccountReqs \cup {0}]
SessType == [live : BOOLEAN, expired : BOOLEAN, uid : AccountReqs \cup {0}, gh : GitHub \cup {0}]

\* One row per id, address and GitHub account.
UserTable ==
  /\ users \subseteq RowType
  /\ \A u, v \in users : u.id = v.id \/ u.email = v.email \/ (u.gh = v.gh /\ u.gh # 0) => u = v

\* User uid exists, and has g's link unless g was displaced.
HasRow(uid, g) ==
  \E u \in users : u.id = uid /\ (g # 0 /\ g \notin displaced => u.gh = g)

\* What each step of a request rests on.
RequestKnows(q) ==
  /\ q.pc = "email" => q.gh \in GitHub
  /\ q.pc = "create" => q.email \in A!Addresses
  /\ q.pc = "link" => q.gh \in GitHub /\ HasRow(q.uid, 0)
  /\ q.pc = "session" => HasRow(q.uid, q.gh)

SessionKnows(s) ==
  s.live => HasRow(s.uid, s.gh) /\ (s.gh # 0 /\ s.gh \notin displaced => home[s.gh] = s.uid)

\* The inductive invariant; a row has the number of the request that made it.
AccountInv ==
  /\ UserTable
  /\ accountReq \in [AccountReqs -> LoginType] /\ sess \in [AccountReqs -> SessType]
  /\ home \in [GitHub -> AccountReqs \cup {0}] /\ displaced \subseteq GitHub
  /\ \A u \in users : accountReq[u.id].pc \in {"session", "over"}
  /\ \A r \in AccountReqs : RequestKnows(accountReq[r])
  /\ \A t \in AccountReqs : SessionKnows(sess[t])
  /\ \A g \in GitHub : home[g] # 0 => HasRow(home[g], g)

\* The invariant contains the type invariant of the module.
LEMMA AccountTypeOK == AccountInv => A!TypeOK
<1> SUFFICES ASSUME AccountInv PROVE A!TypeOK
  OBVIOUS
<1>1. \A t \in AccountReqs : sess[t].live => \E u \in users : u.id = sess[t].uid
  BY Zenon DEF AccountInv, SessionKnows, HasRow
<1> QED  BY <1>1, Zenon DEF AccountInv, UserTable, A!TypeOK, RowType, LoginType, SessType

\* It implies that every GitHub account has one home.
LEMMA AccountSame == AccountInv => A!SameAccount
  BY Zenon DEF AccountInv, SessionKnows, A!SameAccount

\* What the empty records are.
LEMMA NoLoginType ==
    /\ A!NoReq \in LoginType /\ A!NoReq.pc = "idle" /\ A!NoReq.gh = 0
    /\ A!NoSess \in SessType /\ A!NoSess.live = FALSE
  BY Zenon DEF A!NoReq, A!NoSess, LoginType, SessType

\* Nobody has an account.
LEMMA AccountInit == A!Init => AccountInv
  BY NoLoginType, Zenon DEF A!Init, AccountInv, UserTable, RequestKnows, SessionKnows

\* The link of a GitHub account belongs to one user.
LEMMA OneHome ==
    ASSUME AccountInv, NEW g \in GitHub \ displaced, NEW x, NEW y, HasRow(x, g), HasRow(y, g)
    PROVE  x = y
  BY AccountsAssumption DEF AccountInv, UserTable, HasRow

\* One request changes.
LEMMA LoginChanges ==
    ASSUME AccountInv, NEW r \in AccountReqs, NEW q \in LoginType,
           accountReq' = [accountReq EXCEPT ![r] = q], UNCHANGED <<users, sess, home, displaced>>,
           RequestKnows(q), q.pc = "over" \/ accountReq[r].pc \notin {"session", "over"}
    PROVE  AccountInv'
<1>1. \A s \in AccountReqs : accountReq'[s] = IF s = r THEN q ELSE accountReq[s]
  BY Zenon DEF AccountInv
<1>2. UserTable' /\ \A x, g : HasRow(x, g)' = HasRow(x, g)
  BY Zenon DEF AccountInv, UserTable, HasRow
<1>3. \A u \in users : accountReq'[u.id].pc \in {"session", "over"}
  BY <1>1, Zenon DEF AccountInv, UserTable, RowType
<1>4. \A s \in AccountReqs : RequestKnows(accountReq[s])'
  <2> SUFFICES ASSUME NEW s \in AccountReqs PROVE RequestKnows(accountReq[s])'
    BY Zenon
  <2>1. CASE s = r
    <3>1. accountReq'[s] = q
      BY <1>1, <2>1, Zenon
    <3> QED  BY <1>2, <3>1, Zenon DEF RequestKnows
  <2>2. CASE s # r
    <3>1. accountReq'[s] = accountReq[s]
      BY <1>1, <2>2, Zenon
    <3>2. RequestKnows(accountReq[s])
      BY Zenon DEF AccountInv
    <3> QED  BY <1>2, <3>1, <3>2, Zenon DEF RequestKnows
  <2> QED  BY <2>1, <2>2, Zenon
<1>5. \A t \in AccountReqs : SessionKnows(sess[t])'
  BY <1>2, Zenon DEF AccountInv, SessionKnows
<1>6. \A g \in GitHub : home'[g] # 0 => HasRow(home[g], g)'
  BY <1>2, Zenon DEF AccountInv
<1>7. accountReq' \in [AccountReqs -> LoginType] /\ sess' \in [AccountReqs -> SessType] /\ home' \in [GitHub -> AccountReqs \cup {0}] /\ displaced' \subseteq GitHub
  BY Zenon DEF AccountInv
<1> QED  BY <1>2, <1>3, <1>4, <1>5, <1>6, <1>7, Zenon DEF AccountInv

\* A request ends.
LEMMA OverStep ==
    ASSUME AccountInv, NEW r \in AccountReqs, accountReq' = A!Over(r), UNCHANGED <<users, sess, home, displaced>>
    PROVE  AccountInv'
<1> DEFINE q == [A!NoReq EXCEPT !.pc = "over"]
<1>1. q \in LoginType /\ q.pc = "over"
  BY NoLoginType, Zenon DEF LoginType
<1>2. accountReq' = [accountReq EXCEPT ![r] = q]
  BY Zenon DEF A!Over
<1> HIDE DEF q
<1> QED  BY <1>1, <1>2, LoginChanges, Zenon DEF RequestKnows

\* A request that goes on.
LEMMA GotoIs ==
    ASSUME AccountInv, NEW r \in AccountReqs,
           NEW pc \in {"link", "session"}, NEW uid \in AccountReqs
    PROVE  LET q == [accountReq[r] EXCEPT !.pc = pc, !.uid = uid] IN
           /\ A!Goto(r, pc, uid) = [accountReq EXCEPT ![r] = q] /\ q \in LoginType
           /\ q.pc = pc /\ q.uid = uid /\ q.gh = accountReq[r].gh
<1> DEFINE q == [accountReq[r] EXCEPT !.pc = pc, !.uid = uid]
<1>1. accountReq \in [AccountReqs -> LoginType] /\ accountReq[r] \in LoginType
  BY Zenon DEF AccountInv
<1>2. q \in LoginType /\ q.pc = pc /\ q.uid = uid /\ q.gh = accountReq[r].gh
  BY <1>1, Zenon DEF LoginType
<1>3. A!Goto(r, pc, uid) = [accountReq EXCEPT ![r] = q]
  BY <1>1, Zenon DEF A!Goto
<1> QED  BY <1>2, <1>3, Zenon

\* Register's lookup.
LEMMA RegisterAccountStep ==
    ASSUME AccountInv, NEW r \in AccountReqs, NEW e \in Emails, A!Register(r, e) PROVE AccountInv'
<1> DEFINE q == [A!NoReq EXCEPT !.kind = "register", !.pc = "create", !.email = e]
<1>1. e \in A!Addresses
  BY Zenon DEF A!Addresses
<1>2. q \in LoginType /\ q.pc = "create" /\ q.email = e /\ q.gh = 0
  BY <1>1, NoLoginType, Zenon DEF LoginType
<1>3. CASE accountReq' = A!Over(r)
  BY <1>3, OverStep, Zenon DEF A!Register
<1>4. CASE accountReq' = [accountReq EXCEPT ![r] = q]
  <2> HIDE DEF q
  <2> QED  BY <1>1, <1>2, <1>4, LoginChanges, Zenon DEF A!Register, RequestKnows
<1> QED  BY <1>3, <1>4, Zenon DEF A!Register

\* Login.
LEMMA LoginStep ==
    ASSUME AccountInv, NEW r \in AccountReqs, NEW e \in Emails, A!Login(r, e) PROVE AccountInv'
<1>1. PICK u \in A!ByEmail(e) :
        accountReq' = [accountReq EXCEPT ![r] = [A!NoReq EXCEPT !.kind = "login", !.pc = "session", !.uid = u.id]]
  BY Zenon DEF A!Login
<1> DEFINE q == [A!NoReq EXCEPT !.kind = "login", !.pc = "session", !.uid = u.id]
<1>2. u \in users /\ u.id \in AccountReqs
  BY Zenon DEF A!ByEmail, AccountInv, UserTable, RowType
<1>3. q \in LoginType /\ q.pc = "session" /\ q.uid = u.id /\ q.gh = 0
  BY <1>2, NoLoginType, Zenon DEF LoginType
<1>4. HasRow(u.id, 0)
  BY <1>2, Zenon DEF HasRow
<1> HIDE DEF q
<1>5. RequestKnows(q)
  BY <1>3, <1>4, Zenon DEF RequestKnows
<1> QED  BY <1>1, <1>3, <1>5, LoginChanges, Zenon DEF A!Login, q

\* The callback finds the row of the GitHub account, or none.
LEMMA CallbackStep ==
    ASSUME AccountInv, NEW r \in AccountReqs, NEW g \in GitHub, A!CallbackGitHub(r, g)
    PROVE  AccountInv'
<1> DEFINE n == [A!NoReq EXCEPT !.kind = "oauth", !.gh = g]
           a == [n EXCEPT !.pc = "email"]
           b(u) == [n EXCEPT !.pc = "session", !.uid = u.id]
<1>1. n \in LoginType /\ n.gh = g
  BY NoLoginType, Zenon DEF LoginType
<1> HIDE DEF n
<1>2. a \in LoginType /\ a.pc = "email" /\ a.gh = g
  BY <1>1, Zenon DEF LoginType
<1>3. CASE A!ByGitHub(g) = {}
  <2>1. accountReq' = [accountReq EXCEPT ![r] = a]
    BY <1>3, Zenon DEF A!CallbackGitHub, n
  <2> HIDE DEF a
  <2> QED  BY <1>2, <2>1, LoginChanges, Zenon DEF A!CallbackGitHub, RequestKnows
<1>4. CASE A!ByGitHub(g) # {}
  <2>1. PICK u \in A!ByGitHub(g) : accountReq' = [accountReq EXCEPT ![r] = b(u)]
    BY <1>4, Zenon DEF A!CallbackGitHub, n
  <2>2. u \in users /\ u.id \in AccountReqs /\ u.gh = g
    BY Zenon DEF A!ByGitHub, AccountInv, UserTable, RowType
  <2>3. b(u) \in LoginType /\ b(u).pc = "session" /\ b(u).uid = u.id /\ b(u).gh = g
    BY <1>1, <2>2, Zenon DEF LoginType
  <2>4. HasRow(u.id, g)
    BY <2>2, Zenon DEF HasRow
  <2> HIDE DEF b
  <2>5. RequestKnows(b(u))
    BY <2>3, <2>4, Zenon DEF RequestKnows
  <2> QED  BY <2>1, <2>3, <2>5, LoginChanges, Zenon DEF A!CallbackGitHub
<1> QED  BY <1>3, <1>4, Zenon

\* findOrCreateUser's second lookup.
LEMMA FindByEmailStep ==
    ASSUME AccountInv, NEW r \in AccountReqs, NEW e \in A!Reported, NEW login \in Logins,
           A!FindByEmail(r, e, login)
    PROVE  AccountInv'
<1>1. PICK g \in GitHub : g = accountReq[r].gh
  BY Zenon DEF AccountInv, RequestKnows, A!FindByEmail
<1> DEFINE a == IF e = 0 THEN A!NoReply(login) ELSE e
           n == [accountReq[r] EXCEPT !.pc = "create", !.email = a]
<1>2. accountReq[r].pc = "email" /\ accountReq[r] \in LoginType /\ accountReq \in [AccountReqs -> LoginType]
  BY Zenon DEF A!FindByEmail, AccountInv
<1>3. CASE e # 0 /\ A!ByEmail(e) # {}
  <2>1. PICK u \in A!ByEmail(e) : accountReq' = A!Goto(r, "link", u.id)
    BY <1>1, <1>3, Zenon DEF A!FindByEmail
  <2>2. u \in users /\ u.id \in AccountReqs
    BY <1>3, Zenon DEF A!ByEmail, AccountInv, UserTable, RowType
  <2>i. PICK id \in AccountReqs : id = u.id
    BY <2>2, Zenon
  <2> DEFINE q == [accountReq[r] EXCEPT !.pc = "link", !.uid = id]
  <2>j. accountReq' = A!Goto(r, "link", id)
    BY <2>1, <2>i, Zenon
  <2>3. accountReq' = [accountReq EXCEPT ![r] = q] /\ q \in LoginType /\ q.pc = "link" /\ q.uid = id /\ q.gh = g
    BY <1>1, <2>j, GotoIs
  <2> HIDE DEF q
  <2>4. HasRow(id, 0)
    BY <2>2, <2>i, Zenon DEF HasRow
  <2>5. RequestKnows(q)
    BY <2>3, <2>4, Zenon DEF RequestKnows
  <2> QED  BY <1>2, <2>3, <2>5, LoginChanges, Zenon DEF A!FindByEmail
<1>4. CASE ~(e # 0 /\ A!ByEmail(e) # {})
  <2>1. accountReq' = [accountReq EXCEPT ![r].pc = "create", ![r].email = a]
    BY <1>4, Zenon DEF A!FindByEmail
  <2>a. a \in A!Addresses
    BY Zenon DEF A!Addresses, A!Reported
  <2>2. n \in LoginType /\ n.pc = "create" /\ n.email \in A!Addresses
    BY <1>2, <2>a, Zenon DEF LoginType
  <2>3. accountReq' = [accountReq EXCEPT ![r] = n]
    BY <1>2, <2>1, Zenon
  <2> HIDE DEF n
  <2>4. RequestKnows(n)
    BY <2>2, Zenon DEF RequestKnows
  <2> QED  BY <1>2, <2>2, <2>3, <2>4, LoginChanges, Zenon DEF A!FindByEmail
<1> QED  BY <1>3, <1>4, Zenon

\* Users come or are linked, and none is lost.
LEMMA UsersGrow ==
    ASSUME AccountInv, UserTable', NEW r \in AccountReqs, NEW q \in LoginType,
           accountReq' = [accountReq EXCEPT ![r] = q], sess' = sess, home' = home,
           displaced \subseteq displaced', displaced' \subseteq GitHub,
           \A u \in users : \E x \in users' : x.id = u.id /\ (u.gh \in {0, x.gh} \/ u.gh \in displaced'),
           \A x \in users' : x.id = r \/ \E u \in users : u.id = x.id,
           q.pc = "session", HasRow(q.uid, q.gh)'
    PROVE  AccountInv'
<1>1. \A s \in AccountReqs : accountReq'[s] = IF s = r THEN q ELSE accountReq[s]
  BY Zenon DEF AccountInv
<1>2. \A x, g : HasRow(x, g) => HasRow(x, g)'
  BY DEF HasRow
<1>3. \A x \in users' : accountReq'[x.id].pc \in {"session", "over"}
  BY <1>1 DEF AccountInv, UserTable, RowType
<1>4. \A s \in AccountReqs : RequestKnows(accountReq[s])'
  <2> SUFFICES ASSUME NEW s \in AccountReqs PROVE RequestKnows(accountReq[s])'
    BY Zenon
  <2>1. CASE s = r
    <3>1. accountReq'[s] = q
      BY <1>1, <2>1, Zenon
    <3> QED  BY <1>2, <3>1, Zenon DEF RequestKnows
  <2>2. CASE s # r
    <3>1. accountReq'[s] = accountReq[s]
      BY <1>1, <2>2, Zenon
    <3>2. RequestKnows(accountReq[s])
      BY Zenon DEF AccountInv
    <3> QED  BY <1>2, <3>1, <3>2, Zenon DEF RequestKnows
  <2> QED  BY <2>1, <2>2, Zenon
<1>5. \A t \in AccountReqs : SessionKnows(sess[t])'
  BY <1>2, Zenon DEF AccountInv, SessionKnows
<1>6. \A g \in GitHub : home'[g] # 0 => HasRow(home[g], g)'
  BY <1>2, Zenon DEF AccountInv
<1>7. accountReq' \in [AccountReqs -> LoginType] /\ sess' \in [AccountReqs -> SessType] /\ home' \in [GitHub -> AccountReqs \cup {0}] /\ displaced' \subseteq GitHub
  BY Zenon DEF AccountInv
<1> QED  BY <1>3, <1>4, <1>5, <1>6, <1>7, Zenon DEF AccountInv

\* SetGitHubID: the constraint keeps the account's row the only one.
LEMMA SetGitHubIDStep == ASSUME AccountInv, NEW r \in AccountReqs, A!SetGitHubID(r) PROVE AccountInv'
<1>1. PICK g \in GitHub : g = accountReq[r].gh
  BY Zenon DEF AccountInv, RequestKnows, A!SetGitHubID
<1>2. HasRow(accountReq[r].uid, 0) /\ accountReq[r] \in LoginType /\ accountReq[r].pc = "link"
  BY <1>1, Zenon DEF AccountInv, RequestKnows, A!SetGitHubID
<1>3. PICK w \in users : w.id = accountReq[r].uid
  BY <1>2, Zenon DEF HasRow
<1>4. PICK id \in AccountReqs : id = accountReq[r].uid
  BY <1>3, Zenon DEF AccountInv, UserTable, RowType
<1>5. CASE \E u \in A!ByGitHub(g) : u.id # id
  BY <1>1, <1>4, <1>5, OverStep, Zenon DEF A!SetGitHubID
<1>6. CASE ~\E u \in A!ByGitHub(g) : u.id # id
  <2> DEFINE q == [accountReq[r] EXCEPT !.pc = "session", !.uid = id]
             L(u) == IF u.id = id THEN [u EXCEPT !.gh = g] ELSE u
  <2>1. /\ users' = {L(u) : u \in users} /\ accountReq' = A!Goto(r, "session", id)
        /\ sess' = sess /\ home' = home /\ displaced' = displaced \cup A!Displaced(id, g)
    BY <1>1, <1>4, <1>6, Zenon DEF A!SetGitHubID
  <2>2. accountReq' = [accountReq EXCEPT ![r] = q] /\ q \in LoginType /\ q.pc = "session" /\ q.uid = id /\ q.gh = g
    BY <1>1, <2>1, GotoIs, Zenon
  <2>3. ASSUME NEW u \in users
        PROVE  /\ L(u) \in RowType /\ L(u).id = u.id /\ L(u).email = u.email
               /\ L(u).gh = IF u.id = id THEN g ELSE u.gh
    <3>1. u \in RowType
      BY Zenon DEF AccountInv, UserTable
    <3> QED  BY <3>1, Zenon DEF RowType
  <2> HIDE DEF q, L
  <2>4. users' \subseteq RowType
    BY <2>1, <2>3, Zenon
  <2>5. ASSUME NEW u \in users, NEW v \in users, L(u).gh = L(v).gh, L(u).gh # 0 PROVE u = v
    <3>1. u.id # id => u.gh # g
      BY <1>6, Zenon DEF A!ByGitHub
    <3>2. v.id # id => v.gh # g
      BY <1>6, Zenon DEF A!ByGitHub
    <3> QED  BY <2>3, <2>5, <3>1, <3>2 DEF AccountInv, UserTable
  <2>6. ASSUME NEW u \in users, NEW v \in users, L(u).id = L(v).id \/ L(u).email = L(v).email PROVE u = v
    BY <2>3, <2>6 DEF AccountInv, UserTable
  <2>7. \A x, y \in users' : x.id = y.id \/ x.email = y.email \/ (x.gh = y.gh /\ x.gh # 0) => x = y
    BY <2>1, <2>5, <2>6
  <2>8. /\ displaced' \subseteq GitHub
        /\ \A u \in users : u.id = id /\ u.gh \notin {0, g} => u.gh \in displaced'
    BY <2>1, Zenon DEF A!Displaced, AccountInv, UserTable, RowType
  <2>9. UserTable'
    BY <2>4, <2>7, Zenon DEF UserTable
  <2>10. /\ \A u \in users : \E x \in users' : x.id = u.id /\ (u.gh \in {0, x.gh} \/ u.gh \in displaced')
         /\ \A x \in users' : x.id = r \/ \E u \in users : u.id = x.id
    BY <2>1, <2>3, <2>8
  <2>11. HasRow(id, g)'
    <3>1. L(w) \in users' /\ L(w).id = id /\ L(w).gh = g
      BY <1>3, <1>4, <2>1, <2>3, Zenon
    <3> QED  BY <3>1, Zenon DEF HasRow
  <2> QED  BY <2>1, <2>2, <2>8, <2>9, <2>10, <2>11, UsersGrow
<1> QED  BY <1>5, <1>6, Zenon

\* Users.Create: the constraints keep the table a function of addresses and accounts.
LEMMA CreateAccountStep == ASSUME AccountInv, NEW r \in AccountReqs, A!Create(r) PROVE AccountInv'
<1>1. /\ accountReq[r] \in LoginType /\ accountReq[r].pc = "create" /\ accountReq[r].email \in A!Addresses
      /\ accountReq[r].gh \in GitHub \cup {0}
  BY Zenon DEF AccountInv, RequestKnows, A!Create, LoginType
<1>2. PICK e \in A!Addresses, g \in GitHub \cup {0} : e = accountReq[r].email /\ g = accountReq[r].gh
  BY <1>1, Zenon
<1>3. CASE ~A!InsertAllowed(e, g)
  BY <1>2, <1>3, OverStep, Zenon DEF A!Create
<1>4. CASE A!InsertAllowed(e, g)
  <2> DEFINE q == [accountReq[r] EXCEPT !.pc = "session", !.uid = r]
             w == [id |-> r, email |-> e, gh |-> g, pw |-> accountReq[r].kind = "register"]
  <2>1. users' = users \cup {w} /\ accountReq' = A!Goto(r, "session", r) /\ UNCHANGED <<sess, home, displaced>>
    BY <1>2, <1>4, Zenon DEF A!Create
  <2>2. accountReq' = [accountReq EXCEPT ![r] = q] /\ q \in LoginType /\ q.pc = "session" /\ q.uid = r /\ q.gh = g
    BY <1>2, <2>1, GotoIs
  <2>3. w \in RowType /\ w.id = r /\ w.email = e /\ w.gh = g
    BY Zenon DEF RowType
  <2> HIDE DEF q, w
  <2>4. \A u \in users : u.id # r /\ u.email # e /\ (g # 0 => u.gh # g)
    BY <1>1, <1>4, Zenon DEF AccountInv, A!InsertAllowed, A!ByEmail, A!ByGitHub
  <2>5. UserTable'
    <3>1. users' \subseteq RowType
      BY <2>1, <2>3, Zenon DEF AccountInv, UserTable
    <3>2. \A x, y \in users' : x.id = y.id \/ x.email = y.email \/ (x.gh = y.gh /\ x.gh # 0) => x = y
      BY <2>1, <2>3, <2>4 DEF AccountInv, UserTable
    <3> QED  BY <3>1, <3>2, Zenon DEF UserTable
  <2>6. /\ \A u \in users : \E x \in users' : x.id = u.id /\ (u.gh \in {0, x.gh} \/ u.gh \in displaced')
        /\ \A x \in users' : x.id = r \/ \E u \in users : u.id = x.id
    BY <2>1, <2>3, Zenon
  <2>7. HasRow(r, g)'
    BY <2>1, <2>3, Zenon DEF HasRow
  <2>8. sess' = sess /\ home' = home /\ displaced \subseteq displaced' /\ displaced' \subseteq GitHub
    BY <2>1, Zenon DEF AccountInv
  <2> QED  BY <2>2, <2>5, <2>6, <2>7, <2>8, UsersGrow, Zenon
<1> QED  BY <1>3, <1>4, Zenon

\* Sessions change, the accounts do not.
LEMMA SessionsChange ==
    ASSUME AccountInv, UNCHANGED <<users, accountReq, home, displaced>>, sess' \in [AccountReqs -> SessType],
           \A t \in AccountReqs : sess'[t].live =>
             sess[t].live /\ sess'[t].uid = sess[t].uid /\ sess'[t].gh = sess[t].gh
    PROVE  AccountInv'
<1>1. UserTable' /\ \A x, g : HasRow(x, g)' = HasRow(x, g)
  BY Zenon DEF AccountInv, UserTable, HasRow
<1>2. \A t \in AccountReqs : SessionKnows(sess[t])'
  BY <1>1, Zenon DEF AccountInv, SessionKnows
<1>3. \A r \in AccountReqs : RequestKnows(accountReq[r])'
  BY <1>1, Zenon DEF AccountInv, RequestKnows
<1>4. \A g \in GitHub : home'[g] # 0 => HasRow(home[g], g)'
  BY <1>1, Zenon DEF AccountInv
<1> QED  BY <1>1, <1>2, <1>3, <1>4, Zenon DEF AccountInv

\* Logout, expiry and the clean-up of sessions.
LEMMA SessionsEndStep ==
    ASSUME AccountInv,
           \/ \E header, cookie \in AccountReqs \cup {0} : A!Logout(header, cookie)
           \/ \E t \in AccountReqs : A!ExpireSession(t)
           \/ A!DeleteExpired
    PROVE  AccountInv'
<1>1. sess \in [AccountReqs -> SessType] /\ \A t \in AccountReqs : sess[t] \in SessType
  BY Zenon DEF AccountInv
<1>2. ASSUME NEW header \in AccountReqs \cup {0}, NEW cookie \in AccountReqs \cup {0}, A!Logout(header, cookie)
      PROVE  AccountInv'
  <2>1. PICK t \in AccountReqs : sess' = [sess EXCEPT ![t] = A!NoSess]
    BY <1>2, Zenon DEF A!Logout, A!RequireAuth
  <2> QED  BY <1>1, <1>2, <2>1, NoLoginType, SessionsChange, Zenon DEF A!Logout
<1>3. ASSUME NEW t \in AccountReqs, A!ExpireSession(t) PROVE AccountInv'
  <2> DEFINE x == [sess[t] EXCEPT !.expired = TRUE]
  <2>1. x \in SessType /\ x.live = sess[t].live /\ x.uid = sess[t].uid /\ x.gh = sess[t].gh
    BY <1>1, Zenon DEF SessType
  <2>2. sess' = [sess EXCEPT ![t] = x]
    BY <1>3, Zenon DEF A!ExpireSession
  <2> HIDE DEF x
  <2> QED  BY <1>1, <1>3, <2>1, <2>2, SessionsChange, Zenon DEF A!ExpireSession
<1>4. CASE A!DeleteExpired
  BY <1>1, <1>4, NoLoginType, SessionsChange, Zenon DEF A!DeleteExpired
<1> QED  BY <1>2, <1>3, <1>4, Zenon

\* Sessions.Create: the first session of a GitHub account finds it a home.
LEMMA MintStep ==
    ASSUME AccountInv, NEW r \in AccountReqs, NEW ok \in BOOLEAN, A!MintSession(r, ok)
    PROVE  AccountInv'
<1> DEFINE q == [A!NoReq EXCEPT !.pc = "over"]
           s == A!NewSession(r)
<1>1. PICK g \in GitHub \cup {0}, uid \in AccountReqs : g = accountReq[r].gh /\ uid = accountReq[r].uid
  <2>1. accountReq[r] \in LoginType /\ HasRow(accountReq[r].uid, accountReq[r].gh)
    BY Zenon DEF AccountInv, RequestKnows, A!MintSession
  <2> QED  BY <2>1, Zenon DEF LoginType, HasRow, AccountInv, UserTable, RowType
<1>2. HasRow(uid, g)
  BY <1>1, Zenon DEF AccountInv, RequestKnows, A!MintSession
<1>3. q \in LoginType /\ q.pc = "over"
  BY NoLoginType, Zenon DEF LoginType
<1>4. s \in SessType /\ s.live /\ s.uid = uid /\ s.gh = g
  BY <1>1, NoLoginType, Zenon DEF SessType, A!NewSession
<1>5. /\ accountReq' = [accountReq EXCEPT ![r] = q] /\ users' = users /\ displaced' = displaced
      /\ sess' = IF ok THEN [sess EXCEPT ![r] = s] ELSE sess
      /\ home' = IF ok /\ g # 0 /\ home[g] = 0 THEN [home EXCEPT ![g] = uid] ELSE home
  BY <1>1, Zenon DEF A!MintSession, A!Over
<1> HIDE DEF q, s
<1>6. CASE ~ok
  BY <1>5, <1>6, OverStep, Zenon DEF q, A!Over
<1>7. CASE ok
  <2>1. /\ accountReq \in [AccountReqs -> LoginType] /\ sess \in [AccountReqs -> SessType]
        /\ home \in [GitHub -> AccountReqs \cup {0}] /\ displaced' \subseteq GitHub
    BY <1>5, Zenon DEF AccountInv
  <2>2. UserTable' /\ \A x, y : HasRow(x, y)' = HasRow(x, y)
    BY <1>5, Zenon DEF AccountInv, UserTable, HasRow
  <2>3. home' \in [GitHub -> AccountReqs \cup {0}] /\ \A y \in GitHub : home'[y] # 0 => HasRow(home'[y], y)
    BY <1>2, <1>5, <2>1, Zenon DEF AccountInv
  <2>4. g # 0 /\ g \notin displaced => home'[g] = uid
    <3>1. CASE g # 0 /\ g \notin displaced /\ home[g] # 0
      <4>1. HasRow(home[g], g)
        BY <3>1, Zenon DEF AccountInv
      <4> QED  BY <1>2, <1>5, <3>1, <4>1, OneHome, Zenon
    <3>2. CASE g # 0 /\ home[g] = 0
      BY <1>5, <1>7, <2>1, <3>2, Zenon
    <3> QED  BY <3>1, <3>2, Zenon
  <2>5. \A y \in GitHub : home[y] # 0 => home'[y] = home[y]
    BY <1>5, <2>1, Zenon
  <2>6. ASSUME NEW t \in AccountReqs, sess'[t].live
        PROVE  /\ HasRow(sess'[t].uid, sess'[t].gh)
               /\ sess'[t].gh # 0 /\ sess'[t].gh \notin displaced => home'[sess'[t].gh] = sess'[t].uid
    <3>1. CASE t = r
      <4>1. sess'[t] = s
        BY <1>5, <1>7, <2>1, <3>1, Zenon
      <4> QED  BY <1>2, <1>4, <2>4, <4>1, Zenon
    <3>2. CASE t # r
      <4>1. sess'[t] = sess[t] /\ sess[t] \in SessType
        BY <1>5, <1>7, <2>1, <3>2, Zenon
      <4>2. /\ HasRow(sess[t].uid, sess[t].gh)
            /\ sess[t].gh # 0 /\ sess[t].gh \notin displaced => home[sess[t].gh] = sess[t].uid
        BY <2>6, <4>1, Zenon DEF AccountInv, SessionKnows
      <4>3. sess[t].uid # 0
        BY <4>2, AccountsAssumption DEF HasRow, AccountInv, UserTable, RowType
      <4>4. sess[t].gh \in GitHub \cup {0}
        BY <4>1, Zenon DEF SessType
      <4> QED  BY <2>5, <4>1, <4>2, <4>3, <4>4, Zenon
    <3> QED  BY <3>1, <3>2, Zenon
  <2>7. \A t \in AccountReqs : SessionKnows(sess[t])'
    BY <1>5, <2>2, <2>6, Zenon DEF SessionKnows
  <2>8. \A t \in AccountReqs : RequestKnows(accountReq[t])'
    <3> SUFFICES ASSUME NEW t \in AccountReqs PROVE RequestKnows(accountReq[t])'
      BY Zenon
    <3>1. CASE t = r
      <4>1. accountReq'[t] = q
        BY <1>5, <2>1, <3>1, Zenon
      <4> QED  BY <1>3, <4>1, Zenon DEF RequestKnows
    <3>2. CASE t # r
      <4>1. accountReq'[t] = accountReq[t]
        BY <1>5, <2>1, <3>2, Zenon
      <4>2. RequestKnows(accountReq[t])
        BY Zenon DEF AccountInv
      <4> QED  BY <2>2, <4>1, <4>2, Zenon DEF RequestKnows
    <3> QED  BY <3>1, <3>2, Zenon
  <2>9. \A u \in users' : accountReq'[u.id].pc \in {"session", "over"}
    BY <1>3, <1>5, <2>1, Zenon DEF AccountInv, UserTable, RowType
  <2>10. accountReq' \in [AccountReqs -> LoginType] /\ sess' \in [AccountReqs -> SessType]
    BY <1>3, <1>4, <1>5, <1>7, <2>1, Zenon
  <2>11. \A y \in GitHub : home'[y] # 0 => HasRow(home[y], y)'
    BY <2>2, <2>3, Zenon
  <2> QED  BY <2>1, <2>2, <2>3, <2>7, <2>8, <2>9, <2>10, <2>11, Zenon DEF AccountInv
<1> QED  BY <1>6, <1>7, Zenon

\* Every step of Accounts keeps the invariant.
LEMMA AccountStep == AccountInv /\ [A!Next]_accountVars => AccountInv'
<1> SUFFICES ASSUME AccountInv, [A!Next]_accountVars PROVE AccountInv'
  OBVIOUS
<1>1. CASE UNCHANGED accountVars
  <2>1. UNCHANGED <<users, accountReq, home, displaced>> /\ sess' = sess
    BY <1>1, Zenon DEF accountVars
  <2>2. sess' \in [AccountReqs -> SessType]
    BY <2>1, Zenon DEF AccountInv
  <2> QED  BY <2>1, <2>2, SessionsChange, Zenon
<1>2. CASE A!Next
  BY <1>2, RegisterAccountStep, LoginStep, CallbackStep, FindByEmailStep, SetGitHubIDStep,
     CreateAccountStep, MintStep, SessionsEndStep, Zenon DEF A!Next
<1> QED  BY <1>1, <1>2

\* A GitHub account always arrives in the same hopssh account until another one takes
\* the link of that account over, for any number of addresses, GitHub accounts and
\* simultaneous requests, and whatever address and login name GitHub reports at each
\* login; the user table stays unique in all three keys (findOrCreateUser, Register).
THEOREM AccountsSafe == A!Spec => [](A!TypeOK /\ SameAccount)
<1>1. A!Init => AccountInv
  BY AccountInit
<1>2. AccountInv /\ [A!Next]_(A!vars) => AccountInv'
  BY AccountStep, Zenon DEF accountVars, A!vars
<1>3. AccountInv => A!TypeOK /\ SameAccount
  BY AccountTypeOK, AccountSame, Zenon DEF SameAccount
<1> QED  BY <1>1, <1>2, <1>3, PTL DEF A!Spec

-----------------------------------------------------------------------------
(* RateLimiter.                                                            *)

CONSTANTS
  Visitors, Rate, Burst, Interval, RateStale, RateMaxTime

\* A bucket that may be forgotten would be full: what refills it until then is a burst
\* (router.go: 10 or 60 tokens a minute, bursts of 20 and 120, ten minutes).
ASSUME RateAssumption ==
  /\ Rate \in Nat /\ Burst \in Nat \ {0} /\ Interval \in Nat \ {0}
  /\ RateStale \in Nat /\ RateMaxTime \in Nat /\ Burst <= Rate * (RateStale \div Interval)

VARIABLES
  rateNow, bucket, granted, first

R == INSTANCE RateLimiter WITH
       Stale <- RateStale, MaxTime <- RateMaxTime, now <- rateNow

rateVars == <<rateNow, bucket, granted, first>>

\* Nobody gets more than a burst and the rate for each interval since the first
\* request, also across forgotten buckets (allow, cleanup).
RateKept == R!RateKept

\* Whole multiples.
LEMMA DivBounds ==
    ASSUME NEW a \in Nat, NEW k \in Nat \ {0}
    PROVE  a \div k \in Nat /\ k * (a \div k) <= a /\ a < k * (a \div k) + k
  OBVIOUS

\* Division by a positive number is monotone.
LEMMA DivMono ==
    ASSUME NEW a \in Nat, NEW b \in Nat, NEW k \in Nat \ {0}, a <= b
    PROVE  a \div k <= b \div k
<1> DEFINE p == a \div k
           q == b \div k
<1>1. p \in Nat /\ q \in Nat /\ k * p <= a /\ b < k * q + k
  BY DivBounds, Zenon
<1> HIDE DEF p, q
<1>2. k * p < k * (q + 1)
  <2>1. k * (q + 1) = k * q + k
    BY <1>1
  <2>2. k * p \in Nat /\ k * q \in Nat
    BY <1>1
  <2> QED  BY <1>1, <2>1, <2>2
<1>3. p < q + 1
  BY <1>1, <1>2
<1> QED  BY <1>1, <1>3 DEF p, q

\* Two periods contain at least the intervals of each.
LEMMA DivSum ==
    ASSUME NEW a \in Nat, NEW b \in Nat, NEW k \in Nat \ {0}
    PROVE  (a \div k) + (b \div k) <= (a + b) \div k
<1> DEFINE p == a \div k
           q == b \div k
           s == (a + b) \div k
<1>1. p \in Nat /\ q \in Nat /\ s \in Nat /\ k * p <= a /\ k * q <= b /\ a + b < k * s + k
  BY DivBounds
<1> HIDE DEF p, q, s
<1>2. k * (p + q) = k * p + k * q /\ k * (s + 1) = k * s + k
  BY <1>1
<1>3. k * p \in Nat /\ k * q \in Nat /\ k * s \in Nat
  BY <1>1
<1>4. k * (p + q) < k * (s + 1)
  BY <1>1, <1>2, <1>3
<1>5. p + q < s + 1
  BY <1>1, <1>4
<1> QED  BY <1>1, <1>5 DEF p, q, s

\* Multiplication is monotone.
LEMMA MulMono ==
    ASSUME NEW r \in Nat, NEW x \in Nat, NEW y \in Nat, x <= y
    PROVE  r * x \in Nat /\ r * y \in Nat /\ r * x <= r * y
  OBVIOUS

\* The tokens of a duration.
Earned(d) == Rate * (d \div Interval)

\* Earning is monotone, and what two periods earn their sum does.
LEMMA EarnedSum ==
    ASSUME NEW a \in Nat, NEW b \in Nat
    PROVE  Earned(a) \in Nat /\ Earned(b) \in Nat /\ Earned(a) + Earned(b) <= Earned(a + b)
<1> DEFINE p == a \div Interval
           q == b \div Interval
           s == (a + b) \div Interval
<1>1. p \in Nat /\ q \in Nat /\ s \in Nat /\ p + q <= s
  BY DivBounds, DivSum, RateAssumption
<1>2. Earned(a) = Rate * p /\ Earned(b) = Rate * q /\ Earned(a + b) = Rate * s
  BY Zenon DEF Earned
<1> HIDE DEF p, q, s
<1>3. Rate * (p + q) <= Rate * s /\ Rate * p \in Nat /\ Rate * q \in Nat
  BY <1>1, MulMono, RateAssumption
<1>4. Rate * (p + q) = Rate * p + Rate * q
  BY <1>1, RateAssumption
<1> QED  BY <1>2, <1>3, <1>4, Zenon

\* What is earned is a number of tokens.
LEMMA EarnedNat == \A d \in Nat : Earned(d) \in Nat
  BY EarnedSum, Zenon

BucketType == [live : BOOLEAN, tokens : 0..Burst, lastSeen : 0..RateMaxTime]

RateTypes ==
  /\ rateNow \in 0..RateMaxTime /\ bucket \in [Visitors -> BucketType]
  /\ granted \in [Visitors -> Nat] /\ first \in [Visitors -> 0..RateMaxTime + 1]
  /\ \A v \in Visitors : bucket[v].lastSeen <= rateNow

\* What was spent and what is left in a bucket came from the first burst and the intervals
\* since; of a forgotten bucket, at least a burst's worth of intervals was not spent.
Spent(v) ==
  /\ bucket[v].live =>
       /\ granted[v] > 0 /\ first[v] <= bucket[v].lastSeen
       /\ granted[v] + bucket[v].tokens <= Burst + Earned(bucket[v].lastSeen - first[v])
  /\ ~bucket[v].live /\ granted[v] > 0 =>
       first[v] <= rateNow /\ granted[v] <= Earned(rateNow - first[v])

\* The inductive invariant.
RateInv == RateTypes /\ \A v \in Visitors : Spent(v)

\* The invariant contains the type invariant of the module.
LEMMA RateTypeOK == RateInv => R!TypeOK
  BY Zenon DEF RateInv, RateTypes, R!TypeOK, BucketType

\* The types of what belongs to one visitor.
LEMMA RateTyped ==
    ASSUME RateInv, NEW v \in Visitors
    PROVE  /\ bucket[v] \in BucketType /\ bucket[v].live \in BOOLEAN /\ bucket[v].tokens \in 0..Burst
           /\ bucket[v].lastSeen \in Nat /\ bucket[v].lastSeen <= rateNow /\ rateNow \in Nat
           /\ granted[v] \in Nat /\ first[v] \in Nat
  BY RateAssumption DEF RateInv, RateTypes, BucketType

\* It implies the bound on what was granted.
LEMMA RateInvKept == RateInv => R!RateKept
<1> SUFFICES ASSUME RateInv, NEW v \in Visitors, granted[v] > 0
             PROVE  granted[v] <= Burst + Rate * ((rateNow - first[v]) \div Interval)
  BY Zenon DEF R!RateKept
<1>1. Spent(v)
  BY Zenon DEF RateInv
<1>2. CASE bucket[v].live
  <2>1. rateNow - bucket[v].lastSeen \in Nat /\ bucket[v].lastSeen - first[v] \in Nat
    BY <1>1, <1>2, RateTyped DEF Spent
  <2>2. rateNow - first[v] = (bucket[v].lastSeen - first[v]) + (rateNow - bucket[v].lastSeen)
    BY RateTyped
  <2>3. /\ Earned(bucket[v].lastSeen - first[v]) <= Earned(rateNow - first[v])
        /\ Earned(bucket[v].lastSeen - first[v]) \in Nat /\ Earned(rateNow - first[v]) \in Nat
    <3>1. rateNow - first[v] \in Nat
      BY <2>1, <2>2
    <3>2. PICK a \in Nat, b \in Nat : a = bucket[v].lastSeen - first[v] /\ b = rateNow - bucket[v].lastSeen
      BY <2>1, Zenon
    <3>3. Earned(a) \in Nat /\ Earned(b) \in Nat /\ Earned(a) + Earned(b) <= Earned(a + b)
      BY EarnedSum, Zenon
    <3>4. a + b = rateNow - first[v] /\ Earned(rateNow - first[v]) \in Nat
      BY <2>2, <3>1, <3>2, EarnedSum, Zenon
    <3> QED  BY <3>2, <3>3, <3>4
  <2>4. granted[v] <= Burst + Earned(rateNow - first[v])
    BY <1>1, <1>2, <2>3, RateTyped, RateAssumption DEF Spent
  <2> QED  BY <2>4, Zenon DEF Earned
<1>3. CASE ~bucket[v].live
  <2>1. rateNow - first[v] \in Nat
    BY <1>1, <1>3, RateTyped DEF Spent
  <2>2. Earned(rateNow - first[v]) \in Nat
    BY <2>1, EarnedSum, Zenon
  <2>3. granted[v] <= Burst + Earned(rateNow - first[v])
    BY <1>1, <1>3, <2>2, RateTyped, RateAssumption DEF Spent
  <2> QED  BY <2>3 DEF Earned
<1> QED  BY <1>2, <1>3, RateTyped, Zenon

\* Nobody came yet.
LEMMA RateInit == R!Init => RateInv
<1> SUFFICES ASSUME R!Init PROVE RateInv
  OBVIOUS
<1>1. R!NoBucket \in BucketType /\ R!NoBucket.live = FALSE /\ R!NoBucket.lastSeen = 0
  BY RateAssumption DEF R!NoBucket, BucketType
<1>2. RateTypes
  BY <1>1, RateAssumption DEF R!Init, RateTypes
<1>3. \A v \in Visitors : Spent(v)
  BY <1>1 DEF R!Init, Spent
<1> QED  BY <1>2, <1>3, Zenon DEF RateInv

\* The refill, at most what was earned since lastSeen.
LEMMA RefilledSpent ==
    ASSUME RateInv, NEW v \in Visitors, bucket[v].live
    PROVE  LET b == R!Refilled(bucket[v]) IN
           /\ b \in BucketType /\ b.live /\ b.lastSeen <= rateNow /\ first[v] <= b.lastSeen
           /\ granted[v] + b.tokens <= Burst + Earned(b.lastSeen - first[v])
<1> DEFINE b == R!Refilled(bucket[v])
           n == R!Refill(bucket[v])
           c == [bucket[v] EXCEPT !.tokens = R!Capped(@ + n), !.lastSeen = rateNow]
<1>1. /\ first[v] <= bucket[v].lastSeen
      /\ granted[v] + bucket[v].tokens <= Burst + Earned(bucket[v].lastSeen - first[v])
  BY Zenon DEF RateInv, Spent
<1>2. PICK p \in Nat, q \in Nat : p = bucket[v].lastSeen - first[v] /\ q = rateNow - bucket[v].lastSeen
  BY <1>1, RateTyped
<1>3. Earned(p) \in Nat /\ Earned(q) \in Nat /\ Earned(p) + Earned(q) <= Earned(p + q)
  BY EarnedSum, Zenon
<1>4. n = Earned(q) /\ n \in Nat
  <2>1. q \div Interval \in Nat
    BY DivBounds, RateAssumption, Zenon
  <2>2. (q \div Interval) * Rate = Rate * (q \div Interval)
    BY <2>1, RateAssumption
  <2> QED  BY <1>2, <1>3, <2>2, Zenon DEF R!Refill, Earned
<1>5. p + q = rateNow - first[v]
  BY <1>2, RateTyped
<1>6. b = IF n > 0 THEN c ELSE bucket[v]
  BY Zenon DEF R!Refilled
<1> HIDE DEF n
<1>7. R!Capped(bucket[v].tokens + n) \in 0..Burst /\ R!Capped(bucket[v].tokens + n) <= bucket[v].tokens + n
  BY <1>4, RateTyped, RateAssumption DEF R!Capped
<1>8. /\ c \in BucketType /\ c.live = bucket[v].live /\ c.lastSeen = rateNow
      /\ c.tokens = R!Capped(bucket[v].tokens + n)
  <2>1. rateNow \in 0..RateMaxTime
    BY Zenon DEF RateInv, RateTypes
  <2> QED  BY <1>7, <2>1, RateTyped, Zenon DEF BucketType
<1> HIDE DEF b, c
<1>9. CASE n > 0
  <2>1. /\ b \in BucketType /\ b.live = bucket[v].live /\ b.lastSeen = rateNow
        /\ b.tokens = R!Capped(bucket[v].tokens + n)
    BY <1>6, <1>8, <1>9, Zenon
  <2>2. granted[v] + b.tokens <= Burst + Earned(p + q)
    <3>1. granted[v] + bucket[v].tokens <= Burst + Earned(p)
      BY <1>1, <1>2, Zenon
    <3>2. p + q \in Nat /\ b.tokens \in Nat
      BY <1>7, <2>1, RateAssumption
    <3>3. Earned(p + q) \in Nat
      BY <3>2, EarnedNat, Zenon
    <3> QED  BY <1>3, <1>4, <1>7, <2>1, <3>1, <3>2, <3>3, RateTyped, RateAssumption
  <2>3. granted[v] + b.tokens <= Burst + Earned(b.lastSeen - first[v])
    BY <1>5, <2>1, <2>2, Zenon
  <2>4. b.lastSeen <= rateNow /\ first[v] <= b.lastSeen
    BY <1>1, <2>1, RateTyped
  <2> QED  BY <2>1, <2>3, <2>4, Zenon DEF b
<1>10. CASE ~(n > 0)
  <2>1. b = bucket[v]
    BY <1>6, <1>10, Zenon
  <2> QED  BY <1>1, <2>1, RateTyped, Zenon DEF b
<1> QED  BY <1>9, <1>10, Zenon

\* What belongs to one visitor changes.
LEMMA OneVisitor ==
    ASSUME RateInv, NEW v \in Visitors, NEW b \in BucketType, NEW g \in Nat, NEW f \in 0..RateMaxTime + 1,
           rateNow' = rateNow, bucket' = [bucket EXCEPT ![v] = b],
           granted' = [granted EXCEPT ![v] = g], first' = [first EXCEPT ![v] = f],
           b.lastSeen <= rateNow, b.live, g > 0, f <= b.lastSeen,
           g + b.tokens <= Burst + Earned(b.lastSeen - f)
    PROVE  RateInv'
<1>1. RateTypes'
  BY Zenon DEF RateInv, RateTypes
<1>2. ASSUME NEW w \in Visitors PROVE Spent(w)'
  <2>1. /\ bucket'[w] = IF w = v THEN b ELSE bucket[w]
        /\ granted'[w] = IF w = v THEN g ELSE granted[w] 
        /\ first'[w] = IF w = v THEN f ELSE first[w]
    BY Zenon DEF RateInv, RateTypes
  <2>2. CASE w = v
    BY <2>1, <2>2, Zenon DEF Spent, Earned
  <2>3. CASE w # v
    <3>1. Spent(w)
      BY Zenon DEF RateInv
    <3> QED  BY <2>1, <2>3, <3>1, Zenon DEF Spent, Earned
  <2> QED  BY <2>2, <2>3, Zenon
<1> QED  BY <1>1, <1>2, Zenon DEF RateInv

\* allow.
LEMMA AllowStep == ASSUME RateInv, NEW v \in Visitors, R!Allow(v) PROVE RateInv'
<1>1. /\ bucket \in [Visitors -> BucketType] /\ granted \in [Visitors -> Nat]
      /\ first \in [Visitors -> 0..RateMaxTime + 1] /\ rateNow \in 0..RateMaxTime
      /\ rateNow \in 0..RateMaxTime + 1 /\ Spent(v)
  BY RateAssumption DEF RateInv, RateTypes
<1>2. CASE ~bucket[v].live
  <2> DEFINE b == [live |-> TRUE, tokens |-> Burst - 1, lastSeen |-> rateNow]
             f == IF granted[v] = 0 THEN rateNow ELSE first[v]
  <2>1. Burst - 1 \in 0..Burst
    BY RateAssumption
  <2>2. b \in BucketType /\ b.live = TRUE /\ b.tokens = Burst - 1 /\ b.lastSeen = rateNow
    BY <1>1, <2>1, Zenon DEF BucketType
  <2>3. bucket' = [bucket EXCEPT ![v] = b] /\ granted' = [granted EXCEPT ![v] = granted[v] + 1]
    BY <1>2, Zenon DEF R!Allow, R!Allowed
  <2>4. first' = [first EXCEPT ![v] = f]
    <3>1. CASE granted[v] = 0
      BY <3>1, Zenon DEF R!Allow
    <3>2. CASE granted[v] # 0
      BY <1>1, <3>2, Zenon DEF R!Allow
    <3> QED  BY <3>1, <3>2, Zenon
  <2> HIDE DEF b
  <2>5. f \in 0..RateMaxTime + 1 /\ f <= rateNow
    BY <1>1, <1>2, RateTyped DEF Spent
  <2>6. granted[v] + 1 + b.tokens <= Burst + Earned(rateNow - f)
    <3>1. CASE granted[v] = 0
      <4>1. rateNow - f \in Nat
        BY <3>1, RateTyped
      <4>2. Earned(rateNow - f) \in Nat
        BY <4>1, EarnedSum, Zenon
      <4> QED  BY <2>2, <3>1, <4>2, RateAssumption
    <3>2. CASE granted[v] # 0
      <4>1. f = first[v] /\ granted[v] > 0 /\ rateNow - first[v] \in Nat
        BY <1>1, <1>2, <3>2, RateTyped DEF Spent
      <4>2. granted[v] <= Earned(rateNow - first[v])
        BY <1>1, <1>2, <4>1, Zenon DEF Spent
      <4>3. Earned(rateNow - first[v]) \in Nat
        BY <4>1, EarnedSum, Zenon
      <4> HIDE DEF f
      <4> QED  BY <2>2, <4>1, <4>2, <4>3, RateTyped, RateAssumption
    <3> QED  BY <3>1, <3>2, Zenon
  <2> HIDE DEF f
  <2>7. granted[v] + 1 \in Nat /\ granted[v] + 1 > 0 /\ rateNow' = rateNow
    BY RateTyped DEF R!Allow
  <2>8. b.lastSeen <= rateNow /\ f <= b.lastSeen /\ b.live
    BY <2>2, <2>5, RateTyped
  <2>9. granted[v] + 1 + b.tokens <= Burst + Earned(b.lastSeen - f)
    BY <2>2, <2>6, Zenon
  <2> QED  BY <2>2, <2>3, <2>4, <2>5, <2>7, <2>8, <2>9, OneVisitor, Zenon
<1>3. CASE bucket[v].live
  <2> DEFINE b == R!Refilled(bucket[v])
             c == R!Spend(b)
  <2>1. /\ b \in BucketType /\ b.live /\ b.lastSeen <= rateNow /\ first[v] <= b.lastSeen
        /\ granted[v] + b.tokens <= Burst + Earned(b.lastSeen - first[v])
    BY <1>3, RefilledSpent, Zenon
  <2>2. /\ bucket' = [bucket EXCEPT ![v] = IF R!Enough(b) THEN c ELSE b] /\ rateNow' = rateNow
        /\ granted' = IF R!Enough(b) THEN [granted EXCEPT ![v] = granted[v] + 1] ELSE granted
    BY <1>3, Zenon DEF R!Allow, R!Allowed
  <2> HIDE DEF b
  <2>3. granted[v] > 0 /\ granted[v] # 0 /\ first[v] \in 0..RateMaxTime + 1 /\ granted[v] \in Nat
    BY <1>1, <1>3 DEF Spent
  <2>4. first' = [first EXCEPT ![v] = first[v]]
    <3>1. first' = first
      BY <2>3, Zenon DEF R!Allow
    <3> QED  BY <1>1, <3>1, Zenon
  <2>5. b.tokens \in 0..Burst /\ b.lastSeen \in Nat
    BY <2>1, RateAssumption DEF BucketType
  <2>6. CASE R!Enough(b)
    <3>1. b.tokens - 1 \in 0..Burst
      BY <2>5, <2>6, RateAssumption DEF R!Enough
    <3>2. c \in BucketType /\ c.live = b.live /\ c.lastSeen = b.lastSeen /\ c.tokens = b.tokens - 1
      BY <2>1, <3>1, Zenon DEF BucketType, R!Spend
    <3>3. bucket' = [bucket EXCEPT ![v] = c] /\ granted' = [granted EXCEPT ![v] = granted[v] + 1]
      BY <2>2, <2>6, Zenon
    <3> HIDE DEF c
    <3>4. b.lastSeen - first[v] \in Nat
      BY <2>1, <2>3, <2>5
    <3>5. Earned(b.lastSeen - first[v]) \in Nat
      BY <3>4, EarnedSum, Zenon
    <3>6. granted[v] + 1 + c.tokens <= Burst + Earned(b.lastSeen - first[v])
      BY <2>1, <2>3, <2>5, <3>2, <3>5, RateAssumption
    <3>7. granted[v] + 1 + c.tokens <= Burst + Earned(c.lastSeen - first[v])
      BY <3>2, <3>6, Zenon
    <3>8. granted[v] + 1 \in Nat /\ granted[v] + 1 > 0 /\ c.live /\ c.lastSeen <= rateNow /\ first[v] <= c.lastSeen
      BY <2>1, <2>3, <3>2
    <3> QED  BY <2>2, <2>3, <2>4, <3>2, <3>3, <3>7, <3>8, OneVisitor, Zenon
  <2>7. CASE ~R!Enough(b)
    <3>1. bucket' = [bucket EXCEPT ![v] = b] /\ granted' = [granted EXCEPT ![v] = granted[v]]
      BY <1>1, <2>2, <2>7, Zenon
    <3> QED  BY <2>1, <2>2, <2>3, <2>4, <3>1, OneVisitor
  <2> QED  BY <2>6, <2>7, Zenon
<1> QED  BY <1>2, <1>3, Zenon

\* A forgotten bucket has earned a burst since it was last refilled.
LEMMA ForgottenSpent ==
    ASSUME RateInv, NEW v \in Visitors, bucket[v].live, R!Forgettable(bucket[v])
    PROVE  first[v] <= rateNow /\ granted[v] <= Earned(rateNow - first[v])
<1>1. /\ first[v] <= bucket[v].lastSeen
      /\ granted[v] + bucket[v].tokens <= Burst + Earned(bucket[v].lastSeen - first[v])
  BY Zenon DEF RateInv, Spent
<1>2. PICK p \in Nat, q \in Nat : p = bucket[v].lastSeen - first[v] /\ q = rateNow - bucket[v].lastSeen
  BY <1>1, RateTyped
<1>3. q - RateStale \in Nat
  BY <1>2, RateAssumption DEF R!Forgettable
<1>4. Earned(RateStale) \in Nat /\ Earned(q - RateStale) \in Nat /\ Earned(RateStale) + Earned(q - RateStale) <= Earned(RateStale + (q - RateStale))
  BY <1>3, EarnedSum, RateAssumption, Zenon
<1>5. RateStale + (q - RateStale) = q
  BY RateAssumption
<1>6. Earned(q) \in Nat /\ Burst <= Earned(q)
  <2>1. Burst <= Earned(RateStale)
    BY RateAssumption, Zenon DEF Earned
  <2>2. Earned(q) \in Nat
    BY EarnedSum, Zenon
  <2>3. Earned(RateStale) + Earned(q - RateStale) <= Earned(q)
    BY <1>4, <1>5, Zenon
  <2> QED  BY <1>4, <2>1, <2>2, <2>3, RateAssumption
<1>7. Earned(p) \in Nat /\ Earned(p) + Earned(q) <= Earned(p + q) /\ Earned(p + q) \in Nat
  <2>1. p + q \in Nat
    OBVIOUS
  <2>2. Earned(p + q) \in Nat
    BY <2>1, EarnedNat, Zenon
  <2> QED  BY <2>2, EarnedSum, Zenon
<1>8. p + q = rateNow - first[v] /\ first[v] <= rateNow
  BY <1>1, <1>2, RateTyped
<1>9. granted[v] + bucket[v].tokens <= Burst + Earned(p)
  BY <1>1, <1>2, Zenon
<1>10. granted[v] <= Earned(p + q)
  BY <1>6, <1>7, <1>9, RateTyped, RateAssumption
<1> QED  BY <1>8, <1>10, Zenon

\* cleanup.
LEMMA RateCleanupStep == ASSUME RateInv, R!Cleanup PROVE RateInv'
<1>1. /\ bucket' = [v \in Visitors |->
                    IF bucket[v].live /\ R!Forgettable(bucket[v]) THEN R!NoBucket ELSE bucket[v]]
      /\ rateNow' = rateNow /\ granted' = granted /\ first' = first
  BY Zenon DEF R!Cleanup, R!seen
<1>2. R!NoBucket \in BucketType /\ R!NoBucket.live = FALSE /\ R!NoBucket.lastSeen = 0
  BY RateAssumption DEF R!NoBucket, BucketType
<1>3. RateTypes'
  BY <1>1, <1>2 DEF RateInv, RateTypes
<1>4. ASSUME NEW v \in Visitors PROVE Spent(v)'
  <2>1. Spent(v)
    BY Zenon DEF RateInv
  <2>2. CASE bucket[v].live /\ R!Forgettable(bucket[v])
    <3>1. bucket'[v].live = FALSE
      BY <1>1, <1>2, <2>2, Zenon
    <3> QED  BY <1>1, <2>2, <3>1, ForgottenSpent, Zenon DEF Spent, Earned
  <2>3. CASE ~(bucket[v].live /\ R!Forgettable(bucket[v]))
    <3>1. bucket'[v] = bucket[v]
      BY <1>1, <2>3, Zenon
    <3> QED  BY <1>1, <2>1, <3>1, Zenon DEF Spent, Earned
  <2> QED  BY <2>2, <2>3, Zenon
<1> QED  BY <1>3, <1>4, Zenon DEF RateInv

\* Time passes.
LEMMA RateTickStep == ASSUME RateInv, R!Tick PROVE RateInv'
<1>1. /\ rateNow' = rateNow + 1 /\ rateNow' \in 0..RateMaxTime
      /\ bucket' = bucket /\ granted' = granted /\ first' = first
  BY RateAssumption DEF R!Tick, R!seen, RateInv, RateTypes
<1>2. \A v \in Visitors : bucket[v].lastSeen <= rateNow + 1
  BY RateTyped
<1>3. RateTypes'
  BY <1>1, <1>2, Zenon DEF RateInv, RateTypes
<1>4. ASSUME NEW v \in Visitors PROVE Spent(v)'
  <2>1. Spent(v)
    BY DEF RateInv
  <2>2. ASSUME ~bucket[v].live, granted[v] > 0
        PROVE  first'[v] <= rateNow' /\ granted'[v] <= Earned(rateNow' - first'[v])
    <3>1. PICK d \in Nat : d = rateNow - first[v]
      BY <2>1, <2>2, RateTyped DEF Spent
    <3>2. granted[v] <= Earned(d)
      BY <2>1, <2>2, <3>1, Zenon DEF Spent
    <3>3. Earned(d) \in Nat /\ Earned(1) \in Nat /\ Earned(d) + Earned(1) <= Earned(d + 1)
      BY EarnedSum, Zenon
    <3>4. d + 1 = rateNow' - first'[v] /\ first'[v] <= rateNow' /\ granted'[v] = granted[v]
      BY <1>1, <3>1, RateTyped
    <3>5. Earned(d + 1) \in Nat /\ granted[v] <= Earned(d + 1)
      <4>1. Earned(d + 1) \in Nat
        BY EarnedNat
      <4> QED  BY <3>2, <3>3, <4>1, RateTyped
    <3> QED  BY <3>4, <3>5, Zenon
  <2>3. ~bucket'[v].live /\ granted'[v] > 0 =>
          first'[v] <= rateNow' /\ granted'[v] <= Earned(rateNow' - first'[v])
    BY <1>1, <2>2, Zenon
  <2>4. bucket'[v].live =>
          /\ granted'[v] > 0 /\ first'[v] <= bucket'[v].lastSeen
          /\ granted'[v] + bucket'[v].tokens <= Burst + Earned(bucket'[v].lastSeen - first'[v])
    BY <1>1, <2>1, Zenon DEF Spent
  <2> QED  BY <2>3, <2>4, Zenon DEF Spent
<1> QED  BY <1>3, <1>4 DEF RateInv

\* Every step of RateLimiter keeps the invariant.
LEMMA RateStep == RateInv /\ [R!Next]_rateVars => RateInv'
<1> SUFFICES ASSUME RateInv, [R!Next]_rateVars PROVE RateInv'
  OBVIOUS
<1>1. CASE UNCHANGED rateVars
  BY <1>1, Zenon DEF RateInv, RateTypes, Spent, Earned, rateVars
<1>2. CASE R!Next
  BY <1>2, AllowStep, RateCleanupStep, RateTickStep, Zenon DEF R!Next
<1> QED  BY <1>1, <1>2

\* Nobody gets more than the burst and the rate since the first request, for every rate,
\* burst and interval and at all times, provided that the buckets that cleanup forgets
\* would be full (allow, cleanup).
THEOREM RateSafe == R!Spec => [](R!TypeOK /\ RateKept)
<1>1. R!Init => RateInv
  BY RateInit
<1>2. RateInv /\ [R!Next]_(R!vars) => RateInv'
  BY RateStep, Zenon DEF rateVars, R!vars, R!seen
<1>3. RateInv => R!TypeOK /\ RateKept
  BY RateTypeOK, RateInvKept DEF RateKept
<1> QED  BY <1>1, <1>2, <1>3, PTL DEF R!Spec

=============================================================================
