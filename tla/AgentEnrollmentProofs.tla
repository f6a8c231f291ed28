----------------------- MODULE AgentEnrollmentProofs -----------------------
(***************************************************************************)
(* The enrollments of an agent: the renewal of the certificate of one      *)
(* (CertRenewal), for all intervals that satisfy the assumptions, and the  *)
(* store they are kept in (EnrollStore), for any number of requests,       *)
(* networks, names, ports, nodes and faults.  The two share no variable.   *)
(***************************************************************************)
EXTENDS CertRenewal, EnrollStore, TLAPS

-----------------------------------------------------------------------------
\* The renewal loop.

Places == {"poll", "post", "write", "reload", "sleep", "hungUp", "hungDown", "gone"}

Active == {"post", "write", "reload"}

\* How long past its NotAfter the certificate can be when the loop next acts, by where the loop is.
LateBounded ==
    /\ ~missed /\ pc = "poll" => Late <= PollInterval + Attempt - wait
    /\ ~missed /\ pc \in Active => Late <= Due[fails] - wait
    /\ ~missed /\ pc = "sleep" => Late <= Due[fails] - Attempt - wait
    /\ Stuck => missed

\* How long the loop can have been silent when it next acts.
SilenceBounded ==
    /\ pc = "poll" => silent <= Attempt + PollInterval - wait
    /\ pc \in Active => silent <= Attempt - wait
    /\ pc = "sleep" => silent <= Attempt + BackoffCap - wait

Phase ==
    /\ pc = "poll" => fails = 0
    /\ pc = "write" => got # None

RenewalInv == RenewalTypeOK /\ Phase /\ LateBounded /\ SilenceBounded

\* What the constants say of the next deadline.
LEMMA Deadlines ==
    /\ PollInterval \in Nat /\ Attempt \in Nat /\ BackoffCap \in Nat /\ Tolerance \in Nat
    /\ Silence \in Nat /\ Cooldown \in Nat /\ Life \in Nat /\ MaxDisturbances \in Nat /\ MaxRetries \in Nat
    /\ Attempt + PollInterval < Silence /\ Attempt + BackoffCap < Silence
    /\ Due[0] = PollInterval + 2 * Attempt
    /\ \A k \in 0..MaxRetries : Due[k] \in Nat
    /\ \A k \in 0..MaxRetries - 1 :
          /\ Backoff[k + 1] \in 0..BackoffCap
          /\ Due[k + 1] = Due[k] + Backoff[k + 1] + Attempt
  <1>1. ASSUME NEW k \in 0..MaxRetries - 1
        PROVE  k + 1 \in 1..MaxRetries /\ (k + 1) - 1 = k
    BY BackoffAssumption
  <1>2. \A k \in 0..MaxRetries - 1 :
          /\ Backoff[k + 1] \in 0..BackoffCap
          /\ Due[k + 1] = Due[k] + Backoff[k + 1] + Attempt
    BY <1>1, BackoffAssumption, DueAssumption, Zenon
  <1> QED
    BY <1>2, BackoffAssumption, DueAssumption, ToleranceAssumption, SilenceAssumption, BoundAssumption, Zenon

\* Having expired is a Boolean, which Zenon does not know.
LEMMA ExpiredIsBoolean == \A x : (x <= 0) \in BOOLEAN
  OBVIOUS

\* Later is no better, and not beyond what is counted.
LEMMA FloorTimes ==
    ASSUME NEW x \in Times, NEW d \in Nat
    PROVE  Floor(x - d, -LateCap) \in Times /\ Floor(x - d, -LateCap) # None
  BY Deadlines DEF Times, Floor, LateCap, None

LEMMA RenewalInitInv == ASSUME RenewalInit PROVE RenewalInv
  <1>t. RenewalTypeOK
    <2>1. left \in Times /\ got \in Times \cup {None} /\ pc \in Places
      BY Deadlines, Zenon DEF RenewalInit, RenewalTypeOK, Phase, Times, LateCap, None, Places
    <2>2. wait \in Nat /\ fails \in 0..MaxRetries
      BY Deadlines DEF RenewalInit, RenewalTypeOK, Phase, Times, LateCap, None
    <2>3. missed \in BOOLEAN
      BY ExpiredIsBoolean, Zenon DEF RenewalInit
    <2>4. silent \in 0..Silence /\ cool \in 0..Cooldown /\ disturbances \in 0..MaxDisturbances
      BY Deadlines DEF RenewalInit, RenewalTypeOK, Phase, Times, LateCap, None
    <2> QED
      BY <2>1, <2>2, <2>3, <2>4, Zenon DEF RenewalTypeOK, Places
  <1>p. Phase
    BY Deadlines, Zenon DEF RenewalInit, RenewalTypeOK, Phase, None
  <1>l. LateBounded
    <2>1. ~missed => ~(left <= 0)
      BY ExpiredIsBoolean, Zenon DEF RenewalInit
    <2> QED
      BY <1>t, <2>1, Deadlines DEF RenewalInit, RenewalTypeOK, LateBounded, Active, Stuck, Late, Times, LateCap
  <1>s. SilenceBounded
    BY Deadlines DEF RenewalInit, RenewalTypeOK, Phase, SilenceBounded, Active
  <1> QED
    BY <1>t, <1>p, <1>l, <1>s, Zenon DEF RenewalInv

LEMMA RunCertRenewalStep == ASSUME RenewalInv, RunCertRenewal PROVE RenewalInv'
  <1>1. left > 0 \/ (left <= 0 /\ pc' = "post" /\ wait' = Attempt /\ UNCHANGED <<fails, missed>>)
    BY DEF RenewalInv, RenewalTypeOK, RunCertRenewal, timeUntilRenewal, Times, LateCap
  <1>2. \/ pc' = "post" /\ wait' = Attempt /\ UNCHANGED <<fails, missed>>
        \/ pc' = "poll" /\ wait' = PollInterval /\ fails' = 0 /\ missed' = FALSE /\ left > 0
    BY <1>1, Zenon DEF RunCertRenewal
  <1>t. RenewalTypeOK'
    <2>1. left' \in Times /\ got' \in Times \cup {None} /\ pc' \in Places
      BY <1>2, Deadlines, Zenon DEF RunCertRenewal, RenewalInv, RenewalTypeOK, Phase, Times, LateCap, None, Places
    <2>2. wait' \in Nat /\ fails' \in 0..MaxRetries
      BY <1>2, Deadlines, Zenon DEF RunCertRenewal, RenewalInv, RenewalTypeOK, Phase, Times, LateCap, None
    <2>3. missed' \in BOOLEAN
      BY <1>2, Deadlines, Zenon DEF RunCertRenewal, RenewalInv, RenewalTypeOK, Phase, Times, LateCap, None
    <2>4. silent' \in 0..Silence /\ cool' \in 0..Cooldown /\ disturbances' \in 0..MaxDisturbances
      BY <1>2, Deadlines DEF RunCertRenewal, RenewalInv, RenewalTypeOK, Phase, Times, LateCap, None
    <2> QED
      BY <2>1, <2>2, <2>3, <2>4, Zenon DEF RenewalTypeOK, Places
  <1>p. Phase'
    BY <1>2, Deadlines, Zenon DEF RunCertRenewal, RenewalInv, RenewalTypeOK, Phase, None
  <1>l. LateBounded'
    BY <1>2, Deadlines DEF RunCertRenewal, RenewalInv, RenewalTypeOK, Phase, LateBounded, Active, Stuck, Late, Times, LateCap
  <1>s. SilenceBounded'
    BY <1>2, Deadlines DEF RunCertRenewal, RenewalInv, RenewalTypeOK, Phase, SilenceBounded, Active
  <1> QED
    BY <1>t, <1>p, <1>l, <1>s, Zenon DEF RenewalInv

LEMMA UnreadableStep == ASSUME RenewalInv, Unreadable PROVE RenewalInv'
  BY Deadlines DEF Unreadable, RenewalInv, RenewalTypeOK, Phase, LateBounded, SilenceBounded, Active, Stuck, Late, Times, LateCap, None

LEMMA RetryStep == ASSUME RenewalInv, Retry PROVE RenewalInv'
  BY Deadlines DEF Retry, RenewalInv, RenewalTypeOK, Phase, LateBounded, SilenceBounded, Active, Stuck, Late, Times, LateCap, None

LEMMA RenewStep == ASSUME RenewalInv, Renew PROVE RenewalInv'
  BY Deadlines DEF Renew, RenewalInv, RenewalTypeOK, Phase, LateBounded, SilenceBounded, Active, Stuck, Late, Times, LateCap, None

LEMMA WriteCertStep == ASSUME RenewalInv, WriteCert PROVE RenewalInv'
  <1>1. missed' \in BOOLEAN /\ (~missed' => ~missed /\ ~(left' <= 0))
    BY ExpiredIsBoolean, Zenon DEF WriteCert, RenewalInv, RenewalTypeOK
  <1>t. RenewalTypeOK'
    <2>1. got \in Times
      BY Zenon DEF WriteCert, RenewalInv, RenewalTypeOK, Phase
    <2> QED
      BY <1>1, <2>1, Zenon DEF WriteCert, RenewalInv, RenewalTypeOK
  <1>p. Phase'
    BY Zenon DEF WriteCert, Phase
  <1>l. LateBounded'
    BY <1>1, <1>t, Deadlines DEF WriteCert, RenewalInv, RenewalTypeOK, LateBounded, Active, Stuck, Late, Times, LateCap
  <1>s. SilenceBounded'
    BY Deadlines DEF WriteCert, RenewalInv, RenewalTypeOK, SilenceBounded, Active
  <1> QED
    BY <1>t, <1>p, <1>l, <1>s, Zenon DEF RenewalInv

LEMMA RenewFailsStep == ASSUME RenewalInv, RenewFails PROVE RenewalInv'
  <1>1. PICK n \in Nat : /\ wait' = n
                         /\ pc' = "poll" => n <= PollInterval
                         /\ pc' = "sleep" => n = Backoff[fails + 1]
    <2>1. CASE fails < MaxRetries
      <3>1. fails \in 0..MaxRetries - 1
        BY <2>1, Deadlines DEF RenewalInv, RenewalTypeOK
      <3>2. Backoff[fails + 1] \in 0..BackoffCap
        BY <3>1, Deadlines, Zenon
      <3> QED
        BY <2>1, <3>2, Deadlines DEF RenewFails
    <2>2. CASE fails = MaxRetries
      <3>1. wait' \in 0..PollInterval /\ pc' = "poll"
        BY <2>2, Deadlines DEF RenewFails
      <3> QED
        BY <3>1, Deadlines
    <2> QED
      BY <2>1, <2>2, Zenon DEF RenewFails
  <1>2. PICK k \in Nat : silent' = k /\ k <= Attempt
    <2>1. silent \in Nat /\ silent <= Attempt
      BY Deadlines DEF RenewFails, RenewalInv, RenewalTypeOK, SilenceBounded, Active
    <2> QED
      BY <2>1, Deadlines DEF RenewFails
  <1>t. RenewalTypeOK'
    <2>1. left' \in Times /\ got' \in Times \cup {None} /\ pc' \in Places
      BY <1>1, Deadlines, Zenon DEF RenewFails, RenewalInv, RenewalTypeOK, Phase, Times, LateCap, None, Places
    <2>2. wait' \in Nat /\ fails' \in 0..MaxRetries
      BY <1>1, Deadlines DEF RenewFails, RenewalInv, RenewalTypeOK, Phase, Times, LateCap, None
    <2>3. missed' \in BOOLEAN
      BY <1>1, Deadlines, Zenon DEF RenewFails, RenewalInv, RenewalTypeOK, Phase, Times, LateCap, None
    <2>4. silent' \in 0..Silence /\ cool' \in 0..Cooldown /\ disturbances' \in 0..MaxDisturbances
      BY <1>1, Deadlines DEF RenewFails, RenewalInv, RenewalTypeOK, Phase, Times, LateCap, None
    <2> QED
      BY <2>1, <2>2, <2>3, <2>4, Zenon DEF RenewalTypeOK, Places
  <1>p. Phase'
    BY <1>1, Deadlines, Zenon DEF RenewFails, RenewalInv, RenewalTypeOK, Phase, None
  <1>l. LateBounded'
    BY <1>1, Deadlines DEF RenewFails, RenewalInv, RenewalTypeOK, Phase, LateBounded, Active, Stuck, Late, Times, LateCap
  <1>s. SilenceBounded'
    <2>1. CASE fails < MaxRetries
      <3>1. pc' = "sleep" /\ fails \in 0..MaxRetries - 1
        BY <2>1, Deadlines DEF RenewFails, RenewalInv, RenewalTypeOK
      <3>2. n \in 0..BackoffCap
        BY <1>1, <3>1, Deadlines, Zenon
      <3> QED
        BY <1>1, <1>2, <3>1, <3>2, Deadlines DEF SilenceBounded, Active
    <2>2. CASE fails = MaxRetries
      <3>1. pc' = "poll"
        BY <2>2, Deadlines DEF RenewFails
      <3> QED
        BY <1>1, <1>2, <3>1, Deadlines DEF SilenceBounded, Active
    <2> QED
      BY <2>1, <2>2, Zenon DEF RenewFails
  <1> QED
    BY <1>t, <1>p, <1>l, <1>s, Zenon DEF RenewalInv

LEMMA RenewedStep == ASSUME RenewalInv, Renewed PROVE RenewalInv'
  <1>1. PICK n \in 0..PollInterval : wait' = n
    BY Zenon DEF Renewed
  <1>t. RenewalTypeOK'
    <2>1. left' \in Times /\ got' \in Times \cup {None} /\ pc' \in Places
      BY <1>1, Deadlines, Zenon DEF Renewed, RenewalInv, RenewalTypeOK, Phase, Times, LateCap, None, Places
    <2>2. wait' \in Nat /\ fails' \in 0..MaxRetries
      BY <1>1, Deadlines DEF Renewed, RenewalInv, RenewalTypeOK, Phase, Times, LateCap, None
    <2>3. missed' \in BOOLEAN
      BY ExpiredIsBoolean, Zenon DEF Renewed
    <2>4. silent' \in 0..Silence /\ cool' \in 0..Cooldown /\ disturbances' \in 0..MaxDisturbances
      BY <1>1, Deadlines DEF Renewed, RenewalInv, RenewalTypeOK, Phase, Times, LateCap, None
    <2> QED
      BY <2>1, <2>2, <2>3, <2>4, Zenon DEF RenewalTypeOK, Places
  <1>p. Phase'
    BY <1>1, Deadlines, Zenon DEF Renewed, RenewalInv, RenewalTypeOK, Phase, None
  <1>l. LateBounded'
    <2>1. ~missed' => ~(left' <= 0)
      BY ExpiredIsBoolean, Zenon DEF Renewed
    <2> QED
      BY <1>1, <1>t, <2>1, Deadlines DEF Renewed, RenewalTypeOK, LateBounded, Active, Stuck, Late, Times, LateCap
  <1>s. SilenceBounded'
    BY <1>1, Deadlines DEF Renewed, RenewalInv, RenewalTypeOK, Phase, SilenceBounded, Active
  <1> QED
    BY <1>t, <1>p, <1>l, <1>s, Zenon DEF RenewalInv

LEMMA ForceRenewStep == ASSUME RenewalInv, ForceRenew PROVE RenewalInv'
  <1>1. missed' \in BOOLEAN /\ (~missed' => ~missed /\ ~(left' <= 0)) /\ (missed => missed')
    BY ExpiredIsBoolean, Zenon DEF ForceRenew, RenewalInv, RenewalTypeOK
  <1>t. RenewalTypeOK'
    <2>1. Life \in Times
      BY Deadlines DEF Times, LateCap
    <2> QED
      BY <1>1, <2>1, Zenon DEF ForceRenew, RenewalInv, RenewalTypeOK
  <1>p. Phase'
    BY Zenon DEF ForceRenew, RenewalInv, Phase
  <1>l. LateBounded'
    <2>1. UNCHANGED <<pc, wait, fails>>
      BY Zenon DEF ForceRenew
    <2>2. CASE missed'
      BY <2>2, Zenon DEF LateBounded
    <2>3. CASE ~missed'
      <3>0. ~(left' <= 0) /\ left' \in Times /\ left \in Times
        BY <1>1, <1>t, <2>3, Zenon DEF RenewalInv, RenewalTypeOK
      <3>1. ~(left' < 0) /\ 0 <= Late /\ Late \in Int
        BY <3>0, Deadlines DEF Late, Times, LateCap
      <3>2. ~missed /\ ~Stuck /\ ~Stuck'
        BY <1>1, <2>1, <2>3, Zenon DEF RenewalInv, LateBounded, Stuck
      <3>3. Late' = 0
        BY <3>1, Zenon DEF Late
      <3> QED
        BY <2>1, <3>1, <3>2, <3>3, Deadlines DEF RenewalInv, RenewalTypeOK, LateBounded, Active
    <2> QED
      BY <2>2, <2>3, Zenon
  <1>s. SilenceBounded'
    BY Zenon DEF ForceRenew, RenewalInv, SilenceBounded
  <1> QED
    BY <1>t, <1>p, <1>l, <1>s, Zenon DEF RenewalInv

LEMMA TickStep == ASSUME RenewalInv, Tick PROVE RenewalInv'
  BY Deadlines DEF Tick, Age, Floor, RenewalInv, RenewalTypeOK, Phase, LateBounded, SilenceBounded, Active, Stuck, Late, Times, LateCap, None

LEMMA DeepSleepStep == ASSUME RenewalInv, DeepSleep PROVE RenewalInv'
  <1>1. PICK n \in 0..wait : wait' = n
    BY Zenon DEF DeepSleep
  <1>2. PICK d \in 1..(Life + LateCap) : Age(d)
    BY Zenon DEF DeepSleep
  <1>3. d \in Nat
    BY <1>2, Deadlines DEF LateCap
  <1>4. missed' \in BOOLEAN /\ (~missed' => ~missed /\ ~(left' <= 0)) /\ (missed => missed')
    BY ExpiredIsBoolean, Zenon DEF DeepSleep, RenewalInv, RenewalTypeOK
  <1>t. RenewalTypeOK'
    <2>1. left' \in Times /\ got' \in Times \cup {None}
      BY <1>2, <1>3, FloorTimes, Zenon DEF Age, RenewalInv, RenewalTypeOK
    <2>2. wait' \in Nat /\ disturbances' \in 0..MaxDisturbances
      BY <1>1, Deadlines DEF DeepSleep, Disturbance, RenewalInv, RenewalTypeOK
    <2> QED
      BY <1>4, <2>1, <2>2, Zenon DEF DeepSleep, RenewalInv, RenewalTypeOK
  <1>p. Phase'
    BY <1>2, <1>3, FloorTimes, Zenon DEF DeepSleep, Age, RenewalInv, RenewalTypeOK, Phase
  <1>l. LateBounded'
    <2>1. UNCHANGED <<pc, fails>>
      BY Zenon DEF DeepSleep
    <2>2. CASE missed'
      BY <2>2, Zenon DEF LateBounded
    <2>3. CASE ~missed'
      <3>0. ~(left' <= 0) /\ left' \in Times /\ left \in Times
        BY <1>4, <1>t, <2>3, Zenon DEF RenewalInv, RenewalTypeOK
      <3>1. ~(left' < 0) /\ 0 <= Late /\ Late \in Int
        BY <3>0, Deadlines DEF Late, Times, LateCap
      <3>2. ~missed /\ ~Stuck /\ ~Stuck'
        BY <1>4, <2>1, <2>3, Zenon DEF RenewalInv, LateBounded, Stuck
      <3>3. Late' = 0
        BY <3>1, Zenon DEF Late
      <3> QED
        BY <1>1, <2>1, <3>1, <3>2, <3>3, Deadlines DEF RenewalInv, RenewalTypeOK, LateBounded, Active
    <2> QED
      BY <2>2, <2>3, Zenon
  <1>s. SilenceBounded'
    BY <1>1, Deadlines DEF DeepSleep, RenewalInv, RenewalTypeOK, Phase, SilenceBounded, Active
  <1> QED
    BY <1>t, <1>p, <1>l, <1>s, Zenon DEF RenewalInv

LEMMA HangStep == ASSUME RenewalInv, Hang PROVE RenewalInv'
  BY Deadlines DEF Hang, Disturbance, RenewalInv, RenewalTypeOK, Phase, LateBounded, SilenceBounded, Active, Stuck, Late, Times, LateCap, None

LEMMA RunRenewalWatchdogStep == ASSUME RenewalInv, RunRenewalWatchdog PROVE RenewalInv'
  <1>t. RenewalTypeOK'
    <2>1. left' \in Times /\ got' \in Times \cup {None} /\ pc' \in Places
      BY Deadlines, Zenon DEF RunRenewalWatchdog, Silent, Launch, RenewalInv, RenewalTypeOK, Phase, Times, LateCap, None, Places
    <2>2. wait' \in Nat /\ fails' \in 0..MaxRetries
      BY Deadlines DEF RunRenewalWatchdog, Silent, Launch, RenewalInv, RenewalTypeOK, Phase, Times, LateCap, None
    <2>3. missed' \in BOOLEAN
      BY ExpiredIsBoolean, Zenon DEF RunRenewalWatchdog, Silent, Launch, RenewalInv, RenewalTypeOK
    <2>4. silent' \in 0..Silence /\ cool' \in 0..Cooldown /\ disturbances' \in 0..MaxDisturbances
      BY Deadlines DEF RunRenewalWatchdog, Silent, Launch, RenewalInv, RenewalTypeOK, Phase, Times, LateCap, None
    <2> QED
      BY <2>1, <2>2, <2>3, <2>4 DEF RenewalTypeOK, Places
  <1>p. Phase'
    BY Deadlines, Zenon DEF RunRenewalWatchdog, Silent, Launch, RenewalInv, RenewalTypeOK, Phase, None
  <1>l. LateBounded'
    BY Deadlines DEF RunRenewalWatchdog, Silent, Launch, RenewalInv, RenewalTypeOK, Phase, LateBounded, Active, Stuck, Late, Times, LateCap
  <1>s. SilenceBounded'
    BY Deadlines DEF RunRenewalWatchdog, Silent, Launch, RenewalInv, RenewalTypeOK, Phase, SilenceBounded, Active
  <1> QED
    BY <1>t, <1>p, <1>l, <1>s DEF RenewalInv

LEMMA StartStep == ASSUME RenewalInv, Start PROVE RenewalInv'
  <1>t. RenewalTypeOK'
    <2>1. left' \in Times /\ got' \in Times \cup {None} /\ pc' \in Places
      BY Deadlines, Zenon DEF Start, Disturbance, Launch, RenewalInv, RenewalTypeOK, Phase, Times, LateCap, None, Places
    <2>2. wait' \in Nat /\ fails' \in 0..MaxRetries
      BY Deadlines DEF Start, Disturbance, Launch, RenewalInv, RenewalTypeOK, Phase, Times, LateCap, None
    <2>3. missed' \in BOOLEAN
      BY ExpiredIsBoolean, Zenon DEF Start, Disturbance, Launch, RenewalInv, RenewalTypeOK
    <2>4. silent' \in 0..Silence /\ cool' \in 0..Cooldown /\ disturbances' \in 0..MaxDisturbances
      BY Deadlines DEF Start, Disturbance, Launch, RenewalInv, RenewalTypeOK, Phase, Times, LateCap, None
    <2> QED
      BY <2>1, <2>2, <2>3, <2>4 DEF RenewalTypeOK, Places
  <1>p. Phase'
    BY Deadlines, Zenon DEF Start, Disturbance, Launch, RenewalInv, RenewalTypeOK, Phase, None
  <1>l. LateBounded'
    <2>1. ~missed' => ~(left' <= 0)
      BY ExpiredIsBoolean, Zenon DEF Start, Launch
    <2> QED
      BY <1>t, <2>1, Deadlines DEF Start, Launch, RenewalTypeOK, LateBounded, Active, Stuck, Late, Times, LateCap
  <1>s. SilenceBounded'
    BY Deadlines DEF Start, Disturbance, Launch, RenewalInv, RenewalTypeOK, Phase, SilenceBounded, Active
  <1> QED
    BY <1>t, <1>p, <1>l, <1>s DEF RenewalInv

-----------------------------------------------------------------------------
LEMMA NextStep == ASSUME RenewalInv, [RenewalNext]_renewalVars PROVE RenewalInv'
  <1>1. CASE UNCHANGED renewalVars
    BY <1>1 DEF renewalVars, RenewalInv, RenewalTypeOK, Phase, LateBounded, SilenceBounded, Active, Stuck, Late
  <1> QED
    BY <1>1, RunCertRenewalStep, UnreadableStep, RetryStep, RenewStep, WriteCertStep, RenewFailsStep,
       RenewedStep, ForceRenewStep, TickStep, DeepSleepStep, HangStep, RunRenewalWatchdogStep, StartStep, Zenon
       DEF RenewalNext

LEMMA RenewalInvariance == RenewalSpec => []RenewalInv
  BY RenewalInitInv, NextStep, PTL DEF RenewalSpec

\* The state of the renewal loop (runCertRenewal, renewNow) keeps its type.
THEOREM RenewalTypeCorrect == RenewalSpec => []RenewalTypeOK
  BY RenewalInvariance, PTL DEF RenewalInv

\* While no more than MaxFails attempts of renewNow in a row have failed, peers still
\* accept a certificate that expires while the loop runs, although timeUntilRenewal
\* lets it expire: by the wall clock the poll, the attempts and the backoffs together
\* stay within the tolerance.
THEOREM PeersAcceptAlways == RenewalSpec => []PeersAccept
  <1>1. ASSUME RenewalInv PROVE PeersAccept
    <2> SUFFICES ASSUME ~missed, fails <= MaxFails PROVE Late <= Tolerance
      BY Zenon DEF PeersAccept
    <2>1. fails \in 0..MaxRetries /\ Late \in Nat /\ wait \in Nat
      BY <1>1, Deadlines DEF RenewalInv, RenewalTypeOK, Times, LateCap, Late
    <2>2. Due[fails] <= Tolerance /\ Due[0] <= Tolerance
      BY <2>1, ToleranceAssumption
    <2>3. pc \in {"poll", "sleep"} \cup Active
      BY <1>1, Zenon DEF RenewalInv, RenewalTypeOK, LateBounded, Stuck, Active
    <2>4. CASE pc = "poll"
      BY <1>1, <2>1, <2>2, <2>4, Deadlines DEF RenewalInv, LateBounded
    <2>5. CASE pc = "sleep"
      BY <1>1, <2>1, <2>2, <2>5, Deadlines DEF RenewalInv, LateBounded
    <2>6. CASE pc \in Active
      BY <1>1, <2>1, <2>2, <2>6, Deadlines DEF RenewalInv, LateBounded
    <2> QED
      BY <2>3, <2>4, <2>5, <2>6, Zenon
  <1> QED
    BY <1>1, RenewalInvariance, PTL

\* runRenewalWatchdog finds a loop silent only when it hangs: between two calls of
\* markRenewalActivity lie at most an attempt and a backoff or a poll.
THEOREM WatchdogIsQuiet == RenewalSpec => []WatchdogQuiet
  <1>1. ASSUME RenewalInv PROVE WatchdogQuiet
    BY <1>1, Deadlines DEF RenewalInv, RenewalTypeOK, SilenceBounded, WatchdogQuiet, Stuck, Active
  <1> QED
    BY <1>1, RenewalInvariance, PTL

-----------------------------------------------------------------------------
\* The types.

Entry == [name : Names, node : Nat, net : Nets, port : Nat]
File == [st : {"missing", "ok", "corrupt"}, reg : SUBSET Entry]
Subdir == [crt : Nat, key : Nat, port : Nat]
Steps == {"idle", "install", "crt", "key", "add", "unwind", "leave", "rmdir",
          "force", "forced", "grant", "service", "stop", "beat"}
Request == [pc : Steps, name : 0..MaxName, net : Nets, node : Nat, port : Nat,
            code : Codes \cup {NoCode}, want : 0..MaxName, reg : SUBSET Entry]

\* The requests that have no name yet, or need none.
Unnamed == {"idle", "grant", "install", "beat"}

StoreTypes ==
  /\ main \in File /\ bak \in File
  /\ dir \in [Names -> Subdir]
  /\ phase \in {"down", "loaded", "ported", "up"}
  /\ mem \in SUBSET Entry
  /\ flows \in SUBSET Codes
  /\ node \in Nat /\ faults \in Nat
  /\ acked \in SUBSET Nat /\ torn \in SUBSET Names

RequestTypes ==
  /\ req \in [Procs -> Request]
  /\ \A r \in Procs : req[r].pc \notin Unnamed => req[r].name \in Names

Types == StoreTypes /\ RequestTypes

\* The registries read from the files.
LEMMA LoadedTypes == ASSUME StoreTypes PROVE Loaded \in SUBSET Entry
  BY Zenon DEF StoreTypes, Loaded, File

LEMMA DoingTypes ==
    ASSUME NEW p \in Steps, NEW n \in 0..MaxName, NEW reg \in SUBSET Entry
    PROVE  /\ Doing(p, n, reg) \in Request
           /\ Doing(p, n, reg).pc = p /\ Doing(p, n, reg).name = n /\ Doing(p, n, reg).reg = reg
  BY EnrollStoreAssumption DEF Doing, Request

LEMMA IdleTypes == Idle \in Request /\ Idle.pc = "idle" /\ Idle.reg = {}
<1>1. 0 \in 0..MaxName
  BY EnrollStoreAssumption
<1> QED  BY <1>1, DoingTypes DEF Idle, Steps

\* installEnrollment ends, or goes on with a free name.
LEMMA InstallSays ==
    ASSUME NEW r, Install(r), NEW reg, reg = IF r = Cli THEN Loaded ELSE mem
    PROVE  \/ Done(r) /\ UNCHANGED torn
           \/ \E n \in FreeNames(reg) :
                /\ req' = [req EXCEPT ![r].pc = "crt", ![r].name = n, ![r].reg = IF r = Cli THEN reg ELSE {}]
                /\ torn' = IF Others(r, n) \/ (r # Cli /\ "agent" \in stale) THEN torn \cup {n} ELSE torn
<1>1. \A x : ChooseEnrollmentName(reg, x) \subseteq FreeNames(reg)
  BY Zenon DEF ChooseEnrollmentName
<1> QED  BY <1>1, Zenon DEF Install

\* Ports are numbers, and the port found is free.
LEMMA FreePortFacts ==
    ASSUME NEW reg \in SUBSET Entry, NEW k
    PROVE  /\ FreePort(reg, k) \in Nat
           /\ FreePort(reg, k) # 0 =>
                /\ FreePort(reg, k) \in FreePorts(reg)
                /\ Cardinality({q \in FreePorts(reg) : q < FreePort(reg, k)}) = k
<1> DEFINE nth == {p \in FreePorts(reg) : Cardinality({q \in FreePorts(reg) : q < p}) = k}
<1>1. nth \in SUBSET Nat
  BY EnrollStoreAssumption DEF FreePorts, Ports
<1>2. FreePort(reg, k) = IF nth = {} THEN 0 ELSE CHOOSE p \in nth : TRUE
  BY Zenon DEF FreePort
<1>3. CASE nth = {}
  <2> HIDE DEF nth
  <2> QED  BY <1>2, <1>3
<1>4. CASE nth # {}
  <2>1. FreePort(reg, k) \in nth
    <3> HIDE DEF nth
    <3> QED  BY <1>2, <1>4, Zenon
  <2> QED  BY <1>1, <2>1, Zenon
<1> QED  BY <1>3, <1>4, Zenon

\* One request changes, or the agent ends and its requests with it.
LEMMA OneRequest ==
    ASSUME RequestTypes, NEW r \in Procs, NEW q \in Request,
           q.pc \notin Unnamed => q.name \in Names,
           req' = [req EXCEPT ![r] = q]
    PROVE  RequestTypes'
  BY Zenon DEF RequestTypes

LEMMA RequestsEnd ==
    ASSUME NEW q \in Request, q.pc \notin Unnamed => q.name \in Names,
           req' = [s \in Procs |-> IF s = Cli THEN q ELSE Idle]
    PROVE  RequestTypes'
  BY IdleTypes, Zenon DEF RequestTypes, Unnamed

LEMMA DoneTypes == ASSUME RequestTypes, NEW r \in Procs, Done(r) PROVE RequestTypes'
  BY IdleTypes, OneRequest, Zenon DEF Done, Unnamed

LEMMA GotoTypes ==
    ASSUME RequestTypes, NEW r \in Procs, NEW p \in Steps, req[r].name \in Names, Goto(r, p)
    PROVE  RequestTypes'
<1>1. req[r] \in Request
  BY Zenon DEF RequestTypes
<1>2. [req[r] EXCEPT !.pc = p] \in Request /\ [req[r] EXCEPT !.pc = p].name \in Names
  BY <1>1, Zenon DEF Request
<1>3. req' = [req EXCEPT ![r] = [req[r] EXCEPT !.pc = p]]
  BY Zenon DEF Goto
<1> QED  BY <1>2, <1>3, OneRequest, Zenon

LEMMA GrantTypes ==
    ASSUME RequestTypes, node \in Nat, NEW r \in Procs, NEW x \in 0..MaxName, NEW net \in Nets,
           NEW c \in Codes \cup {NoCode}, Grant(r, x, net, c)
    PROVE  RequestTypes' /\ node' \in Nat
<1>1. 0 \in 0..MaxName /\ node + 1 \in Nat
  BY EnrollStoreAssumption
<1>2. PICK q : q = [pc |-> "install", name |-> x, net |-> net, node |-> node + 1,
                    port |-> 0, code |-> c, want |-> 0, reg |-> {}]
  BY Zenon
<1>3. q \in Request /\ q.pc = "install"
  BY <1>1, <1>2, Zenon DEF Request, Steps
<1>4. req' = [req EXCEPT ![r] = q] /\ node' = node + 1
  BY <1>2, Zenon DEF Grant
<1> QED  BY <1>1, <1>3, <1>4, OneRequest, Zenon DEF Unnamed

LEMMA WriteTypes ==
    ASSUME StoreTypes, NEW reg \in SUBSET Entry, Write(reg)
    PROVE  main' \in File /\ bak' \in File /\ faults' \in Nat
  BY DEF Write, Saved, StoreTypes, File, Fault

LEMMA SaveTypes ==
    ASSUME StoreTypes, NEW proc, NEW reg \in SUBSET Entry, SaveOk(proc, reg)
    PROVE  main' \in File /\ bak' \in File /\ faults' \in Nat
  BY WriteTypes, Zenon DEF SaveOk

LEMMA ReassignTypes ==
    ASSUME NEW reg \in SUBSET Entry, NEW S \in SUBSET reg
    PROVE  Reassign(reg, S) \in SUBSET Entry
<1>1. ASSUME NEW e \in S, NEW p \in Nat PROVE [e EXCEPT !.port = p] \in Entry
  BY Zenon DEF Entry
<1>2. ASSUME NEW e \in S
      PROVE  [e EXCEPT !.port = FreePort(reg, Cardinality({f \in S : f.node < e.node}))] \in Entry
  BY <1>1, FreePortFacts, Zenon
<1> QED  BY <1>2, Zenon DEF Reassign

LEMMA MigrationTypes ==
    ASSUME StoreTypes
    PROVE  /\ AssignMissingListenPorts(mem) \in SUBSET Entry
           /\ HealDuplicateListenPorts(AssignMissingListenPorts(mem)) \in SUBSET Entry
<1>1. ASSUME NEW reg \in SUBSET Entry
      PROVE  AssignMissingListenPorts(reg) \in SUBSET Entry /\ HealDuplicateListenPorts(reg) \in SUBSET Entry
  BY ReassignTypes, Zenon DEF AssignMissingListenPorts, HealDuplicateListenPorts
<1>2. mem \in SUBSET Entry
  BY Zenon DEF StoreTypes
<1> QED  BY <1>1, <1>2, Zenon

LEMMA HealYAMLTypes ==
    ASSUME dir \in [Names -> Subdir], mem \in SUBSET Entry, NEW failed
    PROVE  HealListenPortYAML(failed) \in [Names -> Subdir]
<1>1. ASSUME NEW n \in Names, Get(mem, n) # {}
      PROVE  (CHOOSE e \in mem : e.name = n).port \in Nat
  BY <1>1, Zenon DEF Get, Entry
<1>2. ASSUME NEW n \in Names, NEW p \in Nat
      PROVE  [dir[n] EXCEPT !.port = p] \in Subdir
  BY Zenon DEF Subdir
<1> QED  BY <1>1, <1>2, Zenon DEF HealListenPortYAML

LEMMA StopTypes ==
    ASSUME Types, NEW q \in Request, q.pc \notin Unnamed => q.name \in Names, StopAgentService(q)
    PROVE  /\ phase' \in {"down", "loaded", "ported", "up"} /\ mem' \in SUBSET Entry
           /\ flows' \in SUBSET Codes /\ faults' \in Nat
           /\ RequestTypes'
<1>1. CASE UNCHANGED faults /\ phase' = "down" /\ mem' = {} /\ flows' = {}
           /\ req' = [r \in Procs |-> IF r = Cli THEN q ELSE Idle]
  BY <1>1, RequestsEnd, Zenon DEF Types, StoreTypes
<1>2. CASE Fault /\ req' = [req EXCEPT ![Cli] = q] /\ UNCHANGED <<phase, mem, flows, service>>
  <2>1. Cli \in Procs
    BY Zenon DEF Procs
  <2>2. RequestTypes'
    BY <1>2, <2>1, OneRequest, Zenon DEF Types
  <2> QED  BY <1>2, <2>2 DEF Types, StoreTypes, Fault
<1> QED  BY <1>1, <1>2, Zenon DEF StopAgentService

\* Every action keeps the types.
LEMMA AgentTypes ==
    ASSUME Types, Boot \/ MigrateListenPorts \/ MigrateYAML \/ Crash \/ Corrupt \/ EnrollDeviceFlowStart \/ SaveSettings
    PROVE  Types'
<1> USE DEF Types
<1>1. CASE Boot
  BY <1>1, LoadedTypes, Zenon DEF Boot, StoreTypes, RequestTypes, files
<1>2. CASE MigrateListenPorts
  <2> DEFINE a == AssignMissingListenPorts(mem)
             h == HealDuplicateListenPorts(a)
  <2>1. a \in SUBSET Entry /\ h \in SUBSET Entry /\ mem \in SUBSET Entry /\ dir \in [Names -> Subdir]
    BY MigrationTypes, Zenon DEF StoreTypes
  <2>3. phase' \in {"ported", "up"} /\ UNCHANGED <<dir, service, req, flows, granted, node, acked, torn>>
    BY <1>2, Zenon DEF MigrateListenPorts
  <2>4. mem' \in SUBSET Entry
    <3> HIDE DEF a, h
    <3>1. mem' \in {mem, a, h}
      BY <1>2, Zenon DEF MigrateListenPorts, a, h
    <3> QED  BY <2>1, <3>1, Zenon
  <2>5. main' \in File /\ bak' \in File /\ faults' \in Nat
    <3> HIDE DEF a, h
    <3>1. \/ UNCHANGED <<main, bak, faults>>
          \/ SaveOk("agent", h)
          \/ SaveFails
          \/ Fault /\ main' = Saved(a) /\ bak' = Saved(a)
      BY <1>2, Zenon DEF MigrateListenPorts, a, h, files
    <3>2. SaveOk("agent", h) => main' \in File /\ bak' \in File /\ faults' \in Nat
      BY <2>1, SaveTypes, Zenon
    <3> QED  BY <2>1, <3>1, <3>2 DEF StoreTypes, SaveFails, Fault, Saved, File
  <2> QED  BY <2>3, <2>4, <2>5, Zenon DEF StoreTypes, RequestTypes
<1>y. CASE MigrateYAML
  <2>1. dir' \in [Names -> Subdir]
    BY <1>y, HealYAMLTypes, Zenon DEF MigrateYAML, StoreTypes
  <2>2. faults' \in Nat
    BY <1>y DEF MigrateYAML, Fault, StoreTypes
  <2> QED  BY <1>y, <2>1, <2>2, Zenon DEF MigrateYAML, StoreTypes, RequestTypes, files, ghosts
<1>3. CASE Crash
  <2>1. RequestTypes'
    BY <1>3, IdleTypes, Zenon DEF Crash, Down, RequestTypes, Unnamed
  <2> QED  BY <1>3, <2>1 DEF Crash, Down, Fault, StoreTypes, files
<1>4. CASE Corrupt
  <2>1. main' \in File
    BY <1>4, Zenon DEF Corrupt, StoreTypes, File
  <2> QED  BY <1>4, <2>1 DEF Corrupt, Fault, StoreTypes, RequestTypes
<1>5. CASE EnrollDeviceFlowStart
  BY <1>5, Zenon DEF EnrollDeviceFlowStart, StoreTypes, RequestTypes, files, ghosts
<1>6. CASE SaveSettings
  <2>1. main' \in File /\ bak' \in File /\ faults' \in Nat
    <3>1. mem \in SUBSET Entry
      BY Zenon DEF StoreTypes
    <3>2. SaveOk("agent", mem) => main' \in File /\ bak' \in File /\ faults' \in Nat
      BY <3>1, SaveTypes, Zenon
    <3> QED  BY <1>6, <3>2 DEF SaveSettings, SaveFails, Fault, StoreTypes
  <2> QED  BY <1>6, <2>1, Zenon DEF SaveSettings, StoreTypes, RequestTypes
<1> QED  BY <1>1, <1>2, <1>y, <1>3, <1>4, <1>5, <1>6, Zenon

LEMMA RequestFacts ==
    ASSUME RequestTypes, NEW r \in Procs
    PROVE  /\ req[r] \in Request
           /\ req[r].pc \notin Unnamed => req[r].name \in Names
  BY Zenon DEF RequestTypes

LEMMA ApiTypes ==
    ASSUME Types, NEW r \in Requests,
           \/ EnrollDeviceFlowPoll(r) \/ EnrollToken(r) \/ Leave(r) \/ Unwind(r)
           \/ HeartbeatLoads(r) \/ SetNetworkID(r)
    PROVE  Types'
<1> USE DEF Types
<1>1. r \in Procs
  BY Zenon DEF Procs
<1>2. CASE EnrollDeviceFlowPoll(r)
  <2>1. RequestTypes' /\ node' \in Nat /\ flows' \in SUBSET Codes
    <3>1. PICK c \in flows, net \in Nets :
            \/ (\E x \in 0..MaxName : Grant(r, x, net, c)) /\ UNCHANGED flows
            \/ flows' = flows \ {c} /\ UNCHANGED <<node, req>>
      BY <1>2, Zenon DEF EnrollDeviceFlowPoll
    <3>2. c \in Codes \cup {NoCode} /\ node \in Nat /\ flows \in SUBSET Codes
      BY Zenon DEF StoreTypes
    <3>3. CASE (\E x \in 0..MaxName : Grant(r, x, net, c)) /\ UNCHANGED flows
      BY <1>1, <3>2, <3>3, GrantTypes, Zenon
    <3>4. CASE flows' = flows \ {c} /\ UNCHANGED <<node, req>>
      BY <3>2, <3>4, Zenon DEF RequestTypes
    <3> QED  BY <3>1, <3>3, <3>4, Zenon
  <2> QED  BY <1>2, <2>1, Zenon DEF EnrollDeviceFlowPoll, StoreTypes, files, ghosts
<1>3. CASE EnrollToken(r)
  <2>1. RequestTypes' /\ node' \in Nat
    <3>1. PICK net \in Nets, x \in 0..MaxName : Grant(r, x, net, NoCode)
      BY <1>3, Zenon DEF EnrollToken
    <3>2. node \in Nat /\ NoCode \in Codes \cup {NoCode}
      BY Zenon DEF StoreTypes
    <3> QED  BY <1>1, <3>1, <3>2, GrantTypes, Zenon
  <2> QED  BY <1>3, <2>1, Zenon DEF EnrollToken, StoreTypes, files, ghosts
<1>4. CASE Leave(r)
  <2>1. PICK e \in mem : req' = [req EXCEPT ![r] = Doing("leave", e.name, {})] /\ Touch(r, e.name)
    BY <1>4, Zenon DEF Leave
  <2>2. e.name \in Names /\ e.name \in 0..MaxName
    BY EnrollStoreAssumption DEF StoreTypes, Entry, Names
  <2>3. Doing("leave", e.name, {}) \in Request /\ Doing("leave", e.name, {}).name \in Names
    BY <2>2, DoingTypes DEF Steps
  <2>4. RequestTypes'
    BY <1>1, <2>1, <2>3, OneRequest, Zenon
  <2>5. torn' \in SUBSET Names
    BY <2>1, <2>2, Zenon DEF Touch, StoreTypes
  <2> QED  BY <1>4, <2>4, <2>5, Zenon DEF Leave, StoreTypes, files
<1>5. CASE Unwind(r)
  <2>1. RequestTypes'
    BY <1>1, <1>5, DoneTypes, Zenon DEF Unwind
  <2>2. dir' \in [Names -> Subdir]
    BY <1>5, Zenon DEF Unwind, StoreTypes, NoDir, Subdir
  <2> QED  BY <1>5, <2>1, <2>2, Zenon DEF Unwind, StoreTypes, files, ghosts
<1>6. CASE HeartbeatLoads(r)
  <2>1. Loaded \in SUBSET Entry /\ 0 \in 0..MaxName
    BY LoadedTypes, EnrollStoreAssumption
  <2>2. Doing("beat", 0, Loaded) \in Request /\ Doing("beat", 0, Loaded).pc = "beat"
    BY <2>1, DoingTypes DEF Steps
  <2>3. RequestTypes'
    BY <1>1, <1>6, <2>2, OneRequest, Zenon DEF HeartbeatLoads, Unnamed
  <2> QED  BY <1>6, <2>3, Zenon DEF HeartbeatLoads, StoreTypes, files, ghosts
<1>7. CASE SetNetworkID(r)
  <2>1. RequestTypes'
    BY <1>1, <1>7, DoneTypes, Zenon DEF SetNetworkID
  <2>2. req[r].reg \in SUBSET Entry
    BY <1>1, RequestFacts, Zenon DEF Request
  <2>3. main' \in File /\ bak' \in File /\ faults' \in Nat
    <3>1. CASE Write(req[r].reg)
      BY <2>2, <3>1, WriteTypes, Zenon
    <3>2. CASE Fault /\ UNCHANGED <<main, bak>>
      BY <3>2 DEF Fault, StoreTypes
    <3> QED  BY <1>7, <3>1, <3>2, Zenon DEF SetNetworkID, files
  <2> QED  BY <1>7, <2>1, <2>3, Zenon DEF SetNetworkID, StoreTypes
<1> QED  BY <1>2, <1>3, <1>4, <1>5, <1>6, <1>7, Zenon

LEMMA ProcTypes ==
    ASSUME Types, NEW r \in Procs,
           Install(r) \/ WriteCrt(r) \/ WriteKeyAndConfig(r) \/ Add(r) \/ Remove(r) \/ RemoveDir(r)
    PROVE  Types'
<1> USE DEF Types
<1>0. /\ req[r] \in Request
      /\ req[r].pc \notin Unnamed => req[r].name \in Names
      /\ Reg(r) \in SUBSET Entry
  <2>1. Cli \in Procs
    BY Zenon DEF Procs
  <2> QED  BY <2>1, RequestFacts, Zenon DEF Reg, Request, StoreTypes
<1>1. CASE Install(r)
  <2>1. PICK reg : reg = IF r = Cli THEN Loaded ELSE mem
    BY ZenonT(40)
  <2>2. \/ Done(r) /\ UNCHANGED torn
        \/ \E n \in FreeNames(reg) :
             /\ req' = [req EXCEPT ![r].pc = "crt", ![r].name = n, ![r].reg = IF r = Cli THEN reg ELSE {}]
             /\ torn' \in {torn, torn \cup {n}}
    BY <1>1, <2>1, InstallSays, Zenon
  <2>3. UNCHANGED <<files, dir, phase, service, mem, flows, granted, node, faults, acked, clobbered>>
    BY <1>1, Zenon DEF Install
  <2>4. reg \in SUBSET Entry /\ req[r].name \in 0..MaxName
    BY <1>0, <2>1, LoadedTypes, Zenon DEF StoreTypes, Request
  <2>5. CASE Done(r) /\ UNCHANGED torn
    <3>1. RequestTypes'
      BY <2>5, DoneTypes, Zenon
    <3> QED  BY <2>3, <2>5, <3>1, Zenon DEF StoreTypes, files
  <2>6. ASSUME NEW n \in FreeNames(reg),
               req' = [req EXCEPT ![r].pc = "crt", ![r].name = n, ![r].reg = IF r = Cli THEN reg ELSE {}],
               torn' \in {torn, torn \cup {n}}
        PROVE  Types'
    <3>1. n \in Names /\ n \in 0..MaxName
      BY EnrollStoreAssumption DEF FreeNames, Names
    <3>2. PICK g \in SUBSET Entry : g = IF r = Cli THEN reg ELSE {}
      BY <2>4, Zenon
    <3>3. PICK q : q = [req[r] EXCEPT !.pc = "crt", !.name = n, !.reg = g]
      BY Zenon
    <3>4. q \in Request /\ q.name \in Names
      BY <1>0, <3>1, <3>2, <3>3, Zenon DEF Request, Steps
    <3>5. req' = [req EXCEPT ![r] = q]
      BY <2>6, <3>2, <3>3, Zenon
    <3>6. RequestTypes'
      BY <3>4, <3>5, OneRequest, Zenon
    <3> QED  BY <2>3, <2>6, <3>1, <3>6, Zenon DEF StoreTypes, files
  <2> QED  BY <2>2, <2>5, <2>6, Zenon
<1>2. CASE WriteCrt(r)
  <2>1. req[r].name \in Names /\ req[r].node \in Nat
    BY <1>0, <1>2, Zenon DEF WriteCrt, At, Unnamed, Request
  <2>2. RequestTypes'
    BY <1>2, <2>1, DoneTypes, GotoTypes, Zenon DEF WriteCrt, Steps
  <2>3. dir' \in [Names -> Subdir] /\ faults' \in Nat
    BY <1>2, <2>1 DEF WriteCrt, Fault, StoreTypes, Subdir
  <2> QED  BY <1>2, <2>2, <2>3, Zenon DEF WriteCrt, StoreTypes, files, ghosts
<1>3. CASE WriteKeyAndConfig(r)
  <2>1. req[r].name \in Names /\ req[r].node \in Nat
    BY <1>0, <1>3, Zenon DEF WriteKeyAndConfig, At, Unnamed, Request
  <2>2. PICK p \in Nat : p = NextAvailableListenPort(Reg(r))
    BY <1>0, FreePortFacts, Zenon DEF NextAvailableListenPort
  <2>3. CASE /\ dir' = [dir EXCEPT ![req[r].name].key = req[r].node, ![req[r].name].port = p]
             /\ req' = [req EXCEPT ![r].pc = "add", ![r].port = p]
             /\ UNCHANGED faults
    <3>1. PICK q : q = [req[r] EXCEPT !.pc = "add", !.port = p]
      BY Zenon
    <3>2. q \in Request /\ q.name \in Names
      BY <1>0, <2>1, <3>1, Zenon DEF Request, Steps
    <3>3. req' = [req EXCEPT ![r] = q]
      BY <2>3, <3>1, Zenon
    <3>4. RequestTypes'
      BY <3>2, <3>3, OneRequest, Zenon
    <3>5. dir' \in [Names -> Subdir]
      BY <2>1, <2>3 DEF StoreTypes, Subdir
    <3> QED  BY <1>3, <2>3, <3>4, <3>5, Zenon DEF WriteKeyAndConfig, StoreTypes, files, ghosts
  <2>4. CASE Fault /\ Done(r) /\ UNCHANGED dir
    <3>1. RequestTypes'
      BY <2>4, DoneTypes, Zenon
    <3> QED  BY <1>3, <2>4, <3>1 DEF WriteKeyAndConfig, Fault, StoreTypes, files, ghosts
  <2> QED  BY <1>3, <2>2, <2>3, <2>4, Zenon DEF WriteKeyAndConfig
<1>4. CASE Add(r)
  <2>1. req[r].name \in Names /\ req[r].node \in Nat
    BY <1>0, <1>4, Zenon DEF Add, At, Unnamed, Request
  <2>2. NewEnrollment(r) \in Entry
    BY <1>0, <2>1, Zenon DEF NewEnrollment, Entry, Request
  <2>3. RequestTypes'
    BY <1>4, <2>1, DoneTypes, GotoTypes, Zenon DEF Add, AddAfter, Steps
  <2>4. /\ main' \in File /\ bak' \in File /\ faults' \in Nat
        /\ mem' \in SUBSET Entry
    <3>1. \/ /\ SaveOk(ProcOf(r), Reg(r) \cup {NewEnrollment(r)})
             /\ SetReg(r, Reg(r) \cup {NewEnrollment(r)})
          \/ SaveFails /\ SetReg(r, AfterFailedAdd(r))
          \/ UNCHANGED <<files, mem, faults>>
      BY <1>4, Zenon DEF Add
    <3>2. Reg(r) \cup {NewEnrollment(r)} \in SUBSET Entry
      BY <1>0, <2>2, Zenon
    <3>3. SaveOk(ProcOf(r), Reg(r) \cup {NewEnrollment(r)})
            => main' \in File /\ bak' \in File /\ faults' \in Nat
      BY <3>2, SaveTypes, Zenon
    <3>4. main \in File /\ bak \in File /\ faults \in Nat /\ mem \in SUBSET Entry
      BY Zenon DEF StoreTypes
    <3> QED  BY <1>0, <3>1, <3>2, <3>3, <3>4 DEF SetReg, AfterFailedAdd, SaveFails, Fault, files
  <2>5. /\ flows' \in SUBSET Codes /\ acked' \in SUBSET Nat
        /\ UNCHANGED <<dir, phase, service, granted, node, torn>>
    BY <1>4, <2>1, Zenon DEF Add, StoreTypes
  <2> QED  BY <2>3, <2>4, <2>5, Zenon DEF StoreTypes
<1>5. CASE Remove(r)
  <2>1. req[r].name \in Names
    BY <1>0, <1>5, Zenon DEF Remove, At, Unnamed, Request
  <2>2. RequestTypes'
    <3>1. Done(r) \/ RemoveAfter(r)
      BY <1>5, Zenon DEF Remove
    <3>2. CASE req[r].pc = "forced" /\ RemoveAfter(r)
      <4>1. PICK q : q = [req[r] EXCEPT !.pc = "grant", !.name = req[r].want, !.want = 0]
        BY Zenon
      <4>2. 0 \in 0..MaxName
        BY EnrollStoreAssumption
      <4>3. q \in Request /\ q.pc = "grant"
        BY <1>0, <4>1, <4>2, Zenon DEF Request, Steps
      <4>4. req' = [req EXCEPT ![r] = q]
        BY <3>2, <4>1, Zenon DEF RemoveAfter
      <4> QED  BY <4>3, <4>4, OneRequest, Zenon DEF Unnamed
    <3> QED  BY <2>1, <3>1, <3>2, DoneTypes, GotoTypes, Zenon DEF RemoveAfter, Steps
  <2>3. PICK gone : gone = Get(Reg(r), req[r].name)
    BY Zenon
  <2>4. Reg(r) \ gone \in SUBSET Entry /\ mem \in SUBSET Entry
    BY <1>0, Zenon DEF StoreTypes
  <2>5. /\ \/ SaveOk(ProcOf(r), Reg(r) \ gone) /\ SetReg(r, Reg(r) \ gone)
           \/ SaveFails /\ UNCHANGED mem
           \/ UNCHANGED <<files, mem, faults>>
        /\ acked' \in SUBSET acked /\ torn' \in SUBSET torn
        /\ UNCHANGED <<dir, phase, service, flows, granted, node>>
    BY <1>5, <2>3, Zenon DEF Remove
  <2>6. SaveOk(ProcOf(r), Reg(r) \ gone) => main' \in File /\ bak' \in File /\ faults' \in Nat
    BY <2>4, SaveTypes, Zenon
  <2>7. main' \in File /\ bak' \in File /\ faults' \in Nat /\ mem' \in SUBSET Entry
    BY <2>4, <2>5, <2>6 DEF SetReg, SaveFails, Fault, files, StoreTypes
  <2> QED  BY <2>2, <2>5, <2>7, Zenon DEF StoreTypes
<1>6. CASE RemoveDir(r)
  <2>1. RequestTypes'
    BY <1>6, DoneTypes, Zenon DEF RemoveDir
  <2>2. dir' \in [Names -> Subdir]
    BY <1>6, Zenon DEF RemoveDir, StoreTypes, NoDir, Subdir
  <2> QED  BY <1>6, <2>1, <2>2, Zenon DEF RemoveDir, StoreTypes, files, ghosts
<1> QED  BY <1>1, <1>2, <1>3, <1>4, <1>5, <1>6, Zenon

LEMMA VictimName ==
    ASSUME NEW S \in SUBSET Entry, S # {}
    PROVE  /\ (CHOOSE e \in S : TRUE) \in S
           /\ (CHOOSE e \in S : TRUE).name \in Names
           /\ (CHOOSE e \in S : TRUE).name \in 0..MaxName
<1>1. (CHOOSE e \in S : TRUE) \in S
  BY Zenon
<1>2. \A e \in S : e.name \in Names /\ e.name \in 0..MaxName
  BY EnrollStoreAssumption DEF Entry, Names
<1> QED  BY <1>1, <1>2, Zenon

\* The command that hop-agent enroll becomes: it is idle again, waits for a
\* node, or first removes what --force replaces.
EnrollBegins(q) ==
  \/ q = Idle
  \/ \E x \in 0..MaxName : q = Doing("grant", x, Loaded)
  \/ \E x \in 0..MaxName, n \in Names : q = [Doing("force", n, Loaded) EXCEPT !.want = x]

LEMMA EnrollBeginsTypes ==
    ASSUME StoreTypes, NEW q, EnrollBegins(q)
    PROVE  /\ q \in Request
           /\ q.pc \in {"idle", "grant", "force"}
           /\ q.pc = "force" => q.name \in Names /\ q.reg = Loaded
           /\ q.reg \in {{}, Loaded}
<1>1. Loaded \in SUBSET Entry /\ Names \subseteq 0..MaxName
  BY LoadedTypes, EnrollStoreAssumption DEF Names
<1>2. CASE q = Idle
  BY <1>2, IdleTypes, Zenon
<1>3. CASE \E x \in 0..MaxName : q = Doing("grant", x, Loaded)
  BY <1>1, <1>3, DoingTypes DEF Steps
<1>4. CASE \E x \in 0..MaxName, n \in Names : q = [Doing("force", n, Loaded) EXCEPT !.want = x]
  <2>1. PICK x \in 0..MaxName, n \in Names : q = [Doing("force", n, Loaded) EXCEPT !.want = x]
    BY <1>4, Zenon
  <2>2. PICK d \in Request : d = Doing("force", n, Loaded) /\ d.pc = "force" /\ d.name = n /\ d.reg = Loaded
    BY <1>1, DoingTypes DEF Steps
  <2>3. q = [d EXCEPT !.want = x]
    BY <2>1, <2>2, Zenon
  <2> QED  BY <2>2, <2>3, Zenon DEF Request
<1> QED  BY <1>2, <1>3, <1>4, Zenon DEF EnrollBegins

LEMMA CliEnrollSays ==
    ASSUME StoreTypes, CliEnroll
    PROVE  /\ req[Cli].pc = "idle" /\ ~LoadFails /\ stale' = stale \ {"cli"}
           /\ UNCHANGED <<main, bak, dir, granted, node, acked, clobbered, torn>>
           /\ \E q : /\ EnrollBegins(q)
                     /\ \/ StopAgentService(q)
                        \/ req' = [req EXCEPT ![Cli] = q] /\ UNCHANGED <<phase, mem, flows, service, faults>>
<1>1. PICK x \in 0..MaxName, force \in BOOLEAN :
         LET victims == IF x = 0 THEN Loaded ELSE Get(Loaded, x)
         IN
         \/ StopAgentService(IF victims = {} THEN Doing("grant", x, Loaded)
                              ELSE IF Cardinality(victims) > 1 THEN Idle
                              ELSE [Doing("force", (CHOOSE e \in victims : TRUE).name, Loaded) EXCEPT !.want = x])
         \/ /\ req' = [req EXCEPT ![Cli] = Doing("grant", x, Loaded)]
            /\ UNCHANGED <<phase, mem, flows, service, faults>>
  BY Zenon DEF CliEnroll
<1>2. PICK victims : victims = IF x = 0 THEN Loaded ELSE Get(Loaded, x)
  BY Zenon
<1>3. PICK q : q = IF victims = {} THEN Doing("grant", x, Loaded)
                   ELSE IF Cardinality(victims) > 1 THEN Idle
                   ELSE [Doing("force", (CHOOSE e \in victims : TRUE).name, Loaded) EXCEPT !.want = x]
  BY Zenon
<1>4. victims \in SUBSET Entry
  BY <1>2, LoadedTypes, Zenon DEF Get
<1>5. EnrollBegins(q)
  <2>1. CASE victims = {}
    BY <1>3, <2>1, Zenon DEF EnrollBegins
  <2>2. CASE victims # {} /\ Cardinality(victims) > 1
    BY <1>3, <2>2, Zenon DEF EnrollBegins
  <2>3. CASE victims # {} /\ ~(Cardinality(victims) > 1)
    <3>1. PICK n \in Names : n = (CHOOSE e \in victims : TRUE).name
      BY <1>4, <2>3, VictimName, Zenon
    <3>2. q = [Doing("force", n, Loaded) EXCEPT !.want = x]
      BY <1>3, <2>3, <3>1, Zenon
    <3> QED  BY <3>2, Zenon DEF EnrollBegins
  <2> QED  BY <2>1, <2>2, <2>3, Zenon
<1>6. EnrollBegins(Doing("grant", x, Loaded))
  BY Zenon DEF EnrollBegins
<1>7. \/ StopAgentService(q)
      \/ /\ req' = [req EXCEPT ![Cli] = Doing("grant", x, Loaded)]
         /\ UNCHANGED <<phase, mem, flows, service, faults>>
  BY <1>1, <1>2, <1>3, Zenon
<1>8. \E d : /\ EnrollBegins(d)
             /\ \/ StopAgentService(d)
                \/ req' = [req EXCEPT ![Cli] = d] /\ UNCHANGED <<phase, mem, flows, service, faults>>
  BY <1>5, <1>6, <1>7, Zenon
<1> QED  BY <1>8, Zenon DEF CliEnroll, CliLoad, files

LEMMA CliTypes ==
    ASSUME Types,
           \/ CliEnroll \/ ForceRemoveDir \/ CliGrant \/ InstallService \/ CliLeave
           \/ CliStop \/ CliAbort \/ RunRestart
    PROVE  Types'
<1> USE DEF Types
<1>0. /\ Cli \in Procs /\ req[Cli] \in Request
      /\ req[Cli].pc \notin Unnamed => req[Cli].name \in Names
  BY RequestFacts, Zenon DEF Procs
<1>1. CASE CliEnroll
  <2>1. /\ UNCHANGED <<main, bak, dir, granted, node, acked, clobbered, torn>>
        /\ \E q : /\ EnrollBegins(q)
                  /\ \/ StopAgentService(q)
                     \/ req' = [req EXCEPT ![Cli] = q] /\ UNCHANGED <<phase, mem, flows, service, faults>>
    BY <1>1, CliEnrollSays, Zenon
  <2>2. PICK q : /\ EnrollBegins(q)
                 /\ \/ StopAgentService(q)
                    \/ req' = [req EXCEPT ![Cli] = q] /\ UNCHANGED <<phase, mem, flows, service, faults>>
    BY <2>1, Zenon
  <2>3. q \in Request /\ (q.pc \notin Unnamed => q.name \in Names)
    BY <2>2, EnrollBeginsTypes, Zenon DEF Unnamed
  <2>4. CASE StopAgentService(q)
    BY <2>1, <2>3, <2>4, StopTypes, Zenon DEF StoreTypes
  <2>5. CASE req' = [req EXCEPT ![Cli] = q] /\ UNCHANGED <<phase, mem, flows, service, faults>>
    <3>1. RequestTypes'
      BY <1>0, <2>3, <2>5, OneRequest, Zenon
    <3> QED  BY <2>1, <2>5, <3>1, Zenon DEF StoreTypes
  <2> QED  BY <2>2, <2>4, <2>5, Zenon
<1>2. CASE ForceRemoveDir
  <2>1. req[Cli].name \in Names
    BY <1>0, <1>2, Zenon DEF ForceRemoveDir, At, Unnamed
  <2>2. RequestTypes'
    BY <1>0, <1>2, <2>1, GotoTypes, Zenon DEF ForceRemoveDir, Steps
  <2>3. dir' \in [Names -> Subdir] /\ torn' \in SUBSET Names
    BY <1>2, <2>1, Zenon DEF ForceRemoveDir, StoreTypes, NoDir, Subdir
  <2> QED  BY <1>2, <2>2, <2>3, Zenon DEF ForceRemoveDir, StoreTypes, files
<1>3. CASE CliGrant
  <2>1. RequestTypes' /\ node' \in Nat
    <3>1. node \in Nat /\ NoCode \in Codes \cup {NoCode} /\ req[Cli].name \in 0..MaxName
      BY <1>0, Zenon DEF StoreTypes, Request
    <3>2. CASE \E net \in Nets : Grant(Cli, req[Cli].name, net, NoCode)
      BY <1>0, <3>1, <3>2, GrantTypes, Zenon
    <3>3. CASE Done(Cli) /\ UNCHANGED node
      BY <1>0, <3>1, <3>3, DoneTypes, Zenon
    <3> QED  BY <1>3, <3>2, <3>3, Zenon DEF CliGrant
  <2> QED  BY <1>3, <2>1, Zenon DEF CliGrant, StoreTypes, files, ghosts
<1>4. CASE InstallService
  <2>1. RequestTypes'
    <3>1. req' = [s \in Procs |-> Idle] \/ Done(Cli)
      BY <1>4, Zenon DEF InstallService
    <3>2. CASE req' = [s \in Procs |-> Idle]
      BY <3>2, IdleTypes, Zenon DEF RequestTypes, Unnamed
    <3> QED  BY <1>0, <3>1, <3>2, DoneTypes, Zenon
  <2> QED  BY <1>4, <2>1, Zenon DEF InstallService, StoreTypes, files
<1>5. CASE CliLeave
  <2>1. PICK e \in Loaded : req' = [req EXCEPT ![Cli] = Doing("stop", e.name, Loaded)]
    BY <1>5, Zenon DEF CliLeave
  <2>2. e.name \in Names /\ e.name \in 0..MaxName /\ Loaded \in SUBSET Entry
    BY LoadedTypes, EnrollStoreAssumption DEF Entry, Names
  <2>3. Doing("stop", e.name, Loaded) \in Request /\ Doing("stop", e.name, Loaded).name \in Names
    BY <2>2, DoingTypes DEF Steps
  <2>4. RequestTypes'
    BY <1>0, <2>1, <2>3, OneRequest, Zenon
  <2> QED  BY <1>5, <2>4, Zenon DEF CliLeave, StoreTypes, files
<1>6. CASE CliStop
  <2>1. req[Cli].name \in Names
    BY <1>0, <1>6, Zenon DEF CliStop, At, Unnamed
  <2>2. PICK q : q = [req[Cli] EXCEPT !.pc = "leave"]
    BY Zenon
  <2>3. q \in Request /\ q.name \in Names
    BY <1>0, <2>1, <2>2, Zenon DEF Request, Steps
  <2>4. StopAgentService(q) /\ Touch(Cli, req[Cli].name)
        /\ UNCHANGED <<files, dir, granted, node, acked, stale, clobbered>>
    BY <1>6, <2>2, Zenon DEF CliStop
  <2>5. torn' \in SUBSET Names
    BY <2>1, <2>4, Zenon DEF Touch, StoreTypes
  <2> QED  BY <2>3, <2>4, <2>5, StopTypes, Zenon DEF StoreTypes, files
<1>7. CASE CliAbort
  <2>1. RequestTypes'
    BY <1>0, <1>7, DoneTypes, Zenon DEF CliAbort
  <2> QED  BY <1>7, <2>1 DEF CliAbort, Fault, StoreTypes, files, ghosts
<1>8. CASE RunRestart
  BY <1>8, Zenon DEF RunRestart, StoreTypes, RequestTypes, files, ghosts
<1> QED  BY <1>1, <1>2, <1>3, <1>4, <1>5, <1>6, <1>7, <1>8, Zenon

LEMMA TypesStep == ASSUME Types, [Next]_vars PROVE Types'
<1>1. CASE UNCHANGED vars
  BY <1>1, Zenon DEF vars, ghosts, Types, StoreTypes, RequestTypes
<1>2. CASE Next
  BY <1>2, AgentTypes, ApiTypes, ProcTypes, CliTypes, Zenon DEF Next
<1> QED  BY <1>1, <1>2, Zenon

LEMMA TypesInit == ASSUME Init PROVE Types
<1>1. PICK k \in 0..2, p \in {0, BasePort} :
        LET old == {[name |-> i, node |-> i, net |-> i, port |-> p] : i \in 1..k} IN
        /\ main = [st |-> IF k = 0 THEN "missing" ELSE "ok", reg |-> old] /\ bak = main
        /\ dir = [n \in Names |-> IF n <= k THEN [crt |-> n, key |-> n, port |-> BasePort] ELSE NoDir]
        /\ node = k /\ acked = 1..k
  BY Zenon DEF Init
<1>2. \A i \in 1..k : i \in Names /\ i \in Nat /\ i \in Nets
  BY EnrollStoreAssumption DEF Names
<1>3. {[name |-> i, node |-> i, net |-> i, port |-> p] : i \in 1..k} \in SUBSET Entry
  BY <1>2, EnrollStoreAssumption DEF Entry
<1>4. main \in File /\ bak \in File
  BY <1>1, <1>3, Zenon DEF File
<1>5. dir \in [Names -> Subdir]
  BY <1>1, EnrollStoreAssumption DEF Names, NoDir, Subdir
<1>6. req \in [Procs -> Request] /\ \A r \in Procs : req[r].pc \in Unnamed
  BY IdleTypes, Zenon DEF Init, Unnamed
<1> QED  BY <1>1, <1>2, <1>4, <1>5, <1>6 DEF Init, Types, StoreTypes, RequestTypes

-----------------------------------------------------------------------------
\* The registry and the files it stands for.

\* Two registries name the same enrollments; their ports may differ.
Within(a, b) == \A e \in a : \E f \in b : f.name = e.name /\ f.node = e.node
Same(a, b) == Within(a, b) /\ Within(b, a)
Free(reg, n) == \A e \in reg : e.name # n

\* The backup is there when the file was damaged.
Files ==
  /\ main.st = "missing" => main.reg = {} /\ bak.st = "missing"
  /\ main.st = "corrupt" => bak = Saved(main.reg)

\* A process that is not stale has what the file has.
Holding == {"force", "forced", "stop", "leave", "crt", "key", "add"}
AgentSynced == phase # "down" /\ "agent" \notin stale => Same(mem, main.reg)
CliSynced == req[Cli].pc \in Holding /\ "cli" \notin stale => Same(req[Cli].reg, main.reg)
Synced == AgentSynced /\ CliSynced

\* What a request relies on at each step, unless it was disturbed.
LocalOf(r) ==
  LET q == req[r] IN
  /\ q.pc \in {"crt", "key", "add", "unwind", "rmdir"} => q.name \in torn \/ Free(main.reg, q.name)
  /\ q.pc = "key" => q.name \in torn \/ dir[q.name].crt = q.node
  /\ q.pc = "add" => q.name \in torn \/ (dir[q.name].crt = q.node /\ dir[q.name].key = q.node)
  /\ q.pc = "forced" => q.name \in torn
Local == \A r \in Procs : LocalOf(r)

\* Two operations on one name have disturbed each other.
Working == {"crt", "key", "add", "unwind", "leave", "rmdir"}
Pairs ==
  \A r, s \in Procs :
    r # s /\ req[r].pc \in Working /\ req[s].pc \in Working /\ req[r].name = req[s].name
      => req[r].name \in torn

Registered == \A e \in main.reg : e.name \in torn \/ (dir[e.name].crt = e.node /\ dir[e.name].key = e.node)
Kept == \A k \in acked : \E e \in main.reg : e.node = k

Core == Files /\ Synced /\ Local /\ Pairs /\ Registered /\ Kept

StoreInv == Types /\ (clobbered \/ Core)

\* The invariant says what a restart would read.
LEMMA LoadedIsMain == ASSUME StoreTypes, Files PROVE Loaded = main.reg /\ ~LoadFails
  BY DEF Loaded, LoadFails, Files, Saved, StoreTypes, File

LEMMA CoreSays == ASSUME StoreInv PROVE AckedSurvive /\ RegisteredHasCredentials
<1>1. CASE clobbered
  BY <1>1, Zenon DEF AckedSurvive, RegisteredHasCredentials
<1>2. CASE Core
  <2>1. Loaded = main.reg /\ ~LoadFails
    BY <1>2, LoadedIsMain, Zenon DEF StoreInv, Types, Core
  <2> QED  BY <1>2, <2>1, Zenon DEF AckedSurvive, RegisteredHasCredentials, Core, Registered, Kept
<1> QED  BY <1>1, <1>2, Zenon DEF StoreInv

LEMMA SameFacts ==
    ASSUME NEW a, NEW b, Same(a, b)
    PROVE  /\ Same(b, a)
           /\ \A n : Free(a, n) <=> Free(b, n)
  BY DEF Same, Within, Free

LEMMA SameTrans ==
    ASSUME NEW a, NEW b, NEW c, Same(a, b), Same(b, c)
    PROVE  Same(a, c)
<1>1. ASSUME NEW x, NEW y, NEW z, Within(x, y), Within(y, z) PROVE Within(x, z)
  BY <1>1 DEF Within
<1> QED  BY <1>1, Zenon DEF Same

\* Nothing of the files changes: what is registered and kept stays so, and so
\* does what the requests that do not move rely on.
LEMMA FilesHeld ==
    ASSUME Core, main' = main, bak' = bak, dir' = dir, acked' = acked, torn \subseteq torn'
    PROVE  /\ Files' /\ Registered' /\ Kept'
           /\ \A s \in Procs : req'[s] = req[s] => LocalOf(s)'
  BY Zenon DEF Core, Files, Registered, Kept, Local, LocalOf

\* Every step at which a request relies on nothing.
Neutral == {"idle", "install", "grant", "service", "force", "stop", "beat"}

LEMMA NeutralLocal == ASSUME NEW s, req'[s].pc \in Neutral PROVE LocalOf(s)'
  BY Zenon DEF Neutral, LocalOf

\* Requests that stay, or become neutral, disturb nobody.
LEMMA PairsHeld ==
    ASSUME Pairs, torn \subseteq torn',
           \A s \in Procs : req'[s] = req[s] \/ req'[s].pc \in Neutral
    PROVE  Pairs'
  BY DEF Pairs, Working, Neutral

\* The steps that change requests only: r moves, the others stay or end.
LEMMA QuietStep ==
    ASSUME Core, main' = main, bak' = bak, dir' = dir, acked' = acked, torn' = torn,
           \A s \in Procs : req'[s] = req[s] \/ req'[s].pc \in Neutral,
           Synced'
    PROVE  Core'
<1>1. Files' /\ Registered' /\ Kept' /\ \A s \in Procs : req'[s] = req[s] => LocalOf(s)'
  BY FilesHeld, Zenon
<1>2. Local'
  BY <1>1, NeutralLocal, Zenon DEF Local
<1>3. Pairs'
  BY PairsHeld, Zenon DEF Core
<1> QED  BY <1>1, <1>2, <1>3, Zenon DEF Core

LEMMA OneMoves ==
    ASSUME RequestTypes, NEW r \in Procs, NEW q, req' = [req EXCEPT ![r] = q]
    PROVE  req'[r] = q /\ \A s \in Procs : s # r => req'[s] = req[s]
  BY Zenon DEF RequestTypes

\* A registry that nobody saves, or reads again, is as fresh as before.
LEMMA AgentStays ==
    ASSUME Core, main' = main, "agent" \in stale => "agent" \in stale',
           phase' = "down" \/ (phase' = phase /\ mem' = mem)
    PROVE  AgentSynced'
  BY Zenon DEF Core, Synced, AgentSynced

LEMMA CliStays ==
    ASSUME Core, main' = main, "cli" \in stale => "cli" \in stale',
           \/ req'[Cli] = req[Cli]
           \/ req'[Cli].pc \notin Holding
           \/ req'[Cli].reg = req[Cli].reg /\ req[Cli].pc \in Holding
    PROVE  CliSynced'
  BY Zenon DEF Core, Synced, CliSynced

LEMMA CliReads ==
    ASSUME StoreTypes, Core, main' = main, req'[Cli].pc \in Holding => req'[Cli].reg = Loaded
    PROVE  CliSynced'
<1>1. Loaded = main.reg
  BY LoadedIsMain, Zenon DEF Core
<1>2. Same(main.reg, main.reg)
  BY Zenon DEF Same, Within
<1> QED  BY <1>1, <1>2, Zenon DEF CliSynced

\* r begins to work on a name.
LEMMA EnterStep ==
    ASSUME Core, main' = main, bak' = bak, dir' = dir, acked' = acked, torn \subseteq torn',
           NEW r \in Procs,
           \A s \in Procs : s # r => req'[s] = req[s] \/ req'[s].pc \in Neutral,
           \A s \in Procs : s # r /\ req[s].pc \in Working /\ req[s].name = req'[r].name => req'[r].name \in torn',
           LocalOf(r)', Synced'
    PROVE  Core'
<1>1. Files' /\ Registered' /\ Kept' /\ \A s \in Procs : req'[s] = req[s] => LocalOf(s)'
  BY FilesHeld, Zenon
<1>2. Local'
  BY <1>1, NeutralLocal, Zenon DEF Local
<1>3. Pairs'
  <2>1. SUFFICES ASSUME NEW s \in Procs, NEW t \in Procs, s # t,
                        req'[s].pc \in Working, req'[t].pc \in Working, req'[s].name = req'[t].name
                 PROVE  req'[s].name \in torn'
    BY Zenon DEF Pairs
  <2>2. CASE s = r
    BY <2>1, <2>2, Zenon DEF Neutral, Working
  <2>3. CASE t = r
    BY <2>1, <2>3, Zenon DEF Neutral, Working
  <2>4. CASE s # r /\ t # r
    BY <2>1, <2>4 DEF Core, Pairs, Neutral, Working
  <2> QED  BY <2>2, <2>3, <2>4, Zenon
<1> QED  BY <1>1, <1>2, <1>3, Zenon DEF Core

\* r works on its name: it may change the subdirectory, which no entry needs.
LEMMA WorkStep ==
    ASSUME Types, Core, main' = main, bak' = bak, acked' = acked, torn' = torn,
           NEW r \in Procs, req[r].pc \in Working, req[r].name \in Names,
           req[r].name \in torn \/ Free(main.reg, req[r].name),
           \A n \in Names : n # req[r].name => dir'[n] = dir[n],
           \A s \in Procs : s # r => req'[s] = req[s],
           req'[r].pc \in Neutral \/ (req'[r].pc \in Working /\ req'[r].name = req[r].name),
           LocalOf(r)', Synced'
    PROVE  Core'
<1>1. Files' /\ Kept'
  BY Zenon DEF Core, Files, Kept
<1>2. Registered'
  <2>1. SUFFICES ASSUME NEW e \in main.reg
                 PROVE  e.name \in torn \/ (dir'[e.name].crt = e.node /\ dir'[e.name].key = e.node)
    BY Zenon DEF Registered
  <2>2. e.name \in Names
    BY Zenon DEF Types, StoreTypes, File, Entry
  <2>3. CASE e.name = req[r].name
    BY <2>3, Zenon DEF Free
  <2>4. CASE e.name # req[r].name
    BY <2>2, <2>4, Zenon DEF Core, Registered
  <2> QED  BY <2>3, <2>4, Zenon
<1>3. Local'
  <2>1. SUFFICES ASSUME NEW s \in Procs, s # r PROVE LocalOf(s)'
    BY Zenon DEF Local
  <2>2. req'[s] = req[s] /\ LocalOf(s)
    BY <2>1, Zenon DEF Core, Local
  <2>3. CASE req[s].pc \in {"key", "add"}
    <3>1. req[s].name \in Names
      BY <2>3, RequestFacts, Zenon DEF Types, Unnamed
    <3>2. CASE req[s].name = req[r].name
      <4>1. req[s].name \in torn
        BY <2>1, <2>3, <3>2, Zenon DEF Core, Pairs, Working
      <4> QED  BY <2>2, <4>1, Zenon DEF LocalOf
    <3>3. CASE req[s].name # req[r].name
      BY <2>2, <3>1, <3>3, Zenon DEF LocalOf
    <3> QED  BY <3>2, <3>3, Zenon
  <2>4. CASE req[s].pc \notin {"key", "add"}
    BY <2>2, <2>4, Zenon DEF LocalOf
  <2> QED  BY <2>3, <2>4, Zenon
<1>4. Pairs'
  <2>1. SUFFICES ASSUME NEW s \in Procs, NEW t \in Procs, s # t,
                        req'[s].pc \in Working, req'[t].pc \in Working, req'[s].name = req'[t].name
                 PROVE  req'[s].name \in torn'
    BY Zenon DEF Pairs
  <2>2. req[s].pc \in Working /\ req'[s].name = req[s].name /\ req[t].pc \in Working /\ req'[t].name = req[t].name
    BY <2>1, Zenon DEF Neutral, Working
  <2> QED  BY <2>1, <2>2, Zenon DEF Core, Pairs
<1> QED  BY <1>1, <1>2, <1>3, <1>4, Zenon DEF Core

\* A new port leaves the enrollments what they were.
LEMMA ReassignSame ==
    ASSUME NEW reg \in SUBSET Entry, NEW S \in SUBSET reg
    PROVE  Same(Reassign(reg, S), reg)
<1> DEFINE New(e) == [e EXCEPT !.port = FreePort(reg, Cardinality({f \in S : f.node < e.node}))]
<1>1. ASSUME NEW e \in S PROVE New(e).name = e.name /\ New(e).node = e.node
  BY Zenon DEF Entry
<1>2. Reassign(reg, S) = (reg \ S) \cup {New(e) : e \in S}
  BY Zenon DEF Reassign
<1> HIDE DEF New
<1>3. Within(Reassign(reg, S), reg)
  BY <1>1, <1>2, Zenon DEF Within
<1>4. Within(reg, Reassign(reg, S))
  BY <1>1, <1>2, Zenon DEF Within
<1> QED  BY <1>3, <1>4, Zenon DEF Same

LEMMA MigrationSame ==
    ASSUME StoreTypes
    PROVE  /\ Same(mem, mem)
           /\ Same(AssignMissingListenPorts(mem), mem)
           /\ Same(HealDuplicateListenPorts(AssignMissingListenPorts(mem)), mem)
<1>1. ASSUME NEW reg \in SUBSET Entry
      PROVE  Same(AssignMissingListenPorts(reg), reg) /\ Same(HealDuplicateListenPorts(reg), reg)
  BY ReassignSame, Zenon DEF AssignMissingListenPorts, HealDuplicateListenPorts
<1>2. mem \in SUBSET Entry /\ AssignMissingListenPorts(mem) \in SUBSET Entry
  BY MigrationTypes, Zenon DEF StoreTypes
<1>3. Same(mem, mem)
  BY Zenon DEF Same, Within
<1> QED  BY <1>1, <1>2, <1>3, SameTrans, Zenon

\* nebula.yaml changes; the certificate and the key do not.
LEMMA HealKeepsPair ==
    ASSUME dir \in [Names -> Subdir], NEW failed, NEW n \in Names
    PROVE  HealListenPortYAML(failed)[n].crt = dir[n].crt /\ HealListenPortYAML(failed)[n].key = dir[n].key
  BY Zenon DEF HealListenPortYAML, Subdir

\* The agent works on ports and settings: the enrollments, certificates and keys stay.
LEMMA AgentKeeps ==
    ASSUME Types, Core, NEW reg, Same(reg, mem), mem' = reg, phase # "down",
           main' = main, bak' = bak, stale' = stale, acked' = acked, torn' = torn, req' = req,
           \A n \in Names : dir'[n].crt = dir[n].crt /\ dir'[n].key = dir[n].key
    PROVE  Core'
<1>1. Files' /\ Kept' /\ Pairs'
  BY Zenon DEF Core, Files, Kept, Pairs
<1>2. Synced'
  <2>1. AgentSynced'
    BY SameTrans, Zenon DEF Core, Synced, AgentSynced
  <2> QED  BY <2>1, CliStays, Zenon DEF Synced
<1>3. \A e \in main.reg : e.name \in Names
  BY Zenon DEF Types, StoreTypes, File, Entry
<1>4. Registered'
  BY <1>3, Zenon DEF Core, Registered
<1>5. \A r \in Procs : req[r].pc \notin Unnamed => req[r].name \in Names
  BY Zenon DEF Types, RequestTypes
<1>6. Local'
  BY <1>5, Zenon DEF Core, Local, LocalOf, Unnamed
<1> QED  BY <1>1, <1>2, <1>4, <1>6, Zenon DEF Core

\* The agent saves a registry with the enrollments it has read.
LEMMA AgentSaves ==
    ASSUME Types, Core, NEW reg, Same(reg, mem), NEW new, Same(new, mem), mem' = new,
           phase # "down", "agent" \notin stale,
           main' = Saved(reg), stale' = IF req[Cli].pc = "idle" THEN {} ELSE {"cli"},
           acked' = acked, torn' = torn, req' = req,
           \A n \in Names : dir'[n].crt = dir[n].crt /\ dir'[n].key = dir[n].key
    PROVE  Core'
<1>1. main'.st = "ok" /\ main'.reg = reg
  BY Zenon DEF Saved
<1>2. Same(mem, main.reg)
  BY Zenon DEF Core, Synced, AgentSynced
<1>3. Same(reg, main.reg) /\ Same(new, reg)
  BY <1>2, SameTrans, SameFacts, Zenon
<1>4. Files' /\ Pairs'
  BY <1>1, Zenon DEF Core, Files, Pairs
<1>5. Synced'
  BY <1>1, <1>3, Zenon DEF Synced, AgentSynced, CliSynced, Holding
<1>6. Kept'
  <2>1. Within(main.reg, reg)
    BY <1>3, Zenon DEF Same
  <2> QED  BY <1>1, <2>1 DEF Core, Kept, Within
<1>7. \A e \in main.reg : e.name \in Names
  BY Zenon DEF Types, StoreTypes, File, Entry
<1>8. Registered'
  <2>1. SUFFICES ASSUME NEW e \in reg
                 PROVE  e.name \in torn \/ (dir'[e.name].crt = e.node /\ dir'[e.name].key = e.node)
    BY <1>1, Zenon DEF Registered
  <2>2. PICK f \in main.reg : f.name = e.name /\ f.node = e.node
    BY <1>3, Zenon DEF Same, Within
  <2> QED  BY <1>7, <2>2, Zenon DEF Core, Registered
<1>9. \A r \in Procs : req[r].pc \notin Unnamed => req[r].name \in Names
  BY Zenon DEF Types, RequestTypes
<1>10. \A n : Free(main.reg, n) => Free(reg, n)
  BY <1>3, SameFacts, Zenon
<1>11. Local'
  BY <1>1, <1>9, <1>10, Zenon DEF Core, Local, LocalOf, Unnamed
<1> QED  BY <1>4, <1>5, <1>6, <1>8, <1>11, Zenon DEF Core

LEMMA MigrateCore ==
    ASSUME Types, clobbered \/ Core, ~clobbered', MigrateListenPorts
    PROVE  Core'
<1> DEFINE a == AssignMissingListenPorts(mem)
           h == HealDuplicateListenPorts(a)
<1>1. Same(mem, mem) /\ Same(a, mem) /\ Same(h, mem)
  BY MigrationSame, Zenon DEF Types
<1>3. phase = "loaded" /\ acked' = acked /\ torn' = torn /\ req' = req
  BY Zenon DEF MigrateListenPorts
<1>4. \A n \in Names : dir'[n].crt = dir[n].crt /\ dir'[n].key = dir[n].key
  BY Zenon DEF MigrateListenPorts
<1>5. \/ mem' \in {mem, a, h} /\ UNCHANGED <<main, bak, clobbered, stale>>
      \/ /\ mem' = h /\ main' \in {Saved(a), Saved(h)}
         /\ clobbered' = (clobbered \/ "agent" \in stale)
         /\ stale' = IF req[Cli].pc = "idle" THEN {} ELSE {"cli"}
  <2> HIDE DEF a, h
  <2>1. \/ mem' \in {mem, a, h} /\ UNCHANGED <<main, bak, clobbered, stale>>
        \/ mem' = h /\ SaveOk("agent", h)
        \/ /\ mem' = h /\ main' = Saved(a)
           /\ clobbered' = (clobbered \/ "agent" \in stale)
           /\ stale' = IF req[Cli].pc = "idle" THEN {} ELSE {"cli"}
    BY Zenon DEF MigrateListenPorts, SaveFails, files, a, h
  <2>2. SaveOk("agent", h) => /\ main' = Saved(h)
                              /\ clobbered' = (clobbered \/ "agent" \in stale)
                              /\ stale' = IF req[Cli].pc = "idle" THEN {} ELSE {"cli"}
    BY Zenon DEF SaveOk, Write
  <2> QED  BY <2>1, <2>2, Zenon
<1> HIDE DEF a, h
<1>6. CASE mem' \in {mem, a, h} /\ UNCHANGED <<main, bak, clobbered, stale>>
  BY <1>1, <1>3, <1>4, <1>6, AgentKeeps, Zenon
<1>7. CASE /\ mem' = h /\ main' \in {Saved(a), Saved(h)}
           /\ clobbered' = (clobbered \/ "agent" \in stale)
           /\ stale' = IF req[Cli].pc = "idle" THEN {} ELSE {"cli"}
  <2>1. Core /\ "agent" \notin stale
    BY <1>7, Zenon
  <2>2. PICK reg \in {a, h} : main' = Saved(reg)
    BY <1>7, Zenon
  <2> QED  BY <1>1, <1>3, <1>4, <1>7, <2>1, <2>2, AgentSaves, Zenon
<1> QED  BY <1>5, <1>6, <1>7, Zenon

LEMMA SaveSettingsCore ==
    ASSUME Types, clobbered \/ Core, ~clobbered', SaveSettings
    PROVE  Core'
<1>1. /\ phase = "up" /\ mem' = mem /\ req' = req /\ acked' = acked /\ torn' = torn /\ dir' = dir
  BY Zenon DEF SaveSettings
<1>2. Same(mem, mem)
  BY Zenon DEF Same, Within
<1>3. CASE SaveOk("agent", mem)
  <2>1. /\ main' = Saved(mem) /\ stale' = IF req[Cli].pc = "idle" THEN {} ELSE {"cli"}
        /\ Core /\ "agent" \notin stale
    BY <1>3, Zenon DEF SaveOk, Write
  <2> QED  BY <1>1, <1>2, <2>1, AgentSaves, Zenon
<1>4. CASE SaveFails
  BY <1>1, <1>2, <1>4, AgentKeeps, Zenon DEF SaveFails
<1> QED  BY <1>3, <1>4, Zenon DEF SaveSettings

LEMMA MigrateYAMLCore ==
    ASSUME Types, Core, MigrateYAML
    PROVE  Core'
<1>1. /\ phase = "ported" /\ mem' = mem /\ req' = req /\ acked' = acked /\ torn' = torn
      /\ main' = main /\ bak' = bak /\ stale' = stale
  BY Zenon DEF MigrateYAML, files, ghosts
<1>2. \A n \in Names : dir'[n].crt = dir[n].crt /\ dir'[n].key = dir[n].key
  <2>1. \E failed : dir' = HealListenPortYAML(failed)
    BY Zenon DEF MigrateYAML
  <2> QED  BY <2>1, HealKeepsPair, Zenon DEF Types, StoreTypes
<1>3. Same(mem, mem)
  BY Zenon DEF Same, Within
<1> QED  BY <1>1, <1>2, <1>3, AgentKeeps, Zenon

LEMMA AgentCore ==
    ASSUME Types, clobbered \/ Core, ~clobbered',
           Boot \/ MigrateListenPorts \/ MigrateYAML \/ Crash \/ Corrupt \/ EnrollDeviceFlowStart \/ SaveSettings
    PROVE  Core'
<1>1. CASE Boot
  <2>1. /\ main' = main /\ bak' = bak /\ dir' = dir /\ acked' = acked /\ torn' = torn /\ req' = req
        /\ Core /\ mem' = Loaded /\ stale' = stale \ {"agent"}
    BY <1>1, Zenon DEF Boot, files
  <2>2. Loaded = main.reg /\ Same(main.reg, main.reg)
    BY <2>1, LoadedIsMain, Zenon DEF Types, Core, Same, Within
  <2>3. Synced'
    <3>1. AgentSynced'
      BY <2>1, <2>2, Zenon DEF AgentSynced
    <3> QED  BY <2>1, <3>1, CliStays, Zenon DEF Synced
  <2> QED  BY <2>1, <2>3, QuietStep, Zenon
<1>2. CASE MigrateListenPorts
  BY <1>2, MigrateCore, Zenon
<1>y. CASE MigrateYAML
  BY <1>y, MigrateYAMLCore, Zenon DEF MigrateYAML, ghosts
<1>3. CASE Crash
  <2>1. /\ main' = main /\ bak' = bak /\ dir' = dir /\ acked' = acked /\ torn' = torn
        /\ Core /\ phase' = "down" /\ stale' = stale \ {"agent"}
        /\ req' = [r \in Procs |-> IF r = Cli THEN req[r] ELSE Idle]
    BY <1>3, Zenon DEF Crash, Down, files
  <2>2. \A s \in Procs : req'[s] = req[s] \/ req'[s].pc \in Neutral
    BY <2>1, IdleTypes, Zenon DEF Neutral
  <2>3. req'[Cli] = req[Cli]
    BY <2>1, Zenon DEF Procs
  <2>4. Synced'
    BY <2>1, <2>3, CliStays, Zenon DEF Synced, AgentSynced
  <2> QED  BY <2>1, <2>2, <2>4, QuietStep, Zenon
<1>4. CASE Corrupt
  <2>1. /\ main.st = "ok" /\ main' = [main EXCEPT !.st = "corrupt"] /\ bak = main /\ bak' = bak
        /\ Core
        /\ UNCHANGED <<dir, phase, mem, req, acked, stale, torn>>
    BY <1>4, Zenon DEF Corrupt
  <2>2. main'.st = "corrupt" /\ main'.reg = main.reg /\ bak = Saved(main.reg)
    BY <2>1, Zenon DEF Types, StoreTypes, File, Saved
  <2>3. Files'
    BY <2>1, <2>2, Zenon DEF Files, Saved
  <2>4. Synced' /\ Registered' /\ Kept' /\ Pairs'
    BY <2>1, <2>2, Zenon DEF Core, Synced, AgentSynced, CliSynced, Registered, Kept, Pairs
  <2>5. Local'
    BY <2>1, <2>2, Zenon DEF Core, Local, LocalOf
  <2> QED  BY <2>3, <2>4, <2>5, Zenon DEF Core
<1>5. CASE EnrollDeviceFlowStart
  <2>1. /\ Core
        /\ UNCHANGED <<main, bak, dir, phase, mem, req, acked, stale, torn>>
    BY <1>5, Zenon DEF EnrollDeviceFlowStart, files, ghosts
  <2>2. Synced'
    BY <2>1, AgentStays, CliStays, Zenon DEF Synced
  <2> QED  BY <2>1, <2>2, QuietStep, Zenon
<1>6. CASE SaveSettings
  BY <1>6, SaveSettingsCore, Zenon
<1> QED  BY <1>1, <1>2, <1>y, <1>3, <1>4, <1>5, <1>6, Zenon

\* A request is granted a node, ends, or is at another neutral step.
LEMMA NeutralStep ==
    ASSUME Types, Core, NEW r \in Procs, NEW q, q.pc \in Neutral \ Holding, req' = [req EXCEPT ![r] = q],
           UNCHANGED <<main, bak, dir, phase, mem, acked, torn>>,
           stale' = stale
    PROVE  Core'
<1>1. req'[r] = q /\ \A s \in Procs : s # r => req'[s] = req[s]
  BY OneMoves, Zenon DEF Types
<1>2. Cli \in Procs
  BY Zenon DEF Procs
<1>3. Synced'
  BY <1>1, <1>2, AgentStays, CliStays, Zenon DEF Synced
<1> QED  BY <1>1, <1>3, QuietStep, Zenon

\* A heartbeat saves what the file holds.
LEMMA RewriteStep ==
    ASSUME Types, Core, NEW r \in Procs, NEW q, q.pc \in Neutral \ Holding, req' = [req EXCEPT ![r] = q],
           NEW reg, Write(reg), reg = Loaded,
           UNCHANGED <<dir, phase, mem, acked, torn, stale>>
    PROVE  Core'
<1>1. main'.st = "ok" /\ main'.reg = main.reg
  BY LoadedIsMain, Zenon DEF Write, Saved, Types, Core
<1>2. req'[r] = q /\ \A s \in Procs : s # r => req'[s] = req[s]
  BY OneMoves, Zenon DEF Types
<1>3. Files' /\ Registered' /\ Kept'
  BY <1>1, Zenon DEF Core, Files, Registered, Kept
<1>4. Local'
  <2>1. ASSUME NEW s \in Procs, s # r PROVE LocalOf(s)'
    <3>1. LocalOf(s) /\ req'[s] = req[s] /\ main'.reg = main.reg
      BY <1>1, <1>2, <2>1, Zenon DEF Core, Local
    <3>2. UNCHANGED <<dir, torn>>
      OBVIOUS
    <3> QED  BY <3>1, <3>2, Zenon DEF LocalOf
  <2> QED  BY <1>2, <2>1, NeutralLocal, Zenon DEF Local
<1>5. Pairs'
  BY <1>2, PairsHeld, Zenon DEF Core
<1>6. Synced'
  BY <1>1, <1>2, Zenon DEF Core, Synced, AgentSynced, CliSynced, Procs
<1> QED  BY <1>3, <1>4, <1>5, <1>6, Zenon DEF Core

LEMMA ApiCore ==
    ASSUME Types, clobbered \/ Core, ~clobbered', NEW r \in Requests,
           \/ EnrollDeviceFlowPoll(r) \/ EnrollToken(r) \/ Leave(r) \/ Unwind(r)
           \/ HeartbeatLoads(r) \/ SetNetworkID(r)
    PROVE  Core'
<1>0. r \in Procs /\ r # Cli /\ Cli \in Procs
  BY EnrollStoreAssumption, Zenon DEF Procs
<1>1. ASSUME NEW x, NEW net, NEW c, Grant(r, x, net, c), Core,
             UNCHANGED <<main, bak, dir, phase, mem, acked, torn, stale>>
      PROVE  Core'
  <2>1. PICK q : q = [pc |-> "install", name |-> x, net |-> net, node |-> node + 1,
                      port |-> 0, code |-> c, want |-> 0, reg |-> {}]
    BY Zenon
  <2>2. req' = [req EXCEPT ![r] = q] /\ q.pc \in Neutral \ Holding
    BY <1>1, <2>1, Zenon DEF Grant, Neutral, Holding
  <2> QED  BY <1>0, <1>1, <2>2, NeutralStep, Zenon
<1>2. CASE EnrollDeviceFlowPoll(r)
  <2>1. /\ Core /\ UNCHANGED <<main, bak, dir, phase, mem, acked, torn, stale>>
        /\ (\E x, net, c : Grant(r, x, net, c)) \/ req' = req
    BY <1>2, Zenon DEF EnrollDeviceFlowPoll, files, ghosts
  <2>2. CASE req' = req
    <3>1. Synced'
      BY <2>1, <2>2, AgentStays, CliStays, Zenon DEF Synced
    <3> QED  BY <2>1, <2>2, <3>1, QuietStep, Zenon
  <2> QED  BY <1>1, <2>1, <2>2, Zenon
<1>3. CASE EnrollToken(r)
  <2>1. /\ Core /\ UNCHANGED <<main, bak, dir, phase, mem, acked, torn, stale>>
        /\ \E x, net, c : Grant(r, x, net, c)
    BY <1>3, Zenon DEF EnrollToken, files, ghosts
  <2> QED  BY <1>1, <2>1, Zenon
<1>4. CASE Leave(r)
  <2>1. /\ Core /\ UNCHANGED <<main, bak, dir, phase, mem, acked, stale>>
    BY <1>4, Zenon DEF Leave, files
  <2>2. PICK e \in mem : req' = [req EXCEPT ![r] = Doing("leave", e.name, {})] /\ Touch(r, e.name)
    BY <1>4, Zenon DEF Leave
  <2>3. PICK q : q = Doing("leave", e.name, {})
    BY Zenon
  <2>4. q.pc = "leave" /\ q.name = e.name
    BY <2>3, Zenon DEF Doing
  <2>5. req'[r] = q /\ \A s \in Procs : s # r => req'[s] = req[s]
    BY <1>0, <2>2, <2>3, OneMoves, Zenon DEF Types
  <2>6. torn \subseteq torn' /\ (Others(r, e.name) => e.name \in torn')
    BY <2>2, Zenon DEF Touch
  <2>7. \A s \in Procs : s # r /\ req[s].pc \in Working /\ req[s].name = e.name => e.name \in torn'
    BY <2>6 DEF Others, Working
  <2>8. LocalOf(r)'
    BY <2>4, <2>5, Zenon DEF LocalOf
  <2>9. Synced'
    BY <1>0, <2>1, <2>5, AgentStays, CliStays, Zenon DEF Synced
  <2> QED  BY <1>0, <2>1, <2>4, <2>5, <2>6, <2>7, <2>8, <2>9, EnterStep, Zenon
<1>5. CASE Unwind(r)
  <2>1. /\ Core /\ UNCHANGED <<main, bak, phase, mem, acked, stale, torn>>
        /\ dir' = [dir EXCEPT ![req[r].name] = NoDir] /\ req[r].pc = "unwind" /\ req' = [req EXCEPT ![r] = Idle]
    BY <1>5, Zenon DEF Unwind, At, Done, files, ghosts
  <2>2. req'[r] = Idle /\ \A s \in Procs : s # r => req'[s] = req[s]
    BY <1>0, <2>1, OneMoves, Zenon DEF Types
  <2>3. req[r].name \in Names /\ (req[r].name \in torn \/ Free(main.reg, req[r].name))
    BY <1>0, <2>1, RequestFacts, Zenon DEF Types, Unnamed, Core, Local, LocalOf
  <2>4. \A n \in Names : n # req[r].name => dir'[n] = dir[n]
    BY <2>1, Zenon DEF Types, StoreTypes
  <2>5. req'[r].pc \in Neutral /\ LocalOf(r)'
    BY <2>2, IdleTypes, NeutralLocal DEF Neutral
  <2>6. Synced'
    BY <1>0, <2>1, <2>2, AgentStays, CliStays, Zenon DEF Synced
  <2> QED  BY <1>0, <2>1, <2>2, <2>3, <2>4, <2>5, <2>6, WorkStep, Zenon DEF Working
<1>6. CASE HeartbeatLoads(r)
  <2>1. PICK q : q = Doing("beat", 0, Loaded)
    BY Zenon
  <2>2. q.pc \in Neutral \ Holding
    BY <2>1, Zenon DEF Doing, Neutral, Holding
  <2>3. /\ Core /\ UNCHANGED <<main, bak, dir, phase, mem, acked, torn, stale>> /\ req' = [req EXCEPT ![r] = q]
    BY <1>6, <2>1, Zenon DEF HeartbeatLoads, files, ghosts
  <2> QED  BY <1>0, <2>2, <2>3, NeutralStep, Zenon
<1>7. CASE SetNetworkID(r)
  <2>1. Idle.pc \in Neutral \ Holding
    BY IdleTypes, Zenon DEF Neutral, Holding
  <2>2. req' = [req EXCEPT ![r] = Idle] /\ UNCHANGED <<dir, phase, mem, acked, torn, stale>>
    BY <1>7, Zenon DEF SetNetworkID, Done
  <2>3. CASE UNCHANGED <<main, bak, clobbered>>
    BY <1>0, <2>1, <2>2, <2>3, NeutralStep, Zenon
  <2>4. CASE Write(req[r].reg) /\ clobbered' = (clobbered \/ req[r].reg # Loaded)
    BY <1>0, <2>1, <2>2, <2>4, RewriteStep, Zenon
  <2> QED  BY <1>7, <2>3, <2>4, Zenon DEF SetNetworkID, files
<1> QED  BY <1>2, <1>3, <1>4, <1>5, <1>6, <1>7, Zenon

\* What a working request does to its subdirectory.
LEMMA DirCore ==
    ASSUME Types, Core, NEW r \in Procs, req[r].pc \in {"crt", "key", "add", "unwind", "rmdir"},
           UNCHANGED <<main, bak, phase, mem, acked, stale, torn>>,
           NEW q, req' = [req EXCEPT ![r] = q],
           NEW d, dir' = [dir EXCEPT ![req[r].name] = d] \/ dir' = dir,
           \/ q.pc \in Neutral \ Holding
           \/ /\ q.pc \in {"key", "add", "unwind"} /\ q.name = req[r].name /\ q.reg = req[r].reg
              /\ req[r].pc \in Holding
              /\ q.pc = "key" => dir'[q.name].crt = q.node
              /\ q.pc = "add" => q.name \in torn \/ (dir'[q.name].crt = q.node /\ dir'[q.name].key = q.node)
    PROVE  Core'
<1>1. req'[r] = q /\ \A s \in Procs : s # r => req'[s] = req[s]
  BY OneMoves, Zenon DEF Types
<1>2. req[r].name \in Names /\ (req[r].name \in torn \/ Free(main.reg, req[r].name))
  BY RequestFacts, Zenon DEF Types, Unnamed, Core, Local, LocalOf
<1>3. \A n \in Names : n # req[r].name => dir'[n] = dir[n]
  BY Zenon DEF Types, StoreTypes
<1>4. q.pc \in Neutral \/ (q.pc \in Working /\ q.name = req[r].name)
  BY Zenon DEF Working
<1>5. LocalOf(r)'
  <2>1. CASE q.pc \in Neutral
    BY <1>1, <2>1, NeutralLocal, ZenonT(40)
  <2>2. CASE q.pc \in {"key", "add", "unwind"} /\ q.name = req[r].name
    BY <1>1, <1>2, <2>2 DEF LocalOf, Neutral
  <2> QED  BY <2>1, <2>2, Zenon
<1>6. Synced'
  <2>1. AgentSynced'
    BY AgentStays, Zenon
  <2>2. CliSynced'
    <3>1. CASE r # Cli
      BY <1>1, <3>1, CliStays, Zenon DEF Procs
    <3>2. CASE r = Cli
      BY <1>1, <3>2, CliStays, Zenon
    <3> QED  BY <3>1, <3>2, Zenon
  <2> QED  BY <2>1, <2>2, Zenon DEF Synced
<1> QED  BY <1>1, <1>2, <1>3, <1>4, <1>5, <1>6, WorkStep, Zenon DEF Working

LEMMA InstallCore ==
    ASSUME Types, clobbered \/ Core, ~clobbered', NEW r \in Procs, Install(r)
    PROVE  Core'
<1>1. /\ Core /\ UNCHANGED <<main, bak, dir, phase, mem, acked>>
      /\ req[r].pc = "install"
      /\ stale' = IF r = Cli THEN stale \ {"cli"} ELSE stale
      /\ r = Cli \/ phase = "up"
  BY Zenon DEF Install, At, files
<1>2. PICK reg : reg = IF r = Cli THEN Loaded ELSE mem
  BY Zenon
<1>4. \/ Done(r) /\ UNCHANGED torn
      \/ \E n \in FreeNames(reg) :
           /\ req' = [req EXCEPT ![r].pc = "crt", ![r].name = n, ![r].reg = IF r = Cli THEN reg ELSE {}]
           /\ torn' = IF Others(r, n) \/ (r # Cli /\ "agent" \in stale) THEN torn \cup {n} ELSE torn
  BY <1>2, InstallSays, Zenon
<1>5. reg \in SUBSET Entry /\ req[r].name \in 0..MaxName /\ Cli \in Procs /\ req[r] \in Request
  BY <1>2, LoadedTypes, RequestFacts, Zenon DEF Types, StoreTypes, Request, Procs
<1>6. AgentSynced'
  BY <1>1, AgentStays, Zenon
<1>7. CASE Done(r) /\ UNCHANGED torn
  <2>1. req' = [req EXCEPT ![r] = Idle] /\ Idle.pc \in Neutral \ Holding
    BY <1>7, IdleTypes, Zenon DEF Done, Neutral, Holding
  <2>2. req'[r] = Idle /\ \A s \in Procs : s # r => req'[s] = req[s]
    BY <2>1, OneMoves, Zenon DEF Types
  <2>3. CliSynced'
    BY <1>1, <1>5, <2>1, <2>2, CliStays, Zenon DEF CliSynced
  <2> QED  BY <1>1, <1>6, <1>7, <2>1, <2>2, <2>3, QuietStep, Zenon DEF Synced
<1>8. ASSUME NEW n \in FreeNames(reg),
             req' = [req EXCEPT ![r].pc = "crt", ![r].name = n, ![r].reg = IF r = Cli THEN reg ELSE {}],
             torn' = IF Others(r, n) \/ (r # Cli /\ "agent" \in stale) THEN torn \cup {n} ELSE torn
      PROVE  Core'
  <2>1. PICK g : g = IF r = Cli THEN reg ELSE {}
    BY Zenon
  <2>2. PICK q : q = [req[r] EXCEPT !.pc = "crt", !.name = n, !.reg = g]
    BY Zenon
  <2>3. q.pc = "crt" /\ q.name = n /\ q.reg = g
    BY <1>5, <2>2, Zenon DEF Request
  <2>4. req' = [req EXCEPT ![r] = q]
    BY <1>8, <2>1, <2>2, Zenon
  <2>5. req'[r] = q /\ \A s \in Procs : s # r => req'[s] = req[s]
    BY <2>4, OneMoves, Zenon DEF Types
  <2>7. Free(reg, n)
    BY Zenon DEF FreeNames, Free
  <2>8. n \in torn' \/ Free(main.reg, n)
    <3>1. CASE r = Cli
      BY <1>1, <1>2, <2>7, <3>1, LoadedIsMain, Zenon DEF Types, Core
    <3>2. CASE r # Cli /\ "agent" \in stale
      BY <1>8, <3>2, Zenon
    <3>3. CASE r # Cli /\ "agent" \notin stale
      <4>1. Same(mem, main.reg)
        BY <1>1, <3>3, Zenon DEF Core, Synced, AgentSynced
      <4> QED  BY <1>2, <2>7, <3>3, <4>1, SameFacts, Zenon
    <3> QED  BY <3>1, <3>2, <3>3, Zenon
  <2>9. LocalOf(r)'
    BY <1>1, <2>3, <2>5, <2>8, Zenon DEF LocalOf
  <2>10. \A s \in Procs : s # r /\ req[s].pc \in Working /\ req[s].name = n => n \in torn'
    BY <1>8 DEF Others, Working
  <2>11. torn \subseteq torn'
    BY <1>8, Zenon
  <2>12. CliSynced'
    <3>1. CASE r = Cli
      BY <1>1, <1>2, <2>1, <2>3, <2>5, <3>1, CliReads, Zenon DEF Types
    <3>2. CASE r # Cli
      BY <1>1, <1>5, <2>5, <3>2, CliStays, Zenon
    <3> QED  BY <3>1, <3>2, Zenon
  <2> QED  BY <1>1, <1>6, <2>3, <2>5, <2>9, <2>10, <2>11, <2>12, EnterStep, Zenon DEF Synced
<1> QED  BY <1>4, <1>7, <1>8, Zenon

LEMMA WriteCore ==
    ASSUME Types, clobbered \/ Core, ~clobbered', NEW r \in Procs,
           WriteCrt(r) \/ WriteKeyAndConfig(r) \/ RemoveDir(r)
    PROVE  Core'
<1>0. req[r] \in Request /\ Idle.pc \in Neutral \ Holding /\ dir \in [Names -> Subdir]
      /\ req \in [Procs -> Request]
  BY RequestFacts, IdleTypes, Zenon DEF Types, StoreTypes, RequestTypes, Neutral, Holding
<1>1. CASE WriteCrt(r)
  <2>1. /\ Core /\ req[r].pc = "crt" /\ UNCHANGED <<main, bak, phase, mem, acked, stale, torn>>
    BY <1>1, Zenon DEF WriteCrt, At, files, ghosts
  <2>2. CASE Done(r) /\ UNCHANGED dir
    BY <1>0, <2>1, <2>2, DirCore, Zenon DEF Done
  <2>3. CASE dir' = [dir EXCEPT ![req[r].name].crt = req[r].node] /\ Goto(r, "key")
    <3>1. PICK q : q = [req[r] EXCEPT !.pc = "key"]
      BY Zenon
    <3>2. q.pc = "key" /\ q.name = req[r].name /\ q.reg = req[r].reg /\ q.node = req[r].node
      BY <1>0, <3>1, Zenon DEF Request
    <3>3. req' = [req EXCEPT ![r] = q]
      BY <2>3, <3>1, Zenon DEF Goto
    <3>4. req[r].name \in Names
      BY <2>1, RequestFacts, Zenon DEF Types, Unnamed
    <3>5. PICK d : d = [dir[req[r].name] EXCEPT !.crt = req[r].node]
      BY Zenon
    <3>6. dir' = [dir EXCEPT ![req[r].name] = d] /\ d.crt = req[r].node
      BY <1>0, <2>3, <3>4, <3>5, Zenon DEF Subdir
    <3>7. dir'[q.name].crt = q.node
      BY <1>0, <3>2, <3>4, <3>6, Zenon
    <3> QED  BY <2>1, <3>2, <3>3, <3>6, <3>7, DirCore, Zenon DEF Holding
  <2> QED  BY <1>1, <2>2, <2>3, Zenon DEF WriteCrt
<1>2. CASE WriteKeyAndConfig(r)
  <2>1. /\ Core /\ req[r].pc = "key" /\ UNCHANGED <<main, bak, phase, mem, acked, stale, torn>>
    BY <1>2, Zenon DEF WriteKeyAndConfig, At, files, ghosts
  <2>2. CASE Done(r) /\ UNCHANGED dir
    BY <1>0, <2>1, <2>2, DirCore, Zenon DEF Done
  <2>3. ASSUME NEW p, dir' = [dir EXCEPT ![req[r].name].key = req[r].node, ![req[r].name].port = p],
               req' = [req EXCEPT ![r].pc = "add", ![r].port = p]
        PROVE  Core'
    <3>1. PICK q : q = [req[r] EXCEPT !.pc = "add", !.port = p]
      BY Zenon
    <3>2. q.pc = "add" /\ q.name = req[r].name /\ q.reg = req[r].reg /\ q.node = req[r].node
      BY <1>0, <3>1, Zenon DEF Request
    <3>3. req' = [req EXCEPT ![r] = q]
      BY <2>3, <3>1, Zenon
    <3>4. req[r].name \in Names
      BY <2>1, RequestFacts, Zenon DEF Types, Unnamed
    <3>5. PICK d : d = [dir[req[r].name] EXCEPT !.key = req[r].node, !.port = p]
      BY Zenon
    <3>6. d.key = req[r].node /\ d.crt = dir[req[r].name].crt
      BY <1>0, <3>4, <3>5, Zenon DEF Subdir
    <3>7. dir' = [dir EXCEPT ![req[r].name] = d]
      BY <1>0, <2>3, <3>4, <3>5, Zenon
    <3>8. q.name \in torn \/ (dir'[q.name].crt = q.node /\ dir'[q.name].key = q.node)
      <4>1. LocalOf(r)
        BY <2>1, Zenon DEF Core, Local
      <4> QED  BY <1>0, <2>1, <3>2, <3>4, <3>6, <3>7, <4>1, Zenon DEF LocalOf
    <3> QED  BY <2>1, <3>2, <3>3, <3>7, <3>8, DirCore, Zenon DEF Holding
  <2> QED  BY <1>2, <2>2, <2>3, Zenon DEF WriteKeyAndConfig
<1>3. CASE RemoveDir(r)
  <2>1. /\ Core /\ req[r].pc = "rmdir" /\ UNCHANGED <<main, bak, phase, mem, acked, stale, torn>>
        /\ dir' = [dir EXCEPT ![req[r].name] = NoDir] /\ req' = [req EXCEPT ![r] = Idle]
    BY <1>3, Zenon DEF RemoveDir, At, Done, files, ghosts
  <2> QED  BY <1>0, <2>1, DirCore, Zenon
<1> QED  BY <1>1, <1>2, <1>3, Zenon

\* A process that is not stale works on what the file has.
LEMMA RegIsMain ==
    ASSUME Core, NEW r \in Procs, req[r].pc \in {"add", "leave", "forced"}, r = Cli \/ phase = "up",
           ProcOf(r) \notin stale
    PROVE  Same(Reg(r), main.reg)
<1>1. CASE r = Cli
  BY <1>1, Zenon DEF Core, Synced, CliSynced, Holding, Reg, ProcOf
<1>2. CASE r # Cli
  BY <1>2, Zenon DEF Core, Synced, AgentSynced, Reg, ProcOf
<1> QED  BY <1>1, <1>2, Zenon

\* After a save the other process is stale, if there is one that holds a registry.
LEMMA SavedSynced ==
    ASSUME NEW r \in Procs, NEW reg, SaveOk(ProcOf(r), reg), SetReg(r, reg), phase' = phase,
           r = Cli \/ phase = "up",
           r # Cli => req'[Cli] = req[Cli],
           r = Cli => req'[Cli].pc \notin Holding
    PROVE  Synced'
<1>1. main'.reg = reg /\ Same(reg, reg)
  BY Zenon DEF SaveOk, Write, Saved, Same, Within
<1>2. CASE r = Cli
  BY <1>2, Zenon DEF SaveOk, ProcOf, Synced, AgentSynced, CliSynced
<1>3. CASE r # Cli
  BY <1>1, <1>3, Zenon DEF SaveOk, Write, ProcOf, SetReg, Synced, AgentSynced, CliSynced, Holding
<1> QED  BY <1>2, <1>3, Zenon

LEMMA AddedCore ==
    ASSUME Types, clobbered \/ Core, ~clobbered', NEW r \in Procs, req[r].pc = "add", r = Cli \/ phase = "up",
           SetReg(r, Reg(r) \cup {NewEnrollment(r)}), SaveOk(ProcOf(r), Reg(r) \cup {NewEnrollment(r)}),
           AddAfter(r), acked' = acked \cup {req[r].node}, UNCHANGED <<dir, phase, torn>>
    PROVE  Core'
<1>1. PICK x : x = NewEnrollment(r)
  BY Zenon
<1>2. x.name = req[r].name /\ x.node = req[r].node
  BY <1>1, Zenon DEF NewEnrollment
<1>3. main'.st = "ok" /\ main'.reg = Reg(r) \cup {x} /\ Core /\ ProcOf(r) \notin stale
  BY <1>1, Zenon DEF SaveOk, Write, Saved
<1>4. Same(Reg(r), main.reg)
  BY <1>3, RegIsMain, Zenon
<1>5. PICK q : req' = [req EXCEPT ![r] = q] /\ q.pc \in {"idle", "service"}
  <2>1. CASE r = Cli
    <3>1. PICK q : q = [req[r] EXCEPT !.pc = "service"]
      BY Zenon
    <3>2. q.pc = "service"
      BY <3>1, RequestFacts, Zenon DEF Types, Request
    <3> QED  BY <2>1, <3>1, <3>2, Zenon DEF AddAfter, Goto
  <2>2. CASE r # Cli
    BY <2>2, IdleTypes, Zenon DEF AddAfter, Done
  <2> QED  BY <2>1, <2>2, Zenon
<1>6. req'[r] = q /\ \A s \in Procs : s # r => req'[s] = req[s]
  BY <1>5, OneMoves, Zenon DEF Types
<1>7. Files' /\ Kept'
  <2>1. \A k \in acked : \E e \in Reg(r) : e.node = k
    BY <1>3, <1>4 DEF Core, Kept, Same, Within
  <2> QED  BY <1>2, <1>3, <2>1, ZenonT(40) DEF Files, Kept
<1>8. Synced'
  BY <1>5, <1>6, SavedSynced, Zenon DEF Holding, Procs
<1>9. LocalOf(r) /\ req[r].pc \in Working
  BY <1>3, Zenon DEF Core, Local, Working
<1>10. Registered'
  <2>1. ASSUME NEW e \in Reg(r) PROVE e.name \in torn \/ (dir[e.name].crt = e.node /\ dir[e.name].key = e.node)
    <3>1. PICK f \in main.reg : f.name = e.name /\ f.node = e.node
      BY <1>4, Zenon DEF Same, Within
    <3> QED  BY <1>3, <3>1, Zenon DEF Core, Registered
  <2>2. x.name \in torn \/ (dir[x.name].crt = x.node /\ dir[x.name].key = x.node)
    BY <1>2, <1>9, Zenon DEF LocalOf
  <2> QED  BY <1>3, <2>1, <2>2, Zenon DEF Registered
<1>11. Local'
  <2>1. ASSUME NEW s \in Procs, s # r PROVE LocalOf(s)'
    <3>1. req'[s] = req[s] /\ LocalOf(s)
      BY <1>3, <1>6, <2>1, Zenon DEF Core, Local
    <3>2. ASSUME req[s].pc \in Working, Free(main.reg, req[s].name)
          PROVE  req[s].name \in torn \/ Free(main'.reg, req[s].name)
      <4>1. CASE req[s].name = req[r].name
        BY <1>3, <1>9, <2>1, <3>2, <4>1, Zenon DEF Core, Pairs
      <4>2. CASE req[s].name # req[r].name
        <5>1. Free(Reg(r), req[s].name)
          BY <1>4, <3>2, SameFacts, Zenon
        <5> QED  BY <1>2, <1>3, <4>2, <5>1, Zenon DEF Free
      <4> QED  BY <4>1, <4>2, Zenon
    <3> QED  BY <3>1, <3>2, Zenon DEF LocalOf, Working
  <2>2. LocalOf(r)'
    BY <1>5, <1>6, NeutralLocal DEF Neutral
  <2> QED  BY <2>1, <2>2, Zenon DEF Local
<1>12. Pairs'
  <2>1. \A s \in Procs : req'[s] = req[s] \/ req'[s].pc \in Neutral
    BY <1>5, <1>6, Zenon DEF Neutral
  <2> QED  BY <1>3, <2>1, PairsHeld, Zenon DEF Core
<1> QED  BY <1>7, <1>8, <1>10, <1>11, <1>12, Zenon DEF Core

LEMMA AddCore ==
    ASSUME Types, clobbered \/ Core, ~clobbered', NEW r \in Procs, Add(r)
    PROVE  Core'
<1>1. req[r].pc = "add" /\ (r = Cli \/ phase = "up") /\ UNCHANGED <<dir, phase, torn>>
  BY Zenon DEF Add, At
<1>2. CASE /\ SetReg(r, Reg(r) \cup {NewEnrollment(r)}) /\ SaveOk(ProcOf(r), Reg(r) \cup {NewEnrollment(r)})
           /\ AddAfter(r) /\ acked' = acked \cup {req[r].node}
  BY <1>1, <1>2, AddedCore, Zenon
<1>3. CASE /\ UNCHANGED <<main, bak, mem, clobbered, stale, acked>>
           /\ IF r = Cli THEN Done(r) ELSE Goto(r, "unwind")
  <2>1. CASE r = Cli
    BY <1>1, <1>3, <2>1, IdleTypes, DirCore, Zenon DEF Done, Neutral, Holding
  <2>2. CASE r # Cli
    <3>1. PICK q : q = [req[r] EXCEPT !.pc = "unwind"]
      BY Zenon
    <3>2. q.pc = "unwind" /\ q.name = req[r].name /\ q.reg = req[r].reg
      BY <3>1, RequestFacts, Zenon DEF Types, Request
    <3>3. req' = [req EXCEPT ![r] = q]
      BY <1>3, <2>2, <3>1, Zenon DEF Goto
    <3> QED  BY <1>1, <1>3, <3>2, <3>3, DirCore, Zenon DEF Holding
  <2> QED  BY <2>1, <2>2, Zenon
<1>4. \/ /\ SetReg(r, Reg(r) \cup {NewEnrollment(r)}) /\ SaveOk(ProcOf(r), Reg(r) \cup {NewEnrollment(r)})
         /\ AddAfter(r) /\ acked' = acked \cup {req[r].node}
      \/ /\ UNCHANGED <<main, bak, mem, clobbered, stale, acked>>
         /\ IF r = Cli THEN Done(r) ELSE Goto(r, "unwind")
  <2>1. SetReg(r, AfterFailedAdd(r)) => mem' = mem
    BY Zenon DEF SetReg, AfterFailedAdd, Reg
  <2> QED  BY <2>1, Zenon DEF Add, SaveFails, files
<1> QED  BY <1>2, <1>3, <1>4, Zenon

LEMMA RemovedCore ==
    ASSUME Types, clobbered \/ Core, ~clobbered', NEW r \in Procs, req[r].pc \in {"leave", "forced"},
           r = Cli \/ phase = "up", NEW gone, gone = Get(Reg(r), req[r].name),
           SetReg(r, Reg(r) \ gone), SaveOk(ProcOf(r), Reg(r) \ gone), RemoveAfter(r),
           acked' = acked \ {e.node : e \in gone},
           torn' = IF req[r].pc = "forced" /\ ~Others(r, req[r].name) THEN torn \ {req[r].name} ELSE torn,
           UNCHANGED <<dir, phase>>
    PROVE  Core'
<1>1. PICK n : n = req[r].name
  BY Zenon
<1>2. main'.st = "ok" /\ main'.reg = Reg(r) \ gone /\ Core /\ ProcOf(r) \notin stale
  BY Zenon DEF SaveOk, Write, Saved
<1>3. Same(Reg(r), main.reg)
  BY <1>2, RegIsMain, Zenon
<1>4. \A e \in main'.reg : e \in Reg(r) /\ e.name # n
  BY <1>1, <1>2, Zenon DEF Get
<1>5. PICK q : /\ req' = [req EXCEPT ![r] = q]
               /\ q.pc = IF req[r].pc = "forced" THEN "grant" ELSE "rmdir"
               /\ req[r].pc = "leave" => q.name = n
  <2>1. req[r] \in Request
    BY RequestFacts, Zenon DEF Types
  <2>2. CASE req[r].pc = "forced"
    <3>1. PICK q : q = [req[r] EXCEPT !.pc = "grant", !.name = req[r].want, !.want = 0]
      BY Zenon
    <3>2. q.pc = "grant"
      BY <2>1, <3>1, Zenon DEF Request
    <3>3. req' = [req EXCEPT ![r] = q]
      BY <2>2, <3>1, Zenon DEF RemoveAfter
    <3> QED  BY <2>2, <3>2, <3>3, Zenon
  <2>3. CASE req[r].pc = "leave"
    <3>1. PICK q : q = [req[r] EXCEPT !.pc = "rmdir"]
      BY Zenon
    <3>2. q.pc = "rmdir" /\ q.name = n
      BY <1>1, <2>1, <3>1, Zenon DEF Request
    <3> QED  BY <2>3, <3>1, <3>2, Zenon DEF RemoveAfter, Goto
  <2> QED  BY <2>2, <2>3, Zenon
<1>6. req'[r] = q /\ \A s \in Procs : s # r => req'[s] = req[s]
  BY <1>5, OneMoves, Zenon DEF Types
<1>7. \A m : m # n => (m \in torn <=> m \in torn')
  BY <1>1, Zenon
<1>8. Files' /\ Kept'
  <2>1. ASSUME NEW k \in acked' PROVE \E e \in main'.reg : e.node = k
    <3>1. PICK e \in main.reg : e.node = k
      BY <1>2, Zenon DEF Core, Kept
    <3>2. PICK f \in Reg(r) : f.node = k
      BY <1>3, <3>1, Zenon DEF Same, Within
    <3> QED  BY <1>2, <3>2, Zenon
  <2> QED  BY <1>2, <2>1, Zenon DEF Files, Kept
<1>9. Synced'
  BY <1>5, <1>6, SavedSynced, Zenon DEF Holding, Procs
<1>10. Registered'
  <2>1. ASSUME NEW e \in main'.reg
        PROVE  e.name \in torn' \/ (dir[e.name].crt = e.node /\ dir[e.name].key = e.node)
    <3>1. e \in Reg(r) /\ e.name # n
      BY <1>4, Zenon
    <3>2. PICK f \in main.reg : f.name = e.name /\ f.node = e.node
      BY <1>3, <3>1, Zenon DEF Same, Within
    <3> QED  BY <1>2, <1>7, <3>1, <3>2, Zenon DEF Core, Registered
  <2> QED  BY <2>1, Zenon DEF Registered
<1>11. ASSUME NEW s \in Procs, s # r, req[s].name = n, torn' # torn
       PROVE  req[s].pc \in {"idle", "grant", "service"}
  BY <1>1, <1>11, Zenon DEF Others
<1>12. Local'
  <2>1. ASSUME NEW s \in Procs, s # r PROVE LocalOf(s)'
    <3>1. req'[s] = req[s] /\ LocalOf(s)
      BY <1>2, <1>6, <2>1, Zenon DEF Core, Local
    <3>2. Free(main.reg, req[s].name) => Free(main'.reg, req[s].name)
      <4>1. Free(main.reg, req[s].name) => Free(Reg(r), req[s].name)
        BY <1>3, SameFacts, Zenon
      <4> QED  BY <1>4, <4>1, Zenon DEF Free
    <3>3. CASE torn' = torn \/ req[s].name # n
      <4>1. req[s].name \in torn => req[s].name \in torn'
        BY <1>7, <3>3, Zenon
      <4> QED  BY <3>1, <3>2, <4>1, Zenon DEF LocalOf
    <3>4. CASE torn' # torn /\ req[s].name = n
      BY <1>11, <2>1, <3>1, <3>4, NeutralLocal DEF Neutral
    <3> QED  BY <3>3, <3>4, Zenon
  <2>2. LocalOf(r)'
    <3>1. Free(main'.reg, n)
      BY <1>4, Zenon DEF Free
    <3> QED  BY <1>5, <1>6, <3>1, Zenon DEF LocalOf
  <2> QED  BY <2>1, <2>2, Zenon DEF Local
<1>13. Pairs'
  <2>1. SUFFICES ASSUME NEW s \in Procs, NEW t \in Procs, s # t,
                        req'[s].pc \in Working, req'[t].pc \in Working, req'[s].name = req'[t].name
                 PROVE  req'[s].name \in torn'
    BY Zenon DEF Pairs
  <2>2. \A u \in {s, t} : req[u].pc \in Working /\ req'[u].name = req[u].name
    BY <1>1, <1>5, <1>6, <2>1 DEF Working
  <2>3. req[s].name \in torn
    BY <1>2, <2>1, <2>2, Zenon DEF Core, Pairs
  <2>4. CASE torn' # torn /\ req[s].name = n
    <3>1. PICK u \in {s, t} : u # r
      BY <2>1, Zenon
    <3>2. req[u].name = n /\ req[u].pc \in Working
      BY <2>1, <2>2, <2>4, Zenon
    <3> QED  BY <1>11, <2>4, <3>1, <3>2, Zenon DEF Working
  <2> QED  BY <1>7, <2>2, <2>3, <2>4, Zenon
<1> QED  BY <1>8, <1>9, <1>10, <1>12, <1>13, Zenon DEF Core

LEMMA RemoveCore ==
    ASSUME Types, clobbered \/ Core, ~clobbered', NEW r \in Procs, Remove(r)
    PROVE  Core'
<1>1. req[r].pc \in {"leave", "forced"} /\ (r = Cli \/ phase = "up") /\ UNCHANGED <<dir, phase>>
  BY Zenon DEF Remove, At
<1>2. PICK gone : gone = Get(Reg(r), req[r].name)
  BY Zenon
<1>3. \/ /\ SetReg(r, Reg(r) \ gone) /\ SaveOk(ProcOf(r), Reg(r) \ gone)
         /\ RemoveAfter(r) /\ acked' = acked \ {e.node : e \in gone}
         /\ torn' = IF req[r].pc = "forced" /\ ~Others(r, req[r].name) THEN torn \ {req[r].name} ELSE torn
      \/ /\ UNCHANGED <<main, bak, mem, clobbered, stale, acked, torn>>
         /\ Done(r)
  BY <1>2, Zenon DEF Remove, SaveFails, files
<1>4. CASE /\ SetReg(r, Reg(r) \ gone) /\ SaveOk(ProcOf(r), Reg(r) \ gone)
           /\ RemoveAfter(r) /\ acked' = acked \ {e.node : e \in gone}
           /\ torn' = IF req[r].pc = "forced" /\ ~Others(r, req[r].name) THEN torn \ {req[r].name} ELSE torn
  BY <1>1, <1>2, <1>4, RemovedCore, Zenon
<1>5. CASE UNCHANGED <<main, bak, mem, clobbered, stale, acked, torn>> /\ Done(r)
  BY <1>1, <1>5, IdleTypes, NeutralStep, Zenon DEF Done, Neutral, Holding
<1> QED  BY <1>3, <1>4, <1>5, Zenon

LEMMA CliCore ==
    ASSUME Types, clobbered \/ Core, ~clobbered',
           \/ CliEnroll \/ ForceRemoveDir \/ CliGrant \/ InstallService \/ CliLeave
           \/ CliStop \/ CliAbort \/ RunRestart
    PROVE  Core'
<1>0. /\ Cli \in Procs /\ req[Cli] \in Request
      /\ Idle.pc \in Neutral \ Holding /\ Idle.pc \notin Holding
  BY RequestFacts, IdleTypes, Zenon DEF Types, Procs, Neutral, Holding
<1>s. ASSUME NEW q, StopAgentService(q)
      PROVE  /\ phase' = "down" \/ (phase' = phase /\ mem' = mem)
             /\ req'[Cli] = q
             /\ \A s \in Procs : s # Cli => req'[s] = req[s] \/ req'[s].pc \in Neutral
  <2>1. CASE phase' = "down" /\ req' = [r \in Procs |-> IF r = Cli THEN q ELSE Idle]
    BY <1>0, <2>1, Zenon
  <2>2. CASE req' = [req EXCEPT ![Cli] = q] /\ UNCHANGED <<phase, mem>>
    BY <1>0, <2>2, OneMoves, Zenon DEF Types
  <2> QED  BY <1>s, <2>1, <2>2, Zenon DEF StopAgentService
<1>1. CASE CliEnroll
  <2>1. /\ stale' = stale \ {"cli"}
        /\ UNCHANGED <<main, bak, dir, granted, node, acked, clobbered, torn>>
        /\ \E q : /\ EnrollBegins(q)
                  /\ \/ StopAgentService(q)
                     \/ req' = [req EXCEPT ![Cli] = q] /\ UNCHANGED <<phase, mem, flows, service, faults>>
    BY <1>1, CliEnrollSays, Zenon DEF Types
  <2>2. PICK q : /\ EnrollBegins(q)
                 /\ \/ StopAgentService(q)
                    \/ req' = [req EXCEPT ![Cli] = q] /\ UNCHANGED <<phase, mem, flows, service, faults>>
    BY <2>1, Zenon
  <2>3. q.pc \in {"idle", "grant", "force"} /\ (q.pc = "force" => q.reg = Loaded)
    BY <2>2, EnrollBeginsTypes, Zenon DEF Types
  <2>4. /\ phase' = "down" \/ (phase' = phase /\ mem' = mem)
        /\ req'[Cli] = q
        /\ \A s \in Procs : s # Cli => req'[s] = req[s] \/ req'[s].pc \in Neutral
    BY <1>0, <1>s, <2>2, OneMoves, Zenon DEF Types
  <2>5. AgentSynced' /\ CliSynced'
    BY <2>1, <2>3, <2>4, AgentStays, CliReads, Zenon DEF Types, Holding
  <2> QED  BY <2>1, <2>3, <2>4, <2>5, QuietStep, Zenon DEF Synced, Neutral
<1>2. CASE ForceRemoveDir
  <2>1. PICK n : n = req[Cli].name
    BY Zenon
  <2>2. /\ Core /\ req[Cli].pc = "force" /\ UNCHANGED <<main, bak, phase, mem, acked, stale>>
        /\ dir' = [dir EXCEPT ![n] = NoDir] /\ torn' = torn \cup {n} /\ Goto(Cli, "forced")
    BY <1>2, <2>1, Zenon DEF ForceRemoveDir, At, files
  <2>3. PICK q : q = [req[Cli] EXCEPT !.pc = "forced"]
    BY Zenon
  <2>4. q.pc = "forced" /\ q.name = n /\ q.reg = req[Cli].reg
    BY <1>0, <2>1, <2>3, Zenon DEF Request
  <2>5. req'[Cli] = q /\ \A s \in Procs : s # Cli => req'[s] = req[s]
    BY <1>0, <2>2, <2>3, OneMoves, Zenon DEF Types, Goto
  <2>6. \A m \in Names : m # n => dir'[m] = dir[m]
    BY <2>2, Zenon DEF Types, StoreTypes
  <2>7. Files' /\ Kept'
    BY <2>2, Zenon DEF Core, Files, Kept
  <2>8. Registered'
    <3>1. \A e \in main.reg : e.name \in Names
      BY Zenon DEF Types, StoreTypes, File, Entry
    <3> QED  BY <2>2, <2>6, <3>1, Zenon DEF Core, Registered
  <2>9. Local'
    <3>1. ASSUME NEW s \in Procs, s # Cli PROVE LocalOf(s)'
      <4>1. req'[s] = req[s] /\ LocalOf(s) /\ (req[s].pc \notin Unnamed => req[s].name \in Names)
        BY <2>2, <2>5, <3>1, RequestFacts, Zenon DEF Core, Local, Types
      <4>2. CASE req[s].name = n
        BY <2>2, <4>1, <4>2, Zenon DEF LocalOf
      <4>3. CASE req[s].name # n
        BY <2>2, <2>6, <4>1, <4>3, Zenon DEF LocalOf, Unnamed
      <4> QED  BY <4>2, <4>3, Zenon
    <3>2. LocalOf(Cli)'
      BY <2>2, <2>4, <2>5, Zenon DEF LocalOf
    <3> QED  BY <3>1, <3>2, Zenon DEF Local
  <2>10. Pairs'
    BY <2>2, <2>4, <2>5 DEF Core, Pairs, Working
  <2>11. Synced'
    BY <2>2, <2>4, <2>5, AgentStays, CliStays, Zenon DEF Synced, Holding
  <2> QED  BY <2>7, <2>8, <2>9, <2>10, <2>11, Zenon DEF Core
<1>3. CASE CliGrant
  <2>1. /\ Core /\ UNCHANGED <<main, bak, dir, phase, mem, acked, torn, stale>>
        /\ (\E net \in Nets : Grant(Cli, req[Cli].name, net, NoCode)) \/ Done(Cli)
    BY <1>3, Zenon DEF CliGrant, files, ghosts
  <2>2. CASE Done(Cli)
    BY <1>0, <2>1, <2>2, NeutralStep, Zenon DEF Done
  <2>3. ASSUME NEW net \in Nets, Grant(Cli, req[Cli].name, net, NoCode) PROVE Core'
    <3>1. PICK q : q = [pc |-> "install", name |-> req[Cli].name, net |-> net, node |-> node + 1,
                        port |-> 0, code |-> NoCode, want |-> 0, reg |-> {}]
      BY Zenon
    <3>2. req' = [req EXCEPT ![Cli] = q] /\ q.pc \in Neutral \ Holding
      BY <2>3, <3>1, Zenon DEF Grant, Neutral, Holding
    <3> QED  BY <1>0, <2>1, <3>2, NeutralStep, Zenon
  <2> QED  BY <2>1, <2>2, <2>3, Zenon
<1>4. CASE InstallService
  <2>1. /\ Core /\ UNCHANGED <<main, bak, dir, acked, torn>>
        /\ \/ phase' = "down" /\ stale' = stale \ {"agent"} /\ req' = [r \in Procs |-> Idle]
           \/ Done(Cli) /\ UNCHANGED <<phase, mem, stale>>
    BY <1>4, Zenon DEF InstallService, files
  <2>2. CASE Done(Cli) /\ UNCHANGED <<phase, mem, stale>>
    BY <1>0, <2>1, <2>2, NeutralStep, Zenon DEF Done
  <2>3. CASE phase' = "down" /\ stale' = stale \ {"agent"} /\ req' = [r \in Procs |-> Idle]
    <3>1. \A s \in Procs : req'[s].pc \in Neutral
      BY <1>0, <2>3, Zenon
    <3>2. AgentSynced' /\ CliSynced'
      BY <1>0, <2>3, Zenon DEF AgentSynced, CliSynced
    <3> QED  BY <2>1, <3>1, <3>2, QuietStep, Zenon DEF Synced
  <2> QED  BY <2>1, <2>2, <2>3, Zenon
<1>5. CASE CliLeave
  <2>1. /\ Core /\ UNCHANGED <<main, bak, dir, phase, mem, acked, torn>> /\ stale' = stale \ {"cli"}
    BY <1>5, Zenon DEF CliLeave, CliLoad, files
  <2>2. PICK e \in Loaded : req' = [req EXCEPT ![Cli] = Doing("stop", e.name, Loaded)]
    BY <1>5, Zenon DEF CliLeave
  <2>3. PICK q : q = Doing("stop", e.name, Loaded)
    BY Zenon
  <2>4. q.pc = "stop" /\ q.reg = Loaded
    BY <2>3, Zenon DEF Doing
  <2>5. req'[Cli] = q /\ \A s \in Procs : s # Cli => req'[s] = req[s]
    BY <1>0, <2>2, <2>3, OneMoves, Zenon DEF Types
  <2>6. AgentSynced' /\ CliSynced'
    BY <2>1, <2>4, <2>5, AgentStays, CliReads, Zenon DEF Types
  <2> QED  BY <2>1, <2>4, <2>5, <2>6, QuietStep, Zenon DEF Synced, Neutral
<1>6. CASE CliStop
  <2>1. PICK n : n = req[Cli].name
    OBVIOUS
  <2>2. PICK q : q = [req[Cli] EXCEPT !.pc = "leave"]
    BY Zenon
  <2>3. q.pc = "leave" /\ q.name = n /\ q.reg = req[Cli].reg
    BY <1>0, <2>1, <2>2, Zenon DEF Request
  <2>4. /\ Core /\ UNCHANGED <<main, bak, dir, acked, stale>> /\ req[Cli].pc = "stop"
        /\ StopAgentService(q) /\ Touch(Cli, n)
    BY <1>6, <2>1, <2>2, Zenon DEF CliStop, At, files
  <2>5. /\ phase' = "down" \/ (phase' = phase /\ mem' = mem)
        /\ req'[Cli] = q
        /\ \A s \in Procs : s # Cli => req'[s] = req[s] \/ req'[s].pc \in Neutral
    BY <1>s, <2>4, Zenon
  <2>6. torn \subseteq torn' /\ (Others(Cli, n) => n \in torn')
    BY <2>4, Zenon DEF Touch
  <2>7. \A s \in Procs : s # Cli /\ req[s].pc \in Working /\ req[s].name = n => n \in torn'
    BY <2>6 DEF Others, Working
  <2>8. LocalOf(Cli)'
    BY <2>3, <2>5, Zenon DEF LocalOf
  <2>9. AgentSynced' /\ CliSynced'
    BY <2>3, <2>4, <2>5, AgentStays, CliStays, Zenon DEF Holding
  <2> QED  BY <1>0, <2>3, <2>4, <2>5, <2>6, <2>7, <2>8, <2>9, EnterStep, Zenon DEF Synced
<1>7. CASE CliAbort
  <2>1. Core /\ UNCHANGED <<main, bak, dir, phase, mem, acked, torn, stale>> /\ Done(Cli)
    BY <1>7, Zenon DEF CliAbort, files, ghosts
  <2> QED  BY <1>0, <2>1, NeutralStep, Zenon DEF Done
<1>8. CASE RunRestart
  <2>1. Core /\ UNCHANGED <<main, bak, dir, phase, mem, acked, torn, stale, req>>
    BY <1>8, Zenon DEF RunRestart, files, ghosts
  <2>2. Synced'
    BY <2>1, AgentStays, CliStays, Zenon DEF Synced
  <2> QED  BY <2>1, <2>2, QuietStep, Zenon
<1> QED  BY <1>1, <1>2, <1>3, <1>4, <1>5, <1>6, <1>7, <1>8, Zenon

LEMMA CoreStep == ASSUME StoreInv, [Next]_vars PROVE clobbered' \/ Core'
<1>1. CASE clobbered'
  BY <1>1, Zenon
<1>2. CASE ~clobbered' /\ Next
  <2>1. Types /\ (clobbered \/ Core)
    BY Zenon DEF StoreInv
  <2>2. CASE Boot \/ MigrateListenPorts \/ MigrateYAML \/ Crash \/ Corrupt \/ EnrollDeviceFlowStart \/ SaveSettings
    BY <1>2, <2>1, <2>2, AgentCore, Zenon
  <2>3. CASE \E r \in Requests : \/ EnrollDeviceFlowPoll(r) \/ EnrollToken(r) \/ Leave(r) \/ Unwind(r)
                                \/ HeartbeatLoads(r) \/ SetNetworkID(r)
    BY <1>2, <2>1, <2>3, ApiCore, Zenon
  <2>4. CASE \E r \in Procs : Install(r) \/ WriteCrt(r) \/ WriteKeyAndConfig(r) \/ Add(r) \/ Remove(r) \/ RemoveDir(r)
    BY <1>2, <2>1, <2>4, InstallCore, WriteCore, AddCore, RemoveCore, Zenon
  <2>5. CASE \/ CliEnroll \/ ForceRemoveDir \/ CliGrant \/ InstallService \/ CliLeave
             \/ CliStop \/ CliAbort \/ RunRestart
    BY <1>2, <2>1, <2>5, CliCore, Zenon
  <2> QED  BY <1>2, <2>2, <2>3, <2>4, <2>5, Zenon DEF Next
<1>3. CASE ~clobbered' /\ UNCHANGED vars
  <2>1. Core /\ UNCHANGED <<main, bak, dir, phase, mem, acked, torn, stale, req>>
    BY <1>3, Zenon DEF vars, ghosts, StoreInv
  <2>2. Synced'
    BY <2>1, AgentStays, CliStays, Zenon DEF Synced
  <2>3. Core'
    BY <2>1, <2>2, QuietStep, Zenon
  <2> QED  BY <2>3, Zenon
<1> QED  BY <1>1, <1>2, <1>3, Zenon

LEMMA CoreInit == ASSUME Init PROVE Core
<1>1. PICK k \in 0..2, p \in {0, BasePort} :
        LET old == {[name |-> i, node |-> i, net |-> i, port |-> p] : i \in 1..k} IN
        /\ main = [st |-> IF k = 0 THEN "missing" ELSE "ok", reg |-> old] /\ bak = main
        /\ dir = [n \in Names |-> IF n <= k THEN [crt |-> n, key |-> n, port |-> BasePort] ELSE NoDir]
        /\ node = k /\ acked = 1..k
  BY Zenon DEF Init
<1>2. /\ main.st = IF k = 0 THEN "missing" ELSE "ok"
      /\ main.reg = {[name |-> i, node |-> i, net |-> i, port |-> p] : i \in 1..k}
  BY <1>1, Zenon
<1>3. Files
  <2>1. k = 0 => 1..k = {}
    OBVIOUS
  <2> QED  BY <1>1, <1>2, <2>1, Zenon DEF Files
<1>4. \A r \in Procs : req[r].pc = "idle"
  BY IdleTypes, Zenon DEF Init
<1>5. Synced /\ Local /\ Pairs
  <2>1. Cli \in Procs /\ phase = "down"
    BY Zenon DEF Init, Procs
  <2> QED  BY <1>4, <2>1, Zenon DEF Synced, AgentSynced, CliSynced, Holding, Local, LocalOf, Pairs, Working
<1>6. Registered
  <2>1. \A i \in 1..k : i \in Names /\ i <= k
    BY EnrollStoreAssumption DEF Names
  <2>2. \A i \in 1..k : dir[i].crt = i /\ dir[i].key = i
    BY <1>1, <2>1, Zenon
  <2> QED  BY <1>2, <2>2 DEF Registered
<1>7. Kept
  <2>1. ASSUME NEW i \in 1..k PROVE \E e \in main.reg : e.node = i
    <3>1. PICK e : e = [name |-> i, node |-> i, net |-> i, port |-> p]
      BY Zenon
    <3>2. e \in main.reg /\ e.node = i
      BY <1>2, <3>1, Zenon
    <3> QED  BY <3>2, Zenon
  <2>2. acked = 1..k
    BY <1>1, Zenon
  <2> QED  BY <2>1, <2>2, Zenon DEF Kept
<1> QED  BY <1>3, <1>5, <1>6, <1>7, Zenon DEF Core

\* The inductive invariant holds of every behaviour of the agent and the command.
THEOREM StoreInvariance == Spec => []StoreInv
<1>1. Init => StoreInv
  BY TypesInit, CoreInit, Zenon DEF StoreInv
<1>2. StoreInv /\ [Next]_vars => StoreInv'
  BY TypesStep, CoreStep, Zenon DEF StoreInv
<1> QED  BY <1>1, <1>2, PTL DEF Spec

\* enrollments.go: whatever crashes, failing writes and damaged files there are, a
\* restart reads every enrollment that was reported as done and not left, unless
\* a process or a heartbeat overwrote what another saved or the backup was behind.
THEOREM AckedAlwaysSurvive == Spec => []AckedSurvive
  BY StoreInvariance, CoreSays, PTL

\* installEnrollment, handleLeave, handleForce: an enrollment in the registry has
\* its own certificate and key, unless operations on its name overlapped.
THEOREM RegisteredAlwaysComplete == Spec => []RegisteredHasCredentials
  BY StoreInvariance, CoreSays, PTL

-----------------------------------------------------------------------------
\* The names and the nodes of a registry.

Unique(reg) == \A e, f \in reg : e.name = f.name \/ e.node = f.node => e = f

\* The requests whose node is in no registry yet.
Pending == {"install", "crt", "key", "add"}
Good(reg) ==
  /\ Unique(reg)
  /\ \A e \in reg : e.node <= node
  /\ \A r \in Procs : req[r].pc \in Pending => \A e \in reg : e.node # req[r].node
PendingDiffer ==
  /\ \A r \in Procs : req[r].pc \in Pending => req[r].node <= node
  /\ \A r, s \in Procs :
       r # s /\ req[r].pc \in Pending /\ req[s].pc \in Pending => req[r].node # req[s].node
AllGood == Good(mem) /\ Good(main.reg) /\ Good(bak.reg) /\ \A r \in Procs : Good(req[r].reg)

PortInv == Types /\ AllGood /\ PendingDiffer

\* No request comes by a node in the step.
Held == \A s \in Procs : req'[s].pc \in Pending => req[s].pc \in Pending /\ req'[s].node = req[s].node

LEMMA GoodHeld == ASSUME NEW x, Good(x), Held, node' = node PROVE Good(x)'
  BY Zenon DEF Good, Held

LEMMA GoodSubset == ASSUME NEW x, NEW y, Good(y), x \subseteq y PROVE Good(x)
  BY Zenon DEF Good, Unique

\* A step in which no request comes by a node; the registries after it were good before it.
LEMMA GoodStep ==
    ASSUME PendingDiffer, Held, node' = node,
           Good(mem'), Good(main'.reg), Good(bak'.reg), \A s \in Procs : Good(req'[s].reg)
    PROVE  AllGood' /\ PendingDiffer'
<1>1. PendingDiffer'
  BY Zenon DEF PendingDiffer, Held
<1>2. \A x \in {mem', main'.reg, bak'.reg} : Good(x)'
  BY GoodHeld, Zenon
<1>3. \A s \in Procs : Good(req[s].reg)'
  <2>1. ASSUME NEW s \in Procs PROVE Good(req[s].reg)'
    <3>1. PICK x : x = req'[s].reg
      BY Zenon
    <3>2. Good(x)'
      BY <3>1, GoodHeld, Zenon
    <3> QED  BY <3>1, <3>2, Zenon DEF Good
  <2> QED  BY <2>1, Zenon
<1> QED  BY <1>1, <1>2, <1>3, Zenon DEF AllGood, Good

LEMMA OneHeld ==
    ASSUME RequestTypes, NEW r \in Procs, NEW q, req' = [req EXCEPT ![r] = q],
           q.pc \in Pending => req[r].pc \in Pending /\ q.node = req[r].node
    PROVE  Held
  BY OneMoves DEF Held

\* A request is granted the next node.
LEMMA GrantGood ==
    ASSUME Types, AllGood, PendingDiffer, NEW r \in Procs, NEW x, NEW net, NEW c, Grant(r, x, net, c),
           UNCHANGED <<mem, main, bak>>
    PROVE  AllGood' /\ PendingDiffer'
<1>1. node \in Nat /\ node' = node + 1
  BY Zenon DEF Grant, Types, StoreTypes
<1>2. PICK q : q = [pc |-> "install", name |-> x, net |-> net, node |-> node + 1,
                    port |-> 0, code |-> c, want |-> 0, reg |-> {}]
  BY Zenon
<1>3. q.pc = "install" /\ q.node = node + 1 /\ q.reg = {}
  BY <1>2, Zenon
<1>4. req' = [req EXCEPT ![r] = q]
  BY <1>2, Zenon DEF Grant
<1>5. req'[r] = q /\ \A s \in Procs : s # r => req'[s] = req[s]
  BY <1>4, OneMoves, Zenon DEF Types
<1>6. \A s \in Procs : req[s].node \in Nat
  BY Zenon DEF Types, RequestTypes, Request
<1>7. PendingDiffer'
  BY <1>1, <1>3, <1>5, <1>6 DEF PendingDiffer
<1>8. ASSUME NEW reg \in SUBSET Entry, Good(reg) PROVE Good(reg)'
  <2>1. \A e \in reg : e.node \in Nat /\ e.node <= node
    BY <1>8, Zenon DEF Good, Entry
  <2> QED  BY <1>1, <1>3, <1>5, <1>8, <2>1 DEF Good
<1>9. {} \in SUBSET Entry /\ Good({})
  BY Zenon DEF Good, Unique
<1>10. mem \in SUBSET Entry /\ main.reg \in SUBSET Entry /\ bak.reg \in SUBSET Entry
       /\ \A s \in Procs : req[s].reg \in SUBSET Entry
  BY RequestFacts, Zenon DEF Types, StoreTypes, File, Request
<1>11. Good(mem)' /\ Good(main.reg)' /\ Good(bak.reg)'
  <2>1. \A reg \in {mem, main.reg, bak.reg} : reg \in SUBSET Entry /\ Good(reg)
    BY <1>10, Zenon DEF AllGood
  <2>2. \A reg \in {mem, main.reg, bak.reg} : Good(reg)'
    BY <1>8, <2>1, Zenon
  <2> QED  BY <2>2, Zenon DEF Good
<1>12. ASSUME NEW s \in Procs PROVE Good(req[s].reg)'
  <2>1. req'[s].reg \in {req[s].reg, {}}
    BY <1>3, <1>5, Zenon
  <2>2. \A reg \in {req[s].reg, {}} : reg \in SUBSET Entry /\ Good(reg)
    BY <1>9, <1>10, Zenon DEF AllGood
  <2>3. \A reg \in {req[s].reg, {}} : Good(reg)'
    BY <1>8, <2>2, Zenon
  <2> QED  BY <2>1, <2>3, Zenon DEF Good
<1> QED  BY <1>7, <1>11, <1>12, Zenon DEF AllGood

LEMMA ReassignGood ==
    ASSUME NEW reg \in SUBSET Entry, NEW S \in SUBSET reg, Good(reg)
    PROVE  Good(Reassign(reg, S))
<1> DEFINE New(e) == [e EXCEPT !.port = FreePort(reg, Cardinality({f \in S : f.node < e.node}))]
<1>1. ASSUME NEW e \in S PROVE New(e).name = e.name /\ New(e).node = e.node
  BY Zenon DEF Entry
<1>2. Reassign(reg, S) = (reg \ S) \cup {New(e) : e \in S}
  BY Zenon DEF Reassign
<1> HIDE DEF New
<1>3. ASSUME NEW x \in Reassign(reg, S)
      PROVE  \E e \in reg : /\ x.name = e.name /\ x.node = e.node
                            /\ x = IF e \in S THEN New(e) ELSE e
  BY <1>1, <1>2, Zenon
<1>4. Unique(Reassign(reg, S))
  <2>1. SUFFICES ASSUME NEW x \in Reassign(reg, S), NEW y \in Reassign(reg, S),
                        x.name = y.name \/ x.node = y.node
                 PROVE  x = y
    BY Zenon DEF Unique
  <2>2. PICK e \in reg : x.name = e.name /\ x.node = e.node /\ x = IF e \in S THEN New(e) ELSE e
    BY <1>3, Zenon
  <2>3. PICK f \in reg : y.name = f.name /\ y.node = f.node /\ y = IF f \in S THEN New(f) ELSE f
    BY <1>3, Zenon
  <2>4. e = f
    BY <2>1, <2>2, <2>3 DEF Good, Unique
  <2> QED  BY <2>2, <2>3, <2>4, Zenon
<1>5. \A x \in Reassign(reg, S) : \E e \in reg : x.node = e.node
  BY <1>3, Zenon
<1> QED  BY <1>4, <1>5, Zenon DEF Good

LEMMA MigrationGood ==
    ASSUME StoreTypes, Good(mem)
    PROVE  /\ Good(AssignMissingListenPorts(mem))
           /\ Good(HealDuplicateListenPorts(AssignMissingListenPorts(mem)))
<1>1. ASSUME NEW reg \in SUBSET Entry, Good(reg)
      PROVE  Good(AssignMissingListenPorts(reg)) /\ Good(HealDuplicateListenPorts(reg))
  BY <1>1, ReassignGood, Zenon DEF AssignMissingListenPorts, HealDuplicateListenPorts
<1>2. mem \in SUBSET Entry /\ AssignMissingListenPorts(mem) \in SUBSET Entry
  BY MigrationTypes, Zenon DEF StoreTypes
<1> QED  BY <1>1, <1>2, Zenon

LEMMA LoadedGood == ASSUME AllGood PROVE Good(Loaded) /\ Good({})
  BY Zenon DEF AllGood, Loaded, Good, Unique

LEMMA WriteGoodReg ==
    ASSUME AllGood, NEW reg, Good(reg), Write(reg)
    PROVE  Good(main'.reg) /\ Good(bak'.reg)
  BY DEF AllGood, Write, Saved

LEMMA SaveGood ==
    ASSUME AllGood, NEW proc, NEW reg, Good(reg), SaveOk(proc, reg)
    PROVE  Good(main'.reg) /\ Good(bak'.reg)
  BY WriteGoodReg, Zenon DEF SaveOk

LEMMA AgentGood ==
    ASSUME PortInv,
           Boot \/ MigrateListenPorts \/ MigrateYAML \/ Crash \/ Corrupt \/ EnrollDeviceFlowStart \/ SaveSettings
    PROVE  AllGood' /\ PendingDiffer'
<1> USE DEF PortInv
<1>0. Good(Loaded) /\ Good({}) /\ Cli \in Procs
      /\ Good(mem) /\ Good(main.reg) /\ Good(bak.reg) /\ \A s \in Procs : Good(req[s].reg)
  BY LoadedGood, Zenon DEF Procs, AllGood
<1>1. CASE Boot
  BY <1>0, <1>1, GoodStep DEF Boot, Held, files
<1>2. CASE MigrateListenPorts
  <2> DEFINE a == AssignMissingListenPorts(mem)
             h == HealDuplicateListenPorts(a)
  <2>1. Good(a) /\ Good(h)
    BY <1>0, MigrationGood, Zenon DEF Types
  <2>2. req' = req /\ node' = node
    BY <1>2, Zenon DEF MigrateListenPorts
  <2> HIDE DEF a, h
  <2>3. mem' \in {mem, a, h}
    BY <1>2, Zenon DEF MigrateListenPorts, a, h
  <2>4. \/ UNCHANGED <<main, bak>>
        \/ SaveOk("agent", h)
        \/ main' = Saved(a) /\ bak' = Saved(a)
    BY <1>2, Zenon DEF MigrateListenPorts, SaveFails, files, a, h
  <2>5. Good(main'.reg) /\ Good(bak'.reg)
    BY <1>0, <2>1, <2>4, SaveGood DEF Saved
  <2> QED  BY <1>0, <2>1, <2>2, <2>3, <2>5, GoodStep DEF Held
<1>y. CASE MigrateYAML
  BY <1>0, <1>y, GoodStep DEF MigrateYAML, Held, files
<1>3. CASE Crash
  <2>1. UNCHANGED <<main, bak, node>> /\ mem' = {} /\ req' = [r \in Procs |-> IF r = Cli THEN req[r] ELSE Idle]
    BY <1>3, Zenon DEF Crash, Down, files
  <2>2. Held /\ \A s \in Procs : req'[s].reg \in {req[s].reg, {}}
    BY <1>0, <2>1, IdleTypes, Zenon DEF Held, Pending
  <2>3. \A s \in Procs : Good(req'[s].reg)
    BY <1>0, <2>2, Zenon
  <2> QED  BY <1>0, <2>1, <2>2, <2>3, GoodStep, Zenon
<1>4. CASE Corrupt
  <2>1. main'.reg = main.reg /\ UNCHANGED <<bak, mem, req, node>>
    BY <1>4, Zenon DEF Corrupt, Types, StoreTypes, File
  <2> QED  BY <1>0, <2>1, GoodStep, Zenon DEF Held
<1>5. CASE EnrollDeviceFlowStart
  BY <1>0, <1>5, GoodStep DEF EnrollDeviceFlowStart, Held, files
<1>6. CASE SaveSettings
  <2>1. UNCHANGED <<mem, req, node>> /\ (SaveOk("agent", mem) \/ UNCHANGED <<main, bak>>)
    BY <1>6, Zenon DEF SaveSettings, SaveFails
  <2>2. Good(main'.reg) /\ Good(bak'.reg)
    BY <1>0, <2>1, SaveGood
  <2> QED  BY <1>0, <2>1, <2>2, GoodStep, Zenon DEF Held
<1> QED  BY <1>1, <1>2, <1>y, <1>3, <1>4, <1>5, <1>6

\* One request moves, without another node and with a registry that was good.
LEMMA MoveGood ==
    ASSUME PortInv, NEW r \in Procs, NEW q, req' = [req EXCEPT ![r] = q], node' = node,
           q.pc \in Pending => req[r].pc \in Pending /\ q.node = req[r].node,
           Good(q.reg), Good(mem'), Good(main'.reg), Good(bak'.reg)
    PROVE  AllGood' /\ PendingDiffer'
<1>1. req'[r] = q /\ \A s \in Procs : s # r => req'[s] = req[s]
  BY OneMoves, Zenon DEF PortInv, Types
<1>2. Held
  BY OneHeld, Zenon DEF PortInv, Types
<1>3. \A s \in Procs : Good(req'[s].reg)
  BY <1>1, Zenon DEF PortInv, AllGood
<1> QED  BY <1>2, <1>3, GoodStep, Zenon DEF PortInv

LEMMA DoneGood ==
    ASSUME PortInv, NEW r \in Procs, Done(r), node' = node, Good(mem'), Good(main'.reg), Good(bak'.reg)
    PROVE  AllGood' /\ PendingDiffer'
<1>1. Good(Idle.reg) /\ Idle.pc \notin Pending
  BY IdleTypes, LoadedGood, Zenon DEF PortInv, Pending
<1> QED  BY <1>1, MoveGood, Zenon DEF Done

LEMMA GotoGood ==
    ASSUME PortInv, NEW r \in Procs, NEW p, Goto(r, p), p \in Pending => req[r].pc \in Pending,
           node' = node, Good(mem'), Good(main'.reg), Good(bak'.reg)
    PROVE  AllGood' /\ PendingDiffer'
<1>1. PICK q : q = [req[r] EXCEPT !.pc = p]
  BY Zenon
<1>2. q.pc = p /\ q.node = req[r].node /\ q.reg = req[r].reg
  BY <1>1, RequestFacts, Zenon DEF PortInv, Types, Request
<1>3. req' = [req EXCEPT ![r] = q]
  BY <1>1, Zenon DEF Goto
<1> QED  BY <1>2, <1>3, MoveGood, Zenon DEF PortInv, AllGood


LEMMA DoingFields ==
    ASSUME NEW p, NEW n, NEW reg PROVE Doing(p, n, reg).pc = p /\ Doing(p, n, reg).reg = reg
  BY Zenon DEF Doing

LEMMA ApiGood ==
    ASSUME PortInv, NEW r \in Requests,
           \/ EnrollDeviceFlowPoll(r) \/ EnrollToken(r) \/ Leave(r) \/ Unwind(r)
           \/ HeartbeatLoads(r) \/ SetNetworkID(r)
    PROVE  AllGood' /\ PendingDiffer'
<1>0. r \in Procs /\ r # Cli /\ Good(mem) /\ Good(main.reg) /\ Good(bak.reg)
      /\ Good(req[r].reg) /\ Good(Loaded) /\ Good({})
  BY EnrollStoreAssumption, LoadedGood, Zenon DEF Procs, PortInv, AllGood
<1>1. CASE EnrollDeviceFlowPoll(r)
  <2>1. /\ UNCHANGED <<mem, main, bak>>
        /\ (\E x, net, c : Grant(r, x, net, c)) \/ (req' = req /\ node' = node)
    BY <1>1, Zenon DEF EnrollDeviceFlowPoll, files
  <2>2. CASE req' = req /\ node' = node
    BY <1>0, <2>1, <2>2, GoodStep, Zenon DEF Held, PortInv, AllGood
  <2> QED  BY <1>0, <2>1, <2>2, GrantGood DEF PortInv
<1>2. CASE EnrollToken(r)
  <2>1. UNCHANGED <<mem, main, bak>> /\ \E x, net, c : Grant(r, x, net, c)
    BY <1>2, ZenonT(40) DEF EnrollToken, files
  <2> QED  BY <1>0, <2>1, GrantGood, Zenon DEF PortInv
<1>3. CASE Leave(r)
  <2>1. UNCHANGED <<mem, main, bak, node>> /\ \E e \in mem : req' = [req EXCEPT ![r] = Doing("leave", e.name, {})]
    BY <1>3, Zenon DEF Leave, files
  <2>2. PICK e \in mem : req' = [req EXCEPT ![r] = Doing("leave", e.name, {})]
    BY <2>1, Zenon
  <2>3. PICK q : q = Doing("leave", e.name, {}) /\ q.pc = "leave" /\ q.reg = {}
    BY DoingFields
  <2> QED  BY <1>0, <2>1, <2>2, <2>3, MoveGood, Zenon DEF Pending
<1>4. CASE Unwind(r)
  BY <1>0, <1>4, DoneGood, Zenon DEF Unwind, files
<1>5. CASE HeartbeatLoads(r)
  <2>1. PICK q : q = Doing("beat", 0, Loaded) /\ q.pc = "beat" /\ q.reg = Loaded
    BY DoingFields
  <2>2. UNCHANGED <<mem, main, bak, node>> /\ req' = [req EXCEPT ![r] = q]
    BY <1>5, <2>1, Zenon DEF HeartbeatLoads, files
  <2> QED  BY <1>0, <2>1, <2>2, MoveGood, Zenon DEF Pending
<1>6. CASE SetNetworkID(r)
  <2>1. mem' = mem /\ node' = node /\ Done(r) /\ (Write(req[r].reg) \/ UNCHANGED <<main, bak>>)
    BY <1>6, Zenon DEF SetNetworkID, files
  <2>2. Good(main'.reg) /\ Good(bak'.reg)
    BY <1>0, <2>1, WriteGoodReg, Zenon DEF PortInv
  <2> QED  BY <1>0, <2>1, <2>2, DoneGood, Zenon
<1> QED  BY <1>1, <1>2, <1>3, <1>4, <1>5, <1>6, Zenon

LEMMA InstallGood ==
    ASSUME PortInv, NEW r \in Procs, Install(r)
    PROVE  AllGood' /\ PendingDiffer'
<1>1. UNCHANGED <<mem, main, bak, node>> /\ req[r].pc = "install"
  BY Zenon DEF Install, At, files
<1>2. Good(mem') /\ Good(main'.reg) /\ Good(bak'.reg)
  BY <1>1, Zenon DEF PortInv, AllGood
<1>r. PICK reg : reg = IF r = Cli THEN Loaded ELSE mem
  BY ZenonT(40)
<1>3. \/ Done(r)
      \/ \E n : req' = [req EXCEPT ![r].pc = "crt", ![r].name = n, ![r].reg = IF r = Cli THEN reg ELSE {}]
  BY <1>r, InstallSays, ZenonT(40)
<1>4. CASE Done(r)
  BY <1>1, <1>2, <1>4, DoneGood, Zenon
<1>5. ASSUME NEW n, req' = [req EXCEPT ![r].pc = "crt", ![r].name = n, ![r].reg = IF r = Cli THEN reg ELSE {}]
      PROVE  AllGood' /\ PendingDiffer'
  <2>1. PICK q : q = [req[r] EXCEPT !.pc = "crt", !.name = n, !.reg = IF r = Cli THEN reg ELSE {}]
    BY Zenon
  <2>2. q.node = req[r].node /\ q.reg = IF r = Cli THEN reg ELSE {}
    BY <2>1, RequestFacts, Zenon DEF PortInv, Types, Request
  <2>3. req' = [req EXCEPT ![r] = q]
    BY <1>5, <2>1, Zenon
  <2>4. Good(q.reg)
    BY <1>r, <2>2, LoadedGood, Zenon DEF PortInv
  <2> QED  BY <1>1, <1>2, <2>2, <2>3, <2>4, MoveGood, Zenon DEF Pending
<1> QED  BY <1>3, <1>4, <1>5, Zenon

LEMMA WriteGood ==
    ASSUME PortInv, NEW r \in Procs, WriteCrt(r) \/ WriteKeyAndConfig(r)
    PROVE  AllGood' /\ PendingDiffer'
<1>1. UNCHANGED <<mem, main, bak, node>> /\ req[r].pc \in Pending
  BY Zenon DEF WriteCrt, WriteKeyAndConfig, At, files, Pending
<1>2. Good(mem') /\ Good(main'.reg) /\ Good(bak'.reg)
  BY <1>1, Zenon DEF PortInv, AllGood
<1>3. CASE WriteCrt(r)
  <2>1. Goto(r, "key") \/ Done(r)
    BY <1>3, Zenon DEF WriteCrt
  <2> QED  BY <1>1, <1>2, <2>1, GotoGood, DoneGood, Zenon
<1>4. CASE WriteKeyAndConfig(r)
  <2>1. Done(r) \/ \E p : req' = [req EXCEPT ![r].pc = "add", ![r].port = p]
    BY <1>4, Zenon DEF WriteKeyAndConfig
  <2>2. ASSUME NEW p, req' = [req EXCEPT ![r].pc = "add", ![r].port = p]
        PROVE  AllGood' /\ PendingDiffer'
    <3>1. PICK q : q = [req[r] EXCEPT !.pc = "add", !.port = p]
      BY Zenon
    <3>2. q.node = req[r].node /\ q.reg = req[r].reg
      BY <3>1, RequestFacts, Zenon DEF PortInv, Types, Request
    <3>3. req' = [req EXCEPT ![r] = q]
      BY <2>2, <3>1, Zenon
    <3>4. Good(q.reg)
      BY <3>2, Zenon DEF PortInv, AllGood
    <3> QED  BY <1>1, <1>2, <3>2, <3>3, <3>4, MoveGood, Zenon
  <2> QED  BY <1>1, <1>2, <2>1, <2>2, DoneGood, Zenon
<1> QED  BY <1>3, <1>4, Zenon

\* The node of the request is in no registry, nor another request's.
LEMMA AddGood ==
    ASSUME PortInv, NEW r \in Procs, Add(r)
    PROVE  AllGood' /\ PendingDiffer'
<1>0. /\ Good(mem) /\ Good(main.reg) /\ Good(bak.reg) /\ Good(Reg(r)) /\ \A s \in Procs : Good(req[s].reg)
      /\ req[r].pc = "add" /\ node' = node
  BY Zenon DEF Procs, PortInv, AllGood, Reg, Add, At
<1>1. CASE /\ ~NameTaken(r)
           /\ SetReg(r, Reg(r) \cup {NewEnrollment(r)}) /\ SaveOk(ProcOf(r), Reg(r) \cup {NewEnrollment(r)})
           /\ AddAfter(r)
  <2>1. PICK new : new = Reg(r) \cup {NewEnrollment(r)}
    BY ZenonT(40)
  <2>2. mem' \in {mem, new} /\ main'.reg = new /\ bak'.reg \in {new, bak.reg}
    BY <1>1, <2>1 DEF SetReg, SaveOk, Write, Saved
  <2>3. PICK q : /\ req' = [req EXCEPT ![r] = q]
                 /\ q.pc \notin Pending
                 /\ q.reg \in {{}, req[r].reg}
    <3>1. CASE r = Cli
      <4>1. PICK q : q = [req[r] EXCEPT !.pc = "service"]
        BY Zenon
      <4>2. q.pc = "service" /\ q.reg = req[r].reg
        BY <4>1, RequestFacts, Zenon DEF PortInv, Types, Request
      <4>3. req' = [req EXCEPT ![r] = q]
        BY <1>1, <3>1, <4>1, Zenon DEF AddAfter, Goto
      <4> QED  BY <4>2, <4>3, Zenon DEF Pending
    <3>2. CASE r # Cli
      BY <1>1, <3>2, IdleTypes, Zenon DEF AddAfter, Done, Pending
    <3> QED  BY <3>1, <3>2, Zenon
  <2>4. req'[r] = q /\ \A s \in Procs : s # r => req'[s] = req[s]
    BY <2>3, OneMoves, Zenon DEF PortInv, Types
  <2>5. Held
    BY <2>3, <2>4, Zenon DEF Held
  <2>6. PICK e : e = NewEnrollment(r)
    BY Zenon
  <2>7. e.name = req[r].name /\ e.node = req[r].node
    BY <2>6, Zenon DEF NewEnrollment
  <2>8. \A f \in Reg(r) : f.name # e.name /\ f.node # e.node
    BY <1>0, <1>1, <2>7, Zenon DEF NameTaken, Get, Good, Pending
  <2>9. Unique(new)
    BY <1>0, <2>1, <2>6, <2>8, Zenon DEF Unique, Good
  <2>10. \A f \in new : f.node <= node
    BY <1>0, <2>1, <2>6, <2>7, ZenonT(40) DEF Good, PortInv, PendingDiffer, Pending
  <2>11. ASSUME NEW s \in Procs, req'[s].pc \in Pending PROVE \A f \in new : f.node # req'[s].node
    <3>1. s # r /\ req'[s] = req[s]
      BY <2>3, <2>4, <2>11, Zenon
    <3>2. req[s].node # e.node
      BY <1>0, <2>7, <2>11, <3>1, Zenon DEF PortInv, PendingDiffer, Pending
    <3> QED  BY <1>0, <2>1, <2>6, <2>11, <3>1, <3>2 DEF Good
  <2>12. Good(new)'
    BY <1>0, <2>9, <2>10, <2>11, Zenon DEF Good
  <2>13. Good({})
    BY LoadedGood, Zenon DEF PortInv
  <2>14. \A x \in {mem, bak.reg, {}, new} : Good(x)'
    BY <1>0, <2>5, <2>12, <2>13, GoodHeld, Zenon
  <2>15. ASSUME NEW s \in Procs PROVE Good(req[s].reg)'
    <3>1. PICK x \in {req[s].reg, {}} : x = req'[s].reg
      BY <2>3, <2>4, Zenon
    <3>2. Good(x)'
      BY <1>0, <2>5, <2>13, <3>1, GoodHeld, Zenon
    <3> QED  BY <3>1, <3>2, Zenon DEF Good
  <2>16. AllGood'
    BY <2>2, <2>14, <2>15, Zenon DEF AllGood, Good
  <2>17. PendingDiffer'
    BY <1>0, <2>5, Zenon DEF PendingDiffer, Held, PortInv
  <2> QED  BY <2>16, <2>17, Zenon
<1>2. CASE /\ UNCHANGED <<main, bak, mem>>
           /\ (IF r = Cli THEN Done(r) ELSE Goto(r, "unwind"))
  BY <1>0, <1>2, DoneGood, GotoGood, Zenon DEF Pending
<1>3. AfterFailedAdd(r) = Reg(r)
  BY Zenon DEF AfterFailedAdd
<1> QED  BY <1>1, <1>2, <1>3, Zenon DEF Add, SaveFails, SetReg, Reg, files

LEMMA RemoveGood ==
    ASSUME PortInv, NEW r \in Procs, Remove(r) \/ RemoveDir(r)
    PROVE  AllGood' /\ PendingDiffer'
<1>0. Good(mem) /\ Good(main.reg) /\ Good(bak.reg) /\ Good(req[r].reg) /\ Good(Reg(r)) /\ node' = node
  BY Zenon DEF Procs, PortInv, AllGood, Reg, Remove, RemoveDir
<1>1. CASE RemoveDir(r)
  BY <1>0, <1>1, DoneGood, Zenon DEF RemoveDir, files
<1>2. CASE Remove(r)
  <2>1. PICK new : new = Reg(r) \ Get(Reg(r), req[r].name)
    BY Zenon
  <2>2. \/ SetReg(r, new) /\ SaveOk(ProcOf(r), new) /\ RemoveAfter(r)
        \/ UNCHANGED <<main, bak, mem>> /\ Done(r)
    BY <1>2, <2>1, Zenon DEF Remove, SaveFails, files
  <2>3. CASE UNCHANGED <<main, bak, mem>> /\ Done(r)
    BY <1>0, <2>3, DoneGood, Zenon
  <2>4. CASE SetReg(r, new) /\ SaveOk(ProcOf(r), new) /\ RemoveAfter(r)
    <3>1. Good(new)
      BY <1>0, <2>1, GoodSubset, Zenon
    <3>2. Good(mem') /\ Good(main'.reg) /\ Good(bak'.reg)
      BY <1>0, <2>4, <3>1, SaveGood, Zenon DEF SetReg, PortInv
    <3>3. CASE req[r].pc # "forced"
      BY <1>0, <2>4, <3>2, <3>3, GotoGood, Zenon DEF RemoveAfter, Pending
    <3>4. CASE req[r].pc = "forced"
      <4>1. PICK q : q = [req[r] EXCEPT !.pc = "grant", !.name = req[r].want, !.want = 0]
        BY Zenon
      <4>2. q.pc = "grant" /\ q.reg = req[r].reg
        BY <4>1, RequestFacts, Zenon DEF PortInv, Types, Request
      <4>3. req' = [req EXCEPT ![r] = q]
        BY <2>4, <3>4, <4>1, Zenon DEF RemoveAfter
      <4> QED  BY <1>0, <3>2, <4>2, <4>3, MoveGood, Zenon DEF Pending
    <3> QED  BY <3>3, <3>4, Zenon
  <2> QED  BY <2>2, <2>3, <2>4, Zenon
<1> QED  BY <1>1, <1>2

LEMMA CliGood ==
    ASSUME PortInv,
           \/ CliEnroll \/ ForceRemoveDir \/ CliGrant \/ InstallService \/ CliLeave
           \/ CliStop \/ CliAbort \/ RunRestart
    PROVE  AllGood' /\ PendingDiffer'
<1>0. /\ Cli \in Procs /\ Good(mem) /\ Good(main.reg) /\ Good(bak.reg) /\ Good(req[Cli].reg)
      /\ (\A s \in Procs : Good(req[s].reg)) /\ Good(Loaded) /\ Good({}) /\ req[Cli] \in Request
  BY LoadedGood, RequestFacts, Zenon DEF PortInv, AllGood, Procs, Types
<1>s. ASSUME NEW q, StopAgentService(q) \/ (req' = [req EXCEPT ![Cli] = q] /\ mem' = mem),
             UNCHANGED <<main, bak, node>>, q.pc \notin Pending, Good(q.reg)
      PROVE  AllGood' /\ PendingDiffer'
  <2>1. CASE mem' = {} /\ req' = [r \in Procs |-> IF r = Cli THEN q ELSE Idle]
    <3>1. Held /\ \A s \in Procs : Good(req'[s].reg)
      BY <1>0, <1>s, <2>1, IdleTypes, Zenon DEF Held, Pending
    <3> QED  BY <1>0, <1>s, <2>1, <3>1, GoodStep, ZenonT(40) DEF PortInv
  <2>2. CASE req' = [req EXCEPT ![Cli] = q] /\ mem' = mem
    BY <1>0, <1>s, <2>2, MoveGood, Zenon
  <2> QED  BY <1>s, <2>1, <2>2, Zenon DEF StopAgentService
<1>1. CASE CliEnroll
  <2>1. /\ UNCHANGED <<main, bak, node>>
        /\ \E q : /\ EnrollBegins(q)
                  /\ \/ StopAgentService(q)
                     \/ req' = [req EXCEPT ![Cli] = q] /\ mem' = mem
    BY <1>1, CliEnrollSays, Zenon DEF PortInv, Types
  <2>2. PICK q : /\ EnrollBegins(q)
                 /\ \/ StopAgentService(q)
                    \/ req' = [req EXCEPT ![Cli] = q] /\ mem' = mem
    BY <2>1, Zenon
  <2>3. q.pc \in {"idle", "grant", "force"} /\ q.reg \in {{}, Loaded}
    BY <2>2, EnrollBeginsTypes, Zenon DEF PortInv, Types
  <2> QED  BY <1>0, <1>s, <2>1, <2>2, <2>3 DEF Pending
<1>2. CASE ForceRemoveDir
  BY <1>0, <1>2, GotoGood, Zenon DEF ForceRemoveDir, files, Pending
<1>3. CASE CliGrant
  <2>1. UNCHANGED <<mem, main, bak>> /\ ((\E x, net, c : Grant(Cli, x, net, c)) \/ (Done(Cli) /\ node' = node))
    BY <1>3, Zenon DEF CliGrant, files
  <2>2. CASE Done(Cli) /\ node' = node
    BY <1>0, <2>1, <2>2, DoneGood, Zenon
  <2> QED  BY <1>0, <2>1, <2>2, GrantGood, Zenon DEF PortInv
<1>4. CASE InstallService
  <2>1. /\ UNCHANGED <<main, bak, node>>
        /\ \/ mem' = {} /\ req' = [r \in Procs |-> Idle]
           \/ Done(Cli) /\ mem' = mem
    BY <1>4, Zenon DEF InstallService, files
  <2>2. CASE mem' = {} /\ req' = [r \in Procs |-> Idle]
    <3>1. Held /\ \A s \in Procs : Good(req'[s].reg)
      BY <1>0, <2>2, IdleTypes, ZenonT(40) DEF Held, Pending
    <3> QED  BY <1>0, <2>1, <2>2, <3>1, IdleTypes, GoodStep DEF PortInv
  <2> QED  BY <1>0, <2>1, <2>2, DoneGood, Zenon
<1>5. CASE CliLeave
  <2>1. UNCHANGED <<mem, main, bak, node>> /\ \E e \in Loaded : req' = [req EXCEPT ![Cli] = Doing("stop", e.name, Loaded)]
    BY <1>5, Zenon DEF CliLeave, files
  <2>2. PICK e \in Loaded : req' = [req EXCEPT ![Cli] = Doing("stop", e.name, Loaded)]
    BY <2>1, Zenon
  <2>3. PICK q : q = Doing("stop", e.name, Loaded) /\ q.pc = "stop" /\ q.reg = Loaded
    BY DoingFields
  <2>4. req' = [req EXCEPT ![Cli] = q]
    BY <2>2, <2>3, Zenon
  <2> QED  BY <1>0, <1>s, <2>1, <2>3, <2>4, Zenon DEF Pending
<1>6. CASE CliStop
  <2>1. PICK q : q = [req[Cli] EXCEPT !.pc = "leave"]
    BY Zenon
  <2>2. q.pc = "leave" /\ q.reg = req[Cli].reg
    BY <1>0, <2>1, Zenon DEF Request
  <2>3. StopAgentService(q) /\ UNCHANGED <<main, bak, node>>
    BY <1>6, <2>1, Zenon DEF CliStop, files
  <2> QED  BY <1>0, <1>s, <2>2, <2>3, Zenon DEF Pending
<1>7. CASE CliAbort
  BY <1>0, <1>7, DoneGood, Zenon DEF CliAbort, files
<1>8. CASE RunRestart
  BY <1>0, <1>8, GoodStep, Zenon DEF RunRestart, files, Held, PortInv
<1> QED  BY <1>1, <1>2, <1>3, <1>4, <1>5, <1>6, <1>7, <1>8


LEMMA PortInvInit == ASSUME Init PROVE PortInv
<1>1. PICK k \in 0..2, p \in {0, BasePort} :
        /\ main = [st |-> IF k = 0 THEN "missing" ELSE "ok",
                   reg |-> {[name |-> i, node |-> i, net |-> i, port |-> p] : i \in 1..k}]
        /\ bak = main /\ node = k
  BY Zenon DEF Init
<1>2. main.reg = {[name |-> i, node |-> i, net |-> i, port |-> p] : i \in 1..k} /\ bak.reg = main.reg
  BY <1>1, Zenon
<1>3. \A r \in Procs : req[r].pc \notin Pending
  BY IdleTypes, Zenon DEF Init, Pending
<1>4. mem = {} /\ \A r \in Procs : req[r].reg = {}
  BY IdleTypes, Zenon DEF Init
<1>5. \A e \in main.reg : \E i \in 1..k : e = [name |-> i, node |-> i, net |-> i, port |-> p]
  BY <1>2, Zenon
<1>6. \A e \in main.reg : e.node \in 1..k /\ e = [name |-> e.node, node |-> e.node, net |-> e.node, port |-> p]
  BY <1>5
<1>7. \A e \in main.reg : e.node <= node /\ e.name = e.node
  BY <1>1, <1>6
<1>8. Unique(main.reg)
  BY <1>6, <1>7 DEF Unique
<1>9. Good(main.reg) /\ Good({})
  BY <1>3, <1>7, <1>8, Zenon DEF Good, Unique
<1> QED  BY <1>2, <1>3, <1>4, <1>9, TypesInit, Zenon DEF PortInv, AllGood, PendingDiffer

LEMMA PortInvStep == ASSUME PortInv, [Next]_vars PROVE PortInv'
<1>1. Types'
  BY TypesStep, Zenon DEF PortInv
<1>2. CASE UNCHANGED vars
  BY <1>1, <1>2, Zenon DEF vars, PortInv, AllGood, Good, PendingDiffer
<1>3. CASE Next
  <2>1. ASSUME NEW r \in Procs,
               Install(r) \/ WriteCrt(r) \/ WriteKeyAndConfig(r) \/ Add(r) \/ Remove(r) \/ RemoveDir(r)
        PROVE  AllGood' /\ PendingDiffer'
    BY <2>1, InstallGood, WriteGood, AddGood, RemoveGood, Zenon
  <2>2. AllGood' /\ PendingDiffer'
    BY <1>3, <2>1, AgentGood, ApiGood, CliGood, Zenon DEF Next
  <2> QED  BY <1>1, <2>2, Zenon DEF PortInv
<1> QED  BY <1>2, <1>3, Zenon

\* No two entries of a registry have a name or a node in common.
THEOREM PortInvariance == Spec => []PortInv
  BY PortInvInit, PortInvStep, PTL DEF Spec

-----------------------------------------------------------------------------
\* The ports after the migration.

INSTANCE FiniteSetTheorems

LEMMA RegistryIsFinite ==
    ASSUME NEW reg \in SUBSET Entry, Good(reg), node \in Nat PROVE IsFiniteSet(reg)
<1> DEFINE f == [e \in reg |-> e.node]
<1>1. f \in [reg -> 0..node]
  BY DEF Good, Entry
<1>2. \A e, g \in reg : f[e] = f[g] => e = g
  BY Zenon DEF Good, Unique
<1>3. f \in Injection(reg, 0..node)
  BY <1>1, <1>2, Zenon DEF Injection, IsInjective
<1>4. IsFiniteSet(0..node)
  BY FS_Interval
<1> QED  BY <1>3, <1>4, FS_Injection

\* Entries with different nodes take different places in the order of the nodes.
LEMMA RanksDiffer ==
    ASSUME NEW S \in SUBSET Entry, IsFiniteSet(S), NEW e \in S, NEW g \in S, e.node < g.node
    PROVE  Cardinality({f \in S : f.node < e.node}) # Cardinality({f \in S : f.node < g.node})
<1> DEFINE A == {f \in S : f.node < e.node}
           B == {f \in S : f.node < g.node}
<1>1. \A f \in S : f.node \in Nat
  BY Zenon DEF Entry
<1>2. A \in SUBSET B /\ e \in B /\ e \notin A
  BY <1>1
<1>3. IsFiniteSet(B)
  BY FS_Subset, Zenon
<1> HIDE DEF A, B
<1>4. Cardinality(A) # Cardinality(B)
  BY <1>2, <1>3, FS_Subset
<1> QED  BY <1>4, Zenon DEF A, B

\* HealDuplicateListenPorts: no two entries share a port.
LEMMA HealedPorts ==
    ASSUME NEW reg \in SUBSET Entry, Good(reg), node \in Nat,
           NEW x \in HealDuplicateListenPorts(reg), NEW y \in HealDuplicateListenPorts(reg),
           x.port # 0, x.port = y.port
    PROVE  x = y
<1> DEFINE S == {e \in reg : e.port # 0 /\ \E f \in reg : f.port = e.port /\ f.node < e.node}
           Rank(e) == Cardinality({f \in S : f.node < e.node})
           New(e) == [e EXCEPT !.port = FreePort(reg, Rank(e))]
<1>1. HealDuplicateListenPorts(reg) = (reg \ S) \cup {New(e) : e \in S}
  BY Zenon DEF HealDuplicateListenPorts, Reassign
<1>2. S \in SUBSET Entry /\ IsFiniteSet(S)
  BY RegistryIsFinite, FS_Subset, Zenon
<1>3. \A e \in reg : e.node \in Nat /\ e.port \in Nat
  BY Zenon DEF Entry
<1>4. \A e, f \in reg : e.node = f.node => e = f
  BY Zenon DEF Good, Unique
<1>5. \A e \in S : New(e).port = FreePort(reg, Rank(e))
  <2> HIDE DEF S, Rank
  <2> QED  BY <1>2 DEF Entry
<1>6. \A e, g \in reg \ S : e.port # 0 /\ e.port = g.port => e = g
  <2>1. ASSUME NEW e \in reg \ S, NEW g \in reg \ S, e.port # 0, e.port = g.port PROVE ~(e.node < g.node)
    BY <2>1, Zenon
  <2> HIDE DEF S
  <2>2. ASSUME NEW e \in reg \ S, NEW g \in reg \ S, e.port # 0, e.port = g.port PROVE e.node = g.node
    <3>1. ~(e.node < g.node) /\ ~(g.node < e.node)
      BY <2>1, <2>2
    <3>2. e.node \in Nat /\ g.node \in Nat
      BY <1>3
    <3> QED  BY <3>1, <3>2
  <2> QED  BY <1>4, <2>2
<1>7. ASSUME NEW e \in S, New(e).port # 0 PROVE \A g \in reg : g.port # New(e).port
  <2>1. FreePort(reg, Rank(e)) \in FreePorts(reg)
    <3> HIDE DEF S, Rank
    <3> QED  BY <1>5, <1>7, FreePortFacts, Zenon
  <2> HIDE DEF S, Rank, New
  <2> QED  BY <1>5, <2>1 DEF FreePorts
<1>8. ASSUME NEW e \in S, NEW g \in S, New(e).port # 0, New(e).port = New(g).port PROVE e = g
  <2>1. Rank(e) = Rank(g)
    <3> HIDE DEF S, Rank, New
    <3>1. FreePort(reg, Rank(e)) # 0 /\ FreePort(reg, Rank(e)) = FreePort(reg, Rank(g))
      BY <1>5, <1>8
    <3>2. \A k : FreePort(reg, k) # 0 => Cardinality({q \in FreePorts(reg) : q < FreePort(reg, k)}) = k
      BY FreePortFacts, Zenon
    <3> QED  BY <3>1, <3>2, Zenon
  <2>2. ~(e.node < g.node) /\ ~(g.node < e.node)
    <3> HIDE DEF S
    <3> QED  BY <1>2, <2>1, RanksDiffer
  <2> HIDE DEF S, Rank, New
  <2>3. e \in reg /\ g \in reg
    BY Zenon DEF S
  <2>4. e.node = g.node
    BY <1>3, <2>2, <2>3
  <2> QED  BY <1>4, <2>3, <2>4
<1> HIDE DEF S, Rank, New
<1>9. CASE x \in reg \ S /\ y \in reg \ S
  BY <1>6, <1>9
<1>10. CASE x \in reg \ S /\ y \notin reg \ S
  BY <1>1, <1>7, <1>10
<1>11. CASE x \notin reg \ S /\ y \in reg \ S
  BY <1>1, <1>7, <1>11
<1>12. CASE x \notin reg \ S /\ y \notin reg \ S
  BY <1>1, <1>8, <1>12
<1> QED  BY <1>9, <1>10, <1>11, <1>12

\* The registry is ready before the configurations are healed, and the agent
\* touches it only when it has started.
Distinct(reg) == \A e, f \in reg : e.port # 0 /\ e.port = f.port => e = f
Ported == phase = "ported" => Distinct(mem)

LEMMA PortedBy ==
    ASSUME [Next]_vars, phase' = "ported"
    PROVE  MigrateListenPorts \/ (phase = "ported" /\ mem' = mem)
<1>1. CASE UNCHANGED vars
  BY <1>1, Zenon DEF vars
<1>2. CASE Boot \/ MigrateListenPorts \/ MigrateYAML \/ Crash \/ Corrupt \/ EnrollDeviceFlowStart \/ SaveSettings
  BY <1>2, Zenon DEF Boot, MigrateYAML, Crash, Down, Corrupt, EnrollDeviceFlowStart, SaveSettings
<1>3. ASSUME NEW r, \/ EnrollDeviceFlowPoll(r) \/ EnrollToken(r) \/ Leave(r) \/ Unwind(r)
                    \/ HeartbeatLoads(r) \/ SetNetworkID(r)
      PROVE  phase = "ported" /\ mem' = mem
  BY <1>3, Zenon DEF EnrollDeviceFlowPoll, EnrollToken, Leave, Unwind, HeartbeatLoads, SetNetworkID
<1>4. ASSUME NEW r, Install(r) \/ WriteCrt(r) \/ WriteKeyAndConfig(r) \/ RemoveDir(r)
      PROVE  phase = "ported" /\ mem' = mem
  BY <1>4, Zenon DEF Install, WriteCrt, WriteKeyAndConfig, RemoveDir
<1>5. ASSUME NEW r, Add(r) \/ Remove(r)
      PROVE  phase = "ported" /\ mem' = mem
  BY <1>5, Zenon DEF Add, Remove, At, SetReg, AfterFailedAdd
<1>6. CASE CliEnroll \/ CliStop
  BY <1>6, Zenon DEF CliEnroll, CliStop, StopAgentService
<1>7. CASE ForceRemoveDir \/ CliGrant \/ InstallService \/ CliLeave \/ CliAbort \/ RunRestart
  BY <1>7, Zenon DEF ForceRemoveDir, CliGrant, InstallService, CliLeave, CliAbort, RunRestart
<1> QED  BY <1>1, <1>2, <1>3, <1>4, <1>5, <1>6, <1>7, Zenon DEF Next

LEMMA PortedStep == ASSUME PortInv, Ported, [Next]_vars PROVE Ported'
<1>1. SUFFICES ASSUME phase' = "ported" PROVE Distinct(mem')
  BY Zenon DEF Ported, Distinct
<1>2. CASE phase = "ported" /\ mem' = mem
  BY <1>2, Zenon DEF Ported
<1>3. CASE MigrateListenPorts
  <2> DEFINE a == AssignMissingListenPorts(mem)
             h == HealDuplicateListenPorts(a)
  <2>1. mem' = h
    BY <1>1, <1>3, Zenon DEF MigrateListenPorts
  <2>2. a \in SUBSET Entry /\ Good(a) /\ node \in Nat
    BY MigrationTypes, MigrationGood, Zenon DEF PortInv, Types, StoreTypes, AllGood
  <2> HIDE DEF a
  <2> QED  BY <2>1, <2>2, HealedPorts, SMTT(20) DEF Distinct
<1> QED  BY <1>1, <1>2, <1>3, PortedBy, Zenon

THEOREM PortedInvariance == Spec => [](PortInv /\ Ported)
<1>1. Init => Ported
  BY Zenon DEF Init, Ported
<1> QED  BY <1>1, PortInvInit, PortInvStep, PortedStep, PTL DEF Spec

\* healListenPortYAML: the file of an entry gets its port.
LEMMA HealedYAML ==
    ASSUME dir \in [Names -> Subdir], mem \in SUBSET Entry, Unique(mem), NEW e \in mem, dir[e.name].key # 0
    PROVE  HealListenPortYAML({})[e.name].port = e.port
<1>1. e.name \in Names /\ Get(mem, e.name) # {}
  BY Zenon DEF Entry, Get
<1>2. (CHOOSE f \in mem : f.name = e.name) = e
  BY Zenon DEF Unique
<1>3. HealListenPortYAML({})[e.name] = [dir[e.name] EXCEPT !.port = e.port]
  BY <1>1, <1>2, Zenon DEF HealListenPortYAML
<1> QED  BY <1>1, <1>3 DEF Subdir

LEMMA MigrationHeals ==
    ASSUME PortInv, Ported, [Next]_vars, phase = "ported", phase' = "up"
    PROVE  \A e \in mem' :
             /\ e.port # 0 => \A f \in mem' : f.port = e.port => f = e
             /\ dir[e.name].key # 0 => dir'[e.name].port = e.port \/ faults' # faults
<1>1. MigrateYAML
  <2>1. Next
    BY Zenon DEF vars
  <2>2. ~(Boot \/ MigrateListenPorts \/ Crash \/ Corrupt \/ EnrollDeviceFlowStart \/ SaveSettings)
    BY Zenon DEF Boot, MigrateListenPorts, Crash, Down, Corrupt, EnrollDeviceFlowStart, SaveSettings
  <2>3. \A r : ~(\/ EnrollDeviceFlowPoll(r) \/ EnrollToken(r) \/ Leave(r) \/ Unwind(r)
                \/ HeartbeatLoads(r) \/ SetNetworkID(r))
    BY Zenon DEF EnrollDeviceFlowPoll, EnrollToken, Leave, Unwind, HeartbeatLoads, SetNetworkID
  <2>4. \A r : ~(Install(r) \/ WriteCrt(r) \/ WriteKeyAndConfig(r) \/ Add(r) \/ Remove(r) \/ RemoveDir(r))
    BY DEF Install, WriteCrt, WriteKeyAndConfig, Add, Remove, RemoveDir
  <2>5. ~CliEnroll
    BY Zenon DEF CliEnroll, StopAgentService
  <2>6. ~(ForceRemoveDir \/ CliGrant \/ InstallService \/ CliLeave \/ CliStop \/ CliAbort \/ RunRestart)
    BY Zenon DEF ForceRemoveDir, CliGrant, InstallService, CliLeave, CliStop, StopAgentService, CliAbort, RunRestart
  <2> QED  BY <2>1, <2>2, <2>3, <2>4, <2>5, <2>6 DEF Next
<1>2. mem' = mem /\ (dir' = HealListenPortYAML({}) \/ Fault)
  BY <1>1, Zenon DEF MigrateYAML
<1>3. Fault => faults' # faults
  BY DEF Fault, PortInv, Types, StoreTypes
<1>4. \A e \in mem : dir[e.name].key # 0 => HealListenPortYAML({})[e.name].port = e.port
  BY HealedYAML, Zenon DEF PortInv, Types, StoreTypes, AllGood, Good
<1>5. Distinct(mem)
  BY Zenon DEF Ported
<1> QED  BY <1>2, <1>3, <1>4, <1>5, Zenon DEF Distinct

\* migrateListenPorts: when the agent has started and the missing ports could be
\* saved, no two enrollments have a port in common and each nebula.yaml that could
\* be written names the port of its entry, whatever the registry and the files
\* said before.
THEOREM PortsAlwaysHealed == Spec => PortsHealedAtBoot
<1>1. PortInv /\ Ported /\ [Next]_vars =>
        [phase = "ported" /\ phase' = "up"
           => \A e \in mem' :
                /\ e.port # 0 => \A f \in mem' : f.port = e.port => f = e
                /\ dir[e.name].key # 0 => dir'[e.name].port = e.port \/ faults' # faults]_vars
  BY MigrationHeals, Zenon
<1> QED  BY <1>1, PortedInvariance, PTL DEF Spec, PortsHealedAtBoot

=============================================================================
