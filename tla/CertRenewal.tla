---------------------------- MODULE CertRenewal ----------------------------
(***************************************************************************)
(* When the certificate of one enrollment is renewed: the renewal loop of  *)
(* the agent with its polling, retries and backoff, forced renewals that   *)
(* run next to it, and the watchdog of the loop                            *)
(* (internal/client/renew.go).  CertFiles has the files that are written.  *)
(***************************************************************************)
EXTENDS Integers

CONSTANTS
    Life,          \* renewCertDuration
    PollInterval,  \* renewalPollInterval
    Attempt,       \* longest renewCert: HTTP timeout, two files, restart
    MaxRetries,    \* retries of renewNow
    Backoff,       \* the waits before them
    BackoffCap,    \* 30 minutes
    Tolerance,     \* ClockSkewTolerance: peers accept so much after NotAfter
    MaxFails,      \* failures in a row that the tolerance covers
    Due,           \* latest end of an attempt after so many failures
    Silence,       \* renewalSilenceThreshold
    Cooldown,      \* of the watchdog
    MaxDisturbances      \* sleeps, hangs and restarts of a behaviour

\* renewNow starts with a minute and doubles up to the cap.
ASSUME BackoffAssumption ==
    /\ MaxRetries \in Nat
    /\ BackoffCap \in Nat
    /\ Backoff \in [1..MaxRetries -> 0..BackoffCap]
    /\ \A k \in 1..MaxRetries - 1 :
          Backoff[k + 1] = IF 2 * Backoff[k] > BackoffCap THEN BackoffCap ELSE 2 * Backoff[k]

\* A poll, the attempt it starts, and the waits and attempts that follow it.
ASSUME DueAssumption ==
    /\ PollInterval \in Nat /\ Attempt \in Nat
    /\ Due \in [0..MaxRetries -> Nat]
    /\ Due[0] = PollInterval + 2 * Attempt
    /\ \A k \in 1..MaxRetries : Due[k] = Due[k - 1] + Backoff[k] + Attempt

\* 1 h of tolerance covers five failures in a row.
ASSUME ToleranceAssumption ==
    /\ Tolerance \in Nat
    /\ MaxFails \in 0..MaxRetries
    /\ \A k \in 0..MaxFails : Due[k] <= Tolerance

\* The loop is never silent for so long by itself.
ASSUME SilenceAssumption ==
    /\ Silence \in Nat /\ Cooldown \in Nat
    /\ Attempt + PollInterval < Silence /\ Attempt + BackoffCap < Silence

ASSUME BoundAssumption == Life \in Nat \ {0} /\ MaxDisturbances \in Nat

VARIABLES
    left,       \* time.Until(NotAfter) of node.crt, negative once it has expired
    got,        \* the same of a certificate received and not yet written
    pc,         \* where runCertRenewal is
    wait,       \* time until its ticker or backoff fires, or its attempt must end
    fails,      \* failed attempts of the present renewNow
    missed,     \* node.crt expired while the loop did not run, as the machine slept or
                \* the agent was not started, or the loop gave up, could not read, or hung
    silent,     \* time since markRenewalActivity
    cool,       \* time until the watchdog may act again
    disturbances      \* disturbances so far

renewalVars == <<left, got, pc, wait, fails, missed, silent, cool, disturbances>>

LateCap == Tolerance + 1
Times == -LateCap .. Life
None == Life + 1
Floor(n, least) == IF n < least THEN least ELSE n

\* How long node.crt is past its NotAfter, by the wall clock as peers read it.
Late == IF left < 0 THEN -left ELSE 0

RenewalTypeOK ==
    /\ left \in Times
    /\ got \in Times \cup {None}
    /\ pc \in {"poll", "post", "write", "reload", "sleep", "hungUp", "hungDown", "gone"}
    /\ wait \in Nat
    /\ fails \in 0..MaxRetries
    /\ missed \in BOOLEAN
    /\ silent \in 0..Silence
    /\ cool \in 0..Cooldown
    /\ disturbances \in 0..MaxDisturbances

\* startInstance of an enrollment whose certificate may have expired.
RenewalInit ==
    /\ left \in Times
    /\ got = None
    /\ pc = "poll" /\ wait = 0 /\ fails = 0 /\ missed = (left <= 0)
    /\ silent = 0 /\ cool = 0 /\ disturbances = 0

Disturbance == disturbances < MaxDisturbances /\ disturbances' = disturbances + 1
-----------------------------------------------------------------------------
(* The loop.                                                               *)

\* 40 to 60 percent of the remaining validity, in tenths of a unit.
timeUntilRenewal(remaining) == IF remaining <= 0 THEN {0} ELSE 4 * remaining .. 6 * remaining

\* One round: renew when the time has come, or wait for the next tick.
RunCertRenewal ==
    /\ pc = "poll"
    /\ wait = 0
    /\ silent' = 0
    /\ \E t \in timeUntilRenewal(left) :
          IF t <= 0
            THEN /\ pc' = "post"
                 /\ wait' = Attempt
                 /\ UNCHANGED <<fails, missed>>
            ELSE /\ wait' = PollInterval
                 /\ fails' = 0
                 /\ missed' = FALSE
                 /\ UNCHANGED pc
    /\ UNCHANGED <<left, got, cool, disturbances>>

\* node.crt cannot be read or parsed: it is left for the next poll.
Unreadable ==
    /\ pc = "poll"
    /\ wait = 0
    /\ silent' = 0
    /\ wait' = PollInterval
    /\ missed' = TRUE
    /\ UNCHANGED <<left, got, pc, fails, cool, disturbances>>

\* The backoff has passed: the next retry.
Retry ==
    /\ pc = "sleep"
    /\ wait = 0
    /\ pc' = "post"
    /\ wait' = Attempt
    /\ silent' = 0
    /\ UNCHANGED <<left, got, fails, missed, cool, disturbances>>

\* renewCert: the server has issued a certificate and the response arrives.
Renew ==
    /\ pc = "post"
    /\ pc' = "write"
    /\ got' = Life
    /\ UNCHANGED <<left, wait, fails, missed, silent, cool, disturbances>>

\* renewCert: node.crt is replaced.
WriteCert ==
    /\ pc = "write"
    /\ pc' = "reload"
    /\ left' = got
    /\ missed' = (missed \/ got <= 0)
    /\ got' = None
    /\ UNCHANGED <<wait, fails, silent, cool, disturbances>>

\* Mutant: the backoff is doubled before the wait and not after it.
RenewFailsSlow ==
    /\ pc \in {"post", "write", "reload"}
    /\ got' = None
    /\ silent' = IF fails = 0 THEN 0 ELSE silent
    /\ \/ /\ fails < MaxRetries
          /\ pc' = "sleep"
          /\ fails' = fails + 1
          /\ wait' = 2 * Backoff[fails + 1]
          /\ UNCHANGED missed
       \/ /\ fails = MaxRetries
          /\ pc' = "poll"
          /\ fails' = 0
          /\ missed' = TRUE
          /\ wait' \in 0..PollInterval
    /\ UNCHANGED <<left, cool, disturbances>>

\* renewCert returns an error: refused, lost, or a file could not be written,
\* node.key after node.crt included.  renewNow waits for the next retry, or gives up
\* until the next tick, which may have been missed.  Only the first failure is
\* stamped as activity.
RenewFails ==
    /\ pc \in {"post", "write", "reload"}
    /\ got' = None
    /\ silent' = IF fails = 0 THEN 0 ELSE silent
    /\ \/ /\ fails < MaxRetries
          /\ pc' = "sleep"
          /\ fails' = fails + 1
          /\ wait' = Backoff[fails + 1]
          /\ UNCHANGED missed
       \/ /\ fails = MaxRetries
          /\ pc' = "poll"
          /\ fails' = 0
          /\ missed' = TRUE
          /\ wait' \in 0..PollInterval
    /\ UNCHANGED <<left, cool, disturbances>>

\* reloadNebula has run and renewCert returns nil.
Renewed ==
    /\ pc = "reload"
    /\ pc' = "poll"
    /\ fails' = 0
    /\ missed' = (left <= 0)
    /\ silent' = 0
    /\ wait' \in 0..PollInterval
    /\ UNCHANGED <<left, got, cool, disturbances>>

\* handleForceRenew, Client.ForceRenew: another renewCert replaces node.crt.  When
\* the machine slept meanwhile the certificate may be old.
ForceRenew ==
    /\ pc # "gone"
    /\ left' \in IF disturbances = 0 THEN {Life} ELSE Times
    /\ missed' = (missed \/ left' <= 0)
    /\ UNCHANGED <<got, pc, wait, fails, silent, cool, disturbances>>
-----------------------------------------------------------------------------
(* Time, sleep, hangs and restarts.                                        *)

\* time.Until(NotAfter) of the file and of a certificate on its way to it.
Age(d) ==
    /\ left' = Floor(left - d, -LateCap)
    /\ got' = IF got = None THEN None ELSE Floor(got - d, -LateCap)

\* Time passes; a timer of the loop that is due fires first.
Tick ==
    /\ \/ wait > 0 /\ wait' = wait - 1
       \/ pc \in {"hungUp", "hungDown", "gone"} /\ wait' = wait
    /\ Age(1)
    /\ silent' = IF silent < Silence THEN silent + 1 ELSE silent
    /\ cool' = Floor(cool - 1, 0)
    /\ UNCHANGED <<pc, fails, missed, disturbances>>

\* The machine sleeps: certificates age, timers may stand still.
DeepSleep ==
    /\ Disturbance
    /\ \E d \in 1..(Life + LateCap) : Age(d)
    /\ missed' = (missed \/ left' <= 0)
    /\ wait' \in 0..wait
    /\ UNCHANGED <<pc, fails, silent, cool>>

\* reloadNebula does not return: it blocks before the new service is set, with
\* inst.svc nil, or while one is set.
Hang ==
    /\ pc = "reload"
    /\ Disturbance
    /\ pc' \in {"hungUp", "hungDown"}
    /\ wait' = 0
    /\ missed' = TRUE
    /\ UNCHANGED <<left, got, fails, silent, cool>>

\* startInstance starts the loop and its watchdog anew.
Launch ==
    /\ pc' = "poll" /\ wait' = 0 /\ fails' = 0 /\ missed' = (left <= 0)
    /\ silent' = 0 /\ cool' = 0 /\ got' = None
    /\ UNCHANGED left

Silent == silent >= Silence /\ cool = 0 /\ pc # "gone"

\* Mutant: the watchdog only writes its dump.
RunRenewalWatchdogDumps ==
    /\ Silent
    /\ cool' = Cooldown
    /\ UNCHANGED <<left, got, pc, wait, fails, missed, silent, disturbances>>

\* The watchdog calls restartFn, that is connect: nothing happens while a service
\* is set; otherwise the instance is closed, and a new one starts or does not.
RunRenewalWatchdog ==
    /\ Silent
    /\ \/ /\ pc # "hungDown"
          /\ cool' = Cooldown
          /\ UNCHANGED <<left, got, pc, wait, fails, missed, silent>>
       \/ pc = "hungDown" /\ Launch
       \/ /\ pc = "hungDown"
          /\ pc' = "gone"
          /\ UNCHANGED <<left, got, wait, fails, missed, silent, cool>>
    /\ UNCHANGED disturbances

\* The user connects or the agent is started again.
Start ==
    /\ Disturbance
    /\ Launch
-----------------------------------------------------------------------------
RenewalNext ==
    \/ RunCertRenewal \/ Unreadable \/ Retry
    \/ Renew \/ WriteCert \/ RenewFails \/ Renewed
    \/ ForceRenew
    \/ Tick \/ DeepSleep \/ Hang
    \/ RunRenewalWatchdog \/ Start

RenewalSpec == RenewalInit /\ [][RenewalNext]_renewalVars

\* Time passes and the scheduler runs every goroutine that can go on.  Requests,
\* writes and reads of the files do not fail for ever.
RenewalFairSpec ==
    /\ RenewalSpec
    /\ WF_renewalVars(Tick)
    /\ WF_renewalVars(Retry) /\ WF_renewalVars(Renewed) /\ WF_renewalVars(RunRenewalWatchdog)
    /\ SF_renewalVars(RunCertRenewal) /\ SF_renewalVars(Renew) /\ SF_renewalVars(WriteCert)
-----------------------------------------------------------------------------
Stuck == pc \in {"hungUp", "hungDown", "gone"}

\* While no more than MaxFails attempts in a row have failed, node.crt is within the
\* tolerance that peers apply to its expiry, although the loop starts to renew it
\* only then, unless it expired while the loop was not running.
PeersAccept == ~missed /\ fails <= MaxFails => Late <= Tolerance

\* The renewal watchdog finds a loop silent only when it hangs: polls, attempts and
\* backoffs stamp their activity often enough.
WatchdogQuiet == silent >= Silence => Stuck

\* An expired certificate is replaced in the end, after any number of exhausted
\* retries and through a restart by the watchdog, unless the loop hangs while
\* a service is set, or that restart fails.
ExpiredRenewed == left <= 0 ~> (left > 0 \/ pc \in {"hungUp", "gone"})

\* runCertRenewal "renews the Nebula certificate before it expires.  Renews at 50%
\* lifetime": without a failure, a sleep or a hang, the certificate does not expire
\* while the loop polls.
RenewsBeforeExpiry ==
    [][disturbances = 0 /\ fails = 0 /\ ~missed /\ pc = "poll" /\ left > 0 => left' > 0]_renewalVars
=============================================================================
