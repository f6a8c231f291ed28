---------------------------- MODULE PathQuality ----------------------------
(***************************************************************************)
(* The path-quality tracker of an instance (internal/client/               *)
(* path_quality.go): every 10 seconds a TCP probe of each direct peer      *)
(* either answers with a round-trip time, which is folded into a moving    *)
(* average with weight 0.3, or times out.  Three samples in a row that lie *)
(* 50 ms above the average raise an alarm, at most one in 30 seconds.      *)
(*                                                                         *)
(* One peer is modelled: the probes of two peers share nothing but a       *)
(* mutex.  Times are in units of 10 ms, and averages are exact: an average *)
(* of n samples is a multiple of 10^-(n-1) of a unit, so it is kept as an  *)
(* integer scaled by Scale, where the code rounds to a float64.            *)
(***************************************************************************)
EXTENDS Integers, Sequences

CONSTANTS
  Rtts,         \* round-trip times a probe may measure, in units of 10 ms
  MaxProbes     \* bound: probes of the peer

VARIABLES
  ewma,         \* pathQualitySample.ewmaMs, scaled
  count,        \* sampleCount
  bad, down,    \* consecutiveBad, consecutiveDown
  lastLog,      \* lastDegradeLogAt, in probe intervals (-1: never)
  alarm,        \* the last probe was reported as a degradation
  now,          \* probe intervals since the start
  hist          \* history: the probes so far and the average before each

vars == <<ewma, count, bad, down, lastLog, alarm, now, hist>>

Scale == 10 ^ MaxProbes
Threshold == 5          \* degradationThresholdMs, 50 ms
Consecutive == 3        \* degradationConsecutive
Suppressed == 3         \* 30 seconds, in probe intervals

TypeOK ==
  /\ ewma \in Nat /\ count \in 0..MaxProbes
  /\ bad \in 0..count /\ down \in 0..now
  /\ lastLog \in -1..now /\ alarm \in BOOLEAN
  /\ now \in 0..MaxProbes /\ Len(hist) <= now

Init ==
  /\ ewma = 0 /\ count = 0 /\ bad = 0 /\ down = 0
  /\ lastLog = -1 /\ alarm = FALSE /\ now = 0 /\ hist = <<>>

\* The average with the sample folded in; the first sample primes it.
Fold(rtt) ==
  IF count = 0 THEN rtt * Scale ELSE (3 * rtt * Scale + 7 * ewma) \div 10

\* The sample is compared with the average that already contains it.
Concerning(rtt) == rtt * Scale > Fold(rtt) + Threshold * Scale

\* The log line is suppressed for 30 seconds after the last one; probes are
\* 10 seconds apart, give or take, so the third may fall on either side.
MayLog(quiet) ==
  \/ lastLog = -1
  \/ now - lastLog > Suppressed
  \/ now - lastLog = Suppressed /\ ~quiet

\* consecutiveBad after a sample.
BadAfter(rtt) == IF Concerning(rtt) THEN bad + 1 ELSE 0

\* probeOnePeer gets an answer: recordSample.
RecordSample(rtt) ==
  /\ now < MaxProbes /\ now' = now + 1
  /\ ewma' = Fold(rtt) /\ count' = count + 1
  /\ down' = 0 /\ bad' = BadAfter(rtt)
  /\ \E quiet \in BOOLEAN :
       alarm' = (BadAfter(rtt) >= Consecutive /\ MayLog(quiet))
  /\ lastLog' = IF alarm' THEN now ELSE lastLog
  /\ hist' = Append(hist, [ok |-> TRUE, rtt |-> rtt, before |-> ewma,
                           first |-> count = 0])

BadAfterTimeoutKept == bad

\* A timeout breaks the row of concerning samples.
BadAfterTimeout == 0

\* The probe times out: recordTimeout leaves the average alone.
RecordTimeout ==
  /\ now < MaxProbes /\ now' = now + 1
  /\ down' = down + 1 /\ bad' = BadAfterTimeout
  /\ alarm' = FALSE
  /\ hist' = Append(hist, [ok |-> FALSE, rtt |-> 0, before |-> ewma,
                           first |-> FALSE])
  /\ UNCHANGED <<ewma, count, lastLog>>

\* probePeersOnce skips a peer that has no direct path, or is gone.
SkipPeer ==
  /\ now < MaxProbes /\ now' = now + 1
  /\ alarm' = FALSE
  /\ UNCHANGED <<ewma, count, bad, down, lastLog, hist>>

\* runPathQuality: one round per interval.
Next == (\E rtt \in Rtts : RecordSample(rtt)) \/ RecordTimeout \/ SkipPeer

Spec == Init /\ [][Next]_vars

(***************************************************************************)
(* Properties.                                                             *)
(***************************************************************************)
Last3 == SubSeq(hist, Len(hist) - 2, Len(hist))

\* An alarm is never false: the last three probes that were made were all
\* answered, and each lay at least 50 ms above what the average was before
\* it.  So comparing with the average that already contains the sample
\* (path_quality.go 121-127) can only miss a degradation, not invent one.
AlarmIsReal ==
  alarm =>
    /\ Len(hist) >= Consecutive
    /\ \A i \in 1..3 :
         /\ Last3[i].ok /\ ~Last3[i].first
         /\ Last3[i].rtt * Scale > Last3[i].before + Threshold * Scale

=============================================================================
