---------------------------- MODULE RateLimiter ----------------------------
(***************************************************************************)
(* internal/auth/ratelimit.go: the token bucket per client address of the  *)
(* public endpoints.  Time is counted in parts of the refill interval, so  *)
(* that requests also come within one.                                     *)
(***************************************************************************)
EXTENDS Naturals

CONSTANTS
  Visitors,    \* client addresses
  Rate,        \* tokens per interval
  Burst,       \* tokens of a full bucket
  Interval,    \* ticks per refill interval
  Stale,       \* ticks after which cleanup may delete a bucket (ten minutes)
  MaxTime      \* bound on time

VARIABLES
  now,
  bucket,    \* the visitors map; live is FALSE without an entry
  granted,   \* granted[v]: requests let through
  first      \* first[v]: when the first of them was; MaxTime + 1 before it

seen == <<granted, first>>
vars == <<now, bucket, seen>>

NoBucket == [live |-> FALSE, tokens |-> 0, lastSeen |-> 0]

TypeOK ==
  /\ now \in 0..MaxTime
  /\ bucket \in [Visitors -> [live : BOOLEAN, tokens : 0..Burst, lastSeen : 0..MaxTime]]
  /\ granted \in [Visitors -> Nat] /\ first \in [Visitors -> 0..MaxTime + 1]
  /\ \A v \in Visitors : bucket[v].lastSeen <= now

Init ==
  /\ now = 0 /\ bucket = [v \in Visitors |-> NoBucket]
  /\ granted = [v \in Visitors |-> 0] /\ first = [v \in Visitors |-> MaxTime + 1]

----------------------------------------------------------------------------
\* Whole intervals since lastSeen, times the rate.
Refill(b) == ((now - b.lastSeen) \div Interval) * Rate

Capped(n) == IF n > Burst THEN Burst ELSE n

\* The bucket before this request: lastSeen moves only when tokens were added.
Refilled(b) ==
  IF Refill(b) > 0 THEN [b EXCEPT !.tokens = Capped(@ + Refill(b)), !.lastSeen = now] ELSE b

Enough(b) == b.tokens > 0

\* allow: a new visitor has a full bucket; anyone else spends a token or is refused.
Allowed(v) == ~bucket[v].live \/ Enough(Refilled(bucket[v]))

Spend(b) == [b EXCEPT !.tokens = @ - 1]

Allow(v) ==
  /\ bucket' = [bucket EXCEPT ![v] =
       IF ~bucket[v].live THEN [live |-> TRUE, tokens |-> Burst - 1, lastSeen |-> now]
       ELSE IF Allowed(v) THEN Spend(Refilled(bucket[v]))
       ELSE Refilled(bucket[v])]
  /\ granted' = IF Allowed(v) THEN [granted EXCEPT ![v] = @ + 1] ELSE granted
  /\ first' = IF granted[v] = 0 THEN [first EXCEPT ![v] = now] ELSE first
  /\ UNCHANGED now

\* A plausible bug: a bucket is forgotten as soon as one refill is due.
ForgettableEarly(b) == now - b.lastSeen >= Interval

Forgettable(b) == now - b.lastSeen > Stale

\* cleanup, every five minutes.
Cleanup ==
  /\ bucket' = [v \in Visitors |->
                  IF bucket[v].live /\ Forgettable(bucket[v]) THEN NoBucket ELSE bucket[v]]
  /\ bucket' # bucket
  /\ UNCHANGED <<now, seen>>

Tick == now < MaxTime /\ now' = now + 1 /\ UNCHANGED <<bucket, seen>>

Next == (\E v \in Visitors : Allow(v)) \/ Cleanup \/ Tick

Spec == Init /\ [][Next]_vars

----------------------------------------------------------------------------
\* Nobody gets more than a burst and the rate for each interval since the first
\* request, also across forgotten buckets (allow, cleanup).
RateKept ==
  \A v \in Visitors : granted[v] > 0 =>
    granted[v] <= Burst + Rate * ((now - first[v]) \div Interval)

=============================================================================
