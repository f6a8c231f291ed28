--------------------------- MODULE MCServerAccess ---------------------------
(***************************************************************************)
(* Model checking of the parts of the control plane of ServerAccessProofs, *)
(* which share no state with each other.  A behaviour is about one of them *)
(* (sel), so that one run of TLC covers the sum of their state spaces and  *)
(* not the product.  ServerAccess.cfg gives the constants small values.    *)
(***************************************************************************)
EXTENDS ServerAccessProofs

VARIABLE sel   \* the component this behaviour is about

vars == <<sel, statusVars, proxyVars, rateVars, accountVars>>

\* The components that are not looked at stay in one of their initial states.
Init ==
  /\ sel \in {"status", "proxy", "rate", "account"}
  /\ NS!Init
  /\ P!Init
  /\ sel # "proxy" => \A u \in ProxyUsers : proxyRole[u] = "none"
  /\ R!Init
  /\ A!Init

\* Requests are alike: one begins in the first free goroutine, which leaves out renamings
\* only.
NodeStatusSteps ==
  /\ sel = "status" /\ NS!Next
  /\ \A t, u \in Handlers : u < t /\ th[t].pc = "idle" /\ th'[t].pc # "idle" => th[u].pc # "idle"
  /\ UNCHANGED <<sel, proxyVars, rateVars, accountVars>>

ProxyAuthSteps ==
  /\ sel = "proxy" /\ P!Next
  /\ UNCHANGED <<sel, statusVars, rateVars, accountVars>>

RateLimiterSteps ==
  /\ sel = "rate" /\ R!Next
  /\ UNCHANGED <<sel, statusVars, proxyVars, accountVars>>

AccountsSteps ==
  /\ sel = "account" /\ A!Next
  /\ UNCHANGED <<sel, statusVars, proxyVars, rateVars>>

Next ==
  \/ NodeStatusSteps
  \/ ProxyAuthSteps
  \/ RateLimiterSteps
  \/ AccountsSteps

\* The fairness of each component's own specification.
Fairness ==
  /\ WF_statusVars(sel = "status" /\ NS!Tick)
  /\ \A t \in NS!Threads : WF_statusVars(sel = "status" /\ NS!Transition(t))
  /\ WF_statusVars(sel = "status" /\ NS!FlushDrain)
  /\ WF_statusVars(sel = "status" /\ NS!FlushCommit)
  /\ WF_statusVars(sel = "status" /\ NS!ScanStaleOnlineNodes)
  /\ \A n \in Nodes : SF_statusVars(sel = "status" /\ NS!MarkOfflineOnStale(n))
  /\ \A n \in Nodes : SF_statusVars(sel = "status" /\ \E t \in Handlers : NS!Heartbeat(t, n))

Spec == Init /\ [][Next]_vars /\ Fairness

=============================================================================
