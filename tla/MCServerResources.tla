------------------------- MODULE MCServerResources -------------------------
(***************************************************************************)
(* Model checking of the parts of the control plane of                     *)
(* ServerResourcesProofs, which share no state with each other.  A         *)
(* behaviour is about one of them (sel), so that one run of TLC covers the *)
(* sum of their state spaces and not the product.  ServerResources.cfg     *)
(* gives the constants small values.                                       *)
(***************************************************************************)
EXTENDS ServerResourcesProofs

VARIABLE sel   \* the component this behaviour is about

vars == <<sel, forwardVars, hubVars, logVars, memberVars>>

\* The components that are not looked at stay in one of their initial states.
Init ==
  /\ sel \in {"forward", "hub", "log", "member"}
  /\ F!Init
  /\ H!Init
  /\ L!Init
  /\ M!Init

ForwardsSteps ==
  /\ sel = "forward" /\ F!Next
  /\ UNCHANGED <<sel, hubVars, logVars, memberVars>>

EventHubSteps ==
  /\ sel = "hub" /\ H!Next
  /\ UNCHANGED <<sel, forwardVars, logVars, memberVars>>

LogStoreSteps ==
  /\ sel = "log" /\ L!Next
  /\ UNCHANGED <<sel, forwardVars, hubVars, memberVars>>

MembershipSteps ==
  /\ sel = "member" /\ M!Next
  /\ UNCHANGED <<sel, forwardVars, hubVars, logVars>>

Next ==
  \/ ForwardsSteps
  \/ EventHubSteps
  \/ LogStoreSteps
  \/ MembershipSteps

\* The fairness of each component's own specification.
Fairness ==
  /\ WF_forwardVars(sel = "forward" /\ F!ReapIdle)
  /\ \A f \in Fwds : WF_forwardVars(sel = "forward" /\ F!Register(f))
  /\ \A f \in Fwds : WF_forwardVars(sel = "forward" /\ F!TimePasses(f))
  /\ \A c \in Clients : WF_forwardVars(sel = "forward" /\ F!Handler(c))
  /\ \A s \in F!Stoppers : WF_forwardVars(sel = "forward" /\ F!Draining(s))
  /\ WF_logVars(sel = "log" /\ L!Ticking)
  /\ WF_logVars(sel = "log" /\ L!Flush("main"))

Spec == Init /\ [][Next]_vars /\ Fairness

=============================================================================
