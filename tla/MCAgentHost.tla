---------------------------- MODULE MCAgentHost ----------------------------
(***************************************************************************)
(* Model checking of the parts of the agent of AgentHostProofs and         *)
(* AgentDesktopProofs, which share no state with each other.  A behaviour  *)
(* is about one of them (sel), so that one run of TLC covers the sum of    *)
(* their state spaces and not the product.  AgentHost.cfg gives the        *)
(* constants small values.                                                 *)
(***************************************************************************)
EXTENDS AgentHostProofs, AgentDesktopProofs

\* Clipboard: two machines of one network.
MCNetsOf == <<{1}, {1}>>

VARIABLE sel   \* the component this behaviour is about

vars == <<sel, filesVars, legacyVars, moveVars, installVars, pathVars, peersVars, clipVars>>

\* The components that are not looked at stay in one of their initial states.
Init ==
  /\ sel \in {"files", "legacy", "move", "install", "path", "peers", "clip"}
  /\ F!Init
  /\ L!Init
  /\ sel # "legacy" => legacyRoot = {}
  /\ S!Init
  /\ sel # "move" => sBak /\ dst = {} /\ console = "root"
  /\ I!Init
  /\ sel # "install" => os = "linux"
  /\ Y!Init
  /\ E!Init
  /\ sel # "peers" => file = E!Nothing
  /\ C!Init

CertFilesSteps ==
  /\ sel = "files" /\ F!Next
  /\ UNCHANGED <<sel, legacyVars, moveVars, installVars, pathVars, peersVars, clipVars>>

LegacyLayoutSteps ==
  /\ sel = "legacy" /\ L!Next
  /\ UNCHANGED <<sel, filesVars, moveVars, installVars, pathVars, peersVars, clipVars>>

SystemMoveSteps ==
  /\ sel = "move" /\ S!Next
  /\ UNCHANGED <<sel, filesVars, legacyVars, installVars, pathVars, peersVars, clipVars>>

InstallationSteps ==
  /\ sel = "install" /\ I!Next
  /\ UNCHANGED <<sel, filesVars, legacyVars, moveVars, pathVars, peersVars, clipVars>>

PathQualitySteps ==
  /\ sel = "path" /\ Y!Next
  /\ UNCHANGED <<sel, filesVars, legacyVars, moveVars, installVars, peersVars, clipVars>>

PeerEndpointsSteps ==
  /\ sel = "peers" /\ E!Next
  /\ UNCHANGED <<sel, filesVars, legacyVars, moveVars, installVars, pathVars, clipVars>>

ClipboardSteps ==
  /\ sel = "clip" /\ C!Next
  /\ UNCHANGED <<sel, filesVars, legacyVars, moveVars, installVars, pathVars, peersVars>>

Next ==
  \/ CertFilesSteps
  \/ LegacyLayoutSteps
  \/ SystemMoveSteps
  \/ InstallationSteps
  \/ PathQualitySteps
  \/ PeerEndpointsSteps
  \/ ClipboardSteps

\* The fairness of each component's own specification.
Fairness ==
  /\ WF_filesVars(sel = "files" /\ F!Expire)
  /\ WF_filesVars(sel = "files" /\ F!RunCertRenewal)
  /\ WF_filesVars(sel = "files" /\ F!RetryReload)
  /\ \A x \in F!Writers : WF_filesVars(sel = "files" /\ F!RenewCert(x))
  /\ SF_filesVars(sel = "files" /\ F!Renew(Loop))
  /\ SF_filesVars(sel = "files" /\ F!ReloadNebula(Loop))
  /\ \A f \in F!Files : SF_filesVars(sel = "files" /\ w[Loop].f = f /\ F!WriteFileOpen(Loop))
  /\ \A f \in F!Files : SF_filesVars(sel = "files" /\ w[Loop].f = f /\ F!WriteFile(Loop))

Spec == Init /\ [][Next]_vars /\ Fairness

=============================================================================
