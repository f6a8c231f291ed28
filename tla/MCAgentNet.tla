----------------------------- MODULE MCAgentNet -----------------------------
(***************************************************************************)
(* Model checking of the parts of the agent of AgentNetProofs, which share *)
(* no state with each other.  A behaviour is about one of them (sel), so   *)
(* that one run of TLC covers the sum of their state spaces and not the    *)
(* product.  AgentNet.cfg gives the constants small values.                *)
(***************************************************************************)
EXTENDS AgentNetProofs

\* Portmap: the protocols of the two routers.
MCOffers == <<{"natpmp", "upnp"}, {"pcp"}>>

VARIABLE sel   \* the component this behaviour is about

vars == <<sel, portmapVars, quicVars, configVars, httpVars>>

\* The components that are not looked at stay in one of their initial states.
Init ==
  /\ sel \in {"portmap", "quic", "config", "http"}
  /\ P!Init
  /\ sel # "portmap" => host = 0 /\ \A r \in P!Routers : gwip[r] = 1
  /\ Q!Init
  /\ N!Init
  /\ mode = "userspace" /\ yaml.cfg.port = "other"
  /\ H!Init
  /\ sel # "http" => bare = 0

PortmapSteps ==
  /\ sel = "portmap" /\ P!Next
  /\ UNCHANGED <<sel, quicVars, configVars, httpVars>>

QuicSessionSteps ==
  /\ sel = "quic" /\ Q!Next
  /\ UNCHANGED <<sel, portmapVars, configVars, httpVars>>

NebulaConfigSteps ==
  /\ sel = "config" /\ N!Next
  /\ UNCHANGED <<sel, portmapVars, quicVars, httpVars>>

\* NoLostServer says nothing after a crossing, which is for good: behaviours end there.
ServerSetSteps ==
  /\ sel = "http" /\ ~crossed /\ H!Next
  /\ UNCHANGED <<sel, portmapVars, quicVars, configVars>>

Next ==
  \/ PortmapSteps
  \/ QuicSessionSteps
  \/ NebulaConfigSteps
  \/ ServerSetSteps

\* The fairness of each component's own specification.
Fairness ==
  /\ WF_portmapVars(sel = "portmap" /\ P!Mapping)
  /\ WF_portmapVars(sel = "portmap" /\ P!Loop)
  /\ WF_portmapVars(sel = "portmap" /\ P!Start)
  /\ \A g \in Callers : WF_quicVars(sel = "quic" /\ Q!Reconnecting(g))
  /\ WF_quicVars(sel = "quic" /\ Q!SendReads)
  /\ WF_quicVars(sel = "quic" /\ Q!SendDatagram)
  /\ WF_quicVars(sel = "quic" /\ Q!Deferred)
  /\ \A c \in Conns : WF_quicVars(sel = "quic" /\ Q!ReceiverExits(c))

Spec == Init /\ [][Next]_vars /\ Fairness

=============================================================================
