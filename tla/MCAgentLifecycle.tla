-------------------------- MODULE MCAgentLifecycle --------------------------
(* Instances of AgentLifecycle for model checking.                         *)
EXTENDS AgentLifecycle, TLC

Symmetry == Permutations(Threads) \cup Permutations(Insts)

=============================================================================
