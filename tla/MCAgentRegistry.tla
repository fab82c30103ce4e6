-------------------------- MODULE MCAgentRegistry --------------------------
(* Small instances of the agent registry for TLC.                           *)
EXTENDS AgentRegistry, TLC

CONSTANTS a1, a2, x1, x2, o1, o2

Symmetry == Permutations(Agents) \cup Permutations(Tenants)
                                 \cup Permutations(Ops)
=============================================================================
