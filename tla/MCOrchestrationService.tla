----------------------- MODULE MCOrchestrationService -----------------------
(* Small instances of the orchestration service for TLC.                    *)
EXTENDS OrchestrationService, TLC

CONSTANTS a1, a2, a3, t1, t2, h1

Symmetry == Permutations(Tasks)

(* The service after the agents in R have registered and beaten once.       *)
Booted(R) ==
  /\ Sched!Init
  /\ knownAgents = R
  /\ fresh = R
  /\ checks = [h \in Handlers |-> Idle]
  /\ rows = LET s == SetToSeq(R)
            IN [i \in DOMAIN s |->
                  [name |-> s[i], status |-> "active", config |-> <<>>,
                   dereg |-> FALSE]]
  /\ pending = [op \in Agents \cup {Closer} |-> Idle]
  /\ running = TRUE
  /\ job = [h \in Handlers |-> Idle]
  /\ closing = [at |-> "no"]
  /\ up = Agents
  /\ late = 0

SafetySpec == (\E R \in {Agents, {a1}} : Booted(R)) /\ [][Next]_vars
LiveSpec == Booted(Agents) /\ [][Next]_vars /\ Fairness
=============================================================================
