-------------------------- MODULE HeartbeatMonitor --------------------------
(***************************************************************************)
(* agents/dw-orchestration/src/heartbeat-monitor.ts over the in-memory     *)
(* key-value store.  A heartbeat is a key with a TTL of 15 s.  The monitor *)
(* and the store read the same clock, so the test on the age of a beat     *)
(* that is still in the store always says alive: an agent is alive exactly *)
(* while its key is there, and time is only needed for the key to expire.  *)
(* checkHealth awaits the store once per known agent.                      *)
(***************************************************************************)
CONSTANTS Agents,  \* the agent names
          Calls,   \* identities for concurrent checkHealth calls
          Idle     \* the state of a call identity that is not in use

VARIABLES knownAgents,  \* the agents that ever beat and were not removed
          fresh,        \* the agents whose heartbeat key has not expired
          checks        \* the checkHealth calls in progress

vars == <<knownAgents, fresh, checks>>

Init == /\ knownAgents = {}
        /\ fresh = {}
        /\ checks = [c \in Calls |-> Idle]

Beat(a) == /\ knownAgents' = knownAgents \cup {a}
           /\ fresh' = fresh \cup {a}
           /\ UNCHANGED checks

(* 15 s passed since the last beat of a.                                    *)
Expire(a) == /\ a \in fresh
             /\ fresh' = fresh \ {a}
             /\ UNCHANGED <<knownAgents, checks>>

(* Mutant: the heartbeat key of a removed agent stays in the store.         *)
RemoveAgentKeepKey(a) ==
  /\ knownAgents' = knownAgents \ {a}
  /\ checks' = [c \in Calls |->
                  IF checks[c] = Idle THEN Idle
                  ELSE [checks[c] EXCEPT !.seen = @ \ {a}]]
  /\ UNCHANGED fresh

(* removeAgent: a Set iteration in progress no longer visits the agent,     *)
(* and visits it anew if it comes back.                                     *)
RemoveAgent(a) ==
  /\ knownAgents' = knownAgents \ {a}
  /\ fresh' = fresh \ {a}
  /\ checks' = [c \in Calls |->
                  IF checks[c] = Idle THEN Idle
                  ELSE [checks[c] EXCEPT !.seen = @ \ {a}]]

CheckHealth(c) == /\ checks[c] = Idle
                  /\ checks' = [checks EXCEPT ![c] = [seen |-> {}, failed |-> {}]]
                  /\ UNCHANGED <<knownAgents, fresh>>

(* Mutant: the test on the age of a beat is turned around.                  *)
CheckAgentInverted(c, a) ==
  /\ checks[c] # Idle
  /\ a \in knownAgents \ checks[c].seen
  /\ checks' = [checks EXCEPT
                  ![c].seen = @ \cup {a},
                  ![c].failed = IF a \notin fresh THEN @ ELSE @ \cup {a}]
  /\ UNCHANGED <<knownAgents, fresh>>

(* Mutant: an agent without a heartbeat is polled until it has one.         *)
CheckAgentPolling(c, a) ==
  /\ checks[c] # Idle
  /\ a \in (knownAgents \ checks[c].seen) \cap fresh
  /\ checks' = [checks EXCEPT ![c].seen = @ \cup {a}]
  /\ UNCHANGED <<knownAgents, fresh>>

(* One turn of the loop: the key of the next known agent is read.           *)
CheckAgent(c, a) ==
  /\ checks[c] # Idle
  /\ a \in knownAgents \ checks[c].seen
  /\ checks' = [checks EXCEPT
                  ![c].seen = @ \cup {a},
                  ![c].failed = IF a \in fresh THEN @ ELSE @ \cup {a}]
  /\ UNCHANGED <<knownAgents, fresh>>

(* The loop has visited every known agent; getFailedAgents returns.         *)
CheckDone(c) == /\ checks[c] # Idle
                /\ knownAgents \subseteq checks[c].seen
                /\ checks' = [checks EXCEPT ![c] = Idle]
                /\ UNCHANGED <<knownAgents, fresh>>

TypeOK ==
  /\ knownAgents \subseteq Agents
  /\ fresh \subseteq knownAgents
  /\ checks \in [Calls -> [seen : SUBSET Agents, failed : SUBSET Agents]
                          \cup {Idle}]
=============================================================================
