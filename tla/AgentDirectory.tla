--------------------------- MODULE AgentDirectory ---------------------------
(***************************************************************************)
(* What the agent registry promises: a map from the registered agents to   *)
(* their per-tenant switches.  Registering puts an agent in the map,       *)
(* deregistering takes it out, a toggle changes one switch of an agent     *)
(* that is in it, and nothing else changes.                                *)
(***************************************************************************)
CONSTANTS Agents, Tenants, Absent

VARIABLE dir   \* dir[n]: the switches of agent n, or Absent

Fresh == [t \in Tenants |-> "unset"]

Init == dir = [n \in Agents |-> Absent]

Register(n) == dir' = [dir EXCEPT ![n] = Fresh]

Deregister(n) == dir' = [dir EXCEPT ![n] = Absent]

Toggle(n, t, v) == /\ dir[n] # Absent
                   /\ dir' = [dir EXCEPT ![n] = [@ EXCEPT ![t] = v]]

Next == \E n \in Agents :
           \/ Register(n)
           \/ Deregister(n)
           \/ \E t \in Tenants, v \in {"on", "off"} : Toggle(n, t, v)

Spec == Init /\ [][Next]_dir
=============================================================================
