---------------------------- MODULE AgentRegistry ----------------------------
(***************************************************************************)
(* agents/dw-orchestration/src/agent-registry.ts over the in-memory        *)
(* relational store: an append-only table in which the last row of a name  *)
(* counts.  Every operation that writes first awaits getByName, so it is a *)
(* read and, after other callers had their turn, an insert.                *)
(***************************************************************************)
EXTENDS Naturals, SequencesExt

CONSTANTS Agents,      \* the agent names
          Tenants,     \* the tenants with a switch per agent
          Ops,         \* identities for concurrent registry calls
          MaxRows,     \* bound on the table a new call may start from
          ListedOnly,  \* TRUE when callers toggle only agents list() shows
          Absent,      \* getByName's null
          Idle         \* the state of a call identity that is not in use

VARIABLES rows,     \* the 'agents' table
          pending   \* the calls suspended between their read and their insert

vars == <<rows, pending>>

Switches == [Tenants -> {"unset", "on", "off"}]
Row == [name : Agents, status : {"active", "inactive"}, config : Switches,
        dereg : BOOLEAN]
Kinds == {"register", "deregister", "toggle"}

(* What the constants must satisfy.                                         *)
RegistryAssumption ==
  /\ MaxRows \in Nat
  /\ ListedOnly \in BOOLEAN
  /\ Absent \notin Row \cup Switches

(* The newest of the rows at the indices in S.                              *)
Newest(S) == IF S = {} THEN Absent ELSE rows[Max(S)]

(* list(): the last row of a name counts, unless it is a tombstone.         *)
LastRow(n) == Newest({i \in DOMAIN rows : rows[i].name = n})

Listed(n) == LastRow(n) # Absent /\ ~ LastRow(n).dereg

(* getByName(): the last row that is not a tombstone, whatever follows it.  *)
GetByName(n) == Newest({i \in DOMAIN rows : rows[i].name = n /\ ~ rows[i].dereg})

(* The call op has read the table and will insert row when it resumes.      *)
Suspend(op, kind, row) ==
  /\ pending[op] = Idle
  /\ Len(rows) < MaxRows
  /\ pending' = [pending EXCEPT ![op] = [kind |-> kind, row |-> row]]
  /\ UNCHANGED rows

-----------------------------------------------------------------------------
Init == /\ rows = <<>>
        /\ pending = [op \in Ops |-> Idle]

(* register(agent): what getByName finds is not used.                       *)
Register(op, n) ==
  Suspend(op, "register",
          [name |-> n, status |-> "active",
           config |-> [t \in Tenants |-> "unset"], dereg |-> FALSE])

(* deregister(name): a tombstone made of the row that was read.             *)
Deregister(op, n) ==
  /\ GetByName(n) # Absent
  /\ Suspend(op, "deregister",
             [GetByName(n) EXCEPT !.status = "inactive", !.dereg = TRUE])

(* Mutant: the new switches are not spread over the old ones.               *)
SetOnlyTenant(op, n, t, v) ==
  /\ GetByName(n) # Absent
  /\ ListedOnly => Listed(n)
  /\ Suspend(op, "toggle", [GetByName(n) EXCEPT
                !.config = [x \in Tenants |-> IF x = t THEN v ELSE "unset"]])

(* setTenantConfig(name, tenant, enabled): throws when getByName is null.   *)
SetTenantConfig(op, n, t, v) ==
  /\ GetByName(n) # Absent
  /\ ListedOnly => Listed(n)
  /\ Suspend(op, "toggle", [GetByName(n) EXCEPT !.config[t] = v])

(* The call resumes and inserts its row.                                    *)
Insert(op) ==
  /\ pending[op] # Idle
  /\ rows' = Append(rows, pending[op].row)
  /\ pending' = [pending EXCEPT ![op] = Idle]

Next == \/ \E op \in Ops, n \in Agents : Register(op, n) \/ Deregister(op, n)
        \/ \E op \in Ops, n \in Agents, t \in Tenants, v \in {"on", "off"} :
              SetTenantConfig(op, n, t, v)
        \/ \E op \in Ops : Insert(op)

Spec == Init /\ [][Next]_vars

-----------------------------------------------------------------------------
TypeOK ==
  /\ rows \in Seq(Row)
  /\ pending \in [Ops -> [kind : Kinds, row : Row] \cup {Idle}]

(* Calls made one at a time, and toggles only of listed agents, give        *)
(* exactly the directory.                                                   *)
Shown == [n \in Agents |-> IF Listed(n) THEN LastRow(n).config ELSE Absent]
Directory == INSTANCE AgentDirectory WITH dir <- Shown
ImplementsDirectory == Directory!Spec

(* Only a registration brings an agent into list().                         *)
ListedByRegistration ==
  [][\A n \in Agents : ~ Listed(n) /\ Listed(n)' =>
        \E op \in Ops : /\ pending[op] # Idle /\ pending'[op] = Idle
                        /\ pending[op].kind = "register"]_vars
=============================================================================
