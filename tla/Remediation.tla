------------------------------- MODULE Remediation -----------------------------
(* The remediate tool of agents/dw-incidents: the gates on the tier and the   *)
(* confidence, the playbook, and what is recorded of it.  Calls overlap at    *)
(* every await; the orchestrator, the bus and the store may throw, and no     *)
(* handler around the whole catches what is thrown outside the playbook.  The *)
(* autonomy controller of this edition permits every operation.  Confidences  *)
(* are percentages.                                                           *)
EXTENDS Naturals, FiniteSets, FiniteSetsExt

CONSTANTS
    Calls,
    Requests,    \* [incident, type, playbook, confidence, dryRun] of the calls
    Registered,  \* incidents that have a row in the store
    Tiers        \* the license tiers a server may run under

Incidents == {r.incident : r \in Requests}
IncidentTypes == {"schema_change", "source_delay", "resource_exhaustion",
                  "code_regression", "infrastructure", "quality_degradation"}

RemediationAssumption ==
    /\ IsFiniteSet(Calls)
    /\ \A r \in Requests : /\ r.type \in IncidentTypes /\ r.confidence \in 0 .. 100
                           /\ r.dryRun \in BOOLEAN

VARIABLES
    tier,
    request,   \* what each call asks
    at,        \* where it stands
    count,     \* the auto_resolution_count of the customer in the store
    read,      \* what each call read of it
    told,      \* the events each call published, in no order
    executed,  \* the calls whose orchestrator operation took place
    row        \* the status of each incident in the store

vars == <<tier, request, at, count, read, told, executed, row>>

Events == {"incident_escalated", "incident_remediated", "incident.remediated"}
Waiting == {"escalate", "playbook", "remediated", "get", "set", "log", "failed", "metric"}

TypeOK ==
    /\ tier \in Tiers
    /\ request \in [Calls -> Requests]
    /\ at \in [Calls -> Waiting \cup {"new", "done", "thrown"}]
    /\ count \in 0 .. Cardinality(Calls) /\ read \in [Calls -> 0 .. Cardinality(Calls)]
    /\ told \in [Calls -> SUBSET Events]
    /\ executed \subseteq Calls
    /\ row \in [Incidents -> {"none", "open", "resolved"}]

Init ==
    /\ tier \in Tiers
    /\ request \in [Calls -> Requests]
    /\ at = [c \in Calls |-> "new"]
    /\ count = 0 /\ read = [c \in Calls |-> 0]
    /\ told = [c \in Calls |-> {}]
    /\ executed = {}
    /\ row = [i \in Incidents |-> IF i \in Registered THEN "open" ELSE "none"]

To(c, where) == at' = [at EXCEPT ![c] = where]

\* The registry: the incidents a playbook is for and the confidence it needs.
BuiltIn ==
    [restart_task |-> [types |-> {"code_regression", "infrastructure"}, min |-> 90],
     scale_compute |-> [types |-> {"resource_exhaustion"}, min |-> 85],
     apply_schema_migration |-> [types |-> {"schema_change"}, min |-> 90],
     switch_backup_source |-> [types |-> {"source_delay", "infrastructure"}, min |-> 85],
     backfill_data |-> [types |-> {"quality_degradation", "source_delay"}, min |-> 85]]

\* selectBest: the playbooks of the registry that may be taken for an incident.
Applicable(type, confidence) ==
    {p \in DOMAIN BuiltIn : type \in BuiltIn[p].types /\ confidence >= BuiltIn[p].min}

\* Without one the engine's own threshold decides.
AutoRemediate(r) == Applicable(r.type, r.confidence) # {} \/ r.confidence >= 95

\* selectPlaybook: the engine's playbook for a type, unless the caller names one.
\* It need not be the one whose threshold was met.
Selected(r) ==
    IF r.playbook # "default" THEN r.playbook
    ELSE CASE r.type = "schema_change" -> "apply_schema_migration"
           [] r.type = "source_delay" -> "switch_backup_source"
           [] r.type = "resource_exhaustion" -> "scale_compute"
           [] r.type \in {"code_regression", "infrastructure"} -> "restart_task"
           [] r.type = "quality_degradation" -> "backfill_data"

\* The playbooks that call the orchestrator; the others only note what they
\* would have done, and cannot fail.
Operates(playbook) == playbook \in {"restart_task", "scale_compute", "backfill_data"}

Ask(c) ==
    /\ at[c] = "new"
    /\ To(c, IF tier = "community" /\ ~request[c].dryRun THEN "done"
             ELSE IF AutoRemediate(request[c]) THEN "playbook" ELSE "escalate")
    /\ UNCHANGED <<tier, request, count, read, told, executed, row>>

Acts(c) == ~request[c].dryRun /\ Operates(Selected(request[c]))

\* executePlaybook: a dry run calls no operation of the orchestrator; one that
\* throws may have taken place (the status query after it throws).
Playbook(c) ==
    /\ at[c] = "playbook"
    /\ \/ /\ To(c, "remediated")
          /\ executed' = executed \cup {d \in {c} : Acts(c)}
       \/ /\ Acts(c)
          /\ To(c, "failed")
          /\ executed' \in {executed, executed \cup {c}}
    /\ UNCHANGED <<tier, request, count, read, told, row>>

\* The events: of an escalation, of a failure, of a success, and the metric.
Publish(c, from, event, to) ==
    /\ at[c] = from
    /\ told' = [told EXCEPT ![c] = @ \cup {event}]
    /\ To(c, to)
    /\ UNCHANGED <<tier, request, count, read, executed, row>>

\* The counter is read in one await and written in the next.
GetCount(c) ==
    /\ at[c] = "get"
    /\ read' = [read EXCEPT ![c] = count]
    /\ To(c, "set")
    /\ UNCHANGED <<tier, request, count, told, executed, row>>

SetCount(c) ==
    /\ at[c] = "set"
    /\ count' = read[c] + 1
    /\ To(c, "log")
    /\ UNCHANGED <<tier, request, read, told, executed, row>>

\* A plausible bug: the failure branch falls into the update of the incident.
ResolveFailed(c) ==
    /\ at[c] \in {"log", "failed"}
    /\ row' = [row EXCEPT ![request[c].incident] = IF @ = "none" THEN @ ELSE "resolved"]
    /\ To(c, "metric")
    /\ UNCHANGED <<tier, request, count, read, told, executed>>

\* The log and the incident's row; what either throws is swallowed.
Resolve(c) ==
    /\ at[c] = "log"
    /\ \/ row' = [row EXCEPT ![request[c].incident] = IF @ = "none" THEN @ ELSE "resolved"]
       \/ UNCHANGED row
    /\ To(c, "metric")
    /\ UNCHANGED <<tier, request, count, read, told, executed>>

\* A publish or a store operation throws, and the handler with it.
Throw(c) ==
    /\ at[c] \in Waiting \ {"playbook", "log"}
    /\ To(c, "thrown")
    /\ UNCHANGED <<tier, request, count, read, told, executed, row>>

Next ==
    \E c \in Calls :
        \/ Ask(c) \/ Playbook(c) \/ GetCount(c) \/ SetCount(c) \/ Resolve(c) \/ Throw(c)
        \/ Publish(c, "escalate", "incident_escalated", "done")
        \/ Publish(c, "failed", "incident_escalated", "metric")
        \/ Publish(c, "remediated", "incident_remediated", "get")
        \/ Publish(c, "metric", "incident.remediated", "done")

Spec == Init /\ [][Next]_vars

-------------------------------------------------------------------------------
Remediated == {c \in Calls : "incident_remediated" \in told[c]}

\* What any playbook for incidents of its type needs.
Deserves(r) ==
    r.confidence >= Min({BuiltIn[p].min : p \in {q \in DOMAIN BuiltIn : r.type \in BuiltIn[q].types}})

\* Overlapping calls may lose increments of the counter but invent none; an
\* incident is resolved only by a call that announced its remediation, met a
\* threshold for its type and did not escalate; and an operation of the
\* orchestrator is announced, escalated, or the call threw before it could.
RecordsAreEarned ==
    /\ count <= Cardinality(Remediated)
    /\ (\E c \in Remediated : at[c] \in {"log", "metric", "done"}) => count > 0
    /\ \A i \in Incidents : row[i] = "resolved" =>
        \E c \in Remediated : /\ request[c].incident = i /\ Deserves(request[c])
                              /\ "incident_escalated" \notin told[c]
    /\ \A c \in executed : /\ tier # "community" /\ ~request[c].dryRun /\ Deserves(request[c])
                           /\ at[c] = "done" => told[c] \cap {"incident_escalated", "incident_remediated"} # {}

\* remediate.ts:31: "If true, simulates remediation without executing."  A dry
\* run that succeeds is counted, announced as a remediation and resolves the
\* incident, on every tier.
ResolvedWasExecuted ==
    \A i \in Incidents : row[i] = "resolved" =>
        \E c \in Remediated : request[c].incident = i /\ ~request[c].dryRun
===============================================================================
