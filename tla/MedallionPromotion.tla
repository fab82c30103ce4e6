--------------------------- MODULE MedallionPromotion --------------------------
(* core/medallion: promotions of tables from bronze to silver to gold by the  *)
(* PromotionEngine and its MedallionCoordinator, with the lineage, the audit  *)
(* log and the completed promotions they keep, and rollbacks.  The scores of  *)
(* the quality gates are abstracted to the kinds of gates that fail; platform *)
(* adapters either do what they are asked or throw and leave nothing behind.  *)
EXTENDS Naturals

CONSTANTS
    Tables,
    Requests,  \* what is asked for: a rule's layers and tables, and the
               \* onFailure kinds of the gates its data fail ({} without data)
    Calls,     \* the promotions, by the id their result gets
    None

Layers == 0 .. 2   \* LAYER_ORDER: bronze, silver, gold

PromotionAssumption ==
    Requests \subseteq [from : Layers, source : Tables, to : Layers, target : Tables,
                       failing : SUBSET {"block", "quarantine", "alert"}]

VARIABLES
    registered,  \* LayerRegistry.mappings
    at,          \* where each promotion stands
    request,     \* what each promotion was asked to do
    platform,    \* the promotions the platform holds
    edges,       \* LineageTracker.edges, with the promotion of each
    audit,       \* AuditLog.entries
    completed    \* completedPromotions

vars == <<registered, at, request, platform, edges, audit, completed>>

Actions == {"promote", "quarantine", "rollback"}
Statuses == {"success", "failed", "quarantined", "none"}

TypeOK ==
    /\ registered \subseteq Layers \X Tables
    /\ at \in [Calls -> {"new", "adapter", "done", "rollback"}]
    /\ request \in [Calls -> Requests \cup {None}]
    /\ platform \subseteq Calls /\ completed \subseteq Calls
    /\ edges \subseteq [from : Layers, source : Tables, to : Layers, target : Tables, of : Calls]
    /\ audit \subseteq [action : Actions, of : Calls, status : Statuses]

Init ==
    /\ registered = {}
    /\ at = [c \in Calls |-> "new"]
    /\ request = [c \in Calls |-> None]
    /\ platform = {} /\ edges = {} /\ audit = {} /\ completed = {}

Register(layer, table) ==
    /\ registered' = registered \cup {<<layer, table>>}
    /\ UNCHANGED <<at, request, platform, edges, audit, completed>>

ValidPromotionOrder(r) == r.to = r.from + 1

Allowed(r) == ValidPromotionOrder(r) /\ <<r.from, r.source>> \in registered

Entry(action, c, status) == [action |-> action, of |-> c, status |-> status]

\* dryRun: it looks at the blocking gates only.
WouldPromote(r) == Allowed(r) /\ "block" \notin r.failing

\* A plausible bug: only the gates the dry run looks at are enforced.
VerdictDry(r) == IF "block" \in r.failing THEN "failed" ELSE "success"

\* What the gates make of a request.
Verdict(r) ==
    CASE "block" \in r.failing -> "failed"
      [] "quarantine" \in r.failing -> "quarantined"
      [] OTHER -> "success"

\* Order and source are checked, then the gates, whose refusals are audited;
\* then the adapter is called.
Promote(c, r) ==
    /\ at[c] = "new"
    /\ request' = [request EXCEPT ![c] = r]
    /\ \/ /\ ~Allowed(r)
          /\ at' = [at EXCEPT ![c] = "done"]
          /\ UNCHANGED audit
       \/ /\ Allowed(r) /\ Verdict(r) # "success"
          /\ at' = [at EXCEPT ![c] = "done"]
          /\ audit' = audit \cup {Entry(IF Verdict(r) = "failed" THEN "promote" ELSE "quarantine",
                                        c, Verdict(r))}
       \/ /\ Allowed(r) /\ Verdict(r) = "success"
          /\ at' = [at EXCEPT ![c] = "adapter"]
          /\ UNCHANGED audit
    /\ UNCHANGED <<registered, platform, edges, completed>>

\* The adapter answers: trackPromotion, the audit entry, completedPromotions.
Promoted(c) ==
    /\ at[c] = "adapter"
    /\ at' = [at EXCEPT ![c] = "done"]
    /\ platform' = platform \cup {c}
    /\ edges' = edges \cup {[from |-> request[c].from, source |-> request[c].source,
                             to |-> request[c].to, target |-> request[c].target, of |-> c]}
    /\ audit' = audit \cup {Entry("promote", c, "success")}
    /\ completed' = completed \cup {c}
    /\ UNCHANGED <<registered, request>>

\* The adapter throws: a failed result, and no entry in the audit log.
AdapterThrows(c) ==
    /\ at[c] = "adapter"
    /\ at' = [at EXCEPT ![c] = "done"]
    /\ UNCHANGED <<registered, request, platform, edges, audit, completed>>

\* rollback takes the id of any result; the adapter drops what it holds of it.
Rollback(c) ==
    /\ at[c] = "done"
    /\ at' = [at EXCEPT ![c] = "rollback"]
    /\ platform' = platform \ {c}
    /\ UNCHANGED <<registered, request, edges, audit, completed>>

\* The audit entry and the deletion that follow; the lineage edge stays.
RolledBack(c) ==
    /\ at[c] = "rollback"
    /\ at' = [at EXCEPT ![c] = "done"]
    /\ audit' = audit \cup {Entry("rollback", c, "none")}
    /\ completed' = completed \ {c}
    /\ UNCHANGED <<registered, request, platform, edges>>

Next ==
    \/ \E layer \in Layers, t \in Tables : Register(layer, t)
    \/ \E c \in Calls, r \in Requests : Promote(c, r)
    \/ \E c \in Calls : Promoted(c) \/ AdapterThrows(c) \/ Rollback(c) \/ RolledBack(c)

Spec == Init /\ [][Next]_vars

-------------------------------------------------------------------------------
\* traceGoldToSource: the tables a table was promoted from, itself included.
Step(S) == S \cup {<<e.from, e.source>> : e \in {d \in edges : <<d.to, d.target>> \in S}}

Trace(t) == Step(Step({<<2, t>>}))

\* The four records of a promotion agree while calls overlap and adapters fail:
\* the platform holds exactly the promotions the audit log has as promoted and
\* not as rolled back, completedPromotions has them too, no gate that should
\* have stopped one had failed, and the trace of a gold table finds the
\* registered source of each of them.
RecordsAgree ==
    \A c \in Calls :
        LET r == request[c] IN
        /\ at[c] # "rollback" =>
            (c \in platform <=> /\ Entry("promote", c, "success") \in audit
                                /\ Entry("rollback", c, "none") \notin audit)
        /\ c \in platform =>
            /\ c \in completed
            /\ r.failing \subseteq {"alert"} /\ WouldPromote(r)
            /\ r.to = 2 => <<r.from, r.source>> \in Trace(r.target) \cap registered
===============================================================================
