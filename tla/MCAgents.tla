------------------------------- MODULE MCAgents -------------------------------
(* The components of the agents that work on data, side by side in one run:  *)
(* the catalog's graph, and beside it the schema watch, the promotions and   *)
(* the drift they meet, alerts and remediation, the validation of pipelines  *)
(* and the usage ledger.  A behaviour chooses a part at the start and takes  *)
(* steps of that part only.                                                  *)
EXTENDS Integers, Sequences, TLC

CONSTANTS Assets, Kinds, Mappings, Providers, Foreign,  \* of the catalog's graph
          MaxEdges, MaxLinks, CriticalOver, HighOver, MediumFrom, \* of it and of the writers of lineage
          Calls,                  \* of the promotions and of the remediations
          Tables, Promotions,     \* of the promotions
          Remediations, Registered, Tiers, \* of the remediations
          AlertKeys, Window, MaxTime, MaxSame, \* of the alerts
          Listings, TableSchemas, MaxEntries, MaxPeeked, Close, Widening, \* of the schema watch
          DriftColumns, DriftTypes, TypeWidth, \* of the drift
          TaskNames, MaxTasks, MaxDeps, MaxFindings, \* of the pipelines
          People, EventTimes, MaxEvents, Limits, \* of the ledger
          Absent

VARIABLES part,
          nodes, outEdges, inEdges,
          listed, live, snapshot, lru, scan, looked, peek, known, lost,
          registered, at, request, platform, edges, audit, completed,
          tier, asked, stage, count, read, told, executed, row,
          tasks, code, options, sandbox, connector,
          rows, lastHash, ingested, chained,
          job, links,
          upstream, downstream, healed,
          time, recentAlerts, seen, raised

graphVars == <<nodes, outEdges, inEdges>>
schemaVars == <<listed, live, snapshot, lru, scan, looked, peek, known, lost>>
promotionVars == <<registered, at, request, platform, edges, audit, completed>>
incidentVars == <<tier, asked, stage, count, read, told, executed, row>>
pipelineVars == <<tasks, code, options, sandbox, connector>>
ledgerVars == <<rows, lastHash, ingested, chained>>
lineageVars == <<job, links>>
driftVars == <<upstream, downstream, healed>>
alertVars == <<time, recentAlerts, seen, raised>>
catalog == <<graphVars, lineageVars>>
tables == <<schemaVars, promotionVars, driftVars>>
operations == <<incidentVars, alertVars, pipelineVars, ledgerVars>>

Column(name, type) == [name |-> name, type |-> type]
SchemaSet == {<<Column("id", "INT"), Column("qty", "INT")>>,
              <<Column("id", "BIGINT"), Column("qtys", "INT")>>,
              <<Column("qtys", "TEXT")>>}
CloseNames == {<<"qty", "qtys">>, <<"qtys", "qty">>}
WideningTypes == {<<"INT", "BIGINT">>}
(* get_schema_snapshot is called where there is one table only.              *)
TableLists == {<<"t">>, <<"t", "u">>}

WidthOf == [int |-> 3, integer |-> 3, bigint |-> 4, uuid |-> -1]

Promotion(from, to, failing) == [from |-> from, source |-> "t", to |-> to, target |-> "t", failing |-> failing]
PromotionSet == {Promotion(0, 1, {}), Promotion(1, 2, {}), Promotion(0, 2, {}),
                 Promotion(0, 1, {"block"}), Promotion(1, 2, {"quarantine"}),
                 Promotion(1, 2, {"alert"}), Promotion(0, 1, {"block", "quarantine"})}

(* One incident has two playbooks for its type, of different thresholds.     *)
IncidentRequests == {[incident |-> i.id, type |-> i.type, playbook |-> p, confidence |-> n, dryRun |-> d] :
                       i \in {[id |-> "i", type |-> "infrastructure"], [id |-> "j", type |-> "schema_change"]},
                       p \in {"default", "scale_compute"}, n \in {84, 85, 90}, d \in BOOLEAN}

NodeKinds == {[type |-> "model", columns |-> {"x"}], [type |-> "dashboard", columns |-> {}]}
ColumnMappings == {<<"x", "x">>, <<"x", "y">>}

Graph == INSTANCE CatalogGraph
Edits == INSTANCE LineageEditing WITH MaxEdges <- MaxLinks
Schema == INSTANCE SchemaWatch WITH Schemas <- TableSchemas, None <- Absent
Medallion == INSTANCE MedallionPromotion WITH Requests <- Promotions, None <- Absent
Incident == INSTANCE Remediation WITH Requests <- Remediations, request <- asked, at <- stage
Pipeline == INSTANCE PipelineValidator WITH Nodes <- TaskNames
Ledger == INSTANCE UsageLedger WITH Agents <- People, Times <- EventTimes

Drift == INSTANCE DriftHealer WITH Columns <- DriftColumns, Types <- DriftTypes, Width <- TypeWidth
Alerts == INSTANCE AlertDeduplication WITH Keys <- AlertKeys

ASSUME Assumptions == /\ Graph!GraphAssumption /\ Edits!WritersAssumption /\ Pipeline!ValidatorAssumption
                      /\ Medallion!PromotionAssumption /\ Incident!RemediationAssumption
                      /\ Drift!HealerAssumption /\ Alerts!DeduplicationAssumption
                      /\ Ledger!LedgerAssumption /\ Schema!WatchAssumption

Symmetry == Permutations(Assets) \cup Permutations(Calls)

Parts == {"graph", "lineage", "schema", "promotion", "incident", "pipeline", "ledger", "drift", "alerts"}

(* What the components with several initial states hold in the other parts.  *)
NoSchema == /\ listed = <<>> /\ live = {} /\ snapshot = {} /\ lru = <<>> /\ scan = Absent
            /\ looked = <<>> /\ peek = Absent /\ known = {} /\ lost = {}
NoIncident == /\ tier = Absent /\ asked = {} /\ stage = {} /\ count = 0
              /\ read = {} /\ told = {} /\ executed = {} /\ row = {}
NoLineage == job = {} /\ links = {}
NoDrift == upstream = <<>> /\ downstream = <<>> /\ healed = FALSE
NoPipeline == tasks = <<>> /\ code = {} /\ options = {} /\ sandbox = Absent /\ connector = Absent

Init ==
  /\ part \in Parts
  /\ Medallion!Init /\ Ledger!Init
  /\ IF part = "lineage" THEN Edits!LineageInit ELSE Graph!Init /\ NoLineage
  /\ IF part = "schema" THEN Schema!Init ELSE NoSchema
  /\ IF part = "incident" THEN Incident!Init ELSE NoIncident
  /\ Alerts!Init /\ IF part = "drift" THEN Drift!Init ELSE NoDrift
  /\ IF part = "pipeline" THEN Pipeline!Init ELSE NoPipeline

Next ==
  \/ part = "graph" /\ Graph!Next /\ UNCHANGED <<part, lineageVars, tables, operations>>
  \/ part = "lineage" /\ Edits!LineageNext /\ UNCHANGED <<part, tables, operations>>
  \/ part = "schema" /\ Schema!Next /\ UNCHANGED <<part, catalog, promotionVars, driftVars, operations>>
  \/ part = "promotion" /\ Medallion!Next /\ UNCHANGED <<part, catalog, schemaVars, driftVars, operations>>
  \/ part = "drift" /\ Drift!Next /\ UNCHANGED <<part, catalog, schemaVars, promotionVars, operations>>
  \/ part = "incident" /\ Incident!Next /\ UNCHANGED <<part, catalog, tables, alertVars, pipelineVars, ledgerVars>>
  \/ part = "alerts" /\ Alerts!Next /\ UNCHANGED <<part, catalog, tables, incidentVars, pipelineVars, ledgerVars>>
  \/ part = "pipeline" /\ Pipeline!Next /\ UNCHANGED <<part, catalog, tables, incidentVars, alertVars, ledgerVars>>
  \/ part = "ledger" /\ Ledger!Next /\ UNCHANGED <<part, catalog, tables, incidentVars, alertVars, pipelineVars>>

Spec == Init /\ [][Next]_<<part, catalog, tables, operations>>

-------------------------------------------------------------------------------
(* The variables have their types in every part, and the two copies of the   *)
(* catalog's edges agree.                                                    *)
TypeOK ==
  CASE part = "graph" -> Graph!TypeOK
    [] part = "lineage" -> Edits!LineageTypeOK
    [] part = "schema" -> Schema!TypeOK
    [] part = "promotion" -> Medallion!TypeOK
    [] part = "incident" -> Incident!TypeOK
    [] part = "pipeline" -> Pipeline!TypeOK
    [] part = "ledger" -> Ledger!TypeOK
    [] part = "drift" -> Drift!TypeOK
    [] part = "alerts" -> Alerts!TypeOK

(* graph-db.ts: a walk finds what is there, at its distance, either way.     *)
WalksAreShortest == part = "graph" => Graph!WalksAreShortest

(* update-lineage.ts and the other writers of lineage: what they link is     *)
(* found.                                                                    *)
LinkedIsFound == part = "lineage" => Edits!LinkedIsFound

(* update-lineage.ts:7: a soft-delete marks the edge.                        *)
SoftDeletedIsMarked == part = "lineage" => Edits!SoftDeletedIsMarked

(* impact-analyzer.ts: more edges never make a change look less grave.       *)
ImpactGrows == [][part = "graph" => Graph!Grows]_graphVars

(* lineage-api.ts: a trace has all that any platform could tell.             *)
TraceIsComplete == part = "graph" => Graph!TraceIsComplete

(* detect-schema-change.ts: the answers add up to what the store remembers;  *)
(* generate-migration.ts: the migrations made of them lead there and back;   *)
(* iceberg-evolution.ts: so do those made of a table's history;              *)
(* schema-drift-healer.ts: those of a layer heal all that can be;            *)
(* anomaly-classifier.ts: an entry counts all that came since its alert.      *)
AnswersAddUp ==
  CASE part = "schema" -> /\ Schema!AnswersAddUp
                          /\ scan.at = "save" /\ scan.old # Absent /\ Len(listed) = 1 =>
                               /\ Schema!ReportLeads
                               /\ Schema!EvolutionLeads(<<scan.old, scan.cur, live[Head(scan.todo)]>>)
    [] part = "drift" -> Drift!HealsAll /\ Drift!HealsSafely
    [] part = "alerts" -> Alerts!CountsAll
    [] OTHER -> TRUE

(* core/medallion: platform, lineage, audit log and completed promotions     *)
(* agree.                                                                    *)
RecordsAgree == part = "promotion" => Medallion!RecordsAgree

(* remediate.ts: what is counted, announced and resolved was earned;          *)
(* anomaly-classifier.ts: an alert is raised for what is new, and only that.  *)
RecordsAreEarned == /\ part = "incident" => Incident!RecordsAreEarned
                    /\ part = "alerts" => Alerts!RaisedExactly

(* remediate.ts:31: a dry run "simulates remediation without executing".     *)
ResolvedWasExecuted == part = "incident" => Incident!ResolvedWasExecuted

(* pipeline-validator.ts: what it calls valid can run.                       *)
ValidIsRunnable == part = "pipeline" => Pipeline!ValidIsRunnable

(* verify-global-hash-chain.ts: a chain it calls valid has no gaps.          *)
GapsAreFound == part = "ledger" => Ledger!GapsAreFound
===============================================================================
