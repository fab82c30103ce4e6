-------------------------- MODULE PipelineValidator --------------------------
(***************************************************************************)
(* agents/dw-pipelines/src/validation/pipeline-validator.ts: the gates of  *)
(* validate, over the pipelines an editor can build.  What a gate finds in *)
(* the code of a task is a number of errors or warnings; the sandbox and   *)
(* the connector have an outcome each.                                     *)
(***************************************************************************)
EXTENDS CycleSearch, FiniteSetsExt

(* Nodes, of the search for cycles: the ids a task may have.                *)
CONSTANTS MaxTasks,    \* bound on the number of tasks
          MaxDeps,     \* bound on the number of dependencies of the pipeline
          MaxFindings  \* bound on the errors and on the warnings found in the code

(* What the constants must satisfy.                                         *)
ValidatorAssumption == {MaxTasks, MaxDeps, MaxFindings} \subseteq Nat /\ IsFiniteSet(Nodes)

VARIABLES tasks,   \* the tasks: an id and the sequence of ids it depends on
          code,    \* what the gates find in the code: errors and warnings
          options, \* validateSemanticLayer and sandboxExecution
          sandbox, \* passes, fails or is skipped, if it runs
          connector \* none, unavailable, or the issues it finds

vars == <<tasks, code, options, sandbox, connector>>

Task == [id : Nodes, dependencies : Seq(Nodes)]

-----------------------------------------------------------------------------
Init == /\ tasks = <<>>
        /\ code \in [errors : 0..MaxFindings, warnings : 0..MaxFindings]
        /\ options \in [semanticLayer : BOOLEAN, sandbox : BOOLEAN]
        /\ sandbox \in {"passes", "fails", "skipped"}
        /\ connector \in {"none", "unavailable", "clean", "issues"}

Plain == /\ code = [errors |-> 0, warnings |-> 0] /\ options = [semanticLayer |-> TRUE, sandbox |-> TRUE]
         /\ sandbox = "passes" /\ connector = "none"

(* The pipeline is edited; only the simplest of the others gets large.      *)
AddTask(id) == /\ Len(tasks) < (IF Plain THEN MaxTasks ELSE 1)
               /\ tasks' = Append(tasks, [id |-> id, dependencies |-> <<>>])
               /\ UNCHANGED <<code, options, sandbox, connector>>

AddDependency(i, id) == /\ SumFunction([j \in DOMAIN tasks |-> Len(tasks[j].dependencies)]) < (IF Plain THEN MaxDeps ELSE 1)
                        /\ tasks' = [tasks EXCEPT ![i].dependencies = Append(@, id)]
                        /\ UNCHANGED <<code, options, sandbox, connector>>

Next == \/ \E id \in Nodes : AddTask(id)
        \/ \E i \in DOMAIN tasks, id \in Nodes : AddDependency(i, id)

Spec == Init /\ [][Next]_vars

-----------------------------------------------------------------------------
TaskIds == {tasks[i].id : i \in DOMAIN tasks}

(* detectCycle: of tasks of one id the Map keeps the first place and the    *)
(* last dependencies.                                                       *)
Adj == [id \in Nodes |-> IF id \in TaskIds
                       THEN tasks[Max({i \in DOMAIN tasks : tasks[i].id = id})].dependencies
                       ELSE <<>>]
Keys == LET Add(keys, id) == IF id \in Range(keys) THEN keys ELSE Append(keys, id)
            keys[i \in 0..Len(tasks)] == IF i = 0 THEN <<>> ELSE Add(keys[i - 1], tasks[i].id)
        IN keys[Len(tasks)]
DetectCycle == FindCycle(Keys, Adj).found

(* Mutant: a dependency on a task that does not exist is let through.       *)
DependencyErrorsNone == 0

(* Gate 1b.                                                                 *)
DependencyErrors ==
  LET unknown(i) == {k \in DOMAIN tasks[i].dependencies : tasks[i].dependencies[k] \notin TaskIds}
  IN Cardinality(UNION {{i} \X unknown(i) : i \in DOMAIN tasks})

(* Gates 1, 1b and 2.                                                       *)
SyntaxErrors == code.errors + DependencyErrors + (IF DetectCycle THEN 1 ELSE 0)

SemanticWarnings == IF options.semanticLayer THEN code.warnings ELSE 0

(* Gate 5: none without a context, and none when the connector throws.      *)
ConnectorIssues == IF connector = "issues" THEN 1 ELSE 0

(* Gate 4: with syntax errors it fails without being run.                   *)
Sandbox(errors) == IF ~options.sandbox THEN "off" ELSE IF errors > 0 THEN "fails" ELSE sandbox

Least(a, b) == IF a < b THEN a ELSE b

GatesExecuted(errors) == 3 + (IF options.semanticLayer THEN 1 ELSE 0)
                           + (IF Sandbox(errors) \in {"off", "skipped"} THEN 0 ELSE 1)
                           + (IF connector = "none" THEN 0 ELSE 1)

(* calculateConfidence, in percent: 70 and up to 25 for the gates that ran. *)
Confidence(errors) ==
  LET problems == errors + ConnectorIssues
      base == (6 * 70 + 25 * GatesExecuted(errors) + 3) \div 6
      unskipped == IF Sandbox(errors) = "skipped" THEN Least(base, 85) ELSE base
  IN IF problems > 0 THEN (IF problems > 4 THEN 10 ELSE 50 - 10 * problems)
     ELSE IF SemanticWarnings > 3 THEN Least(unskipped, 80)
     ELSE IF SemanticWarnings > 0 THEN Least(unskipped, 90) ELSE unskipped

(* validate.                                                                *)
Report == IF tasks = <<>> THEN [valid |-> FALSE, confidence |-> 10]
          ELSE LET errors == SyntaxErrors
               IN  [valid |-> errors = 0 /\ ConnectorIssues = 0, confidence |-> Confidence(errors)]

-----------------------------------------------------------------------------
TypeOK == /\ tasks \in Seq(Task)
          /\ code \in [errors : Nat, warnings : Nat]

(* A valid pipeline of distinct tasks can run: there is an order of its     *)
(* tasks in which every task comes after those it depends on.  And the      *)
(* score tells as much: what is not valid scores below all that is.         *)
ValidIsRunnable ==
  LET report == Report IN
  /\ report.valid <=> report.confidence >= 70
  /\ report.valid /\ Cardinality(TaskIds) = Len(tasks) =>
       \E order \in Bijection(1..Len(tasks), TaskIds) :
         \A i \in DOMAIN tasks : \A d \in Range(tasks[i].dependencies) :
           \E j, k \in DOMAIN order : order[j] = d /\ order[k] = tasks[i].id /\ j < k
=============================================================================
