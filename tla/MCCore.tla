-------------------------------- MODULE MCCore --------------------------------
(* The agent registry, the governance policies and the components of core/  *)
(* that carry messages, guard calls or choose what is next, side by side in *)
(* one run: a behaviour chooses a part at the start and takes steps of that *)
(* part only.                                                               *)
EXTENDS KafkaConsumer, FailoverBuffer, TLC

CONSTANTS Requests, BusHandlers, BusTopics, BusEvents, \* of the message bus,
          Ask, MaxEvents, MaxHandlers,                 \* and of the choreographer's
          Members, Routed,              \* agents and events of the choreographer
          Policies, Facts, AccessKinds, Removals, MaxAdds, \* of the governance policies
          Tenants, Op, Resource, Absent, \* of the registry and the deadlock detector
          ToolCalls, ToolTimeout, WindowMs, MaxStreak, \* of the tool breaker,
          MaxActions, Hour, MaxInARow,                 \* of the agent guards,
          MaxFailures, ResetMs, MaxNow,                \* and of both
          MaxAttempts, Proceed, Elevation, Confidences, MaxRefused, \* of the life cycle
          Tasks, MaxConcurrent, MaxLog, KeepLog, MaxAccesses \* of core/orchestrator

VARIABLES part,
          topics, subscribers, replyHandlers, direct, request, got, heard,
          subscriptions, routeHistory, route,
          now, breaker, failures, openedAt, toolCall, streak,
          agent, retryCount, bootstrap, retries, approved, resumed,
          rows, pending,
          waitGraph,
          policies, removal, adds, standing, disturbed,
          clock, window, guard, acted, inFlight, inARow,
          queue, running, arrived, accessLog, dependencies, history, looked,
          available

messageVars == <<topics, subscribers, replyHandlers, direct, request, got, heard>>
routeVars == <<subscriptions, routeHistory, route>>
breakerVars == <<now, breaker, failures, openedAt, toolCall, streak>>
lifecycleVars == <<agent, retryCount, bootstrap, retries, approved, resumed>>
registryVars == <<rows, pending>>
policyVars == <<policies, removal, adds, standing, disturbed>>
guardVars == <<clock, window, guard, acted, inFlight, inARow>>
swarmVars == <<queue, running, arrived, accessLog, dependencies, history, looked>>
messaging == <<vars, failoverVars, messageVars, routeVars>>
guards == <<breakerVars, lifecycleVars, registryVars, waitGraph, policyVars>>
agentic == <<guardVars, swarmVars, available>>

(* The failover of the context store is extended, that of the publisher is    *)
(* the same over the publisher's operation.                                  *)
Producer == INSTANCE FailoverBuffer WITH Operations <- {"publish"}
Bus == INSTANCE MessageBus
         WITH Handlers <- BusHandlers, Topics <- BusTopics, Events <- BusEvents
Routing == INSTANCE EventChoreographer
             WITH Handlers <- BusHandlers, Topics <- Members, Events <- Routed
Breaker == INSTANCE ToolBreaker
             WITH Calls <- ToolCalls, Timeout <- ToolTimeout, state <- breaker, call <- toolCall
Lifecycle == INSTANCE AgentLifecycle
               WITH state <- agent
Registry == INSTANCE AgentRegistry WITH Agents <- Members, Ops <- {Op}, MaxRows <- 5, ListedOnly <- TRUE
Detector == INSTANCE DeadlockDetector WITH Agents <- {1, 2, 3}, Resources <- {Resource}, MaxWaits <- 5

\* The governance policies of the run.
P(id, priority, action, needs) ==
  [id |-> id, priority |-> priority, action |-> action, needs |-> needs, applies |-> {"write"}]
PolicySet == {P("open", 2, "allow", {}), P("oncall", 2, "allow", {"incident"}),
              P("freeze", 2, "deny", {}), P("deny", 1, "deny", {}),
              P("review", 1, "review", {}), P("default", 1, "allow", {})}
Policy == INSTANCE PolicyStore WITH Kinds <- AccessKinds

Guards == INSTANCE AgentGuards
            WITH Reset <- ResetMs, MaxClock <- MaxNow, MaxStreak <- MaxInARow

\* The tasks of the run: equal priorities, and one deadline that comes early.
T(id, priority, deadline) == [id |-> id, priority |-> priority, deadline |-> deadline]
TaskSet == {T(1, 1, 9), T(2, 1, 9), T(3, 1, 1), T(4, 0, 9)}
Swarm == INSTANCE SwarmOrchestrator
           WITH Agents <- Members, Resources <- {Resource}

\* A context item: whose it is, where it is from and its class; freshness, relevance
\* and confidence; tokens and timestamp.
C(id, from, scores, tokens, timestamp) ==
  [id |-> id, customer |-> from[1], origin |-> from[2], class |-> from[3],
   fresh |-> scores[1], relevance |-> scores[2], confidence |-> scores[3], tokens |-> tokens, timestamp |-> timestamp]
ContextSet == {C(1, <<"c", "s", 1>>, <<90, 50, 50>>, 3, 2), C(2, <<"c", "s", 1>>, <<50, 50, 50>>, 2, 1),
               C(3, <<"c", "u", 2>>, <<90, 90, 90>>, 2, 1), C(4, <<"c", "s", 2>>, <<50, 70, 50>>, 1, 2),
               C(5, <<"c", "u", 4>>, <<100, 100, 100>>, 4, 3), C(6, <<"d", "s", 1>>, <<90, 90, 90>>, 1, 2),
               C(7, <<"c", "s", 3>>, <<10, 50, 50>>, 1, 0)}
Context == INSTANCE ContextSelection
             WITH Items <- ContextSet,
                  Budgets <- {0, 3, 4, 6}, MinQuality <- 50, MaxItems <- 5

ASSUME Assumptions == /\ ConsumerAssumption
                      /\ Producer!FailoverAssumption /\ FailoverAssumption
                      /\ Bus!BusAssumption /\ Routing!BusAssumption
                      /\ Breaker!BreakerAssumption /\ Lifecycle!LifecycleAssumption
                      /\ Registry!RegistryAssumption /\ Detector!DetectorAssumption
                      /\ Policy!PolicyAssumption
                      /\ Guards!GuardsAssumption /\ Swarm!SwarmAssumption /\ Context!SelectionAssumption

Parts == {"consumer", "producer", "store", "bus", "routing", "breaker", "lifecycle", "registry", "deadlock", "policy",
          "guards", "tasks", "accesses", "context"}

CoreInit ==
  /\ part \in Parts
  /\ Init
  /\ FailoverInit /\ Breaker!Init /\ Registry!Init /\ Detector!Init /\ Policy!Init
  /\ Guards!Init /\ Swarm!Init /\ Context!Init
  /\ Lifecycle!Init /\ (part # "lifecycle" => ~bootstrap)
  /\ IF part = "routing" THEN Routing!RoutingInit
     ELSE Bus!Init /\ subscriptions = <<>> /\ routeHistory = <<>> /\ route = <<>>

CoreNext ==
  \/ part = "consumer" /\ Next /\ UNCHANGED <<part, failoverVars, messageVars, routeVars, guards, agentic>>
  \/ part = "producer" /\ Producer!FailoverNext /\ UNCHANGED <<part, vars, messageVars, routeVars, guards, agentic>>
  \/ part = "store" /\ FailoverNext /\ UNCHANGED <<part, vars, messageVars, routeVars, guards, agentic>>
  \/ part = "bus" /\ Bus!Next /\ UNCHANGED <<part, vars, failoverVars, routeVars, guards, agentic>>
  \/ part = "routing" /\ Routing!RoutingNext /\ UNCHANGED <<part, vars, failoverVars, guards, agentic>>
  \/ part = "breaker" /\ Breaker!Next /\ UNCHANGED <<part, messaging, lifecycleVars, registryVars, waitGraph, policyVars, agentic>>
  \/ part = "lifecycle" /\ Lifecycle!Next /\ UNCHANGED <<part, messaging, breakerVars, registryVars, waitGraph, policyVars, agentic>>
  \/ part = "registry" /\ Registry!Next /\ UNCHANGED <<part, messaging, breakerVars, lifecycleVars, waitGraph, policyVars, agentic>>
  \/ part = "deadlock" /\ Detector!Next /\ UNCHANGED <<part, messaging, breakerVars, lifecycleVars, registryVars, policyVars, agentic>>
  \/ part = "policy" /\ Policy!Next /\ UNCHANGED <<part, messaging, breakerVars, lifecycleVars, registryVars, waitGraph, agentic>>
  \/ part = "guards" /\ Guards!Next /\ UNCHANGED <<part, messaging, guards, swarmVars, available>>
  \/ part = "tasks" /\ Swarm!QueueNext /\ UNCHANGED <<part, messaging, guards, guardVars, available>>
  \/ part = "accesses" /\ Swarm!LogNext /\ UNCHANGED <<part, messaging, guards, guardVars, available>>
  \/ part = "context" /\ Context!Next /\ UNCHANGED <<part, messaging, guards, guardVars, swarmVars>>

CoreSpec == CoreInit /\ [][CoreNext]_<<part, messaging, guards, agentic>>

-----------------------------------------------------------------------------
(* The variables have their types in every part.  Among them: the keys that *)
(* are remembered stay within MAX_PROCESSED_IDS, the events of a topic      *)
(* within the bus's 1000, and a failing task is queued again no more than   *)
(* maxAttempts times.                                                       *)
CoreTypeOK ==
  CASE part = "consumer" -> TypeOK
    [] part \in {"producer", "store"} -> FailoverTypeOK
    [] part = "bus" -> Bus!TypeOK
    [] part = "routing" -> Routing!RoutingTypeOK
    [] part = "breaker" -> Breaker!TypeOK
    [] part = "lifecycle" -> Lifecycle!TypeOK
    [] part = "registry" -> Registry!TypeOK
    [] part = "deadlock" -> Detector!TypeOK
    [] part = "policy" -> Policy!TypeOK
    [] part = "guards" -> Guards!TypeOK
    [] part \in {"tasks", "accesses"} -> Swarm!TypeOK
    [] part = "context" -> Context!TypeOK

(* What is recorded is what was.  message-bus.ts, request: it resolves if   *)
(* and only if a reply to it came in time; event-choreographer.ts, route:   *)
(* an event reached exactly those its record names; dependency-discoverer.ts: *)
(* the dependencies are those of the accesses, though their log was cut.    *)
RecordIsTrue == /\ part = "bus" => Bus!AnsweredInTime
                /\ part = "routing" => Routing!RecordIsTrue
                /\ part = "accesses" => Swarm!DiscoversExactly

(* policy-store.ts: the table removePolicy writes again is what the calls   *)
(* leave one after the other, and all the while access is allowed only where *)
(* a policy earns it, and one more policy works in its own direction.       *)
AccessIsEarned ==
  part = "policy" => Policy!TableIsStanding /\ Policy!AllowedIsEarned /\ Policy!DenyClosesOnly

(* circuit-breaker.ts and the guards of core/conflict-resolution: calls and  *)
(* actions are turned away exactly when the outcomes and actions so far say *)
(* so.                                                                      *)
RejectsExactly ==
  CASE part = "breaker" -> Breaker!RejectsExactly
    [] part = "guards" -> Guards!ObjectsExactly
    [] OTHER -> TRUE

(* What goes ahead had its turn and keeps within its limit: executions the  *)
(* confidence gate (state-machine.ts), actions the hourly rate              *)
(* (confidence-cascade.ts) and tasks the order of the queue and the         *)
(* concurrency limit (task-scheduler.ts of core/orchestrator).              *)
GateHolds ==
  CASE part = "lifecycle" -> Lifecycle!GateHolds
    [] part = "guards" -> Guards!HourlyRate
    [] part = "tasks" -> Swarm!WaitsInTurn
    [] OTHER -> TRUE

(* What is found is what there is: cycles of waiting agents (deadlock.ts),  *)
(* and the context that fits the token budget, with what contradicts it     *)
(* (context-propagation.ts).                                                *)
DetectsExactly ==
  CASE part = "deadlock" -> Detector!DetectsExactly
    [] part = "context" -> Context!NotCrowded /\ Context!NothingWasted /\ Context!ConflictsNamed
    [] OTHER -> TRUE

(* agent-registry.ts: one caller at a time, that toggles what is listed,    *)
(* sees the directory.                                                      *)
ImplementsDirectory == Registry!ImplementsDirectory
=============================================================================
