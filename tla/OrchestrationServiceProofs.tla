--------------------- MODULE OrchestrationServiceProofs ---------------------
(***************************************************************************)
(* Proofs about the orchestration service, for any agents, tasks, handlers *)
(* and bounds.  What is proved of the scheduler and of the registry by     *)
(* themselves is used here through an instance of their proofs.            *)
(***************************************************************************)
EXTENDS OrchestrationService, TLAPS

SP == INSTANCE TaskSchedulerProofs WITH Calls <- Handlers, MaxNow <- 0
RP == INSTANCE AgentRegistryProofs WITH Ops <- Agents \cup {Closer},
                                        Tenants <- {}, ListedOnly <- TRUE

-----------------------------------------------------------------------------
(* The scheduler and the registry inside the service are the ones their     *)
(* theorems speak of.                                                       *)

(* The scheduler of the service satisfies what its theorems assume.         *)
LEMMA SchedulerFacts == SP!SchedulerAssumption /\ Idle \notin Sched!Call
BY ServiceAssumption DEF ServiceAssumption, Sched!SchedulerAssumption,
     SP!SchedulerAssumption, Sched!Call, SP!Call

(* The invariant proved of the scheduler, under both of its names.          *)
LEMMA SameInvariant == Sched!IInv <=> SP!IInv
BY DEF SP!IInv, Sched!IInv, SP!TypeOK, Sched!TypeOK,
       SP!OnlyKnown, Sched!OnlyKnown, SP!QueuedHasEntry, Sched!QueuedHasEntry,
       SP!RunningIsHeld, Sched!RunningIsHeld,
       SP!PersistedAgrees, Sched!PersistedAgrees, SP!ScoresOK, Sched!ScoresOK,
       SP!Statuses, Sched!Statuses, SP!Entry, Sched!Entry, SP!Call, Sched!Call,
       SP!Known, Sched!Known, SP!ToSet, Sched!ToSet, SP!Score, Sched!Score,
       SP!Aged, Sched!Aged

(* A step of the service's scheduler is a step its theorems are about.      *)
LEMMA SameStep ==
  /\ Sched!Next => SP!Next
  /\ \A a \in Agents : Sched!Dequeue(a) => SP!Dequeue(a)
BY ZenonT(60)
   DEF SP!Next, Sched!Next, SP!Tick, Sched!Tick, SP!Submit, Sched!Submit,
       SP!Resubmit, Sched!Resubmit, SP!Abort, Sched!Abort,
       SP!Dequeue, Sched!Dequeue, SP!Report, Sched!Report,
       SP!RedistributeTasks, Sched!RedistributeTasks,
       SP!ResumeRedistribute, Sched!ResumeRedistribute,
       SP!fields, Sched!fields, SP!Live, Sched!Live, SP!Known, Sched!Known,
       SP!Score, Sched!Score, SP!NewEntry, Sched!NewEntry,
       SP!Precedes, Sched!Precedes, SP!Place, Sched!Place,
       SP!Sorted, Sched!Sorted, SP!Persist, Sched!Persist,
       SP!Aged, Sched!Aged, SP!Boosted, Sched!Boosted, SP!Fail, Sched!Fail,
       SP!Complete, Sched!Complete, SP!SetOutcome, Sched!SetOutcome,
       SP!Eligible, Sched!Eligible, SP!ToMove, Sched!ToMove,
       SP!MoveNext, Sched!MoveNext, SP!ToSet, Sched!ToSet,
       SP!RemoveAt, Sched!RemoveAt, SP!Cardinality, Sched!Cardinality

(* So the scheduler's invariant survives every step of the scheduler.       *)
LEMMA SchedulerStep == Sched!IInv /\ [Sched!Next]_schedVars => Sched!IInv'
<1>1. [Sched!Next]_schedVars => [SP!Next]_(SP!vars)
  BY SameStep DEF schedVars, SP!vars, SP!fields
<1>2. SP!IInv /\ [SP!Next]_(SP!vars) => SP!IInv'
  BY SchedulerFacts, SP!NextInv
<1>3. Sched!IInv' <=> SP!IInv'
  BY SameInvariant, PTL
<1> QED
  BY <1>1, <1>2, <1>3, SameInvariant

(* The scheduler starts in its invariant.                                   *)
LEMMA SchedulerInit == Sched!Init => Sched!IInv
<1>1. Sched!Init => SP!Init
  BY DEF Sched!Init, SP!Init
<1> QED
  BY <1>1, SchedulerFacts, SP!InitInv, SameInvariant

(* The registry of the service keeps its types.                             *)
LEMMA RegistryStep == Reg!TypeOK /\ [Reg!Next]_regVars => Reg!TypeOK'
<1>1. Reg!TypeOK <=> RP!TypeOK
  BY DEF Reg!TypeOK, RP!TypeOK, Reg!Row, RP!Row, Reg!Kinds, RP!Kinds,
         Reg!Switches, RP!Switches
<1>2. [Reg!Next]_regVars => [RP!Next]_(RP!vars)
  BY ZenonT(60)
     DEF regVars, RP!vars, Reg!Next, RP!Next, Reg!Register, RP!Register,
         Reg!Deregister, RP!Deregister, Reg!SetTenantConfig, RP!SetTenantConfig,
         Reg!Insert, RP!Insert, Reg!Suspend, RP!Suspend,
         Reg!GetByName, RP!GetByName, Reg!Newest, RP!Newest,
         Reg!Listed, RP!Listed, Reg!LastRow, RP!LastRow, Reg!Max, RP!Max
<1>3. Reg!TypeOK' <=> RP!TypeOK'
  BY <1>1, PTL
<1> QED
  BY <1>1, <1>2, <1>3, RP!NextTypes

-----------------------------------------------------------------------------
(* What the calls do to the tasks, in terms of the tasks alone.             *)

(* A dequeue hands out a task that waits for the agent, or changes no task. *)
LEMMA DequeueEffect ==
  ASSUME Sched!IInv, NEW a \in Agents, Sched!Dequeue(a)
  PROVE  /\ UNCHANGED <<agentName, tasks, redist>>
         /\ \/ UNCHANGED <<status, held>>
            \/ \E t \in Tasks : /\ status[t] = "queued" /\ agentName[t] = a
                                /\ status' = [status EXCEPT ![t] = "running"]
                                /\ held' = [held EXCEPT ![a] = @ \cup {t}]
<1>1. UNCHANGED <<agentName, tasks, redist>>
  BY DEF Sched!Dequeue, Sched!fields
<1>2. (\E t \in Tasks : SP!Pool!Take(a, t)) \/ UNCHANGED SP!Pool!vars
  BY SchedulerFacts, SameInvariant, SameStep, SP!DequeueImplementsTake
<1> QED
  BY <1>1, <1>2 DEF SP!Pool!Take, SP!Pool!Waiting, SP!Pool!vars

(* A report ends a task that its reporter was given.                        *)
LEMMA ReportEffect ==
  ASSUME NEW a \in Agents, NEW t \in held[a], Sched!Report(a, t)
  PROVE  /\ UNCHANGED <<agentName, tasks, redist>>
         /\ \E s \in {"completed", "failed"} : status' = [status EXCEPT ![t] = s]
         /\ held' = [held EXCEPT ![a] = @ \ {t}]
BY DEF Sched!Report, Sched!Complete, Sched!Fail, Sched!SetOutcome

(* Giving up a task ends it, whoever holds it.                              *)
LEMMA AbortEffect ==
  ASSUME NEW t, Sched!Abort(t)
  PROVE  /\ UNCHANGED <<agentName, tasks, redist, held>>
         /\ status' = [status EXCEPT ![t] = "failed"]
BY DEF Sched!Abort, Sched!Fail, Sched!SetOutcome

(* A submission makes a task that is not in the Map wait, at its end.       *)
LEMMA SubmitEffect ==
  ASSUME NEW t \in Tasks, Sched!Submit(t, 0)
  PROVE  /\ UNCHANGED <<agentName, redist, held>>
         /\ t \notin Sched!Known
         /\ tasks' = Append(tasks, t)
         /\ status' = [status EXCEPT ![t] = "queued"]
BY DEF Sched!Submit

(* A stretch of a redistribution moves the first live task of the failed    *)
(* agent from the Map position on, or ends when there is none.              *)
LEMMA MoveEffect ==
  ASSUME NEW h \in Handlers, NEW f \in Agents, NEW g \in Agents,
         NEW pos \in Nat, Sched!MoveNext(h, f, g, pos)
  PROVE  /\ UNCHANGED <<tasks, held>>
         /\ \/ \E i \in Sched!ToMove(f, pos) :
                 /\ \A j \in Sched!ToMove(f, pos) : i <= j
                 /\ agentName' = [agentName EXCEPT ![tasks[i]] = g]
                 /\ status' = [status EXCEPT ![tasks[i]] = "queued"]
                 /\ redist' = [redist EXCEPT ![h] =
                                 [from |-> f, to |-> g, pos |-> i + 1]]
            \/ /\ UNCHANGED <<agentName, status>>
               /\ redist' = [redist EXCEPT ![h] = Idle]
BY DEF Sched!MoveNext, Sched!fields

-----------------------------------------------------------------------------
(* Types, and the service as a user of its parts.                           *)

ServiceTypes ==
  /\ HB!TypeOK
  /\ running \in BOOLEAN
  /\ job \in [Handlers -> Jobs]
  /\ closing \in Closings
  /\ up \subseteq Agents
  /\ late \in 0..MaxLate

(* The healthy agent a handler has chosen is none of those it found dead,   *)
(* so no redistribution is from an agent to itself.                         *)
Aims == \A h \in Handlers : /\ job[h] # Idle
                            /\ job[h].at = "move"
                            => job[h].target \notin job[h].todo

IInv == Sched!IInv /\ Reg!TypeOK /\ ServiceTypes /\ Aims

(* The service starts in its invariant.                                     *)
LEMMA InitInv == Init => IInv
<1> SUFFICES ASSUME Init PROVE IInv
  OBVIOUS
<1>1. Sched!IInv
  BY SchedulerInit DEF Init
<1>2. Reg!TypeOK
  BY DEF Init, Reg!Init, Reg!TypeOK
<1>3. ServiceTypes
  BY ServiceAssumption
     DEF ServiceAssumption, Init, HB!Init, HB!TypeOK, ServiceTypes, Jobs, Closings
<1>4. Aims
  BY DEF Init, Aims
<1> QED
  BY <1>1, <1>2, <1>3, <1>4 DEF IInv

(* The tasks shutdown fails are tasks.                                      *)
LEMMA QueuedTasks ==
  ASSUME Sched!TypeOK
  PROVE  Queued \in SUBSET (Nat \X Tasks)
<1>1. DOMAIN queue = 1..Len(queue) /\ Len(queue) \in Nat
  BY DEF Sched!TypeOK
<1>2. ASSUME NEW i \in DOMAIN queue
      PROVE  i \in Nat /\ queue[i].task \in Tasks
  <2>1. queue[i] \in Sched!Entry
    BY DEF Sched!TypeOK
  <2> QED
    BY <1>1, <2>1 DEF Sched!Entry
<1> QED
  BY <1>2 DEF Queued

(* A turn of the drain gives up one task of the list, or ends.              *)
LEMMA FailFirstStep ==
  ASSUME NEW todo \in SUBSET (Nat \X Tasks), NEW batch \in SUBSET Tasks,
         FailFirst(todo, batch)
  PROVE  /\ closing' \in Closings
         /\ UNCHANGED schedVars \/ \E t \in Tasks : Sched!Abort(t)
<1>1. CASE /\ closing' = [at |-> "list", batch |-> batch]
           /\ UNCHANGED schedVars
  BY <1>1 DEF Closings
<1>2. ASSUME NEW p \in todo, Sched!Abort(p[2]),
             closing' = [at |-> "drain", batch |-> batch, todo |-> todo \ {p}]
      PROVE  closing' \in Closings /\ \E t \in Tasks : Sched!Abort(t)
  BY <1>2 DEF Closings
<1> QED
  BY <1>1, <1>2 DEF FailFirst

(* Every step of the service is a step of the scheduler or leaves it alone, *)
(* and the same for the registry.                                           *)
LEMMA PartSteps ==
  ASSUME IInv, [Next]_vars
  PROVE  [Sched!Next]_schedVars /\ [Reg!Next]_regVars
<1>0. 0 \in 0..now /\ Sched!TypeOK
  BY DEF IInv, Sched!IInv, Sched!TypeOK
<1>1. ASSUME NEW t \in Tasks, Submit(t) PROVE Sched!Next /\ UNCHANGED regVars
  BY <1>0, <1>1 DEF Submit, Sched!Next
<1>2. ASSUME NEW a \in Agents, Register(a) \/ Registered(a)
      PROVE UNCHANGED schedVars /\ Reg!Next
  BY <1>2 DEF Register, Registered, Reg!Next
<1>3. ASSUME NEW a \in Agents, Dequeue(a)
      PROVE Sched!Next /\ UNCHANGED regVars
  BY <1>3 DEF Dequeue, Sched!Next
<1>4. ASSUME NEW a \in Agents, NEW t \in held[a], Report(a, t)
      PROVE Sched!Next /\ UNCHANGED regVars
  BY <1>4 DEF Report, Sched!Next
<1>5. ASSUME NEW a \in Agents, Beat(a) \/ Crash(a) \/ Expire(a)
      PROVE UNCHANGED schedVars /\ UNCHANGED regVars
  BY <1>5 DEF Beat, Crash, Expire
<1>6. ASSUME NEW h \in Handlers,
             \/ HandleFailedAgents(h) \/ CheckDone(h) \/ ListHealthy(h)
             \/ \E a \in Agents : CheckAgent(h, a)
      PROVE UNCHANGED schedVars /\ UNCHANGED regVars
  BY <1>6 DEF HandleFailedAgents, CheckDone, ListHealthy, CheckAgent
<1>7. ASSUME NEW h \in Handlers, NextFailed(h)
      PROVE [Sched!Next]_schedVars /\ UNCHANGED regVars
  <2>1. CASE UNCHANGED schedVars
    BY <1>7, <2>1 DEF NextFailed
  <2>2. ASSUME NEW f \in job[h].todo, Sched!RedistributeTasks(h, f, job[h].target)
        PROVE Sched!Next
    <3>1. job[h] \in Jobs /\ job[h] # Idle /\ job[h].at = "move"
      BY <1>7 DEF NextFailed, IInv, ServiceTypes
    <3>2. f \in Agents /\ job[h].target \in Agents
      BY <3>1 DEF Jobs
    <3>3. f # job[h].target
      BY <3>1 DEF IInv, Aims
    <3> QED
      BY <2>2, <3>2, <3>3 DEF Sched!Next
  <2> QED
    BY <1>7, <2>1, <2>2 DEF NextFailed
<1>8. ASSUME NEW h \in Handlers, MoveTask(h)
      PROVE Sched!Next /\ UNCHANGED regVars
  BY <1>8 DEF MoveTask, Sched!Next
<1>9. CASE Shutdown \/ Drain
  <2>1. ASSUME NEW todo \in SUBSET (Nat \X Tasks), NEW batch \in SUBSET Tasks,
               FailFirst(todo, batch)
        PROVE [Sched!Next]_schedVars
    BY <2>1, FailFirstStep DEF Sched!Next
  <2>2. CASE Shutdown
    <3>1. Queued \in SUBSET (Nat \X Tasks)
      BY <1>0, QueuedTasks
    <3>2. {p[2] : p \in Queued} \in SUBSET Tasks
      BY <3>1
    <3> QED
      BY <2>1, <2>2, <3>1, <3>2 DEF Shutdown
  <2>3. CASE Drain
    <3>1. closing.todo \in SUBSET (Nat \X Tasks) /\ closing.batch \in SUBSET Tasks
      BY <2>3 DEF Drain, IInv, ServiceTypes, Closings
    <3> QED
      BY <2>1, <2>3, <3>1 DEF Drain
  <2> QED
    BY <1>9, <2>2, <2>3 DEF Shutdown, Drain
<1>10. CASE ListAgents \/ RemoveAgent
  BY <1>10 DEF ListAgents, RemoveAgent
<1>11. CASE Deregister \/ Deregistered
  <2>1. closing.agent \in Agents
    BY <1>11 DEF Deregister, Deregistered, IInv, ServiceTypes, Closings
  <2> QED
    BY <1>11, <2>1 DEF Deregister, Deregistered, Reg!Next
<1>12. CASE UNCHANGED vars
  BY <1>12 DEF vars
<1> QED
  BY <1>1, <1>2, <1>3, <1>4, <1>5, <1>6, <1>7, <1>8, <1>9, <1>10, <1>11, <1>12
     DEF Next, AgentStep, HandlerStep, ShutdownStep

(* What one turn of a check changes.                                        *)
LEMMA CheckEffect ==
  ASSUME HB!TypeOK, NEW a \in Agents, NEW h \in Handlers, HB!CheckAgent(h, a)
  PROVE  checks' = [checks EXCEPT ![h] =
                      [seen |-> checks[h].seen \cup {a},
                       failed |-> IF a \in fresh THEN checks[h].failed
                                  ELSE checks[h].failed \cup {a}]]
<1> DEFINE c == checks[h]
           s == c.seen \cup {a}
           f == IF a \in fresh THEN c.failed ELSE c.failed \cup {a}
<1>1. c = [seen |-> c.seen, failed |-> c.failed] /\ h \in DOMAIN checks
  BY DEF HB!TypeOK, HB!CheckAgent
<1>2. checks' = [checks EXCEPT ![h].seen = s, ![h].failed = f]
  BY DEF HB!CheckAgent
<1>3. checks' = [checks EXCEPT ![h] = [[c EXCEPT !.seen = s] EXCEPT !.failed = f]]
  BY <1>1, <1>2
<1>4. [[c EXCEPT !.seen = s] EXCEPT !.failed = f] = [seen |-> s, failed |-> f]
  <2> HIDE DEF c, s, f
  <2> DEFINE d == [c EXCEPT !.seen = s]
  <2>1. d = [seen |-> s, failed |-> c.failed]
    BY <1>1
  <2> HIDE DEF d
  <2>2. [d EXCEPT !.failed = f] = [seen |-> s, failed |-> f]
    BY <2>1
  <2> QED
    BY <2>2 DEF d
<1> QED
  BY <1>3, <1>4

(* The monitor's sets and the suspended checks keep their types.            *)
LEMMA MonitorTypes ==
  ASSUME HB!TypeOK,
         \/ \E a \in Agents : \/ HB!Beat(a)
                              \/ HB!Expire(a)
                              \/ HB!RemoveAgent(a)
                              \/ \E h \in Handlers : HB!CheckAgent(h, a)
         \/ \E h \in Handlers : HB!CheckHealth(h) \/ HB!CheckDone(h)
         \/ UNCHANGED hbVars
  PROVE  HB!TypeOK'
<1> DEFINE Check == [seen : SUBSET Agents, failed : SUBSET Agents]
<1> USE DEF HB!TypeOK
<1>1. ASSUME NEW a \in Agents, HB!Beat(a) PROVE HB!TypeOK'
  BY <1>1 DEF HB!Beat
<1>2. ASSUME NEW a \in Agents, HB!Expire(a) PROVE HB!TypeOK'
  BY <1>2 DEF HB!Expire
<1>3. ASSUME NEW a \in Agents, HB!RemoveAgent(a) PROVE HB!TypeOK'
  <2>1. ASSUME NEW h \in Handlers, checks[h] # Idle
        PROVE  [checks[h] EXCEPT !.seen = @ \ {a}] \in Check
    BY <2>1
  <2> HIDE DEF Check
  <2>2. checks' \in [Handlers -> Check \cup {Idle}]
    BY <1>3, <2>1 DEF HB!RemoveAgent
  <2> QED
    BY <1>3, <2>2 DEF HB!RemoveAgent, Check
<1>4. ASSUME NEW a \in Agents, NEW h \in Handlers, HB!CheckAgent(h, a)
      PROVE  HB!TypeOK'
  <2>1. checks[h] \in Check
    BY <1>4 DEF HB!CheckAgent
  <2> QED
    BY <1>4, <2>1, CheckEffect DEF HB!CheckAgent
<1>5. ASSUME NEW h \in Handlers, HB!CheckHealth(h) PROVE HB!TypeOK'
  BY <1>5 DEF HB!CheckHealth
<1>6. ASSUME NEW h \in Handlers, HB!CheckDone(h) PROVE HB!TypeOK'
  BY <1>6 DEF HB!CheckDone
<1>7. CASE UNCHANGED hbVars
  BY <1>7 DEF hbVars
<1> QED
  BY <1>1, <1>2, <1>3, <1>4, <1>5, <1>6, <1>7

(* A handler at its move stage, and one at its list stage.                  *)
LEMMA JobShape ==
  ASSUME ServiceTypes, NEW h \in Handlers, job[h] # Idle
  PROVE  /\ job[h].at = "list" => job[h].failed \in SUBSET Agents
         /\ job[h].at = "move" =>
              /\ job[h] = [at |-> "move", todo |-> job[h].todo,
                           target |-> job[h].target]
              /\ job[h].todo \in SUBSET Agents
              /\ job[h].target \in Agents
BY DEF ServiceTypes, Jobs

(* What turning to the next failed agent leaves of a handler's list.        *)
LEMMA JobTurn ==
  ASSUME NEW j, NEW s, j = [at |-> "move", todo |-> j.todo, target |-> j.target]
  PROVE  [j EXCEPT !.todo = s] = [at |-> "move", todo |-> s, target |-> j.target]
OBVIOUS

(* The handlers keep their types, and never aim at an agent they found dead.*)
LEMMA JobStep ==
  ASSUME ServiceTypes, Aims, [Next]_vars
  PROVE  job' \in [Handlers -> Jobs] /\ Aims'
<1>1. ASSUME UNCHANGED job PROVE job' \in [Handlers -> Jobs] /\ Aims'
  BY <1>1 DEF ServiceTypes, Aims
<1>2. ASSUME NEW h \in Handlers, NEW j \in Jobs,
             job' = [job EXCEPT ![h] = j],
             j # Idle /\ j.at = "move" => j.target \notin j.todo
      PROVE  job' \in [Handlers -> Jobs] /\ Aims'
  <2> HIDE DEF Jobs
  <2> QED
    BY <1>2 DEF ServiceTypes, Aims
<1>3. ASSUME NEW h \in Handlers, HandleFailedAgents(h)
      PROVE  job' \in [Handlers -> Jobs] /\ Aims'
  <2>1. [at |-> "check"] \in Jobs
    BY DEF Jobs
  <2> QED
    BY <1>2, <1>3, <2>1 DEF HandleFailedAgents
<1>4. ASSUME NEW h \in Handlers, CheckDone(h)
      PROVE  job' \in [Handlers -> Jobs] /\ Aims'
  <2>1. checks[h].failed \in SUBSET Agents
    BY <1>4 DEF CheckDone, HB!CheckDone, ServiceTypes, HB!TypeOK
  <2>2. /\ Idle \in Jobs
        /\ [at |-> "list", failed |-> checks[h].failed] \in Jobs
    BY <2>1 DEF Jobs
  <2> QED
    BY <1>2, <1>4, <2>2 DEF CheckDone
<1>5. ASSUME NEW h \in Handlers, ListHealthy(h)
      PROVE  job' \in [Handlers -> Jobs] /\ Aims'
  <2>1. CASE job' = [job EXCEPT ![h] = Idle]
    BY <1>2, <2>1 DEF Jobs
  <2>2. ASSUME NEW a \in Healthy(job[h].failed),
               job' = [job EXCEPT ![h] = [at |-> "move", todo |-> job[h].failed,
                                          target |-> a]]
        PROVE  job' \in [Handlers -> Jobs] /\ Aims'
    <3>1. job[h].failed \in SUBSET Agents
      BY <1>5, JobShape DEF ListHealthy
    <3>2. a \in Agents /\ a \notin job[h].failed
      BY DEF Healthy
    <3>3. [at |-> "move", todo |-> job[h].failed, target |-> a] \in Jobs
      BY <3>1, <3>2 DEF Jobs
    <3> QED
      BY <1>2, <2>2, <3>2, <3>3
  <2> QED
    BY <1>5, <2>1, <2>2 DEF ListHealthy
<1>6. ASSUME NEW h \in Handlers, NextFailed(h)
      PROVE  job' \in [Handlers -> Jobs] /\ Aims'
  <2>1. CASE job' = [job EXCEPT ![h] = Idle]
    BY <1>2, <2>1 DEF Jobs
  <2>2. ASSUME NEW f \in job[h].todo, job' = [job EXCEPT ![h].todo = @ \ {f}]
        PROVE  job' \in [Handlers -> Jobs] /\ Aims'
    <3>1. /\ job[h] = [at |-> "move", todo |-> job[h].todo,
                       target |-> job[h].target]
          /\ job[h].todo \in SUBSET Agents
          /\ job[h].target \in Agents
          /\ job[h].target \notin job[h].todo
      BY <1>6, JobShape DEF NextFailed, Aims
    <3> DEFINE j == [at |-> "move", todo |-> job[h].todo \ {f},
                     target |-> job[h].target]
    <3>2. j \in Jobs
      BY <3>1 DEF Jobs
    <3>3. job' = [job EXCEPT ![h] = j]
      <4>1. [job[h] EXCEPT !.todo = @ \ {f}] = j
        BY <3>1, JobTurn
      <4>2. job' = [job EXCEPT ![h] = [job[h] EXCEPT !.todo = @ \ {f}]]
        BY <2>2
      <4> QED
        BY <4>1, <4>2
    <3>4. j.target \notin j.todo
      BY <3>1
    <3> HIDE DEF j
    <3> QED
      BY <1>2, <3>2, <3>3, <3>4
  <2> QED
    BY <1>6, <2>1, <2>2 DEF NextFailed
<1>7. ASSUME NEW t \in Tasks, Submit(t) PROVE UNCHANGED job
  BY <1>7 DEF Submit, callVars
<1>8. ASSUME NEW a \in Agents, AgentStep(a) \/ Crash(a) \/ Expire(a)
      PROVE  UNCHANGED job
  BY <1>8 DEF AgentStep, Register, Registered, Beat, Dequeue, Report, Crash,
              Expire, callVars
<1>9. ASSUME NEW h \in Handlers, MoveTask(h) \/ \E a \in Agents : CheckAgent(h, a)
      PROVE  UNCHANGED job
  BY <1>9 DEF MoveTask, CheckAgent, callVars
<1>10. CASE Shutdown \/ ShutdownStep
  BY <1>1, <1>10 DEF Shutdown, ShutdownStep, Drain, ListAgents, RemoveAgent,
                     Deregister, Deregistered
<1>11. CASE UNCHANGED vars
  BY <1>1, <1>11 DEF vars, callVars
<1> QED
  BY <1>1, <1>3, <1>4, <1>5, <1>6, <1>7, <1>8, <1>9, <1>10, <1>11
     DEF Next, HandlerStep

(* The shutdown call keeps its type, and so does everything it leaves alone.*)
LEMMA ClosingStep ==
  ASSUME Sched!TypeOK, ServiceTypes, [Next]_vars
  PROVE  closing' \in Closings
<1>1. ASSUME UNCHANGED closing PROVE closing' \in Closings
  BY <1>1 DEF ServiceTypes
<1>2. CASE Shutdown
  <2>1. Queued \in SUBSET (Nat \X Tasks)
    BY QueuedTasks
  <2>2. {p[2] : p \in Queued} \in SUBSET Tasks
    BY <2>1
  <2> QED
    BY <1>2, <2>1, <2>2, FailFirstStep DEF Shutdown
<1>3. CASE Drain
  <2>1. closing.todo \in SUBSET (Nat \X Tasks) /\ closing.batch \in SUBSET Tasks
    BY <1>3 DEF Drain, ServiceTypes, Closings
  <2> QED
    BY <1>3, <2>1, FailFirstStep DEF Drain
<1>4. CASE ListAgents
  <2>1. closing.batch \in SUBSET Tasks
    BY <1>4 DEF ListAgents, ServiceTypes, Closings
  <2> QED
    BY <1>4, <2>1 DEF ListAgents, Closings
<1>5. CASE RemoveAgent
  <2>1. closing.batch \in SUBSET Tasks /\ closing.left \in SUBSET Agents
    BY <1>5 DEF RemoveAgent, ServiceTypes, Closings
  <2>2. ASSUME NEW a \in closing.left,
               closing' = [at |-> "deregister", batch |-> closing.batch,
                           left |-> closing.left \ {a}, agent |-> a]
        PROVE  closing' \in Closings
    BY <2>1, <2>2 DEF Closings
  <2>3. CASE closing' = [at |-> "stopped", batch |-> closing.batch]
    BY <2>1, <2>3 DEF Closings
  <2> QED
    BY <1>5, <2>2, <2>3 DEF RemoveAgent
<1>6. CASE Deregister \/ Deregistered
  <2>1. /\ closing = [at |-> closing.at, batch |-> closing.batch,
                      left |-> closing.left, agent |-> closing.agent]
        /\ closing.batch \in SUBSET Tasks
        /\ closing.left \in SUBSET Agents
        /\ closing.agent \in Agents
    BY <1>6 DEF Deregister, Deregistered, ServiceTypes, Closings
  <2>2. CASE Deregister
    <3>1. closing' = [at |-> "insert", batch |-> closing.batch,
                      left |-> closing.left, agent |-> closing.agent]
      BY <2>1, <2>2 DEF Deregister
    <3> QED
      BY <2>1, <3>1 DEF Closings
  <2>3. CASE Deregistered
    BY <2>1, <2>3 DEF Deregistered, Closings
  <2> QED
    BY <1>6, <2>2, <2>3
<1>7. ASSUME NEW t \in Tasks, Submit(t) PROVE UNCHANGED closing
  BY <1>7 DEF Submit, callVars
<1>8. ASSUME NEW a \in Agents, AgentStep(a) \/ Crash(a) \/ Expire(a)
      PROVE  UNCHANGED closing
  BY <1>8 DEF AgentStep, Register, Registered, Beat, Dequeue, Report, Crash,
              Expire, callVars
<1>9. ASSUME NEW h \in Handlers, HandleFailedAgents(h) \/ HandlerStep(h)
      PROVE  UNCHANGED closing
  BY <1>9 DEF HandleFailedAgents, HandlerStep, CheckAgent, CheckDone,
              ListHealthy, NextFailed, MoveTask, callVars
<1>10. CASE UNCHANGED vars
  BY <1>1, <1>10 DEF vars, callVars
<1> QED
  BY <1>1, <1>2, <1>3, <1>4, <1>5, <1>6, <1>7, <1>8, <1>9, <1>10
     DEF Next, ShutdownStep

(* The monitor moves by its own operations.                                 *)
LEMMA MonitorStep ==
  ASSUME Sched!TypeOK, ServiceTypes, [Next]_vars
  PROVE  HB!TypeOK'
<1>1. HB!TypeOK /\ (UNCHANGED hbVars => HB!TypeOK')
  BY MonitorTypes DEF ServiceTypes
<1>2. ASSUME NEW t \in Tasks, Submit(t) PROVE HB!TypeOK'
  BY <1>1, <1>2 DEF Submit
<1>3. ASSUME NEW a \in Agents,
             Register(a) \/ Registered(a) \/ Dequeue(a) \/ Crash(a)
               \/ \E t \in held[a] : Report(a, t)
      PROVE  HB!TypeOK'
  BY <1>1, <1>3 DEF Register, Registered, Dequeue, Crash, Report
<1>4. ASSUME NEW a \in Agents, Beat(a) \/ Expire(a) PROVE HB!TypeOK'
  BY <1>1, <1>4, MonitorTypes DEF Beat, Expire
<1>5. ASSUME NEW h \in Handlers, HandleFailedAgents(h) \/ CheckDone(h)
      PROVE  HB!TypeOK'
  BY <1>1, <1>5, MonitorTypes DEF HandleFailedAgents, CheckDone
<1>6. ASSUME NEW h \in Handlers, NEW a \in Agents, CheckAgent(h, a)
      PROVE  HB!TypeOK'
  BY <1>1, <1>6, MonitorTypes DEF CheckAgent
<1>7. ASSUME NEW h \in Handlers, ListHealthy(h) \/ NextFailed(h) \/ MoveTask(h)
      PROVE  HB!TypeOK'
  BY <1>1, <1>7 DEF ListHealthy, NextFailed, MoveTask
<1>8. CASE RemoveAgent
  <2>1. closing.left \in SUBSET Agents
    BY <1>8 DEF RemoveAgent, ServiceTypes, Closings
  <2> QED
    BY <1>1, <1>8, <2>1, MonitorTypes DEF RemoveAgent
<1>9. CASE Shutdown \/ Drain \/ ListAgents \/ Deregister \/ Deregistered
  BY <1>1, <1>9 DEF Shutdown, Drain, ListAgents, Deregister, Deregistered
<1>10. CASE UNCHANGED vars
  BY <1>1, <1>10 DEF vars
<1> QED
  BY <1>2, <1>3, <1>4, <1>5, <1>6, <1>7, <1>8, <1>9, <1>10
     DEF Next, AgentStep, HandlerStep, ShutdownStep

(* The flag, the agents that are up and the missed TTLs keep their types.   *)
LEMMA WorldStep ==
  ASSUME ServiceTypes, [Next]_vars
  PROVE  /\ running' \in BOOLEAN /\ up' \subseteq up /\ late' \in 0..MaxLate
         /\ late <= late'
<1>0. /\ running \in BOOLEAN /\ late \in 0..MaxLate /\ MaxLate \in Nat
  BY ServiceAssumption DEF ServiceTypes
<1>1. ASSUME NEW a \in Agents, Crash(a)
      PROVE  UNCHANGED <<running, late>> /\ up' \subseteq up
  BY <1>1 DEF Crash, callVars
<1>2. ASSUME NEW a \in Agents, Expire(a)
      PROVE  /\ UNCHANGED <<running, up>>
             /\ late' = late \/ (late < MaxLate /\ late' = late + 1)
  BY <1>2 DEF Expire, callVars
<1>3. Shutdown => running' = FALSE /\ UNCHANGED <<up, late>>
  BY DEF Shutdown, envVars
<1>4. ASSUME NEW t \in Tasks, Submit(t) PROVE UNCHANGED <<running, up, late>>
  BY <1>4 DEF Submit, callVars, envVars
<1>5. ASSUME NEW a \in Agents, AgentStep(a) PROVE UNCHANGED <<running, up, late>>
  BY <1>5 DEF AgentStep, Register, Registered, Beat, Dequeue, Report,
              callVars, envVars
<1>6. ASSUME NEW h \in Handlers, HandleFailedAgents(h) \/ HandlerStep(h)
      PROVE  UNCHANGED <<running, up, late>>
  BY <1>6 DEF HandleFailedAgents, HandlerStep, CheckAgent, CheckDone,
              ListHealthy, NextFailed, MoveTask, callVars, envVars
<1>7. ShutdownStep => UNCHANGED <<running, up, late>>
  BY DEF ShutdownStep, Drain, ListAgents, RemoveAgent, Deregister,
              Deregistered, envVars
<1>8. UNCHANGED vars => UNCHANGED <<running, up, late>>
  BY DEF vars, callVars, envVars
<1>9. \/ running' = FALSE /\ UNCHANGED <<up, late>>
      \/ UNCHANGED <<running, late>> /\ up' \subseteq up
      \/ UNCHANGED <<running, up, late>>
      \/ UNCHANGED <<running, up>> /\ late < MaxLate /\ late' = late + 1
  <2>1. ASSUME NEW a \in Agents, Expire(a)
        PROVE  \/ UNCHANGED <<running, up, late>>
               \/ UNCHANGED <<running, up>> /\ late < MaxLate /\ late' = late + 1
    BY <1>2, <2>1
  <2> HIDE DEF vars
  <2> QED
    BY <1>1, <1>3, <1>4, <1>5, <1>6, <1>7, <1>8, <2>1, Zenon DEF Next
<1>10. running' \in BOOLEAN
  BY <1>0, <1>9, Zenon
<1>11. up' \subseteq up /\ (late' = late \/ (late < MaxLate /\ late' = late + 1))
  BY <1>9, Zenon
<1> QED
  BY <1>0, <1>10, <1>11

(* The invariant is inductive.                                              *)
LEMMA NextInv == IInv /\ [Next]_vars => IInv'
<1> SUFFICES ASSUME IInv, [Next]_vars PROVE IInv'
  OBVIOUS
<1>1. Sched!IInv' /\ Reg!TypeOK'
  BY PartSteps, SchedulerStep, RegistryStep DEF IInv
<1>2. ServiceTypes' /\ Aims'
  <2>1. Sched!TypeOK
    BY DEF IInv, Sched!IInv
  <2> QED
    BY <2>1, JobStep, ClosingStep, MonitorStep, WorldStep DEF IInv, ServiceTypes
<1> QED
  BY <1>1, <1>2 DEF IInv

(* The invariant holds in every reachable state.                            *)
LEMMA Inductive == Spec => []IInv
  BY InitInv, NextInv, PTL DEF Spec

(* Every variable of the service and of its parts keeps its type.           *)
THEOREM ServiceTypeCorrect == Spec => []TypeOK
<1>1. IInv => TypeOK
  BY DEF IInv, Sched!IInv, ServiceTypes, TypeOK
<1> QED
  BY <1>1, Inductive, PTL

(* The service drives its scheduler only as the scheduler module says.      *)
THEOREM ServiceUsesScheduler == Spec => UsesScheduler
<1>1. IInv /\ [Next]_vars => [Sched!Next]_schedVars
  BY PartSteps
<1> QED
  BY <1>1, Inductive, PTL DEF Spec, UsesScheduler

(* So inside the service too no waiting task is lost, every running task is *)
(* in the hands of the agent it names, and the store agrees with memory,    *)
(* whatever handlers, shutdown and crashes do around the scheduler.         *)
THEOREM ServiceLosesNoTask ==
  Spec => [](Sched!QueuedHasEntry /\ Sched!RunningIsHeld /\ Sched!PersistedAgrees)
<1>1. IInv => Sched!QueuedHasEntry /\ Sched!RunningIsHeld /\ Sched!PersistedAgrees
  BY DEF IInv, Sched!IInv
<1> QED
  BY <1>1, Inductive, PTL

(* So inside the service too a task is only given out after it waited, and  *)
(* in turn: the tasks and their holders move as in TaskPool.tla, whatever   *)
(* handlers, shutdown and crashes do around the scheduler.                  *)
THEOREM ServiceImplementsPool == Spec => SP!ImplementsPool
<1>1. Init => SP!Init
  BY DEF Init, Sched!Init, SP!Init
<1>2. IInv /\ [Next]_vars => [SP!Next]_(SP!vars)
  <2>1. [Sched!Next]_schedVars => [SP!Next]_(SP!vars)
    BY SameStep DEF schedVars, SP!vars, SP!fields
  <2> QED
    BY <2>1, PartSteps
<1>3. Spec => SP!Spec
  BY <1>1, <1>2, Inductive, PTL DEF Spec, SP!Spec
<1>4. SP!Spec => SP!ImplementsPool
  BY SchedulerFacts, SP!SchedulerImplementsPool
<1> QED
  BY <1>3, <1>4

-----------------------------------------------------------------------------
(* No task runs twice while the living beat in time.                        *)

(* As long as no living agent has missed a TTL: a living agent the monitor  *)
(* knows has its key, no list of a suspended handler holds a living agent,  *)
(* and a living agent that was given a task is still the one it names.      *)
LivingKeys == up \cap knownAgents \subseteq fresh

FailedAreDead ==
  \A h \in Handlers :
     /\ checks[h] # Idle => checks[h].failed \cap up = {}
     /\ job[h] # Idle /\ job[h].at = "list" => job[h].failed \cap up = {}
     /\ job[h] # Idle /\ job[h].at = "move" => job[h].todo \cap up = {}
     /\ redist[h] # Idle => redist[h].from \notin up

HeldIsNamed == \A a \in up : \A t \in held[a] : agentName[t] = a

InTime == late = 0 => LivingKeys /\ FailedAreDead /\ HeldIsNamed

(* A living agent gets a key when it becomes known and, while none is late, *)
(* keeps it until shutdown takes it out of both.                            *)
LEMMA LivingKeysStep ==
  ASSUME IInv, LivingKeys, [Next]_vars, late' = 0
  PROVE  LivingKeys'
<1>0. up' \subseteq up /\ late = 0 /\ late \in Nat
  BY WorldStep DEF IInv, ServiceTypes
<1>1. (knownAgents' \subseteq knownAgents /\ fresh \subseteq fresh') => LivingKeys'
  BY <1>0 DEF LivingKeys
<1>2. UNCHANGED hbVars => LivingKeys'
  BY <1>1 DEF hbVars
<1>3. ASSUME NEW a \in Agents, Beat(a) PROVE LivingKeys'
  BY <1>0, <1>3 DEF Beat, HB!Beat, LivingKeys
<1>4. ASSUME NEW a \in Agents, Expire(a) PROVE LivingKeys'
  <2>1. late' # late + 1
    BY <1>0
  <2>2. a \notin up /\ UNCHANGED <<up, knownAgents>> /\ fresh' = fresh \ {a}
    BY <1>4, <2>1 DEF Expire, HB!Expire
  <2> QED
    BY <2>2 DEF LivingKeys
<1>5. ASSUME NEW a \in Agents, HB!RemoveAgent(a) PROVE LivingKeys'
  BY <1>0, <1>5 DEF HB!RemoveAgent, LivingKeys
<1>6. ASSUME NEW t \in Tasks, Submit(t) PROVE UNCHANGED hbVars
  BY <1>6 DEF Submit
<1>7. ASSUME NEW a \in Agents,
             \/ Register(a) \/ Registered(a) \/ Dequeue(a) \/ Crash(a)
             \/ \E t \in held[a] : Report(a, t)
      PROVE  UNCHANGED hbVars
  BY <1>7 DEF Register, Registered, Dequeue, Crash, Report
<1>8. ASSUME NEW h \in Handlers,
             \/ HandleFailedAgents(h) \/ CheckDone(h)
             \/ \E a \in Agents : CheckAgent(h, a)
      PROVE  LivingKeys'
  <2>1. UNCHANGED <<knownAgents, fresh>>
    BY <1>8 DEF HandleFailedAgents, CheckDone, CheckAgent, HB!CheckHealth,
                HB!CheckDone, HB!CheckAgent
  <2> QED
    BY <1>1, <2>1
<1>9. ASSUME NEW h \in Handlers, ListHealthy(h) \/ NextFailed(h) \/ MoveTask(h)
      PROVE  UNCHANGED hbVars
  BY <1>9 DEF ListHealthy, NextFailed, MoveTask
<1>10. Shutdown \/ Drain \/ ListAgents \/ Deregister \/ Deregistered
         => UNCHANGED hbVars
  BY DEF Shutdown, Drain, ListAgents, Deregister, Deregistered
<1>11. CASE RemoveAgent
  <2>1. closing.left \in SUBSET Agents
    BY <1>11 DEF RemoveAgent, IInv, ServiceTypes, Closings
  <2>2. ASSUME NEW a \in closing.left, HB!RemoveAgent(a) PROVE LivingKeys'
    BY <1>5, <2>1, <2>2
  <2> QED
    BY <1>2, <1>11, <2>2 DEF RemoveAgent
<1>12. UNCHANGED vars => UNCHANGED hbVars
  BY DEF vars
<1> QED
  BY <1>2, <1>3, <1>4, <1>6, <1>7, <1>8, <1>9, <1>10, <1>11, <1>12
     DEF Next, AgentStep, HandlerStep, ShutdownStep

(* A check finds dead only agents without a key, a handler works on what    *)
(* its check found, and nobody comes back to life.                          *)
LEMMA FailedAreDeadStep ==
  ASSUME IInv, LivingKeys, FailedAreDead, [Next]_vars
  PROVE  FailedAreDead'
<1>0. up' \subseteq up
  BY WorldStep DEF IInv
<1> DEFINE DeadCheck(h) == checks[h] # Idle => checks[h].failed \cap up = {}
           DeadJob(h) ==
             /\ job[h] # Idle /\ job[h].at = "list" => job[h].failed \cap up = {}
             /\ job[h] # Idle /\ job[h].at = "move" => job[h].todo \cap up = {}
           DeadFrom(h) == redist[h] # Idle => redist[h].from \notin up
<1>1. ASSUME UNCHANGED checks, NEW g \in Handlers PROVE DeadCheck(g)'
  BY <1>0, <1>1 DEF FailedAreDead
<1>2. ASSUME UNCHANGED job, NEW g \in Handlers PROVE DeadJob(g)'
  BY <1>0, <1>2 DEF FailedAreDead
<1>3. ASSUME UNCHANGED redist, NEW g \in Handlers PROVE DeadFrom(g)'
  BY <1>0, <1>3 DEF FailedAreDead
<1>4. ASSUME NEW g \in Handlers PROVE DeadCheck(g)'
  <2>1. ASSUME NEW a \in Agents, NEW h \in Handlers, CheckAgent(h, a)
        PROVE  DeadCheck(g)'
    <3>1. /\ a \in knownAgents
          /\ checks[h] # Idle
          /\ checks' = [checks EXCEPT ![h] =
               [seen |-> checks[h].seen \cup {a},
                failed |-> IF a \in fresh THEN checks[h].failed
                           ELSE checks[h].failed \cup {a}]]
      BY <2>1, CheckEffect DEF CheckAgent, HB!CheckAgent, IInv, ServiceTypes
    <3>2. CASE g = h
      <4>1. checks'[g].failed = IF a \in fresh THEN checks[h].failed
                                ELSE checks[h].failed \cup {a}
        BY <3>1, <3>2 DEF IInv, ServiceTypes, HB!TypeOK
      <4>2. checks[h].failed \cap up = {} /\ (a \notin fresh => a \notin up)
        BY <3>1 DEF FailedAreDead, LivingKeys
      <4> QED
        BY <1>0, <4>1, <4>2
    <3>3. CASE g # h
      <4>1. checks'[g] = checks[g]
        BY <3>1, <3>3 DEF IInv, ServiceTypes, HB!TypeOK
      <4> QED
        BY <1>0, <4>1 DEF FailedAreDead
    <3> QED
      BY <3>2, <3>3
  <2>2. ASSUME NEW h \in Handlers, HandleFailedAgents(h) \/ CheckDone(h)
        PROVE  DeadCheck(g)'
    <3>1. \/ checks' = [checks EXCEPT ![h] = [seen |-> {}, failed |-> {}]]
          \/ checks' = [checks EXCEPT ![h] = Idle]
      BY <2>2 DEF HandleFailedAgents, CheckDone, HB!CheckHealth, HB!CheckDone
    <3>2. \/ checks'[g] = checks[g]
          \/ checks'[g] = [seen |-> {}, failed |-> {}]
          \/ checks'[g] = Idle
      BY <3>1 DEF IInv, ServiceTypes, HB!TypeOK
    <3> QED
      BY <1>0, <3>2 DEF FailedAreDead
  <2>3. CASE RemoveAgent
    <3>1. CASE UNCHANGED hbVars
      BY <1>1, <3>1 DEF hbVars
    <3>2. ASSUME NEW a \in closing.left, HB!RemoveAgent(a) PROVE DeadCheck(g)'
      <4>1. checks'[g] = IF checks[g] = Idle THEN Idle
                         ELSE [checks[g] EXCEPT !.seen = @ \ {a}]
        BY <3>2 DEF HB!RemoveAgent
      <4>2. checks[g] # Idle => checks'[g].failed = checks[g].failed
        BY <4>1 DEF IInv, ServiceTypes, HB!TypeOK
      <4> QED
        BY <1>0, <4>1, <4>2 DEF FailedAreDead
    <3> QED
      BY <2>3, <3>1, <3>2 DEF RemoveAgent
  <2>4. ASSUME NEW t \in Tasks, Submit(t) PROVE UNCHANGED checks
    BY <2>4 DEF Submit, hbVars
  <2>5. ASSUME NEW a \in Agents, AgentStep(a) \/ Crash(a) \/ Expire(a)
        PROVE  UNCHANGED checks
    BY <2>5 DEF AgentStep, Register, Registered, Beat, HB!Beat, Dequeue, Report,
                Crash, Expire, HB!Expire, hbVars
  <2>6. ASSUME NEW h \in Handlers, ListHealthy(h) \/ NextFailed(h) \/ MoveTask(h)
        PROVE  UNCHANGED checks
    BY <2>6 DEF ListHealthy, NextFailed, MoveTask, hbVars
  <2>7. Shutdown \/ Drain \/ ListAgents \/ Deregister \/ Deregistered
          \/ UNCHANGED vars => UNCHANGED checks
    BY DEF Shutdown, Drain, ListAgents, Deregister, Deregistered, vars, hbVars
  <2> QED
    BY <1>1, <2>1, <2>2, <2>3, <2>4, <2>5, <2>6, <2>7
       DEF Next, HandlerStep, ShutdownStep
<1>5. ASSUME NEW g \in Handlers PROVE DeadJob(g)'
  <2>1. ASSUME NEW h \in Handlers, NEW j, job' = [job EXCEPT ![h] = j],
               /\ j # Idle /\ j.at = "list" => j.failed \cap up = {}
               /\ j # Idle /\ j.at = "move" => j.todo \cap up = {}
        PROVE  DeadJob(g)'
    <3>1. job'[g] = IF g = h THEN j ELSE job[g]
      BY <2>1 DEF IInv, ServiceTypes
    <3> QED
      BY <1>0, <2>1, <3>1 DEF FailedAreDead
  <2>2. ASSUME NEW h \in Handlers, HandleFailedAgents(h) PROVE DeadJob(g)'
    BY <2>1, <2>2 DEF HandleFailedAgents
  <2>3. ASSUME NEW h \in Handlers, CheckDone(h) PROVE DeadJob(g)'
    <3>1. checks[h].failed \cap up = {}
      BY <2>3 DEF CheckDone, HB!CheckDone, FailedAreDead
    <3> QED
      BY <2>1, <2>3, <3>1 DEF CheckDone
  <2>4. ASSUME NEW h \in Handlers, ListHealthy(h) PROVE DeadJob(g)'
    <3>1. job[h].failed \cap up = {}
      BY <2>4 DEF ListHealthy, FailedAreDead
    <3>2. \/ job' = [job EXCEPT ![h] = Idle]
          \/ \E a : job' = [job EXCEPT ![h] = [at |-> "move",
                              todo |-> job[h].failed, target |-> a]]
      BY <2>4 DEF ListHealthy
    <3> QED
      BY <2>1, <3>1, <3>2
  <2>5. ASSUME NEW h \in Handlers, NextFailed(h) PROVE DeadJob(g)'
    <3>1. /\ job[h] = [at |-> "move", todo |-> job[h].todo,
                       target |-> job[h].target]
          /\ job[h].todo \cap up = {}
      BY <2>5, JobShape DEF NextFailed, IInv, FailedAreDead
    <3>2. ASSUME NEW f, job' = [job EXCEPT ![h].todo = @ \ {f}]
          PROVE  DeadJob(g)'
      <4>1. job' = [job EXCEPT ![h] = [job[h] EXCEPT !.todo = @ \ {f}]]
        BY <3>2
      <4>2. [job[h] EXCEPT !.todo = @ \ {f}]
              = [at |-> "move", todo |-> job[h].todo \ {f},
                 target |-> job[h].target]
        BY <3>1, JobTurn
      <4> QED
        BY <2>1, <3>1, <4>1, <4>2
    <3> QED
      BY <2>1, <2>5, <3>2 DEF NextFailed
  <2>6. ASSUME NEW t \in Tasks, Submit(t) PROVE UNCHANGED job
    BY <2>6 DEF Submit, callVars
  <2>7. ASSUME NEW a \in Agents, AgentStep(a) \/ Crash(a) \/ Expire(a)
        PROVE  UNCHANGED job
    BY <2>7 DEF AgentStep, Register, Registered, Beat, Dequeue, Report, Crash,
                Expire, callVars
  <2>8. ASSUME NEW h \in Handlers, MoveTask(h) \/ \E a \in Agents : CheckAgent(h, a)
        PROVE  UNCHANGED job
    BY <2>8 DEF MoveTask, CheckAgent, callVars
  <2>9. Shutdown \/ ShutdownStep \/ UNCHANGED vars => UNCHANGED job
    BY DEF Shutdown, ShutdownStep, Drain, ListAgents, RemoveAgent, Deregister,
           Deregistered, vars, callVars
  <2> HIDE DEF DeadJob
  <2> QED
    BY <1>2, <2>2, <2>3, <2>4, <2>5, <2>6, <2>7, <2>8, <2>9 DEF Next, HandlerStep
<1>6. ASSUME NEW g \in Handlers PROVE DeadFrom(g)'
  <2>1. ASSUME NEW h \in Handlers, NEW f \in Agents, NEW a \in Agents,
               NEW pos \in Nat, Sched!MoveNext(h, f, a, pos), f \notin up
        PROVE  DeadFrom(g)'
    <3>1. \/ redist' = [redist EXCEPT ![h] = Idle]
          \/ \E p : redist' = [redist EXCEPT ![h] =
                                 [from |-> f, to |-> a, pos |-> p]]
      BY <2>1, MoveEffect
    <3>2. \/ redist'[g] = redist[g]
          \/ redist'[g] = Idle
          \/ \E p : redist'[g] = [from |-> f, to |-> a, pos |-> p]
      BY <3>1 DEF IInv, Sched!IInv, Sched!TypeOK
    <3>3. CASE redist'[g] = redist[g]
      BY <1>0, <3>3 DEF FailedAreDead
    <3>4. ASSUME NEW p, redist'[g] = [from |-> f, to |-> a, pos |-> p]
          PROVE  DeadFrom(g)'
      BY <1>0, <2>1, <3>4
    <3>5. CASE redist'[g] = Idle
      BY <3>5
    <3> QED
      BY <3>2, <3>3, <3>4, <3>5
  <2>2. ASSUME NEW h \in Handlers, NextFailed(h) PROVE DeadFrom(g)'
    <3>1. CASE UNCHANGED schedVars
      BY <1>3, <3>1 DEF schedVars
    <3>2. ASSUME NEW f \in job[h].todo, Sched!RedistributeTasks(h, f, job[h].target)
          PROVE  DeadFrom(g)'
      <4>1. f \in Agents /\ f \notin up /\ job[h].target \in Agents
        BY <2>2, JobShape DEF NextFailed, IInv, FailedAreDead
      <4> QED
        BY <2>1, <3>2, <4>1 DEF Sched!RedistributeTasks
    <3> QED
      BY <2>2, <3>1, <3>2 DEF NextFailed
  <2>3. ASSUME NEW h \in Handlers, MoveTask(h) PROVE DeadFrom(g)'
    <3>1. redist[h] # Idle /\ redist[h] \in Sched!Call
      BY <2>3 DEF MoveTask, Sched!ResumeRedistribute, IInv, Sched!IInv, Sched!TypeOK
    <3>2. /\ redist[h].from \in Agents /\ redist[h].to \in Agents
          /\ redist[h].pos \in Nat /\ redist[h].from \notin up
      BY <3>1 DEF Sched!Call, FailedAreDead
    <3> QED
      BY <2>1, <2>3, <3>2 DEF MoveTask, Sched!ResumeRedistribute
  <2>4. ASSUME NEW t \in Tasks, Sched!Submit(t, 0) \/ Sched!Abort(t)
        PROVE  UNCHANGED redist
    BY <2>4, SubmitEffect, AbortEffect
  <2>5. ASSUME NEW a \in Agents, Dequeue(a) \/ \E t \in held[a] : Report(a, t)
        PROVE  UNCHANGED redist
    BY <2>5, DequeueEffect, ReportEffect DEF Dequeue, Report, IInv
  <2>6. ASSUME NEW a \in Agents,
               Register(a) \/ Registered(a) \/ Beat(a) \/ Crash(a) \/ Expire(a)
        PROVE  UNCHANGED redist
    BY <2>6 DEF Register, Registered, Beat, Crash, Expire, schedVars
  <2>7. ASSUME NEW h \in Handlers,
               \/ HandleFailedAgents(h) \/ CheckDone(h) \/ ListHealthy(h)
               \/ \E a \in Agents : CheckAgent(h, a)
        PROVE  UNCHANGED redist
    BY <2>7 DEF HandleFailedAgents, CheckDone, ListHealthy, CheckAgent, schedVars
  <2>8. CASE Shutdown \/ Drain
    <3>1. \E todo, batch : FailFirst(todo, batch)
      BY <2>8 DEF Shutdown, Drain
    <3>2. UNCHANGED redist
      BY <3>1, AbortEffect DEF FailFirst, schedVars
    <3> QED
      BY <1>3, <3>2
  <2>9. ListAgents \/ RemoveAgent \/ Deregister \/ Deregistered \/ UNCHANGED vars
          => UNCHANGED redist
    BY DEF ListAgents, RemoveAgent, Deregister, Deregistered, vars, schedVars
  <2>10. ASSUME NEW t \in Tasks, Submit(t) PROVE UNCHANGED redist
    BY <2>4, <2>10 DEF Submit
  <2> QED
    BY <1>3, <2>2, <2>3, <2>5, <2>6, <2>7, <2>8, <2>9, <2>10
       DEF Next, AgentStep, HandlerStep, ShutdownStep
<1> QED
  BY <1>4, <1>5, <1>6 DEF FailedAreDead

(* A living agent keeps its tasks until it reports them: they are moved     *)
(* away only from the dead.                                                 *)
LEMMA HeldIsNamedStep ==
  ASSUME IInv, FailedAreDead, HeldIsNamed, [Next]_vars
  PROVE  HeldIsNamed'
<1>0. /\ up' \subseteq up /\ up \subseteq Agents
      /\ held \in [Agents -> SUBSET Tasks] /\ agentName \in [Tasks -> Agents]
  BY WorldStep DEF IInv, ServiceTypes, Sched!IInv, Sched!TypeOK
<1>1. ASSUME UNCHANGED agentName, \A a \in Agents : held'[a] \subseteq held[a]
      PROVE  HeldIsNamed'
  BY <1>0, <1>1 DEF HeldIsNamed
<1>2. UNCHANGED <<agentName, held>> => HeldIsNamed'
  BY <1>1
<1>3. ASSUME NEW a \in Agents, Dequeue(a) PROVE HeldIsNamed'
  <2>1. UNCHANGED agentName
    BY <1>3, DequeueEffect DEF Dequeue, IInv
  <2>2. ASSUME NEW t \in Tasks, agentName[t] = a,
               held' = [held EXCEPT ![a] = @ \cup {t}]
        PROVE  HeldIsNamed'
    BY <1>0, <2>1, <2>2 DEF HeldIsNamed
  <2> QED
    BY <1>2, <1>3, <2>1, <2>2, DequeueEffect DEF Dequeue, IInv
<1>4. ASSUME NEW a \in Agents, NEW t \in held[a], Report(a, t) PROVE HeldIsNamed'
  <2>1. UNCHANGED agentName /\ held' = [held EXCEPT ![a] = @ \ {t}]
    BY <1>4, ReportEffect DEF Report
  <2>2. \A b \in Agents : held'[b] \subseteq held[b]
    BY <1>0, <2>1
  <2> QED
    BY <1>1, <2>1, <2>2
<1>5. ASSUME NEW h \in Handlers, NEW f \in Agents, NEW g \in Agents,
             NEW pos \in Nat, Sched!MoveNext(h, f, g, pos), f \notin up
      PROVE  HeldIsNamed'
  <2>1. UNCHANGED held
    BY <1>5, MoveEffect
  <2>2. CASE UNCHANGED agentName
    BY <1>2, <2>1, <2>2
  <2>3. ASSUME NEW i \in Sched!ToMove(f, pos),
               agentName' = [agentName EXCEPT ![tasks[i]] = g]
        PROVE  HeldIsNamed'
    <3>1. agentName[tasks[i]] = f
      BY DEF Sched!ToMove
    <3>2. ASSUME NEW a \in up, NEW t \in held[a] PROVE agentName'[t] = a
      <4>1. agentName[t] = a /\ t \in Tasks
        BY <1>0 DEF HeldIsNamed
      <4>2. t # tasks[i]
        BY <1>5, <3>1, <4>1
      <4> QED
        BY <1>0, <2>3, <4>1, <4>2
    <3> QED
      BY <1>0, <2>1, <3>2 DEF HeldIsNamed
  <2> QED
    BY <1>5, <2>2, <2>3, MoveEffect
<1>6. ASSUME NEW h \in Handlers, NextFailed(h) PROVE HeldIsNamed'
  <2>1. CASE UNCHANGED schedVars
    BY <1>2, <2>1 DEF schedVars
  <2>2. ASSUME NEW f \in job[h].todo, Sched!RedistributeTasks(h, f, job[h].target)
        PROVE  HeldIsNamed'
    <3>1. f \in Agents /\ f \notin up /\ job[h].target \in Agents
      BY <1>6, JobShape DEF NextFailed, IInv, FailedAreDead
    <3> QED
      BY <1>5, <2>2, <3>1 DEF Sched!RedistributeTasks
  <2> QED
    BY <1>6, <2>1, <2>2 DEF NextFailed
<1>7. ASSUME NEW h \in Handlers, MoveTask(h) PROVE HeldIsNamed'
  <2>1. redist[h] # Idle /\ redist[h] \in Sched!Call
    BY <1>7 DEF MoveTask, Sched!ResumeRedistribute, IInv, Sched!IInv, Sched!TypeOK
  <2>2. /\ redist[h].from \in Agents /\ redist[h].to \in Agents
        /\ redist[h].pos \in Nat /\ redist[h].from \notin up
    BY <2>1 DEF Sched!Call, FailedAreDead
  <2> QED
    BY <1>5, <1>7, <2>2 DEF MoveTask, Sched!ResumeRedistribute
<1>8. ASSUME NEW t \in Tasks, Submit(t) PROVE UNCHANGED <<agentName, held>>
  BY <1>8, SubmitEffect DEF Submit
<1>9. ASSUME NEW a \in Agents,
             Register(a) \/ Registered(a) \/ Beat(a) \/ Crash(a) \/ Expire(a)
      PROVE  UNCHANGED <<agentName, held>>
  BY <1>9 DEF Register, Registered, Beat, Crash, Expire, schedVars
<1>10. ASSUME NEW h \in Handlers,
              \/ HandleFailedAgents(h) \/ CheckDone(h) \/ ListHealthy(h)
              \/ \E a \in Agents : CheckAgent(h, a)
       PROVE  UNCHANGED <<agentName, held>>
  BY <1>10 DEF HandleFailedAgents, CheckDone, ListHealthy, CheckAgent, schedVars
<1>11. Shutdown \/ Drain => UNCHANGED <<agentName, held>>
  BY AbortEffect DEF Shutdown, Drain, FailFirst, schedVars
<1>12. ListAgents \/ RemoveAgent \/ Deregister \/ Deregistered \/ UNCHANGED vars
          => UNCHANGED <<agentName, held>>
  BY DEF ListAgents, RemoveAgent, Deregister, Deregistered, vars, schedVars
<1> QED
  BY <1>2, <1>3, <1>4, <1>6, <1>7, <1>8, <1>9, <1>10, <1>11, <1>12
     DEF Next, AgentStep, HandlerStep, ShutdownStep

(* As long as every living agent beats in time, no two living agents work   *)
(* on one task, however stale the lists the handlers act on.                *)
THEOREM NoTaskRunsTwice == Spec => []NoDoubleRun
<1>1. Init => InTime
  BY DEF Init, InTime, LivingKeys, FailedAreDead, HeldIsNamed, HB!Init, Sched!Init
<1>2. IInv /\ InTime /\ [Next]_vars => InTime'
  <2> SUFFICES ASSUME IInv, InTime, [Next]_vars, late' = 0
               PROVE  LivingKeys' /\ FailedAreDead' /\ HeldIsNamed'
    BY DEF InTime
  <2>1. late = 0
    BY WorldStep DEF IInv, ServiceTypes
  <2> QED
    BY <2>1, LivingKeysStep, FailedAreDeadStep, HeldIsNamedStep DEF InTime
<1>3. IInv /\ InTime => NoDoubleRun
  BY DEF InTime, HeldIsNamed, NoDoubleRun
<1> QED
  BY <1>1, <1>2, <1>3, Inductive, PTL DEF Spec

-----------------------------------------------------------------------------
(* A redistribution leaves nothing behind.                                  *)

(* One failure check at a time.  With two, each may move a task to the      *)
(* agent the other is emptying, behind its back.                            *)
OneHandler == \A g, h \in Handlers : g = h

(* A suspended redistribution is from one agent to another and has not gone *)
(* further than the Map is long; the tasks it has passed are done with.     *)
Swept(h) ==
  /\ redist[h].from # redist[h].to
  /\ redist[h].pos <= Len(tasks) + 1
  /\ \A i \in DOMAIN tasks : i < redist[h].pos =>
        ~ (agentName[tasks[i]] = redist[h].from /\ status[tasks[i]] \in Sched!Live)

Sweeping == \A h \in Handlers : redist[h] # Idle => Swept(h)

(* The keys of the Map, at their places.                                    *)
LEMMA MapShape ==
  ASSUME Sched!TypeOK
  PROVE  /\ Len(tasks) \in Nat /\ DOMAIN tasks = 1..Len(tasks)
         /\ \A i \in DOMAIN tasks : tasks[i] \in Tasks
BY DEF Sched!TypeOK

(* A step that brings no task to life and gives none to another agent       *)
(* leaves what was swept swept.                                             *)
LEMMA StillSwept ==
  ASSUME Sched!TypeOK, Sweeping, UNCHANGED <<tasks, redist, agentName>>,
         \A t \in Tasks : status'[t] \in Sched!Live => status[t] \in Sched!Live
  PROVE  Sweeping'
BY MapShape DEF Sweeping, Swept, Sched!Live

(* From where it was to the next live task, then on behind it.              *)
LEMMA MoveSwept ==
  ASSUME Sched!IInv, OneHandler, NEW h \in Handlers, NEW f \in Agents,
         NEW g \in Agents, f # g, NEW pos \in Nat, Sched!MoveNext(h, f, g, pos),
         \A i \in DOMAIN tasks : i < pos =>
            ~ (agentName[tasks[i]] = f /\ status[tasks[i]] \in Sched!Live)
  PROVE  Sweeping'
<1>0. /\ redist \in [Handlers -> Sched!Call \cup {Idle}]
      /\ agentName \in [Tasks -> Agents]
      /\ Len(tasks) \in Nat /\ DOMAIN tasks = 1..Len(tasks)
      /\ \A i \in DOMAIN tasks : tasks[i] \in Tasks
      /\ \A c \in Handlers : c = h
  BY MapShape DEF Sched!IInv, Sched!TypeOK, OneHandler
<1>1. CASE redist' = [redist EXCEPT ![h] = Idle]
  <2>1. redist'[h] = Idle
    BY <1>0, <1>1
  <2> QED
    BY <1>0, <2>1 DEF Sweeping
<1>2. ASSUME NEW i \in Sched!ToMove(f, pos),
             \A j \in Sched!ToMove(f, pos) : i <= j,
             agentName' = [agentName EXCEPT ![tasks[i]] = g],
             status' = [status EXCEPT ![tasks[i]] = "queued"],
             redist' = [redist EXCEPT ![h] =
                          [from |-> f, to |-> g, pos |-> i + 1]],
             UNCHANGED tasks
      PROVE  Sweeping'
  <2>1. i \in 1..Len(tasks) /\ tasks[i] \in Tasks
    BY <1>0 DEF Sched!ToMove
  <2>2. redist'[h] = [from |-> f, to |-> g, pos |-> i + 1]
    BY <1>0, <1>2
  <2>3. ASSUME NEW j \in DOMAIN tasks, j < i + 1
        PROVE  ~ (agentName'[tasks[j]] = f /\ status'[tasks[j]] \in Sched!Live)
    <3>1. tasks[j] \in Tasks
      BY <1>0
    <3>2. CASE tasks[j] = tasks[i]
      <4>1. agentName'[tasks[j]] = g
        BY <1>0, <1>2, <2>1, <3>2
      <4> QED
        BY <4>1
    <3>3. CASE tasks[j] # tasks[i]
      <4>1. agentName'[tasks[j]] = agentName[tasks[j]]
            /\ status'[tasks[j]] = status[tasks[j]]
        BY <1>2, <3>1, <3>3 DEF Sched!IInv, Sched!TypeOK
      <4>2. j < i
        <5>1. j # i
          BY <3>3
        <5> QED
          BY <1>0, <2>1, <2>3, <5>1
      <4>3. j \notin Sched!ToMove(f, pos)
        BY <1>0, <1>2, <2>1, <4>2
      <4>4. j < pos \/ j >= pos
        BY <1>0
      <4> QED
        BY <4>1, <4>3, <4>4 DEF Sched!ToMove
    <3> QED
      BY <3>2, <3>3
  <2>4. Swept(h)'
    <3>1. redist'[h].from = f /\ redist'[h].to = g /\ redist'[h].pos = i + 1
      BY <2>2
    <3>2. i + 1 <= Len(tasks) + 1
      BY <1>0, <2>1
    <3> QED
      BY <1>2, <2>3, <3>1, <3>2 DEF Swept, Sched!Live
  <2> QED
    BY <1>0, <2>4 DEF Sweeping
<1> QED
  BY <1>1, <1>2, MoveEffect

(* What was swept stays swept.                                              *)
LEMMA SweepingStep ==
  ASSUME IInv, OneHandler, Sweeping, [Next]_vars
  PROVE  Sweeping'
<1>0. /\ Sched!IInv /\ Sched!TypeOK
      /\ status \in [Tasks -> Sched!Statuses \cup {"new"}]
      /\ agentName \in [Tasks -> Agents]
      /\ redist \in [Handlers -> Sched!Call \cup {Idle}]
      /\ Len(tasks) \in Nat /\ DOMAIN tasks = 1..Len(tasks)
      /\ \A i \in DOMAIN tasks : tasks[i] \in Tasks
  BY MapShape DEF IInv, Sched!IInv, Sched!TypeOK
<1>1. UNCHANGED schedVars => Sweeping'
  BY <1>0, StillSwept DEF schedVars
<1>2. ASSUME NEW t \in Tasks, Submit(t) PROVE Sweeping'
  <2>1. /\ UNCHANGED <<agentName, redist>>
        /\ t \notin Sched!Known
        /\ tasks' = Append(tasks, t)
        /\ status' = [status EXCEPT ![t] = "queued"]
    BY <1>2, SubmitEffect DEF Submit
  <2>2. /\ DOMAIN tasks' = 1..(Len(tasks) + 1) /\ Len(tasks') = Len(tasks) + 1
        /\ \A i \in DOMAIN tasks : tasks'[i] = tasks[i] /\ tasks[i] # t
    <3>1. \A i \in DOMAIN tasks : tasks[i] # t
      BY <2>1 DEF Sched!Known, Sched!ToSet
    <3>2. tasks \in Seq(Tasks)
      BY <1>0 DEF Sched!TypeOK
    <3> QED
      BY <1>0, <2>1, <3>1, <3>2
  <2>3. ASSUME NEW h \in Handlers, redist'[h] # Idle PROVE Swept(h)'
    <3>1. redist'[h] = redist[h] /\ redist[h] \in Sched!Call /\ Swept(h)
      BY <1>0, <2>1, <2>3 DEF Sweeping
    <3>2. redist[h].pos \in Nat
      BY <3>1 DEF Sched!Call
    <3>3. redist[h].pos <= Len(tasks') + 1
      BY <1>0, <2>2, <3>1, <3>2 DEF Swept
    <3>4. ASSUME NEW i \in DOMAIN tasks', i < redist[h].pos
          PROVE  ~ (agentName'[tasks'[i]] = redist[h].from
                    /\ status'[tasks'[i]] \in Sched!Live)
      <4>1. i \in DOMAIN tasks
        BY <1>0, <2>2, <3>1, <3>2, <3>4 DEF Swept
      <4>2. /\ tasks'[i] = tasks[i] /\ tasks[i] # t
            /\ tasks[i] \in Tasks
        BY <1>0, <2>2, <4>1
      <4>3. status'[tasks[i]] = status[tasks[i]]
        BY <1>0, <2>1, <4>2
      <4> QED
        BY <2>1, <3>1, <3>4, <4>1, <4>2, <4>3 DEF Swept
    <3> QED
      BY <2>1, <3>1, <3>3, <3>4 DEF Swept, Sched!Live
  <2> QED
    BY <2>3 DEF Sweeping
<1>3. ASSUME NEW a \in Agents, Dequeue(a) PROVE Sweeping'
  <2>1. /\ UNCHANGED <<agentName, tasks, redist>>
        /\ \/ UNCHANGED <<status, held>>
           \/ \E t \in Tasks : /\ status[t] = "queued"
                               /\ status' = [status EXCEPT ![t] = "running"]
    BY <1>0, <1>3, DequeueEffect DEF Dequeue
  <2>2. \A t \in Tasks : status'[t] \in Sched!Live => status[t] \in Sched!Live
    BY <1>0, <2>1 DEF Sched!Live
  <2> QED
    BY <1>0, <2>1, <2>2, StillSwept
<1>4. ASSUME UNCHANGED <<agentName, tasks, redist>>, NEW t,
             NEW s \in {"completed", "failed"}, status' = [status EXCEPT ![t] = s]
      PROVE  Sweeping'
  <2>1. \A u \in Tasks : status'[u] \in Sched!Live => status[u] \in Sched!Live
    BY <1>0, <1>4 DEF Sched!Live
  <2> QED
    BY <1>0, <1>4, <2>1, StillSwept
<1>5. ASSUME NEW a \in Agents, NEW t \in held[a], Report(a, t) PROVE Sweeping'
  BY <1>4, <1>5, ReportEffect DEF Report
<1>6. CASE Shutdown \/ Drain
  <2>1. UNCHANGED schedVars \/ \E t : Sched!Abort(t)
    BY <1>6 DEF Shutdown, Drain, FailFirst
  <2> QED
    BY <1>1, <1>4, <2>1, AbortEffect
<1>7. ASSUME NEW h \in Handlers, NextFailed(h) PROVE Sweeping'
  <2>1. ASSUME NEW f \in job[h].todo, Sched!RedistributeTasks(h, f, job[h].target)
        PROVE  Sweeping'
    <3>1. /\ f \in Agents /\ job[h].target \in Agents
          /\ f # job[h].target
      BY <1>7, JobShape DEF NextFailed, IInv, Aims
    <3>2. \A i \in DOMAIN tasks : ~ (i < 1)
      BY <1>0
    <3> QED
      BY <1>0, <2>1, <3>1, <3>2, MoveSwept DEF Sched!RedistributeTasks
  <2> QED
    BY <1>1, <1>7, <2>1 DEF NextFailed
<1>8. ASSUME NEW h \in Handlers, MoveTask(h) PROVE Sweeping'
  <2>1. redist[h] # Idle /\ redist[h] \in Sched!Call
    BY <1>0, <1>8 DEF MoveTask, Sched!ResumeRedistribute
  <2>2. /\ redist[h].from \in Agents /\ redist[h].to \in Agents
        /\ redist[h].pos \in Nat /\ Swept(h)
    BY <2>1 DEF Sched!Call, Sweeping
  <2> QED
    BY <1>0, <1>8, <2>2, MoveSwept DEF MoveTask, Sched!ResumeRedistribute, Swept
<1>9. ASSUME NEW a \in Agents,
             Register(a) \/ Registered(a) \/ Beat(a) \/ Crash(a) \/ Expire(a)
      PROVE  UNCHANGED schedVars
  BY <1>9 DEF Register, Registered, Beat, Crash, Expire
<1>10. ASSUME NEW h \in Handlers,
              \/ HandleFailedAgents(h) \/ CheckDone(h) \/ ListHealthy(h)
              \/ \E a \in Agents : CheckAgent(h, a)
       PROVE  UNCHANGED schedVars
  BY <1>10 DEF HandleFailedAgents, CheckDone, ListHealthy, CheckAgent
<1>11. ListAgents \/ RemoveAgent \/ Deregister \/ Deregistered \/ UNCHANGED vars
          => UNCHANGED schedVars
  BY DEF ListAgents, RemoveAgent, Deregister, Deregistered, vars
<1> QED
  BY <1>1, <1>2, <1>3, <1>5, <1>6, <1>7, <1>8, <1>9, <1>10, <1>11
     DEF Next, AgentStep, HandlerStep, ShutdownStep

(* With one failure check at a time, a redistribution leaves no live task   *)
(* of the failed agent behind it in the Map, although tasks are submitted,  *)
(* taken, reported and given up while it is suspended.                      *)
THEOREM SweepLeavesNothing ==
  ASSUME OneHandler
  PROVE  Spec => []SweepComplete
<1>1. Init => Sweeping
  BY DEF Init, Sched!Init, Sweeping
<1>2. IInv /\ Sweeping /\ [Next]_vars => Sweeping'
  BY SweepingStep
<1>3. Sweeping => SweepComplete
  BY DEF Sweeping, Swept, SweepComplete, Sched!Live
<1> QED
  BY <1>1, <1>2, <1>3, Inductive, PTL DEF Spec

-----------------------------------------------------------------------------
(* What shutdown has gone through is over.                                  *)

(* A task of the list is over, or shutdown has still to come to it.         *)
Over == {"completed", "failed"}

ToCome(t) == closing.at = "drain" /\ \E p \in closing.todo : p[2] = t

Draining ==
  closing.at # "no" =>
     \A t \in closing.batch : status[t] # "new" /\ (status[t] \in Over \/ ToCome(t))

(* Nothing but a new submission of a failed task, which the service never   *)
(* makes, brings a task back, and no task becomes new again.                *)
LEMMA OverIsFinal ==
  ASSUME IInv, [Next]_vars
  PROVE  \A t \in Tasks : /\ status[t] # "new" => status'[t] # "new"
                          /\ status[t] \in Over => status'[t] \in Over
<1> DEFINE Final == \A t \in Tasks : /\ status[t] # "new" => status'[t] # "new"
                                     /\ status[t] \in Over => status'[t] \in Over
<1>0. /\ Sched!IInv /\ Sched!TypeOK
      /\ status \in [Tasks -> Sched!Statuses \cup {"new"}]
      /\ \A i \in DOMAIN tasks : tasks[i] \in Tasks
  BY MapShape DEF IInv, Sched!IInv, Sched!TypeOK
<1>1. UNCHANGED schedVars => Final
  BY DEF schedVars
<1>2. ASSUME NEW t, NEW s, status' = [status EXCEPT ![t] = s], s # "new",
             t \in Tasks => s \in Over \/ status[t] \notin Over
      PROVE  Final
  BY <1>0, <1>2
<1>3. ASSUME NEW t \in Tasks, Submit(t) PROVE Final
  <2>1. status' = [status EXCEPT ![t] = "queued"] /\ t \notin Sched!Known
    BY <1>3, SubmitEffect DEF Submit
  <2>2. status[t] = "new"
    BY <1>0, <2>1 DEF Sched!IInv, Sched!OnlyKnown
  <2> QED
    BY <1>2, <2>1, <2>2 DEF Over
<1>4. ASSUME NEW a \in Agents, Dequeue(a) PROVE Final
  <2>1. \/ UNCHANGED status
        \/ \E t \in Tasks : /\ status[t] = "queued"
                            /\ status' = [status EXCEPT ![t] = "running"]
    BY <1>0, <1>4, DequeueEffect DEF Dequeue
  <2> QED
    BY <1>2, <2>1 DEF Over
<1>5. ASSUME NEW a \in Agents, NEW t \in held[a], Report(a, t) PROVE Final
  BY <1>2, <1>5, ReportEffect DEF Report, Over
<1>6. ASSUME Shutdown \/ Drain PROVE Final
  <2>1. UNCHANGED schedVars \/ \E t : Sched!Abort(t)
    BY <1>6 DEF Shutdown, Drain, FailFirst
  <2> QED
    BY <1>1, <1>2, <2>1, AbortEffect DEF Over
<1>7. ASSUME NEW h \in Handlers, NEW f \in Agents, NEW g \in Agents,
             NEW pos \in Nat, Sched!MoveNext(h, f, g, pos)
      PROVE  Final
  <2>1. CASE UNCHANGED status
    BY <2>1
  <2>2. ASSUME NEW i \in Sched!ToMove(f, pos),
               status' = [status EXCEPT ![tasks[i]] = "queued"]
        PROVE  Final
    <3>1. status[tasks[i]] \in Sched!Live
      BY DEF Sched!ToMove
    <3> QED
      BY <1>2, <2>2, <3>1 DEF Sched!Live, Over
  <2> QED
    BY <1>7, <2>1, <2>2, MoveEffect
<1>8. ASSUME NEW h \in Handlers, NextFailed(h) PROVE Final
  <2>1. ASSUME NEW f \in job[h].todo, Sched!RedistributeTasks(h, f, job[h].target)
        PROVE  Final
    <3>1. f \in Agents /\ job[h].target \in Agents
      BY <1>8, JobShape DEF NextFailed, IInv
    <3> QED
      BY <1>7, <2>1, <3>1 DEF Sched!RedistributeTasks
  <2> QED
    BY <1>1, <1>8, <2>1 DEF NextFailed
<1>9. ASSUME NEW h \in Handlers, MoveTask(h) PROVE Final
  <2>1. redist[h] \in Sched!Call
    BY <1>0, <1>9 DEF MoveTask, Sched!ResumeRedistribute, Sched!TypeOK
  <2>2. /\ redist[h].from \in Agents /\ redist[h].to \in Agents
        /\ redist[h].pos \in Nat
    BY <2>1 DEF Sched!Call
  <2> QED
    BY <1>7, <1>9, <2>2 DEF MoveTask, Sched!ResumeRedistribute
<1>10. ASSUME NEW a \in Agents,
             Register(a) \/ Registered(a) \/ Beat(a) \/ Crash(a) \/ Expire(a)
       PROVE  UNCHANGED schedVars
  BY <1>10 DEF Register, Registered, Beat, Crash, Expire
<1>11. ASSUME NEW h \in Handlers,
              \/ HandleFailedAgents(h) \/ CheckDone(h) \/ ListHealthy(h)
              \/ \E a \in Agents : CheckAgent(h, a)
       PROVE  UNCHANGED schedVars
  BY <1>11 DEF HandleFailedAgents, CheckDone, ListHealthy, CheckAgent
<1>12. ListAgents \/ RemoveAgent \/ Deregister \/ Deregistered \/ UNCHANGED vars
          => UNCHANGED schedVars
  BY DEF ListAgents, RemoveAgent, Deregister, Deregistered, vars
<1> HIDE DEF Final
<1>13. Final
  BY <1>1, <1>3, <1>4, <1>5, <1>6, <1>8, <1>9, <1>10, <1>11, <1>12
     DEF Next, AgentStep, HandlerStep, ShutdownStep
<1> QED
  BY <1>13 DEF Final

(* One turn of the drain: the task it comes to is over after it.            *)
LEMMA TurnDrains ==
  ASSUME IInv, [Next]_vars, NEW todo \in SUBSET (Nat \X Tasks),
         NEW batch \in SUBSET Tasks, FailFirst(todo, batch),
         \A t \in batch : /\ status[t] # "new"
                          /\ status[t] \in Over \/ \E p \in todo : p[2] = t
  PROVE  Draining'
<1>0. \A t \in batch : /\ status'[t] # "new"
                       /\ status[t] \in Over => status'[t] \in Over
  BY OverIsFinal
<1>1. CASE todo = {} /\ closing' = [at |-> "list", batch |-> batch]
  BY <1>0, <1>1 DEF Draining, Over
<1>2. ASSUME NEW p \in todo, Sched!Abort(p[2]),
             closing' = [at |-> "drain", batch |-> batch, todo |-> todo \ {p}]
      PROVE  Draining'
  <2>1. status'[p[2]] = "failed"
    <3>1. p[2] \in Tasks
      OBVIOUS
    <3> QED
      BY <1>2, <3>1, AbortEffect DEF IInv, Sched!IInv, Sched!TypeOK
  <2>2. ASSUME NEW t \in batch
        PROVE  status'[t] \in Over \/ \E q \in todo \ {p} : q[2] = t
    BY <1>0, <2>1 DEF Over
  <2> QED
    BY <1>0, <1>2, <2>2 DEF Draining, ToCome, Over
<1> QED
  BY <1>1, <1>2 DEF FailFirst

(* The drained stay drained while the rest of shutdown runs.                *)
LEMMA DrainingStep ==
  ASSUME IInv, Draining, [Next]_vars
  PROVE  Draining'
<1>0. /\ closing \in Closings
      /\ Sched!IInv /\ Sched!TypeOK
      /\ \A t \in Tasks : /\ status[t] # "new" => status'[t] # "new"
                          /\ status[t] \in Over => status'[t] \in Over
  BY OverIsFinal DEF IInv, ServiceTypes, Sched!IInv
<1>1. ASSUME UNCHANGED closing PROVE Draining'
  <2>1. closing.at # "no" => closing.batch \in SUBSET Tasks
    BY <1>0 DEF Closings
  <2> QED
    BY <1>0, <1>1, <2>1 DEF Draining, ToCome, Over
<1>2. CASE Shutdown
  <2>1. /\ Queued \in SUBSET (Nat \X Tasks)
        /\ {p[2] : p \in Queued} \in SUBSET Tasks
    BY <1>0, QueuedTasks
  <2>2. ASSUME NEW t \in {p[2] : p \in Queued}
        PROVE  status[t] # "new" /\ \E p \in Queued : p[2] = t
    BY DEF Queued
  <2> QED
    BY <1>2, <2>1, <2>2, TurnDrains DEF Shutdown
<1>3. CASE Drain
  <2>1. /\ closing.todo \in SUBSET (Nat \X Tasks)
        /\ closing.batch \in SUBSET Tasks
        /\ closing.at = "drain"
    BY <1>0, <1>3 DEF Drain, Closings
  <2> QED
    BY <1>3, <2>1, TurnDrains DEF Drain, Draining, ToCome
<1>4. CASE ListAgents \/ RemoveAgent \/ Deregister \/ Deregistered
  <2>1. /\ closing.at \notin {"no", "drain"}
        /\ closing.batch \in SUBSET Tasks
    BY <1>0, <1>4 DEF ListAgents, RemoveAgent, Deregister, Deregistered, Closings
  <2>2. closing'.batch = closing.batch
    BY <1>0, <1>4 DEF ListAgents, RemoveAgent, Deregister, Deregistered, Closings
  <2>3. \A t \in closing.batch : status[t] # "new" /\ status[t] \in Over
    BY <2>1 DEF Draining, ToCome
  <2> QED
    BY <1>0, <2>1, <2>2, <2>3 DEF Draining, Over
<1>5. ASSUME NEW t \in Tasks, Submit(t) PROVE UNCHANGED closing
  BY <1>5 DEF Submit, callVars
<1>6. ASSUME NEW a \in Agents, AgentStep(a) \/ Crash(a) \/ Expire(a)
      PROVE  UNCHANGED closing
  BY <1>6 DEF AgentStep, Register, Registered, Beat, Dequeue, Report, Crash,
              Expire, callVars
<1>7. ASSUME NEW h \in Handlers, HandleFailedAgents(h) \/ HandlerStep(h)
      PROVE  UNCHANGED closing
  BY <1>7 DEF HandleFailedAgents, HandlerStep, CheckAgent, CheckDone,
              ListHealthy, NextFailed, MoveTask, callVars
<1>8. UNCHANGED vars => UNCHANGED closing
  BY DEF vars, callVars
<1> QED
  BY <1>1, <1>2, <1>3, <1>4, <1>5, <1>6, <1>7, <1>8 DEF Next, ShutdownStep

(* Once shutdown has gone through the list it took from getQueue, every     *)
(* task of it is over and stays over, whatever agents took and failure      *)
(* handlers moved while it was going through the list.                      *)
THEOREM ShutdownDrains == Spec => []DrainIsFinal
<1>1. Init => Draining
  BY DEF Init, Draining
<1>2. IInv /\ Draining /\ [Next]_vars => Draining'
  BY DrainingStep
<1>3. Draining => DrainIsFinal
  BY DEF Draining, DrainIsFinal, ToCome, Over
<1> QED
  BY <1>1, <1>2, <1>3, Inductive, PTL DEF Spec
=============================================================================
