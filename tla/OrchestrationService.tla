------------------------ MODULE OrchestrationService ------------------------
(***************************************************************************)
(* agents/dw-orchestration/src/orchestration-service.ts: the scheduler,    *)
(* the heartbeat monitor and the registry under handleFailedAgents and     *)
(* shutdown, with the agents that beat, take tasks, report them, run late  *)
(* or crash.  Both handlers act on lists they read before their awaits.    *)
(***************************************************************************)
EXTENDS Integers, FiniteSets, SequencesExt

CONSTANTS Agents,      \* the agent names
          Tasks,       \* the task objects (one per task id)
          Handlers,    \* identities for concurrent handleFailedAgents calls
          Closer,      \* the registry call of shutdown
          Priorities, Scale, Threshold,   \* as in TaskScheduler
          MaxQueue,    \* bound on the queue a push may start from
          MaxRows,     \* bound on the registry table
          MaxCrashes,  \* bound on the agents that crash
          MaxLate,     \* bound on the TTLs a living agent misses
          MayClose,    \* whether shutdown may be called
          Absent, Idle

VARIABLES now, status, agentName, priority, createdAt, tasks, queue, kv, redist,
          held,                                            \* TaskScheduler
          knownAgents, fresh, checks,                      \* HeartbeatMonitor
          rows, pending,                                   \* AgentRegistry
          running,  \* the running flag
          job,      \* the handleFailedAgents calls in progress
          closing,  \* where the shutdown call is
          up,       \* the agents that have not crashed
          late      \* how many TTLs living agents have missed

schedVars == <<now, status, agentName, priority, createdAt, tasks, queue, kv,
               redist, held>>
hbVars == <<knownAgents, fresh, checks>>
regVars == <<rows, pending>>
callVars == <<running, job, closing>>
envVars == <<up, late>>
vars == <<schedVars, hbVars, regVars, callVars, envVars>>

Sched == INSTANCE TaskScheduler WITH Calls <- Handlers, MaxNow <- 0
HB == INSTANCE HeartbeatMonitor WITH Calls <- Handlers
Reg == INSTANCE AgentRegistry WITH Ops <- Agents \cup {Closer}, Tenants <- {},
                                   ListedOnly <- TRUE

ASSUME ServiceAssumption == /\ MayClose \in BOOLEAN
                            /\ MaxCrashes \in Nat
                            /\ MaxLate \in Nat
                            /\ Closer \notin Agents
                            /\ Sched!SchedulerAssumption
                            /\ Reg!RegistryAssumption

Init == /\ Sched!Init
        /\ HB!Init
        /\ Reg!Init
        /\ running = TRUE
        /\ job = [h \in Handlers |-> Idle]
        /\ closing = [at |-> "no"]
        /\ up = Agents
        /\ late = 0

-----------------------------------------------------------------------------
(* What the service's callers do.                                           *)

(* scheduler.submit: nothing in it looks at the running flag.               *)
Submit(t) == /\ Sched!Submit(t, 0)
             /\ UNCHANGED <<hbVars, regVars, callVars, envVars>>

(* An agent joins: it registers, once.                                      *)
Register(a) == /\ a \in up
               /\ Reg!GetByName(a) = Absent
               /\ Reg!Register(a, a)
               /\ UNCHANGED <<schedVars, hbVars, callVars, envVars>>

Registered(a) == /\ Reg!Insert(a)
                 /\ UNCHANGED <<schedVars, hbVars, callVars, envVars>>

Beat(a) == /\ a \in up
           /\ HB!Beat(a)
           /\ UNCHANGED <<schedVars, regVars, callVars, envVars>>

Dequeue(a) == /\ a \in up
              /\ Sched!Dequeue(a)
              /\ UNCHANGED <<hbVars, regVars, callVars, envVars>>

Report(a, t) == /\ a \in up
                /\ Sched!Report(a, t)
                /\ UNCHANGED <<hbVars, regVars, callVars, envVars>>

Crash(a) == /\ a \in up
            /\ Cardinality(Agents \ up) < MaxCrashes
            /\ up' = up \ {a}
            /\ UNCHANGED <<schedVars, hbVars, regVars, callVars, late>>

(* A TTL passes without a beat: always for a crashed agent, at times for    *)
(* one that is slow.                                                        *)
Expire(a) == /\ HB!Expire(a)
             /\ \/ a \notin up /\ UNCHANGED late
                \/ a \in up /\ late < MaxLate /\ late' = late + 1
             /\ UNCHANGED <<schedVars, regVars, callVars, up>>

-----------------------------------------------------------------------------
(* handleFailedAgents.                                                      *)

HandleFailedAgents(h) ==
  /\ job[h] = Idle
  /\ HB!CheckHealth(h)
  /\ job' = [job EXCEPT ![h] = [at |-> "check"]]
  /\ UNCHANGED <<schedVars, regVars, running, closing, envVars>>

CheckAgent(h, a) ==
  /\ HB!CheckAgent(h, a)
  /\ UNCHANGED <<schedVars, regVars, callVars, envVars>>

CheckDone(h) ==
  /\ HB!CheckDone(h)
  /\ job' = [job EXCEPT ![h] =
               IF checks[h].failed = {} THEN Idle
               ELSE [at |-> "list", failed |-> checks[h].failed]]
  /\ UNCHANGED <<schedVars, regVars, running, closing, envVars>>

(* Mutant: a failed agent may be chosen as the target.                      *)
HealthyOrFailed(failed) == {a \in Agents : /\ Reg!Listed(a)
                                           /\ Reg!LastRow(a).status = "active"}

(* The active agents of list() that the check did not find dead.            *)
Healthy(failed) == {a \in Agents : /\ Reg!Listed(a)
                                   /\ Reg!LastRow(a).status = "active"
                                   /\ a \notin failed}

(* list() shows the agents in the order of their first rows.                *)
Before(a, b) == \E i \in DOMAIN rows : /\ rows[i].name = a
                                       /\ \A j \in 1..i : rows[j].name # b

(* healthyAgents[0] is the target for every failed agent.                   *)
ListHealthy(h) ==
  /\ job[h] # Idle
  /\ job[h].at = "list"
  /\ \/ /\ Healthy(job[h].failed) = {}
        /\ job' = [job EXCEPT ![h] = Idle]
     \/ \E a \in Healthy(job[h].failed) :
           /\ \A b \in Healthy(job[h].failed) \ {a} : Before(a, b)
           /\ job' = [job EXCEPT ![h] =
                        [at |-> "move", todo |-> job[h].failed,
                         target |-> a]]
  /\ UNCHANGED <<schedVars, hbVars, regVars, running, closing, envVars>>

(* The loop turns to the next failed agent, or ends.                        *)
NextFailed(h) ==
  /\ job[h] # Idle
  /\ job[h].at = "move"
  /\ redist[h] = Idle
  /\ \/ \E f \in job[h].todo :
           /\ Sched!RedistributeTasks(h, f, job[h].target)
           /\ job' = [job EXCEPT ![h].todo = @ \ {f}]
     \/ /\ job[h].todo = {}
        /\ job' = [job EXCEPT ![h] = Idle]
        /\ UNCHANGED schedVars
  /\ UNCHANGED <<hbVars, regVars, running, closing, envVars>>

MoveTask(h) == /\ Sched!ResumeRedistribute(h)
               /\ UNCHANGED <<hbVars, regVars, callVars, envVars>>

-----------------------------------------------------------------------------
(* shutdown.                                                                *)

(* The entries getQueue() finds waiting, each with its place in the list.   *)
Queued == {<<i, queue[i].task>> : i \in {j \in DOMAIN queue :
                                            status[queue[j].task] = "queued"}}

IsFirst(p, todo) == p \in todo /\ \A q \in todo : p[1] <= q[1]

(* Mutant: a task that no longer waits is passed over.                      *)
FailFirstWaiting(todo, batch) ==
  \/ /\ todo = {}
     /\ closing' = [at |-> "list", batch |-> batch]
     /\ UNCHANGED schedVars
  \/ \E p \in todo :
        /\ IsFirst(p, todo)
        /\ closing' = [at |-> "drain", batch |-> batch, todo |-> todo \ {p}]
        /\ \/ status[p[2]] = "queued" /\ Sched!Abort(p[2])
           \/ status[p[2]] # "queued" /\ UNCHANGED schedVars

(* fail() the first task of the list that getQueue() returned, whatever it  *)
(* is doing by now, and await.  batch remembers the whole list.             *)
FailFirst(todo, batch) ==
  \/ /\ todo = {}
     /\ closing' = [at |-> "list", batch |-> batch]
     /\ UNCHANGED schedVars
  \/ \E p \in todo :
        /\ IsFirst(p, todo)
        /\ closing' = [at |-> "drain", batch |-> batch, todo |-> todo \ {p}]
        /\ Sched!Abort(p[2])

Shutdown == /\ MayClose
            /\ closing.at = "no"
            /\ running' = FALSE
            /\ FailFirst(Queued, {p[2] : p \in Queued})
            /\ UNCHANGED <<hbVars, regVars, job, envVars>>

Drain == /\ closing.at = "drain"
         /\ FailFirst(closing.todo, closing.batch)
         /\ UNCHANGED <<hbVars, regVars, running, job, envVars>>

ListAgents ==
  /\ closing.at = "list"
  /\ closing' = [at |-> "remove", batch |-> closing.batch,
                 left |-> {a \in Agents : Reg!Listed(a)}]
  /\ UNCHANGED <<schedVars, hbVars, regVars, running, job, envVars>>

(* The next agent of the list leaves the monitor, or the call returns.      *)
RemoveAgent ==
  /\ closing.at = "remove"
  /\ \/ \E a \in closing.left :
           /\ HB!RemoveAgent(a)
           /\ closing' = [at |-> "deregister", batch |-> closing.batch,
                          left |-> closing.left \ {a}, agent |-> a]
     \/ /\ closing.left = {}
        /\ closing' = [at |-> "stopped", batch |-> closing.batch]
        /\ UNCHANGED hbVars
  /\ UNCHANGED <<schedVars, regVars, running, job, envVars>>

(* registry.deregister: read, await, insert.                                *)
Deregister ==
  /\ closing.at = "deregister"
  /\ Reg!Deregister(Closer, closing.agent)
  /\ closing' = [closing EXCEPT !.at = "insert"]
  /\ UNCHANGED <<schedVars, hbVars, running, job, envVars>>

Deregistered ==
  /\ closing.at = "insert"
  /\ Reg!Insert(Closer)
  /\ closing' = [at |-> "remove", batch |-> closing.batch,
                 left |-> closing.left]
  /\ UNCHANGED <<schedVars, hbVars, running, job, envVars>>

-----------------------------------------------------------------------------
AgentStep(a) == \/ Register(a)
                \/ Registered(a)
                \/ Beat(a)
                \/ Dequeue(a)
                \/ \E t \in held[a] : Report(a, t)

HandlerStep(h) == \/ \E a \in Agents : CheckAgent(h, a)
                  \/ CheckDone(h)
                  \/ ListHealthy(h)
                  \/ NextFailed(h)
                  \/ MoveTask(h)

ShutdownStep == Drain \/ ListAgents \/ RemoveAgent \/ Deregister \/ Deregistered

Next == \/ \E t \in Tasks : Submit(t)
        \/ \E a \in Agents : AgentStep(a) \/ Crash(a) \/ Expire(a)
        \/ \E h \in Handlers : HandleFailedAgents(h) \/ HandlerStep(h)
        \/ Shutdown
        \/ ShutdownStep

Spec == Init /\ [][Next]_vars

(* Living agents beat, poll and report; a dead agent's key expires; the     *)
(* failure check is run again and again and its awaits resume.              *)
Fairness ==
  /\ \A a \in Agents : /\ WF_vars(Registered(a))
                       /\ WF_vars(Beat(a))
                       /\ WF_vars(Dequeue(a))
                       /\ WF_vars(a \notin up /\ Expire(a))
                       /\ \A t \in Tasks : WF_vars(t \in held[a] /\ Report(a, t))
  /\ \A h \in Handlers : WF_vars(HandleFailedAgents(h)) /\ WF_vars(HandlerStep(h))
  /\ WF_vars(ShutdownStep)

FairSpec == Spec /\ Fairness

-----------------------------------------------------------------------------
(* Where a handleFailedAgents call and the shutdown call can be.            *)
Jobs == {Idle} \cup [at : {"check"}]
               \cup [at : {"list"}, failed : SUBSET Agents]
               \cup [at : {"move"}, todo : SUBSET Agents, target : Agents]

Closings ==
  [at : {"no"}]
    \cup [at : {"drain"}, batch : SUBSET Tasks, todo : SUBSET (Nat \X Tasks)]
    \cup [at : {"list", "stopped"}, batch : SUBSET Tasks]
    \cup [at : {"remove"}, batch : SUBSET Tasks, left : SUBSET Agents]
    \cup [at : {"deregister", "insert"}, batch : SUBSET Tasks,
          left : SUBSET Agents, agent : Agents]

TypeOK ==
  /\ Sched!TypeOK
  /\ HB!TypeOK
  /\ Reg!TypeOK
  /\ running \in BOOLEAN
  /\ job \in [Handlers -> Jobs]
  /\ closing \in Closings
  /\ up \subseteq Agents
  /\ late \in 0..MaxLate

(* The service drives its scheduler only as the scheduler module says: what *)
(* is proved of the scheduler holds inside the service, with handlers,      *)
(* shutdown and crashes around it.                                          *)
UsesScheduler == [][Sched!Next]_schedVars

(* Two living agents work on one task only if a living agent missed a TTL:  *)
(* as long as the living beat in time, taking tasks from silent agents      *)
(* never starts a task twice, however stale the lists of the handlers are.  *)
NoDoubleRun ==
  late = 0 => \A t \in Tasks :
     \A a, b \in up : t \in held[a] /\ t \in held[b] => a = b

(* A redistribution leaves no live task of the failed agent behind it in    *)
(* the Map, although tasks are submitted, taken and reported meanwhile.     *)
SweepComplete ==
  \A h \in Handlers : redist[h] # Idle =>
     \A i \in DOMAIN tasks : i < redist[h].pos =>
        ~ /\ agentName[tasks[i]] = redist[h].from
          /\ status[tasks[i]] \in {"queued", "running"}

(* Once shutdown has gone through the list it took from getQueue, every     *)
(* task of that list is over and stays over, whatever agents took and       *)
(* failure handlers moved in between.                                       *)
DrainIsFinal ==
  closing.at \notin {"no", "drain"} =>
     \A t \in closing.batch : status[t] \in {"completed", "failed"}

(* Unless the service is shut down, every task that waits is eventually     *)
(* reported, although its agent and the agents it is moved to may crash:    *)
(* the last agent alive gets it in the end.                                 *)
EveryTaskEnds ==
  \A t \in Tasks : status[t] = "queued" ~>
                      status[t] \in {"completed", "failed"} \/ ~ running

(* A failure check returns, although the Map and the Set it walks over grow *)
(* while it is suspended.                                                   *)
ChecksReturn == \A h \in Handlers : job[h] # Idle ~> job[h] = Idle

(* "Drain remaining queued tasks (mark as failed)": a task shutdown fails   *)
(* was still waiting.                                                       *)
DrainsOnlyWaiting ==
  [][closing.at = "drain" /\ closing' # closing =>
        \A p \in closing.todo : IsFirst(p, closing.todo) =>
           status[p[2]] \in {"queued", "completed", "failed"}]_vars
=============================================================================
