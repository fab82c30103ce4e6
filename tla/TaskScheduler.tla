--------------------------- MODULE TaskScheduler ---------------------------
(***************************************************************************)
(* agents/dw-orchestration/src/task-scheduler.ts: one TaskScheduler object *)
(* and the agents that call it.                                            *)
(*                                                                         *)
(* JavaScript runs one callback at a time and gives control away only at   *)
(* an await.  The in-memory key-value store writes before its promise is   *)
(* returned, so submit, dequeue, complete and fail are one step each; the  *)
(* loop of redistributeTasks awaits after every task it moves, so it is    *)
(* one step per moved task, and every other call may run in between.       *)
(***************************************************************************)
EXTENDS Integers, FiniteSets, SequencesExt

CONSTANTS Tasks,       \* the task objects (one per task id)
          Agents,      \* the agent names
          Calls,       \* identities for concurrent redistributeTasks calls
          Priorities,  \* the TaskPriority values in use, a subset of 0..3
          Scale,       \* the weight of one priority level in a score (1e12 ms)
          Threshold,   \* STARVATION_THRESHOLD_MS, in clock ticks
          MaxNow,      \* bound on the clock
          MaxQueue,    \* bound on the queue a new push may start from
          Idle         \* the state of a call identity that is not in use

Call == [from : Agents, to : Agents, pos : Nat]

ASSUME SchedulerAssumption ==
  /\ Priorities \subseteq 0..3
  /\ Scale \in Nat
  /\ Threshold \in Nat
  /\ MaxNow \in Nat
  /\ MaxQueue \in Nat
  /\ Idle \notin Call

VARIABLES now,        \* Date.now(), in ticks
          status,     \* task.status, "new" before the first submit
          agentName,  \* task.agentName
          priority,   \* task.priority
          createdAt,  \* task.createdAt
          tasks,      \* the keys of the tasks Map, in insertion order
          queue,      \* the QueueEntry array; an entry refers to its task
          kv,         \* the record last written under task:<id>
          redist,     \* the redistributeTasks calls suspended at their await
          held        \* the tasks an agent was given and has not reported yet

fields == <<status, agentName, priority, createdAt>>
vars == <<now, fields, tasks, queue, kv, redist, held>>

Statuses == {"queued", "running", "completed", "failed"}
Live == {"queued", "running"}
Known == ToSet(tasks)
Entry == [task : Tasks, score : Nat]

-----------------------------------------------------------------------------
(* calculateScore *)
Score(p, c) == p * Scale + c

NewEntry(t) == [task |-> t, score |-> Score(priority[t], createdAt[t])]

(* Array.sort by score.  It is stable: entries of equal score keep their    *)
(* order.  Place(i) is where the i-th entry goes.                           *)
Precedes(s, i, j) == \/ s[i].score < s[j].score
                     \/ s[i].score = s[j].score /\ i < j

Place(s, i) == Cardinality({j \in DOMAIN s : Precedes(s, j, i)}) + 1

(* Mutant: the queue is left in the order of the pushes.                    *)
Unsorted(s) == s

Sorted(s) == [k \in DOMAIN s |-> s[CHOOSE i \in DOMAIN s : Place(s, i) = k]]

(* Mutant: the record is written with the status before the step.           *)
PersistEarly(t) ==
  kv' = [kv EXCEPT ![t] = [status |-> status[t], agent |-> agentName'[t]]]

(* kvStore.set: the fields of the task as they are after the step.          *)
Persist(t) ==
  kv' = [kv EXCEPT ![t] = [status |-> status'[t], agent |-> agentName'[t]]]

(* Mutant: every old task is lifted, whatever its priority.                 *)
AgedAny(t) == now - createdAt[t] > Threshold

Aged(t) == /\ priority[t] \in {2, 3}
           /\ now - createdAt[t] > Threshold

(* Mutant: a boost is taken off the score of the entry, again and again.    *)
BoostedAgain(q) ==
  [i \in DOMAIN q |-> IF status[q[i].task] = "queued" /\ Aged(q[i].task)
                      THEN [q[i] EXCEPT !.score = @ - 2 * Scale] ELSE q[i]]

(* The starvation loop of dequeue: P3 is rescored as P1 and P2 as P0.       *)
Boosted(q) ==
  [i \in DOMAIN q |->
     IF status[q[i].task] = "queued" /\ Aged(q[i].task)
     THEN [q[i] EXCEPT !.score =
             Score(priority[q[i].task] - 2, createdAt[q[i].task])]
     ELSE q[i]]

-----------------------------------------------------------------------------
Init == /\ now = 0
        /\ status = [t \in Tasks |-> "new"]
        /\ agentName \in [Tasks -> Agents]
        /\ priority \in [Tasks -> Priorities]
        /\ createdAt = [t \in Tasks |-> 0]
        /\ tasks = <<>>
        /\ queue = <<>>
        /\ kv = [t \in Tasks |-> [status |-> "new", agent |-> agentName[t]]]
        /\ redist = [c \in Calls |-> Idle]
        /\ held = [a \in Agents |-> {}]

Tick == /\ now < MaxNow
        /\ now' = now + 1
        /\ UNCHANGED <<fields, tasks, queue, kv, redist, held>>

(* submit(task) of a task object the map does not hold yet.  The caller     *)
(* fills in createdAt, which may lie in the past.                           *)
Submit(t, c) ==
  /\ Len(queue) < MaxQueue
  /\ t \notin Known
  /\ status' = [status EXCEPT ![t] = "queued"]
  /\ createdAt' = [createdAt EXCEPT ![t] = c]
  /\ tasks' = Append(tasks, t)
  /\ queue' = Sorted(Append(queue,
                            [task |-> t, score |-> Score(priority[t], c)]))
  /\ UNCHANGED <<now, agentName, priority, redist, held>>
  /\ Persist(t)

(* Mutant: a retry of a task the Map still holds pushes no entry.           *)
ResubmitUnqueued(t) ==
  /\ t \in Known
  /\ status[t] = "failed"
  /\ status' = [status EXCEPT ![t] = "queued"]
  /\ UNCHANGED <<now, agentName, priority, createdAt, tasks, queue, redist, held>>
  /\ Persist(t)

(* submit(task) by a caller that retries a failed task: the Map keeps the   *)
(* key where it was.                                                        *)
Resubmit(t) ==
  /\ Len(queue) < MaxQueue
  /\ t \in Known
  /\ status[t] = "failed"
  /\ status' = [status EXCEPT ![t] = "queued"]
  /\ queue' = Sorted(Append(queue, NewEntry(t)))
  /\ UNCHANGED <<now, agentName, priority, createdAt, tasks, redist, held>>
  /\ Persist(t)

(* Mutant: dequeue does not look at the agent of the task.                  *)
EligibleAny(q, a) == {i \in DOMAIN q : status[q[i].task] = "queued"}

(* The entries dequeue(a) may return.                                       *)
Eligible(q, a) == {i \in DOMAIN q : /\ status[q[i].task] = "queued"
                                    /\ agentName[q[i].task] = a}

(* dequeue(a): even when it finds nothing the queue is rescored and sorted. *)
Dequeue(a) ==
  LET q == Sorted(Boosted(queue)) IN
  \/ /\ Eligible(q, a) = {}
     /\ queue' = q
     /\ UNCHANGED <<now, fields, tasks, kv, redist, held>>
  \/ \E i \in Eligible(q, a) :
        /\ \A j \in Eligible(q, a) : i <= j
        /\ queue' = RemoveAt(q, i)
        /\ status' = [status EXCEPT ![q[i].task] = "running"]
        /\ held' = [held EXCEPT ![a] = @ \cup {q[i].task}]
        /\ UNCHANGED <<now, agentName, priority, createdAt, tasks, redist>>
        /\ Persist(q[i].task)

(* complete(id) and fail(id): no look at the status or at who is calling.   *)
SetOutcome(t, s) ==
  /\ t \in Known
  /\ status' = [status EXCEPT ![t] = s]
  /\ UNCHANGED <<now, agentName, priority, createdAt, tasks, queue, redist>>
  /\ Persist(t)

Complete(t) == SetOutcome(t, "completed")

Fail(t) == SetOutcome(t, "failed")

(* An agent reports a task it was given, perhaps long after losing it.      *)
Report(a, t) ==
  /\ t \in held[a]
  /\ held' = [held EXCEPT ![a] = @ \ {t}]
  /\ Complete(t) \/ Fail(t)

(* The service gives up a task, whoever holds it.                           *)
Abort(t) == Fail(t) /\ UNCHANGED held

(* Mutant: the loop passes over the entry it resumes at.                    *)
ToMoveAfter(from, pos) == {i \in DOMAIN tasks : /\ i > pos
                                                /\ agentName[tasks[i]] = from
                                                /\ status[tasks[i]] \in Live}

(* Mutant: running tasks stay with the failed agent.                        *)
ToMoveWaiting(from, pos) == {i \in DOMAIN tasks : /\ i >= pos
                                                  /\ agentName[tasks[i]] = from
                                                  /\ status[tasks[i]] = "queued"}

(* The tasks the loop still has to move from Map position pos on.           *)
ToMove(from, pos) == {i \in DOMAIN tasks : /\ i >= pos
                                           /\ agentName[tasks[i]] = from
                                           /\ status[tasks[i]] \in Live}

(* One stretch of the loop of redistributeTasks, from Map position pos to   *)
(* the next await (a task was moved) or to the end (the final sort).        *)
MoveNext(c, from, to, pos) ==
  \/ \E i \in ToMove(from, pos) :
        /\ \A j \in ToMove(from, pos) : i <= j
        /\ agentName' = [agentName EXCEPT ![tasks[i]] = to]
        /\ status' = [status EXCEPT ![tasks[i]] = "queued"]
        /\ queue' = Append(queue, NewEntry(tasks[i]))
        /\ redist' = [redist EXCEPT ![c] =
                        [from |-> from, to |-> to, pos |-> i + 1]]
        /\ UNCHANGED <<now, priority, createdAt, tasks, held>>
        /\ Persist(tasks[i])
  \/ /\ ToMove(from, pos) = {}
     /\ queue' = Sorted(queue)
     /\ redist' = [redist EXCEPT ![c] = Idle]
     /\ UNCHANGED <<now, fields, tasks, kv, held>>

RedistributeTasks(c, from, to) ==
  /\ redist[c] = Idle
  /\ Len(queue) + Len(tasks) <= MaxQueue
  /\ MoveNext(c, from, to, 1)

ResumeRedistribute(c) ==
  /\ redist[c] # Idle
  /\ MoveNext(c, redist[c].from, redist[c].to, redist[c].pos)

Next ==
  \/ Tick
  \/ \E t \in Tasks, c \in 0..now : Submit(t, c)
  \/ \E t \in Tasks : Resubmit(t) \/ Abort(t)
  \/ \E a \in Agents : Dequeue(a)
  \/ \E a \in Agents : \E t \in held[a] : Report(a, t)
  \/ \E c \in Calls, from, to \in Agents :
        from # to /\ RedistributeTasks(c, from, to)
  \/ \E c \in Calls : ResumeRedistribute(c)

Spec == Init /\ [][Next]_vars

-----------------------------------------------------------------------------
TypeOK ==
  /\ now \in Nat
  /\ status \in [Tasks -> Statuses \cup {"new"}]
  /\ agentName \in [Tasks -> Agents]
  /\ priority \in [Tasks -> Priorities]
  /\ createdAt \in [Tasks -> Nat]
  /\ tasks \in Seq(Tasks)
  /\ queue \in Seq(Entry)
  /\ kv \in [Tasks -> [status : Statuses \cup {"new"}, agent : Agents]]
  /\ redist \in [Calls -> Call \cup {Idle}]
  /\ held \in [Agents -> SUBSET Tasks]

(* No task is lost: a task whose status is queued has an entry that dequeue *)
(* can find, through duplicates, boosts, retries and half-done              *)
(* redistributions.                                                         *)
QueuedHasEntry ==
  \A t \in Tasks : status[t] = "queued" =>
     \E e \in ToSet(queue) : e.task = t

(* A running task is in the hands of the agent it names: the report that    *)
(* will end it can still come, whatever was moved meanwhile.                *)
RunningIsHeld ==
  \A t \in Tasks : status[t] = "running" => t \in held[agentName[t]]

(* What the key-value store holds for a task is what memory holds, so a     *)
(* reader of the store never sees a task at an agent it has left.           *)
PersistedAgrees ==
  \A t \in Tasks : t \in Known =>
     kv[t] = [status |-> status[t], agent |-> agentName[t]]

(* The rescored entries: an entry carries the score of its task or, once    *)
(* the task has aged, the boosted one.                                      *)
ScoresOK ==
  \A e \in ToSet(queue) :
     \/ e.score = Score(priority[e.task], createdAt[e.task])
     \/ /\ Aged(e.task)
        /\ e.score = Score(priority[e.task] - 2, createdAt[e.task])

(* Only tasks the Map holds are waiting, running, in the queue or with an   *)
(* agent.                                                                   *)
OnlyKnown ==
  /\ \A t \in Tasks : status[t] = "new" <=> t \notin Known
  /\ \A e \in ToSet(queue) : e.task \in Known
  /\ \A a \in Agents : held[a] \subseteq Known

(* The inductive invariant behind the theorems about the scheduler.         *)
IInv == /\ TypeOK
        /\ OnlyKnown
        /\ QueuedHasEntry
        /\ RunningIsHeld
        /\ PersistedAgrees
        /\ ScoresOK

(* The scheduler implements the pool: neither duplicate entries, nor stale  *)
(* ones, nor an unsorted queue in the middle of a redistribution, ever give *)
(* a task out twice or out of turn.                                         *)
Pool == INSTANCE TaskPool
ImplementsPool == Pool!Spec
=============================================================================
