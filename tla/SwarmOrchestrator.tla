--------------------------- MODULE SwarmOrchestrator ---------------------------
(* core/orchestrator, which coordinates the agents where no assistant does:    *)
(* the queue of task-scheduler.ts and the read/write log that                  *)
(* dependency-discoverer.ts looks for data dependencies in.                    *)
EXTENDS Naturals, Sequences, FiniteSets, SequencesExt

CONSTANTS
    Tasks,         \* [id, priority, deadline]
    MaxConcurrent, \* maxConcurrentTasks
    Agents, Resources,
    MaxLog, KeepLog, \* a log longer than MaxLog is cut to its newest KeepLog
    MaxAccesses      \* bound on the accesses

VARIABLES
    queue, running,  \* waiting tasks in turn, and the tasks given out
    arrived,         \* all that was ever enqueued, in that order
    accessLog, dependencies,
    history,         \* the log as it would be if it were never cut
    looked           \* how long it was when discover was last called

queueVars == <<queue, running, arrived>>
logVars == <<accessLog, dependencies, history, looked>>
vars == <<queue, running, arrived, accessLog, dependencies, history, looked>>

SwarmAssumption ==
    /\ \A t, u \in Tasks : t.id = u.id => t = u
    /\ \A t \in Tasks : {t.priority, t.deadline} \subseteq Nat
    /\ MaxConcurrent \in Nat /\ KeepLog \in Nat /\ MaxLog \in Nat /\ KeepLog <= MaxLog

Accesses == [agent : Agents, resource : Resources, operation : {"read", "write"}, timestamp : Nat]

TypeOK ==
    /\ queue \in Seq(Tasks) /\ running \subseteq Tasks /\ arrived \in Seq(Tasks)
    /\ accessLog \in Seq(Accesses) /\ history \in Seq(Accesses)
    /\ Len(accessLog) <= MaxLog /\ looked \in 0 .. Len(history)
    /\ dependencies \subseteq [sourceAgent : Agents, targetAgent : Agents, resource : Resources]

Init ==
    /\ queue = <<>> /\ running = {} /\ arrived = <<>>
    /\ accessLog = <<>> /\ dependencies = {} /\ history = <<>> /\ looked = 0

--------------------------------------------------------------------------------
\* A task of a lower number goes first, of equals the one that is due first (a task
\* without a deadline last).
Before(t, u) == t.priority < u.priority \/ (t.priority = u.priority /\ t.deadline < u.deadline)

\* The queue is in turn before it is pushed and sorted; the sort is stable.
Enqueue(t) ==
    /\ t \notin Range(arrived)
    /\ LET ahead == CHOOSE n \in 0 .. Len(queue) : \A i \in DOMAIN queue : i <= n <=> ~Before(t, queue[i]) IN
       queue' = InsertAt(queue, ahead + 1, t)
    /\ arrived' = Append(arrived, t)
    /\ UNCHANGED <<running, logVars>>

Dequeue ==
    /\ Cardinality(running) < MaxConcurrent /\ queue # <<>>
    /\ running' = running \cup {Head(queue)}
    /\ queue' = Tail(queue)
    /\ UNCHANGED <<arrived, logVars>>

Complete(t) ==
    /\ t \in running
    /\ running' = running \ {t}
    /\ UNCHANGED <<queue, arrived, logVars>>

Cut(log) == IF Len(log) > MaxLog THEN SubSeq(log, Len(log) - KeepLog + 1, Len(log)) ELSE log

\* The clock stands still or goes on between two accesses.
RecordAccess(agent, resource, operation, passed) ==
    /\ Len(history) < MaxAccesses
    /\ LET last == IF history = <<>> THEN 0 ELSE Last(history).timestamp
           entry == [agent |-> agent, resource |-> resource, operation |-> operation, timestamp |-> last + passed] IN
       /\ accessLog' = Cut(Append(accessLog, entry))
       /\ history' = Append(history, entry)
    /\ UNCHANGED <<dependencies, looked, queueVars>>

\* Who reads what another one wrote, by the timestamps of a log.
Pairs(log) ==
    LET follows(w, r) == /\ w.operation = "write" /\ r.operation = "read"
                         /\ w.resource = r.resource /\ w.agent # r.agent
                         /\ r.timestamp >= w.timestamp IN
    {[sourceAgent |-> p[1].agent, targetAgent |-> p[2].agent, resource |-> p[1].resource] :
       p \in {q \in Range(log) \X Range(log) : follows(q[1], q[2])}}

Discover ==
    /\ dependencies' = dependencies \cup Pairs(accessLog)
    /\ looked' = Len(history)
    /\ UNCHANGED <<accessLog, history, queueVars>>

QueueNext == (\E t \in Tasks : Enqueue(t) \/ Complete(t)) \/ Dequeue
LogNext ==
    \/ \E a \in Agents, f \in Resources, o \in {"read", "write"}, n \in {0, 1} : RecordAccess(a, f, o, n)
    \/ Discover
Next == QueueNext \/ LogNext

Spec == Init /\ [][Next]_vars

--------------------------------------------------------------------------------
Arrival(t) == CHOOSE i \in DOMAIN arrived : arrived[i] = t

\* Of two waiting tasks the one ahead is the more urgent or, of equals, the one
\* that came first; no more run than may, and none of them waits as well.
WaitsInTurn ==
    /\ \A i, j \in DOMAIN queue : i < j =>
         \/ Before(queue[i], queue[j])
         \/ ~Before(queue[j], queue[i]) /\ Arrival(queue[i]) < Arrival(queue[j])
    /\ Cardinality(running) <= MaxConcurrent /\ running \cap Range(queue) = {}

\* A dependency is reported only where an agent read, in the same millisecond or
\* after it, what another one wrote; and discover finds every one among the newest
\* KeepLog accesses, however often the log was cut.
DiscoversExactly ==
    /\ dependencies \subseteq Pairs(history)
    /\ \A i \in 1 .. looked : looked - i < KeepLog => Pairs(SubSeq(history, i, looked)) \subseteq dependencies
================================================================================
