------------------------------ MODULE TaskPool ------------------------------
(***************************************************************************)
(* What the task scheduler of the orchestration service promises to its    *)
(* callers, with no queue in it: a task belongs to one agent, an agent     *)
(* that asks is given one of its waiting tasks that no other waiting task  *)
(* of that agent precedes, and a task that was given out waits again only  *)
(* after it was moved to another agent or submitted again.                 *)
(***************************************************************************)
EXTENDS Integers, FiniteSets

CONSTANTS Tasks,       \* the task objects (one per task id)
          Agents,      \* the agent names
          Priorities,  \* the TaskPriority values in use, a subset of 0..3
          Scale,       \* the weight of one priority level in a score (1e12 ms)
          Threshold    \* STARVATION_THRESHOLD_MS, in clock ticks

VARIABLES now,        \* Date.now(), in ticks
          status,     \* task.status, "new" before the first submit
          agentName,  \* task.agentName
          priority,   \* task.priority
          createdAt,  \* task.createdAt
          held        \* the tasks an agent was given and has not reported yet

vars == <<now, status, agentName, priority, createdAt, held>>

-----------------------------------------------------------------------------
Score(p, c) == p * Scale + c

Live == {"queued", "running"}

(* A task of priority 2 or 3 that has waited longer than the threshold.     *)
Aged(t) == /\ priority[t] \in {2, 3}
           /\ now - createdAt[t] > Threshold

(* The rank of a waiting task now: ageing lifts a task by two levels.       *)
Rank(t) == IF Aged(t) THEN Score(priority[t] - 2, createdAt[t])
                      ELSE Score(priority[t], createdAt[t])

Waiting(a) == {t \in Tasks : status[t] = "queued" /\ agentName[t] = a}

Init == /\ now \in Nat
        /\ status = [t \in Tasks |-> "new"]
        /\ agentName \in [Tasks -> Agents]
        /\ priority \in [Tasks -> Priorities]
        /\ createdAt \in [Tasks -> Nat]
        /\ held = [a \in Agents |-> {}]

(* Time passes.                                                             *)
Age == /\ now' \in Nat
       /\ now' > now
       /\ UNCHANGED <<status, agentName, priority, createdAt, held>>

(* A task enters the pool, waiting for the agent it names.                  *)
Offer(t) == /\ status[t] = "new"
            /\ status' = [status EXCEPT ![t] = "queued"]
            /\ \E c \in 0..now : createdAt' = [createdAt EXCEPT ![t] = c]
            /\ UNCHANGED <<now, agentName, priority, held>>

(* A failed task waits again, as old as it was.                             *)
Retry(t) == /\ status[t] = "failed"
            /\ status' = [status EXCEPT ![t] = "queued"]
            /\ UNCHANGED <<now, agentName, priority, createdAt, held>>

(* An agent takes a waiting task of its own that none of its others precedes.*)
Take(a, t) == /\ t \in Waiting(a)
              /\ \A u \in Waiting(a) : Rank(t) <= Rank(u)
              /\ status' = [status EXCEPT ![t] = "running"]
              /\ held' = [held EXCEPT ![a] = @ \cup {t}]
              /\ UNCHANGED <<now, agentName, priority, createdAt>>

(* Whoever holds a task reports its outcome, however late.                  *)
Report(a, t) == /\ t \in held[a]
                /\ \E s \in {"completed", "failed"} :
                      status' = [status EXCEPT ![t] = s]
                /\ held' = [held EXCEPT ![a] = @ \ {t}]
                /\ UNCHANGED <<now, agentName, priority, createdAt>>

(* A task that was offered is given up.                                     *)
Abort(t) == /\ status[t] # "new"
            /\ status' = [status EXCEPT ![t] = "failed"]
            /\ UNCHANGED <<now, agentName, priority, createdAt, held>>

(* A live task of one agent is handed to another and waits again.           *)
Move(t, a) == /\ status[t] \in Live
              /\ status' = [status EXCEPT ![t] = "queued"]
              /\ agentName' = [agentName EXCEPT ![t] = a]
              /\ UNCHANGED <<now, priority, createdAt, held>>

Next == \/ Age
        \/ \E t \in Tasks : Offer(t) \/ Retry(t) \/ Abort(t)
        \/ \E a \in Agents, t \in Tasks :
              Take(a, t) \/ Report(a, t) \/ Move(t, a)

Spec == Init /\ [][Next]_vars
=============================================================================
