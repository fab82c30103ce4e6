---------------------------- MODULE AgentLifecycle ----------------------------
(***************************************************************************)
(* core/agent-lifecycle/src/state-machine.ts: the table of transitions,    *)
(* the confidence gate in front of EXECUTING, the count of retries, and    *)
(* suspend and resume.  Bootstrap raises the gate until it expires.        *)
(***************************************************************************)
EXTENDS Naturals, Sequences

CONSTANTS MaxAttempts,     \* config.retry.maxAttempts
          Proceed,         \* config.confidence.proceedThreshold, in percent
          Elevation,       \* config.bootstrap.confidenceElevation
          Confidences,     \* the confidences a caller may pass
          MaxRefused       \* bound on the retries refused in a row

(* What the constants must satisfy.                                         *)
LifecycleAssumption == /\ MaxAttempts \in Nat
                       /\ MaxRefused \in Nat
                       /\ Proceed \in Nat /\ Elevation \in Nat
                       /\ Confidences \subseteq Nat

VARIABLES state,
          retryCount,
          bootstrap,   \* whether bootstrap has not expired
          retries,     \* FAILED -> QUEUED steps since the last IDLE or COMPLETED
          approved,    \* whether the plan at hand passed the gate
          resumed      \* whether the agent was resumed since it began to plan

vars == <<state, retryCount, bootstrap, retries, approved, resumed>>

AgentState == {"IDLE", "QUEUED", "PLANNING", "EXECUTING", "VALIDATING",
               "COMPLETED", "FAILED", "ESCALATED", "SUSPENDED"}

(* VALID_TRANSITIONS.                                                       *)
ValidTargets ==
  [IDLE       |-> {"QUEUED"},
   QUEUED     |-> {"PLANNING"},
   PLANNING   |-> {"EXECUTING", "FAILED", "ESCALATED", "SUSPENDED"},
   EXECUTING  |-> {"VALIDATING", "FAILED", "ESCALATED", "SUSPENDED"},
   VALIDATING |-> {"COMPLETED", "FAILED", "ESCALATED", "EXECUTING"},
   COMPLETED  |-> {"IDLE"},
   FAILED     |-> {"IDLE", "QUEUED"},
   ESCALATED  |-> {"IDLE"},
   SUSPENDED  |-> {"PLANNING", "EXECUTING", "VALIDATING", "ESCALATED", "IDLE"}]

-----------------------------------------------------------------------------
Init == /\ state = "IDLE"
        /\ retryCount = 0
        /\ bootstrap \in BOOLEAN
        /\ retries = 0
        /\ approved = FALSE
        /\ resumed = FALSE

(* getEffectiveProceedThreshold, capped at 100 percent.                     *)
Threshold == LET t == Proceed + (IF bootstrap THEN Elevation ELSE 0)
             IN IF t > 100 THEN 100 ELSE t

IsRetry(to) == state = "FAILED" /\ to = "QUEUED"

(* Mutant: the gate asks for the threshold without bootstrap.               *)
PassesLow(to, confidence) == state = "PLANNING" /\ to = "EXECUTING" => confidence >= Proceed

(* The confidence gate.                                                     *)
Passes(to, confidence) == state = "PLANNING" /\ to = "EXECUTING" => confidence >= Threshold

(* Mutant: the count starts again with every attempt that is queued.        *)
CountedQueued(to) == IF to \in {"COMPLETED", "IDLE", "PLANNING"} THEN 0
                     ELSE IF IsRetry(to) THEN retryCount + 1 ELSE retryCount

(* retryCount after a transition that does not throw.                       *)
Counted(to) == IF to \in {"COMPLETED", "IDLE"} THEN 0
               ELSE IF IsRetry(to) THEN retryCount + 1 ELSE retryCount

(* transition(to, reason, confidence).                                      *)
Transition(to, confidence) ==
  /\ to \in ValidTargets[state]
  /\ Passes(to, confidence)
  /\ IsRetry(to) => retryCount < MaxAttempts
  /\ state' = to
  /\ retryCount' = Counted(to)
  /\ retries' = IF to \in {"COMPLETED", "IDLE"} THEN 0 ELSE IF IsRetry(to) THEN retries + 1 ELSE retries
  /\ approved' = IF to = "PLANNING" THEN FALSE
                 ELSE approved \/ (state = "PLANNING" /\ to = "EXECUTING" /\ confidence >= Threshold)
  /\ resumed' = (to # "PLANNING" /\ (resumed \/ state = "SUSPENDED"))
  /\ UNCHANGED bootstrap

(* A retry beyond the limit throws, but the count it increased stays.       *)
RefuseRetry == /\ IsRetry("QUEUED")
               /\ retryCount \in MaxAttempts..(MaxAttempts + MaxRefused - 1)
               /\ retryCount' = retryCount + 1
               /\ UNCHANGED <<state, bootstrap, retries, approved, resumed>>

Suspend == "SUSPENDED" \in ValidTargets[state] /\ Transition("SUSPENDED", 0)

Resume(to) == state = "SUSPENDED" /\ Transition(to, 0)

Expire == /\ bootstrap
          /\ bootstrap' = FALSE
          /\ UNCHANGED <<state, retryCount, retries, approved, resumed>>

Next == \/ \E to \in AgentState, c \in Confidences : Transition(to, c)
        \/ RefuseRetry
        \/ Suspend
        \/ \E to \in AgentState : Resume(to)
        \/ Expire

Spec == Init /\ [][Next]_vars

-----------------------------------------------------------------------------
(* However often a task fails, is refused a retry and fails again, it is    *)
(* queued again at most MaxAttempts times before it completes or is idle.   *)
TypeOK == /\ state \in AgentState
          /\ retryCount \in 0..(MaxAttempts + MaxRefused)
          /\ bootstrap \in BOOLEAN /\ approved \in BOOLEAN /\ resumed \in BOOLEAN
          /\ retries \in 0..MaxAttempts

Working == {"EXECUTING", "VALIDATING", "COMPLETED"}

(* An agent executes, validates or completes only a plan whose confidence   *)
(* met the threshold in force, bootstrap included, unless it was resumed    *)
(* from a suspension since, and not to PLANNING.                            *)
GateHolds == state \in Working /\ ~resumed => approved
=============================================================================
