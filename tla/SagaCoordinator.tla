--------------------------- MODULE SagaCoordinator ---------------------------
(***************************************************************************)
(* core/context-layer/src/saga-coordinator.ts: one saga (sagas share       *)
(* nothing but the Map that holds them), the agents that execute its steps *)
(* and the compensator that undoes them.  Every method is synchronous.     *)
(* The agents act on a step before they report it, and a report whose      *)
(* answer is lost is made again: "in-flight sagas are idempotent on retry".*)
(* Steps are numbered from 1, so the current step is currentStepIndex + 1. *)
(***************************************************************************)
EXTENDS Naturals, FiniteSets

CONSTANTS MaxSteps,    \* bound on the steps of a saga
          MaxRetries   \* bound on the reports that are made again

ASSUME SagaAssumption == MaxSteps \in Nat /\ MaxRetries \in Nat

VARIABLES sagaStatus,  \* saga.status
          stepStatus,  \* the status of every step
          current,     \* currentStepIndex + 1
          undoable,    \* the steps created with a compensationAction
          working,     \* the steps whose agent has begun and not reported
          done,        \* the steps whose agent has done its work
          undone,      \* how often the work of each step was undone
          reported,    \* the last report made about a step
          retries      \* how many reports were made again

saga == <<sagaStatus, stepStatus, current, undoable>>
world == <<working, done, undone, reported, retries>>
vars == <<saga, world>>

SagaStatus == {"pending", "running", "completed", "compensating", "failed"}
Steps == DOMAIN stepStatus
Compensating(st) == {i \in DOMAIN st : st[i] = "compensating"}

-----------------------------------------------------------------------------
(* createSaga: any number of steps, none included.                          *)
Init == /\ sagaStatus = "pending"
        /\ \E n \in 0..MaxSteps : stepStatus = [i \in 1..n |-> "pending"]
        /\ current = 1
        /\ undoable \in SUBSET Steps
        /\ working = {}
        /\ done = {}
        /\ undone = [i \in Steps |-> 0]
        /\ reported = [i \in Steps |-> "none"]
        /\ retries = 0

(* getNextStep: the current step, also while the saga is pending or is      *)
(* being compensated.                                                       *)
GetNextStep == {i \in Steps : /\ sagaStatus \notin {"completed", "failed"}
                              /\ i = current}

StartSaga ==
  /\ sagaStatus = "pending"
  /\ sagaStatus' = "running"
  /\ stepStatus' = [i \in Steps |-> IF i = 1 THEN "running" ELSE stepStatus[i]]
  /\ UNCHANGED <<current, undoable, world>>

(* Mutant: completeStep asks the saga but not the step.                     *)
AcceptsAny(i) == sagaStatus = "running"

(* completeStep returns null unless the saga and the step are running.      *)
Accepts(i) == sagaStatus = "running" /\ stepStatus[i] = "running"

After == IF current + 1 \in Steps THEN "running" ELSE "completed"

CompleteStep(i) ==
  \/ /\ Accepts(i)
     /\ current' = current + 1
     /\ stepStatus' = [j \in Steps |-> IF j = current + 1 THEN "running"
                                      ELSE IF j = i THEN "completed"
                                      ELSE stepStatus[j]]
     /\ sagaStatus' = After
     /\ UNCHANGED undoable
  \/ /\ ~ Accepts(i)
     /\ UNCHANGED saga

(* Mutant: the loop over the earlier steps starts one step too low.         *)
ToCompensateShort(i) == {j \in undoable \ {i} : /\ j + 1 < current
                                                /\ stepStatus[j] = "completed"}

(* The completed steps before the current one that can be compensated.      *)
ToCompensate(i) == {j \in undoable \ {i} : /\ j < current
                                           /\ stepStatus[j] = "completed"}

(* failStep: whatever the saga and the step are doing.                      *)
FailStep(i) ==
  /\ stepStatus' = [j \in Steps |-> IF j = i THEN "failed"
                                   ELSE IF j \in ToCompensate(i) THEN "compensating"
                                   ELSE stepStatus[j]]
  /\ sagaStatus' = "compensating"
  /\ UNCHANGED <<current, undoable>>

(* Mutant: the steps that wait are counted before this one is done.         *)
CompleteCompensationLate(i) ==
  /\ stepStatus' = [stepStatus EXCEPT ![i] = "completed"]
  /\ sagaStatus' = IF Compensating(stepStatus) = {} THEN "failed" ELSE sagaStatus
  /\ UNCHANGED <<current, undoable>>

(* completeCompensation: the step is completed again; the saga has failed   *)
(* as soon as no other step waits for its compensation.                     *)
CompleteCompensation(i) ==
  /\ stepStatus' = [stepStatus EXCEPT ![i] = "completed"]
  /\ sagaStatus' = IF Compensating(stepStatus') = {} THEN "failed" ELSE sagaStatus
  /\ UNCHANGED <<current, undoable>>

-----------------------------------------------------------------------------
(* The agent of the next step begins with it once it is released.           *)
Begin(i) == /\ i \in GetNextStep
            /\ stepStatus[i] = "running"
            /\ reported[i] = "none"
            /\ i \notin working
            /\ working' = working \cup {i}
            /\ UNCHANGED <<saga, done, undone, reported, retries>>

Succeed(i) == /\ i \in working
              /\ working' = working \ {i}
              /\ done' = done \cup {i}
              /\ reported' = [reported EXCEPT ![i] = "completeStep"]
              /\ UNCHANGED <<undone, retries>>
              /\ CompleteStep(i)

GiveUp(i) == /\ i \in working
             /\ working' = working \ {i}
             /\ reported' = [reported EXCEPT ![i] = "failStep"]
             /\ UNCHANGED <<done, undone, retries>>
             /\ FailStep(i)

(* The compensator undoes a marked step and reports it.                     *)
Undo(i) == /\ stepStatus[i] = "compensating"
           /\ undone' = [undone EXCEPT ![i] = @ + 1]
           /\ reported' = [reported EXCEPT ![i] = "completeCompensation"]
           /\ UNCHANGED <<working, done, retries>>
           /\ CompleteCompensation(i)

(* A report is made again by a caller that got no answer.                   *)
Retry(i) == /\ retries < MaxRetries
            /\ retries' = retries + 1
            /\ UNCHANGED <<working, done, undone, reported>>
            /\ \/ reported[i] = "completeStep" /\ CompleteStep(i)
               \/ reported[i] = "failStep" /\ FailStep(i)
               \/ /\ reported[i] = "completeCompensation"
                  /\ CompleteCompensation(i)

Progress == \E i \in Steps : Begin(i) \/ Succeed(i) \/ GiveUp(i) \/ Undo(i)

Next == StartSaga \/ Progress \/ \E i \in Steps : Retry(i)

Spec == Init /\ [][Next]_vars

(* A started saga is worked on: agents take released steps and report them, *)
(* the compensator undoes what is marked.                                   *)
FairSpec == Spec /\ WF_vars(Progress)

-----------------------------------------------------------------------------
TypeOK == /\ sagaStatus \in SagaStatus
          /\ \E n \in 0..MaxSteps : stepStatus \in [1..n -> SagaStatus]
          /\ current \in 1..MaxSteps + 1
          /\ undoable \subseteq Steps
          /\ working \subseteq Steps
          /\ done \subseteq Steps
          /\ undone \in [Steps -> Nat]
          /\ reported \in [Steps -> {"none", "completeStep", "failStep",
                                     "completeCompensation"}]
          /\ retries \in 0..MaxRetries

(* Steps are released one at a time and in order: an agent works on a step  *)
(* only while the saga runs, with every earlier step done and not undone.   *)
WorksInOrder ==
  \A i \in working :
     /\ sagaStatus = "running"
     /\ stepStatus[i] = "running"
     /\ \A j \in Steps : /\ j < i => j \in done
                         /\ j > i => j \notin done
                         /\ undone[j] = 0

(* A saga is completed only when all its steps were done and none undone,   *)
(* and failed only when everything done that can be undone was undone.      *)
EndsConsistent ==
  /\ sagaStatus = "completed" =>
       done = Steps /\ \A i \in Steps : undone[i] = 0
  /\ sagaStatus = "failed" =>
       \A i \in undoable \cap done : undone[i] > 0

(* A saga with steps ends, unless one of its steps failed before anything   *)
(* that can be undone was done: then it stays 'compensating'.               *)
SagaSettles ==
  (sagaStatus = "running" /\ Steps # {})
     ~> \/ sagaStatus \in {"completed", "failed"}
        \/ /\ sagaStatus = "compensating"
           /\ undoable \cap done = {}

(* "In-flight sagas are idempotent on retry": no step is undone twice.      *)
UndoneOnce == \A i \in Steps : undone[i] <= 1

-----------------------------------------------------------------------------
(* The inductive invariant behind the theorems.                             *)

(* While a saga runs, its steps are completed, running and pending in turn. *)
Released ==
  /\ sagaStatus = "pending" => /\ current = 1
                               /\ \A i \in Steps : stepStatus[i] = "pending"
  /\ sagaStatus = "running" =>
       \A i \in Steps : stepStatus[i] = IF i < current THEN "completed"
                                        ELSE IF i = current THEN "running"
                                        ELSE "pending"
  /\ sagaStatus = "completed" =>
       current \notin Steps /\ \A i \in Steps : stepStatus[i] = "completed"

(* Until the saga is compensated, the completed steps are those done.       *)
DoneSoFar ==
  sagaStatus \in {"pending", "running", "completed"} =>
     \A i \in Steps : /\ i \in done <=> stepStatus[i] = "completed"
                      /\ undone[i] = 0

(* A step that is pending or running was not reported yet.                  *)
Unreported ==
  \A i \in Steps : stepStatus[i] \in {"pending", "running"} => reported[i] = "none"

(* A step is worked on only while it and the saga run.                      *)
Working == \A i \in working : sagaStatus = "running" /\ stepStatus[i] = "running"

(* What a report says of the step it was made about.                        *)
Reports ==
  \A i \in Steps :
     /\ reported[i] = "completeCompensation" => undone[i] > 0
     /\ reported[i] = "failStep" => i \notin done
     /\ reported[i] \in {"failStep", "completeCompensation"} =>
          sagaStatus \in {"compensating", "failed"}

(* Afterwards everything done that can be undone is undone or marked.       *)
Marked ==
  /\ sagaStatus \in {"compensating", "failed"} =>
       /\ \A i \in Steps : stepStatus[i] # "running"
       /\ \A i \in undoable \cap done :
             undone[i] > 0 \/ stepStatus[i] = "compensating"
  /\ sagaStatus = "failed" => Compensating(stepStatus) = {}

IInv == /\ TypeOK /\ Released /\ DoneSoFar
        /\ Unreported /\ Working /\ Reports /\ Marked
=============================================================================
