---------------------------- MODULE RecoveryProofs ----------------------------
(***************************************************************************)
(* Proofs about the two components that recover from failures of others:   *)
(* the saga coordinator, for sagas of any length and any number of         *)
(* retries, where IInv is inductive and WorksInOrder and EndsConsistent    *)
(* follow from it; and the provider fallback, for any number of requests,  *)
(* providers and outages, and any thresholds.                              *)
(***************************************************************************)
EXTENDS SagaCoordinator, ProviderFallback, FiniteSetTheorems, TLAPS

(* The invariant holds of a saga that was just created.                     *)
LEMMA InitInv == Init => IInv
<1> SUFFICES ASSUME Init PROVE IInv
  OBVIOUS
<1>1. PICK n \in 0..MaxSteps : stepStatus = [i \in 1..n |-> "pending"]
  BY DEF Init
<1>2. Steps = 1..n /\ stepStatus \in [1..n -> SagaStatus]
  BY <1>1 DEF Steps, SagaStatus
<1>3. TypeOK
  <2>1. /\ sagaStatus \in SagaStatus /\ current \in 1..MaxSteps + 1
        /\ retries \in 0..MaxRetries
    BY SagaAssumption DEF Init, SagaStatus
  <2>2. /\ undoable \subseteq Steps /\ working \subseteq Steps /\ done \subseteq Steps
        /\ undone \in [Steps -> Nat]
        /\ reported \in [Steps -> {"none", "completeStep", "failStep",
                                   "completeCompensation"}]
    BY DEF Init
  <2> QED
    BY <1>2, <2>1, <2>2 DEF TypeOK
<1>4. Released /\ DoneSoFar /\ Unreported /\ Working /\ Reports /\ Marked
  BY <1>1, <1>2
     DEF Init, Released, DoneSoFar, Unreported, Working, Reports, Marked
<1> QED
  BY <1>3, <1>4 DEF IInv

(* Starting a saga keeps it.                                                *)
LEMMA StartInv == ASSUME IInv, StartSaga PROVE IInv'
<1>1. PICK n \in 0..MaxSteps : stepStatus \in [1..n -> SagaStatus]
  BY DEF IInv, TypeOK
<1>2. n \in Nat /\ Steps = 1..n /\ current \in Nat
  BY <1>1, SagaAssumption DEF IInv, TypeOK, Steps
<1>3. /\ Released /\ DoneSoFar /\ Unreported /\ Working /\ Reports /\ Marked
      /\ undone \in [Steps -> Nat]
      /\ reported \in [Steps -> {"none", "completeStep", "failStep",
                                 "completeCompensation"}]
      /\ undoable \subseteq Steps /\ working \subseteq Steps /\ done \subseteq Steps
  BY DEF IInv, TypeOK
<1>5. stepStatus' \in [1..n -> SagaStatus] /\ Steps' = 1..n
  BY <1>1, <1>2, <1>3 DEF StartSaga, world, SagaStatus, Steps
<1>6. TypeOK'
  <2>1. sagaStatus' \in SagaStatus /\ current' \in 1..MaxSteps + 1
    BY <1>1, <1>2, <1>3, <1>5, SagaAssumption
       DEF StartSaga, world, SagaStatus, IInv, TypeOK
  <2>2. /\ undoable' \subseteq Steps' /\ working' \subseteq Steps'
        /\ done' \subseteq Steps'
    BY <1>1, <1>2, <1>3, <1>5 DEF StartSaga, world
  <2>3. /\ undone' \in [Steps' -> Nat]
        /\ reported' \in [Steps' -> {"none", "completeStep", "failStep",
                                     "completeCompensation"}]
        /\ retries' \in 0..MaxRetries
    BY <1>1, <1>2, <1>3, <1>5, SagaAssumption
       DEF StartSaga, world, IInv, TypeOK
  <2> QED
    BY <1>5, <2>1, <2>2, <2>3 DEF TypeOK
<1>7. Released'
  BY <1>1, <1>2, <1>3, <1>5 DEF StartSaga, world, Released
<1>8. DoneSoFar'
  BY <1>1, <1>2, <1>3, <1>5 DEF StartSaga, world, DoneSoFar, Released
<1>9. Unreported'
  BY <1>1, <1>2, <1>3, <1>5 DEF StartSaga, world, Unreported, Released, Marked
<1>10. Working'
  BY <1>1, <1>2, <1>3, <1>5 DEF StartSaga, world, Working, Released
<1>11. Reports'
  BY <1>1, <1>2, <1>3, <1>5
     DEF StartSaga, world, Reports, DoneSoFar, Marked, Released
<1>12. Marked'
  BY <1>1, <1>2, <1>3, <1>5
     DEF StartSaga, world, Marked, Reports, Released, DoneSoFar, Compensating
<1> QED
  BY <1>6, <1>7, <1>8, <1>9, <1>10, <1>11, <1>12 DEF IInv

(* An agent beginning with the released step keeps it.                      *)
LEMMA BeginInv == ASSUME NEW i \in Steps, IInv, Begin(i) PROVE IInv'
<1>1. PICK n \in 0..MaxSteps : stepStatus \in [1..n -> SagaStatus]
  BY DEF IInv, TypeOK
<1>2. n \in Nat /\ Steps = 1..n /\ current \in Nat
  BY <1>1, SagaAssumption DEF IInv, TypeOK, Steps
<1>3. /\ Released /\ DoneSoFar /\ Unreported /\ Working /\ Reports /\ Marked
      /\ undone \in [Steps -> Nat]
      /\ reported \in [Steps -> {"none", "completeStep", "failStep",
                                 "completeCompensation"}]
      /\ undoable \subseteq Steps /\ working \subseteq Steps /\ done \subseteq Steps
  BY DEF IInv, TypeOK
<1>4. sagaStatus = "running"
  BY <1>3 DEF Begin, GetNextStep, Released, Marked, IInv, TypeOK, SagaStatus
<1>5. stepStatus' \in [1..n -> SagaStatus] /\ Steps' = 1..n
  BY <1>1, <1>2, <1>3 DEF Begin, GetNextStep, saga, SagaStatus, Steps
<1>6. TypeOK'
  <2>1. sagaStatus' \in SagaStatus /\ current' \in 1..MaxSteps + 1
    BY <1>1, <1>2, <1>3, <1>5, SagaAssumption
       DEF Begin, GetNextStep, saga, SagaStatus, IInv, TypeOK
  <2>2. /\ undoable' \subseteq Steps' /\ working' \subseteq Steps'
        /\ done' \subseteq Steps'
    BY <1>1, <1>2, <1>3, <1>5 DEF Begin, GetNextStep, saga
  <2>3. /\ undone' \in [Steps' -> Nat]
        /\ reported' \in [Steps' -> {"none", "completeStep", "failStep",
                                     "completeCompensation"}]
        /\ retries' \in 0..MaxRetries
    BY <1>1, <1>2, <1>3, <1>5, SagaAssumption
       DEF Begin, GetNextStep, saga, IInv, TypeOK
  <2> QED
    BY <1>5, <2>1, <2>2, <2>3 DEF TypeOK
<1>7. Released'
  BY <1>1, <1>2, <1>3, <1>5 DEF Begin, GetNextStep, saga, Released
<1>8. DoneSoFar'
  BY <1>1, <1>2, <1>3, <1>5 DEF Begin, GetNextStep, saga, DoneSoFar, Released
<1>9. Unreported'
  BY <1>1, <1>2, <1>3, <1>5
     DEF Begin, GetNextStep, saga, Unreported, Released, Marked
<1>10. Working'
  BY <1>1, <1>2, <1>3, <1>4, <1>5 DEF Begin, saga, Working
<1>11. Reports'
  BY <1>1, <1>2, <1>3, <1>5
     DEF Begin, GetNextStep, saga, Reports, DoneSoFar, Marked, Released
<1>12. Marked'
  BY <1>1, <1>2, <1>3, <1>5
     DEF Begin, GetNextStep, saga, Marked, Reports, Released, DoneSoFar,
         Compensating
<1> QED
  BY <1>6, <1>7, <1>8, <1>9, <1>10, <1>11, <1>12 DEF IInv

(* The report of a step that was done keeps it.                             *)
LEMMA SucceedInv == ASSUME NEW i \in Steps, IInv, Succeed(i) PROVE IInv'
<1>1. PICK n \in 0..MaxSteps : stepStatus \in [1..n -> SagaStatus]
  BY DEF IInv, TypeOK
<1>2. n \in Nat /\ Steps = 1..n /\ current \in Nat
  BY <1>1, SagaAssumption DEF IInv, TypeOK, Steps
<1>3. /\ Released /\ DoneSoFar /\ Unreported /\ Working /\ Reports /\ Marked
      /\ undone \in [Steps -> Nat]
      /\ reported \in [Steps -> {"none", "completeStep", "failStep",
                                 "completeCompensation"}]
      /\ undoable \subseteq Steps /\ working \subseteq Steps /\ done \subseteq Steps
  BY DEF IInv, TypeOK
<1>4. Accepts(i) /\ i = current
  BY <1>1, <1>2, <1>3 DEF Succeed, Accepts, Working, Released
<1>a. /\ current' = current + 1 /\ sagaStatus' = After /\ undoable' = undoable
      /\ stepStatus' = [j \in Steps |-> IF j = current + 1 THEN "running"
                                        ELSE IF j = i THEN "completed"
                                        ELSE stepStatus[j]]
      /\ done' = done \cup {i} /\ undone' = undone /\ working' = working \ {i}
      /\ reported' = [reported EXCEPT ![i] = "completeStep"]
  BY <1>4 DEF Succeed, CompleteStep
<1>5. stepStatus' \in [1..n -> SagaStatus] /\ Steps' = 1..n
  BY <1>1, <1>2, <1>3, <1>4 DEF Succeed, CompleteStep, After, SagaStatus, Steps
<1>6. TypeOK'
  <2>1. sagaStatus' \in SagaStatus /\ current' \in 1..MaxSteps + 1
    BY <1>1, <1>2, <1>3, <1>5, <1>4, SagaAssumption
       DEF Succeed, CompleteStep, After, SagaStatus, IInv, TypeOK
  <2>2. /\ undoable' \subseteq Steps' /\ working' \subseteq Steps'
        /\ done' \subseteq Steps'
    BY <1>1, <1>2, <1>3, <1>5, <1>4 DEF Succeed, CompleteStep, After
  <2>3. /\ undone' \in [Steps' -> Nat]
        /\ reported' \in [Steps' -> {"none", "completeStep", "failStep",
                                     "completeCompensation"}]
        /\ retries' \in 0..MaxRetries
    BY <1>1, <1>2, <1>3, <1>5, <1>4, SagaAssumption
       DEF Succeed, CompleteStep, After, IInv, TypeOK
  <2> QED
    BY <1>5, <2>1, <2>2, <2>3 DEF TypeOK
<1>7. Released'
  BY <1>1, <1>2, <1>3, <1>5, <1>4, <1>a DEF After, Accepts, Released
<1>8. DoneSoFar'
  BY <1>1, <1>2, <1>3, <1>5, <1>4, <1>a DEF After, Accepts, DoneSoFar, Released
<1>9. Unreported'
  BY <1>1, <1>2, <1>3, <1>5, <1>4, <1>a
     DEF After, Accepts, Unreported, Released, Marked
<1>10. Working'
  BY <1>1, <1>2, <1>3, <1>5, <1>4
     DEF Succeed, CompleteStep, After, Working, Released
<1>11. Reports'
  BY <1>1, <1>2, <1>3, <1>5, <1>4, <1>a
     DEF After, Accepts, Reports, DoneSoFar, Marked, Released
<1>12. Marked'
  BY <1>1, <1>2, <1>3, <1>5, <1>4
     DEF Succeed, CompleteStep, After, Marked, Reports, Released, DoneSoFar,
         Compensating
<1> QED
  BY <1>6, <1>7, <1>8, <1>9, <1>10, <1>11, <1>12 DEF IInv

(* The report of a step that failed keeps it.                               *)
LEMMA GiveUpInv == ASSUME NEW i \in Steps, IInv, GiveUp(i) PROVE IInv'
<1>1. PICK n \in 0..MaxSteps : stepStatus \in [1..n -> SagaStatus]
  BY DEF IInv, TypeOK
<1>2. n \in Nat /\ Steps = 1..n /\ current \in Nat
  BY <1>1, SagaAssumption DEF IInv, TypeOK, Steps
<1>3. /\ Released /\ DoneSoFar /\ Unreported /\ Working /\ Reports /\ Marked
      /\ undone \in [Steps -> Nat]
      /\ reported \in [Steps -> {"none", "completeStep", "failStep",
                                 "completeCompensation"}]
      /\ undoable \subseteq Steps /\ working \subseteq Steps /\ done \subseteq Steps
  BY DEF IInv, TypeOK
<1>4. sagaStatus = "running" /\ stepStatus[i] = "running" /\ i = current
  BY <1>1, <1>2, <1>3 DEF GiveUp, Working, Released
<1>5. stepStatus' \in [1..n -> SagaStatus] /\ Steps' = 1..n
  BY <1>1, <1>2, <1>3, <1>4
     DEF GiveUp, FailStep, ToCompensate, SagaStatus, Steps
<1>6. TypeOK'
  <2>1. sagaStatus' \in SagaStatus /\ current' \in 1..MaxSteps + 1
    BY <1>1, <1>2, <1>3, <1>5, <1>4, SagaAssumption
       DEF GiveUp, FailStep, ToCompensate, SagaStatus, IInv, TypeOK
  <2>2. /\ undoable' \subseteq Steps' /\ working' \subseteq Steps'
        /\ done' \subseteq Steps'
    BY <1>1, <1>2, <1>3, <1>5, <1>4 DEF GiveUp, FailStep, ToCompensate
  <2>3. /\ undone' \in [Steps' -> Nat]
        /\ reported' \in [Steps' -> {"none", "completeStep", "failStep",
                                     "completeCompensation"}]
        /\ retries' \in 0..MaxRetries
    BY <1>1, <1>2, <1>3, <1>5, <1>4, SagaAssumption
       DEF GiveUp, FailStep, ToCompensate, IInv, TypeOK
  <2> QED
    BY <1>5, <2>1, <2>2, <2>3 DEF TypeOK
<1>7. Released'
  BY <1>1, <1>2, <1>3, <1>5, <1>4 DEF GiveUp, FailStep, ToCompensate, Released
<1>8. DoneSoFar'
  BY <1>1, <1>2, <1>3, <1>5, <1>4
     DEF GiveUp, FailStep, ToCompensate, DoneSoFar, Released
<1>9. Unreported'
  BY <1>1, <1>2, <1>3, <1>5, <1>4
     DEF GiveUp, FailStep, ToCompensate, Unreported, Released, Marked
<1>10. Working'
  BY <1>1, <1>2, <1>3, <1>5, <1>4
     DEF GiveUp, FailStep, ToCompensate, Working, Released
<1>11. Reports'
  BY <1>1, <1>2, <1>3, <1>5, <1>4
     DEF GiveUp, FailStep, ToCompensate, Reports, DoneSoFar, Marked, Released
<1>12. Marked'
  BY <1>1, <1>2, <1>3, <1>5, <1>4
     DEF GiveUp, FailStep, ToCompensate, Marked, Reports, Released, DoneSoFar,
         Compensating
<1> QED
  BY <1>6, <1>7, <1>8, <1>9, <1>10, <1>11, <1>12 DEF IInv

(* Undoing a marked step and reporting it keeps it.                         *)
LEMMA UndoInv == ASSUME NEW i \in Steps, IInv, Undo(i) PROVE IInv'
<1>1. PICK n \in 0..MaxSteps : stepStatus \in [1..n -> SagaStatus]
  BY DEF IInv, TypeOK
<1>2. n \in Nat /\ Steps = 1..n /\ current \in Nat
  BY <1>1, SagaAssumption DEF IInv, TypeOK, Steps
<1>3. /\ Released /\ DoneSoFar /\ Unreported /\ Working /\ Reports /\ Marked
      /\ undone \in [Steps -> Nat]
      /\ reported \in [Steps -> {"none", "completeStep", "failStep",
                                 "completeCompensation"}]
      /\ undoable \subseteq Steps /\ working \subseteq Steps /\ done \subseteq Steps
  BY DEF IInv, TypeOK
<1>4. sagaStatus \in {"compensating", "failed"}
  BY <1>1, <1>2, <1>3 DEF Undo, Released, IInv, TypeOK, SagaStatus
<1>5. stepStatus' \in [1..n -> SagaStatus] /\ Steps' = 1..n
  BY <1>1, <1>2, <1>3, <1>4 DEF Undo, CompleteCompensation, SagaStatus, Steps
<1>6. TypeOK'
  <2>1. sagaStatus' \in SagaStatus /\ current' \in 1..MaxSteps + 1
    BY <1>1, <1>2, <1>3, <1>5, <1>4, SagaAssumption
       DEF Undo, CompleteCompensation, SagaStatus, IInv, TypeOK
  <2>2. /\ undoable' \subseteq Steps' /\ working' \subseteq Steps'
        /\ done' \subseteq Steps'
    BY <1>1, <1>2, <1>3, <1>5, <1>4 DEF Undo, CompleteCompensation
  <2>3. /\ undone' \in [Steps' -> Nat]
        /\ reported' \in [Steps' -> {"none", "completeStep", "failStep",
                                     "completeCompensation"}]
        /\ retries' \in 0..MaxRetries
    BY <1>1, <1>2, <1>3, <1>5, <1>4, SagaAssumption
       DEF Undo, CompleteCompensation, IInv, TypeOK
  <2> QED
    BY <1>5, <2>1, <2>2, <2>3 DEF TypeOK
<1>7. Released'
  BY <1>1, <1>2, <1>3, <1>5, <1>4 DEF Undo, CompleteCompensation, Released
<1>8. DoneSoFar'
  BY <1>1, <1>2, <1>3, <1>5, <1>4
     DEF Undo, CompleteCompensation, DoneSoFar, Released
<1>9. Unreported'
  BY <1>1, <1>2, <1>3, <1>5, <1>4
     DEF Undo, CompleteCompensation, Unreported, Released, Marked
<1>10. Working'
  BY <1>1, <1>2, <1>3, <1>5, <1>4
     DEF Undo, CompleteCompensation, Working, Released
<1>11. Reports'
  BY <1>1, <1>2, <1>3, <1>5, <1>4
     DEF Undo, CompleteCompensation, Reports, DoneSoFar, Marked, Released
<1>12. Marked'
  BY <1>1, <1>2, <1>3, <1>5, <1>4
     DEF Undo, CompleteCompensation, Marked, Reports, Released, DoneSoFar,
         Compensating
<1> QED
  BY <1>6, <1>7, <1>8, <1>9, <1>10, <1>11, <1>12 DEF IInv

(* A completeStep made again is refused: its step is no longer running.     *)
LEMMA RetriedCompletion ==
  ASSUME NEW i \in Steps, IInv, reported[i] = "completeStep", CompleteStep(i)
  PROVE  UNCHANGED saga
  BY DEF CompleteStep, Accepts, IInv, Unreported

(* A failStep made again keeps it, although it may mark undone steps anew.  *)
LEMMA RetriedFailure == ASSUME NEW i \in Steps, IInv, Retry(i),
         reported[i] = "failStep", FailStep(i)
  PROVE IInv'
<1>1. PICK n \in 0..MaxSteps : stepStatus \in [1..n -> SagaStatus]
  BY DEF IInv, TypeOK
<1>2. n \in Nat /\ Steps = 1..n /\ current \in Nat
  BY <1>1, SagaAssumption DEF IInv, TypeOK, Steps
<1>3. /\ Released /\ DoneSoFar /\ Unreported /\ Working /\ Reports /\ Marked
      /\ undone \in [Steps -> Nat]
      /\ reported \in [Steps -> {"none", "completeStep", "failStep",
                                 "completeCompensation"}]
      /\ undoable \subseteq Steps /\ working \subseteq Steps /\ done \subseteq Steps
  BY DEF IInv, TypeOK
<1>4. sagaStatus \in {"compensating", "failed"} /\ i \notin done
  BY <1>3 DEF Reports
<1>5. stepStatus' \in [1..n -> SagaStatus] /\ Steps' = 1..n
  BY <1>1, <1>2, <1>3, <1>4
     DEF Retry, FailStep, ToCompensate, SagaStatus, Steps
<1>6. TypeOK'
  <2>1. sagaStatus' \in SagaStatus /\ current' \in 1..MaxSteps + 1
    BY <1>1, <1>2, <1>3, <1>5, <1>4, SagaAssumption
       DEF Retry, FailStep, ToCompensate, SagaStatus, IInv, TypeOK
  <2>2. /\ undoable' \subseteq Steps' /\ working' \subseteq Steps'
        /\ done' \subseteq Steps'
    BY <1>1, <1>2, <1>3, <1>5, <1>4 DEF Retry, FailStep, ToCompensate
  <2>3. /\ undone' \in [Steps' -> Nat]
        /\ reported' \in [Steps' -> {"none", "completeStep", "failStep",
                                     "completeCompensation"}]
        /\ retries' \in 0..MaxRetries
    BY <1>1, <1>2, <1>3, <1>5, <1>4, SagaAssumption
       DEF Retry, FailStep, ToCompensate, IInv, TypeOK
  <2> QED
    BY <1>5, <2>1, <2>2, <2>3 DEF TypeOK
<1>7. Released'
  BY <1>1, <1>2, <1>3, <1>5, <1>4 DEF Retry, FailStep, ToCompensate, Released
<1>8. DoneSoFar'
  BY <1>1, <1>2, <1>3, <1>5, <1>4
     DEF Retry, FailStep, ToCompensate, DoneSoFar, Released
<1>9. Unreported'
  BY <1>1, <1>2, <1>3, <1>5, <1>4
     DEF Retry, FailStep, ToCompensate, Unreported, Released, Marked
<1>10. Working'
  BY <1>1, <1>2, <1>3, <1>5, <1>4
     DEF Retry, FailStep, ToCompensate, Working, Released
<1>11. Reports'
  BY <1>1, <1>2, <1>3, <1>5, <1>4
     DEF Retry, FailStep, ToCompensate, Reports, DoneSoFar, Marked, Released
<1>12. Marked'
  BY <1>1, <1>2, <1>3, <1>5, <1>4
     DEF Retry, FailStep, ToCompensate, Marked, Reports, Released, DoneSoFar,
         Compensating
<1> QED
  BY <1>6, <1>7, <1>8, <1>9, <1>10, <1>11, <1>12 DEF IInv

(* A completeCompensation made again keeps it.                              *)
LEMMA RetriedCompensation == ASSUME NEW i \in Steps, IInv, Retry(i),
         reported[i] = "completeCompensation", CompleteCompensation(i)
  PROVE IInv'
<1>1. PICK n \in 0..MaxSteps : stepStatus \in [1..n -> SagaStatus]
  BY DEF IInv, TypeOK
<1>2. n \in Nat /\ Steps = 1..n /\ current \in Nat
  BY <1>1, SagaAssumption DEF IInv, TypeOK, Steps
<1>3. /\ Released /\ DoneSoFar /\ Unreported /\ Working /\ Reports /\ Marked
      /\ undone \in [Steps -> Nat]
      /\ reported \in [Steps -> {"none", "completeStep", "failStep",
                                 "completeCompensation"}]
      /\ undoable \subseteq Steps /\ working \subseteq Steps /\ done \subseteq Steps
  BY DEF IInv, TypeOK
<1>4. sagaStatus \in {"compensating", "failed"} /\ undone[i] > 0
  BY <1>3 DEF Reports
<1>5. stepStatus' \in [1..n -> SagaStatus] /\ Steps' = 1..n
  BY <1>1, <1>2, <1>3, <1>4 DEF Retry, CompleteCompensation, SagaStatus, Steps
<1>6. TypeOK'
  <2>1. sagaStatus' \in SagaStatus /\ current' \in 1..MaxSteps + 1
    BY <1>1, <1>2, <1>3, <1>5, <1>4, SagaAssumption
       DEF Retry, CompleteCompensation, SagaStatus, IInv, TypeOK
  <2>2. /\ undoable' \subseteq Steps' /\ working' \subseteq Steps'
        /\ done' \subseteq Steps'
    BY <1>1, <1>2, <1>3, <1>5, <1>4 DEF Retry, CompleteCompensation
  <2>3. /\ undone' \in [Steps' -> Nat]
        /\ reported' \in [Steps' -> {"none", "completeStep", "failStep",
                                     "completeCompensation"}]
        /\ retries' \in 0..MaxRetries
    BY <1>1, <1>2, <1>3, <1>5, <1>4, SagaAssumption
       DEF Retry, CompleteCompensation, IInv, TypeOK
  <2> QED
    BY <1>5, <2>1, <2>2, <2>3 DEF TypeOK
<1>7. Released'
  BY <1>1, <1>2, <1>3, <1>5, <1>4 DEF Retry, CompleteCompensation, Released
<1>8. DoneSoFar'
  BY <1>1, <1>2, <1>3, <1>5, <1>4
     DEF Retry, CompleteCompensation, DoneSoFar, Released
<1>9. Unreported'
  BY <1>1, <1>2, <1>3, <1>5, <1>4
     DEF Retry, CompleteCompensation, Unreported, Released, Marked
<1>10. Working'
  BY <1>1, <1>2, <1>3, <1>5, <1>4
     DEF Retry, CompleteCompensation, Working, Released
<1>11. Reports'
  BY <1>1, <1>2, <1>3, <1>5, <1>4
     DEF Retry, CompleteCompensation, Reports, DoneSoFar, Marked, Released
<1>12. Marked'
  BY <1>1, <1>2, <1>3, <1>5, <1>4
     DEF Retry, CompleteCompensation, Marked, Reports, Released, DoneSoFar,
         Compensating
<1> QED
  BY <1>6, <1>7, <1>8, <1>9, <1>10, <1>11, <1>12 DEF IInv

(* A report made again keeps it.                                            *)
LEMMA RetryInv == ASSUME NEW i \in Steps, IInv, Retry(i) PROVE IInv'
<1>1. CASE reported[i] = "completeStep" /\ CompleteStep(i)
  <2>1. UNCHANGED <<saga, working, done, undone, reported>>
    BY <1>1, RetriedCompletion DEF Retry
  <2>2. retries' \in 0..MaxRetries
    BY SagaAssumption DEF Retry, IInv, TypeOK
  <2> QED
    BY <2>1, <2>2 DEF saga, IInv, TypeOK, Released, DoneSoFar, Unreported,
                      Working, Reports, Marked, Steps, Compensating
<1>2. CASE reported[i] = "failStep" /\ FailStep(i)
  BY <1>2, RetriedFailure
<1>3. CASE reported[i] = "completeCompensation" /\ CompleteCompensation(i)
  BY <1>3, RetriedCompensation
<1> QED
  BY <1>1, <1>2, <1>3 DEF Retry

(* Every step of the saga, its agents and its compensator keeps it.         *)
LEMMA NextInv == IInv /\ [Next]_vars => IInv'
<1> SUFFICES ASSUME IInv, [Next]_vars PROVE IInv'
  OBVIOUS
<1>1. CASE StartSaga
  BY <1>1, StartInv
<1>2. CASE Progress
  BY <1>2, BeginInv, SucceedInv, GiveUpInv, UndoInv DEF Progress
<1>3. CASE \E i \in Steps : Retry(i)
  BY <1>3, RetryInv
<1>4. CASE UNCHANGED vars
  BY <1>4 DEF vars, saga, world, IInv, TypeOK, Released, DoneSoFar, Unreported,
              Working, Reports, Marked, Steps, Compensating
<1> QED
  BY <1>1, <1>2, <1>3, <1>4 DEF Next

(* The invariant holds in every reachable state.                            *)
LEMMA Inductive == Spec => []IInv
  BY InitInv, NextInv, PTL DEF Spec

(* Agents work on released steps only, in order, whatever was reported late *)
(* or twice.                                                                *)
THEOREM StepsInOrder == Spec => []WorksInOrder
<1>1. IInv => WorksInOrder
  <2> SUFFICES ASSUME IInv, NEW i \in working
               PROVE  /\ sagaStatus = "running"
                      /\ stepStatus[i] = "running"
                      /\ \A j \in Steps : /\ j < i => j \in done
                                          /\ j > i => j \notin done
                                          /\ undone[j] = 0
    BY DEF WorksInOrder
  <2>1. PICK n \in 0..MaxSteps : stepStatus \in [1..n -> SagaStatus]
    BY DEF IInv, TypeOK
  <2>2. Steps = 1..n /\ n \in Nat /\ i \in Steps /\ current \in Nat
    BY <2>1, SagaAssumption DEF IInv, TypeOK, Steps
  <2>3. sagaStatus = "running" /\ stepStatus[i] = "running"
    BY DEF IInv, Working
  <2>4. i = current
    BY <2>2, <2>3 DEF IInv, Released
  <2> QED
    BY <2>2, <2>3, <2>4 DEF IInv, Released, DoneSoFar
<1> QED
  BY <1>1, Inductive, PTL

(* A saga that has ended left the world consistent.                         *)
THEOREM SagaEndsConsistent == Spec => []EndsConsistent
<1>1. IInv => EndsConsistent
  BY DEF IInv, Released, DoneSoFar, Marked, Compensating, EndsConsistent,
     TypeOK, Steps
<1> QED
  BY <1>1, Inductive, PTL

-----------------------------------------------------------------------------
Outstanding(p) == Cardinality(Waiting(p))

(* Requests wait at providers only.                                         *)
AtProviders == \A r \in Requests :
                 /\ request[r].at \in {"wait", "doomed"} => request[r].p \in Providers
                 /\ request[r].at = "try" => request[r].p \in 1..Last + 1

(* What a breaker has let in is accounted for, in each of its states: by    *)
(* failures that count and calls under way; by the failure that opened it;  *)
(* by probes that succeeded and calls under way.                            *)
Closed(p) == failures[p] < FailureThreshold /\ hits[p] <= failures[p] + Outstanding(p)

Open(p) == /\ hits[p] <= FailureThreshold - 1 + Cardinality(Requests)
           /\ cooled[p] => hits[p] = 0

HalfOpen(p) == attempts[p] <= successes[p] + Outstanding(p) /\ hits[p] <= Outstanding(p)

Accounted(p) == /\ state[p] = "closed" => Closed(p)
                /\ state[p] = "open" => Open(p)
                /\ state[p] = "half-open" => HalfOpen(p)

FallbackIInv == FallbackTypeOK /\ AtProviders /\ \A p \in Providers : Accounted(p)

-----------------------------------------------------------------------------
(* The calls under way at a provider are finitely many requests.            *)
LEMMA OutstandingBounded ==
  ASSUME FallbackAssumption, NEW p
  PROVE  /\ IsFiniteSet(Waiting(p)) /\ Outstanding(p) \in Nat
         /\ Cardinality(Requests) \in Nat /\ Outstanding(p) <= Cardinality(Requests)
<1>1. Waiting(p) \subseteq Requests
  BY DEF Waiting
<1> QED
  BY <1>1, FS_Subset, FS_CardinalityType DEF FallbackAssumption, Outstanding

(* What bounds the hits and the probes, whichever state a breaker is in.    *)
LEMMA AccountedSuffices ==
  ASSUME FallbackAssumption, FallbackIInv
  PROVE  ProbeOutstanding /\ NotHammered
<1> SUFFICES ASSUME NEW p \in Providers
             PROVE  /\ state[p] = "half-open" /\ attempts[p] >= HalfOpenRequests => Waiting(p) # {}
                    /\ hits[p] <= FailureThreshold - 1 + Cardinality(Requests)
  BY DEF ProbeOutstanding, NotHammered
<1>1. /\ Outstanding(p) \in Nat /\ Cardinality(Requests) \in Nat
      /\ Outstanding(p) <= Cardinality(Requests)
  BY OutstandingBounded
<1>2. /\ failures[p] \in Nat /\ successes[p] \in 0..HalfOpenRequests - 1 /\ attempts[p] \in Nat
      /\ hits[p] \in Nat /\ FailureThreshold \in Nat \ {0} /\ HalfOpenRequests \in Nat \ {0}
      /\ state[p] \in {"closed", "open", "half-open"} /\ Accounted(p)
  BY DEF FallbackIInv, FallbackTypeOK, FallbackAssumption
<1>3. ASSUME state[p] = "half-open", attempts[p] >= HalfOpenRequests PROVE Waiting(p) # {}
  <2>1. Outstanding(p) # 0
    BY <1>1, <1>2, <1>3 DEF Accounted, HalfOpen
  <2> QED
    BY <2>1, FS_EmptySet DEF Outstanding
<1>4. hits[p] <= FailureThreshold - 1 + Cardinality(Requests)
  BY <1>1, <1>2 DEF Accounted, Closed, Open, HalfOpen
<1> QED
  BY <1>3, <1>4

(* The account of a provider does not change with what is elsewhere.        *)
LEMMA AccountKept ==
  ASSUME FallbackAssumption, NEW p \in Providers, Accounted(p),
         UNCHANGED <<state[p], failures[p], successes[p], attempts[p], cooled[p], hits[p]>>,
         Waiting(p)' = Waiting(p)
  PROVE  Accounted(p)'
BY DEF Accounted, Closed, Open, HalfOpen, Outstanding

(* One more request waits at p, or one less.                                *)
LEMMA OneMore ==
  ASSUME FallbackAssumption, NEW p, NEW r \in Requests,
         request[r].at \notin {"wait", "doomed"},
         request'[r].at \in {"wait", "doomed"}, request'[r].p = p,
         \A q \in Requests \ {r} : request'[q] = request[q]
  PROVE  /\ Outstanding(p)' = Outstanding(p) + 1
         /\ \A q : q # p => Waiting(q)' = Waiting(q)
<1>1. Waiting(p)' = Waiting(p) \cup {r} /\ r \notin Waiting(p)
  BY DEF Waiting
<1>2. \A q : q # p => Waiting(q)' = Waiting(q)
  BY DEF Waiting
<1> QED
  BY <1>1, <1>2, OutstandingBounded, FS_AddElement DEF Outstanding

LEMMA OneLess ==
  ASSUME FallbackAssumption, NEW p, NEW r \in Requests,
         request[r].at \in {"wait", "doomed"}, request[r].p = p,
         request'[r].at \notin {"wait", "doomed"},
         \A q \in Requests \ {r} : request'[q] = request[q]
  PROVE  /\ Outstanding(p)' = Outstanding(p) - 1 /\ Outstanding(p)' \in Nat
         /\ \A q : q # p => Waiting(q)' = Waiting(q)
<1>1. Waiting(p)' = Waiting(p) \ {r} /\ r \in Waiting(p)
  BY DEF Waiting
<1>2. \A q : q # p => Waiting(q)' = Waiting(q)
  BY DEF Waiting
<1> QED
  BY <1>1, <1>2, OutstandingBounded, FS_RemoveElement, FS_CardinalityType DEF Outstanding

(* The values a request may have.                                           *)
Request == [at : {"idle", "try", "wait", "doomed"}, p : 0..Last + 1]

(* What the variables hold for one provider.                                *)
LEMMA AtProvider ==
  ASSUME FallbackAssumption, FallbackIInv, NEW p \in Providers
  PROVE  /\ state[p] \in {"closed", "open", "half-open"}
         /\ failures[p] \in 0..FailureThreshold /\ successes[p] \in 0..HalfOpenRequests - 1
         /\ attempts[p] \in 0..HalfOpenRequests /\ cooled[p] \in BOOLEAN /\ hits[p] \in Nat
         /\ FailureThreshold \in Nat \ {0} /\ HalfOpenRequests \in Nat \ {0}
         /\ Outstanding(p) \in Nat /\ Cardinality(Requests) \in Nat
         /\ Outstanding(p) <= Cardinality(Requests)
         /\ Accounted(p)
BY OutstandingBounded DEF FallbackAssumption, FallbackIInv, FallbackTypeOK

-----------------------------------------------------------------------------
(* All breakers are closed and nobody waits.                                *)
LEMMA FallbackInitInv == ASSUME FallbackAssumption, FallbackInit PROVE FallbackIInv
<1>1. FallbackTypeOK
  BY DEF FallbackAssumption, FallbackInit, FallbackTypeOK, Providers, Idle
<1>2. AtProviders
  BY DEF FallbackInit, AtProviders, Idle
<1>3. ASSUME NEW p \in Providers PROVE Accounted(p)
  <2>1. Outstanding(p) \in Nat
    BY OutstandingBounded
  <2> QED
    BY <2>1 DEF FallbackAssumption, FallbackInit, Accounted, Closed
<1> QED
  BY <1>1, <1>2, <1>3 DEF FallbackIInv

(* A request that moves while it waits nowhere leaves all breakers alone.   *)
LEMMA ElsewhereInv ==
  ASSUME FallbackAssumption, FallbackIInv, NEW r \in Requests,
         Complete(r) \/ TurnAway(r) \/ Exhausted(r)
  PROVE  FallbackIInv'
<1>1. /\ UNCHANGED <<breakers, cooled, up, outages, hits>>
      /\ request[r].at \in {"idle", "try"} /\ request \in [Requests -> [at : {"idle", "try", "wait", "doomed"}, p : 0..Last + 1]]
      /\ Last \in Nat \ {0}
  BY DEF Complete, TurnAway, Exhausted, Idle, FallbackIInv, FallbackTypeOK, FallbackAssumption
<1>2. /\ request' \in [Requests -> [at : {"idle", "try", "wait", "doomed"}, p : 0..Last + 1]]
      /\ \A q \in Requests \ {r} : request'[q] = request[q]
      /\ request'[r].at \in {"idle", "try"}
      /\ request'[r].at = "try" => request'[r].p \in 1..Last + 1
  <2>1. CASE Complete(r)
    BY <1>1, <2>1 DEF Complete
  <2>2. CASE TurnAway(r)
    <3>1. request[r].p \in 1..Last /\ request[r] = [at |-> "try", p |-> request[r].p]
      BY <1>1, <2>2 DEF TurnAway, Providers
    <3>2. [request[r] EXCEPT !.p = @ + 1] = [at |-> "try", p |-> request[r].p + 1]
      BY <3>1
    <3>3. request' = [request EXCEPT ![r] = [at |-> "try", p |-> request[r].p + 1]]
      BY <2>2, <3>2 DEF TurnAway
    <3>4. [at |-> "try", p |-> request[r].p + 1] \in [at : {"idle", "try", "wait", "doomed"}, p : 0..Last + 1]
      BY <1>1, <3>1
    <3> QED
      BY <1>1, <3>1, <3>3, <3>4
  <2>3. CASE Exhausted(r)
    BY <1>1, <2>3 DEF Exhausted, Idle
  <2> QED
    BY <2>1, <2>2, <2>3
<1>3. FallbackTypeOK'
  BY <1>1, <1>2 DEF FallbackIInv, FallbackTypeOK, breakers
<1>4. AtProviders'
  BY <1>1, <1>2 DEF FallbackIInv, AtProviders
<1>5. \A p \in Providers : Waiting(p)' = Waiting(p)
  BY <1>1, <1>2 DEF Waiting
<1>6. \A p \in Providers : Accounted(p)'
  BY <1>1, <1>5, AccountKept DEF FallbackIInv, breakers
<1> QED
  BY <1>3, <1>4, <1>6 DEF FallbackIInv

(* A request that is let in is one more call under way, and one more hit.   *)
LEMMA LetInInv ==
  ASSUME FallbackAssumption, FallbackIInv, NEW r \in Requests, LetIn(r)
  PROVE  FallbackIInv'
<1>1. PICK p \in Providers :
        /\ request[r].p = p /\ request[r].at = "try" /\ ~Rejects(p)
        /\ request \in [Requests -> Request] /\ request[r] = [at |-> "try", p |-> p]
        /\ hits' = [hits EXCEPT ![p] = @ + 1]
        /\ UNCHANGED <<failures, successes, cooled, up, outages>>
  BY DEF LetIn, FallbackIInv, FallbackTypeOK, Request
<1>2. PICK at \in {"wait", "doomed"} : request' = [request EXCEPT ![r] = [at |-> at, p |-> p]]
  <2>1. \A at : [request[r] EXCEPT !.at = at] = [at |-> at, p |-> p]
    BY <1>1
  <2> QED
    BY <1>1, <2>1 DEF LetIn
<1>3. /\ request' \in [Requests -> Request] /\ request'[r] = [at |-> at, p |-> p]
      /\ \A q \in Requests \ {r} : request'[q] = request[q]
  <2>1. [at |-> at, p |-> p] \in Request
    BY <1>1, <1>2 DEF Request, Providers, FallbackAssumption
  <2> QED
    BY <1>1, <1>2, <2>1
<1>4. Outstanding(p)' = Outstanding(p) + 1 /\ \A q : q # p => Waiting(q)' = Waiting(q)
  BY <1>1, <1>2, <1>3, OneMore
<1>5. \/ state[p] = "closed" /\ UNCHANGED <<state, attempts>>
      \/ /\ state[p] # "closed"
         /\ state' = [state EXCEPT ![p] = "half-open"]
         /\ attempts' = [attempts EXCEPT ![p] = IF state[p] = "open" THEN 1 ELSE @ + 1]
  BY <1>1 DEF LetIn
<1>6. state[p] = "half-open" => attempts[p] < HalfOpenRequests
  BY <1>1, AtProvider DEF Rejects
<1>7. hits' \in [Providers -> Nat] /\ hits'[p] = hits[p] + 1 /\ \A q \in Providers \ {p} : hits'[q] = hits[q]
  BY <1>1 DEF FallbackIInv, FallbackTypeOK
<1>8. FallbackTypeOK'
  <2>1. state' \in [Providers -> {"closed", "open", "half-open"}]
    BY <1>1, <1>5 DEF FallbackIInv, FallbackTypeOK
  <2>2. attempts' \in [Providers -> 0..HalfOpenRequests]
    BY <1>1, <1>5, <1>6, AtProvider DEF FallbackIInv, FallbackTypeOK
  <2> QED
    BY <1>1, <1>3, <1>7, <2>1, <2>2 DEF FallbackIInv, FallbackTypeOK, Request
<1>9. AtProviders'
  BY <1>1, <1>2, <1>3 DEF FallbackIInv, AtProviders
<1>10. ASSUME NEW q \in Providers PROVE Accounted(q)'
  <2>1. CASE q # p
    <3>1. UNCHANGED <<state[q], attempts[q], hits[q]>>
      BY <1>1, <1>5, <1>7, <2>1 DEF FallbackIInv, FallbackTypeOK
    <3> QED
      BY <1>1, <1>4, <2>1, <3>1, AccountKept DEF FallbackIInv
  <2>2. CASE q = p /\ state[p] = "closed"
    <3>1. state'[p] = "closed" /\ failures'[p] = failures[p]
      BY <1>1, <1>5, <2>2
    <3>2. Closed(p)'
      BY <1>1, <1>4, <1>7, <2>2, <3>1, AtProvider DEF Accounted, Closed
    <3> QED
      BY <2>2, <3>1, <3>2 DEF Accounted
  <2>3. CASE q = p /\ state[p] = "open"
    <3>1. state'[p] = "half-open" /\ attempts'[p] = 1 /\ successes'[p] = successes[p]
      BY <1>1, <1>5, <2>3 DEF FallbackIInv, FallbackTypeOK
    <3>2. hits[p] = 0
      BY <1>1, <2>3, AtProvider DEF Rejects, Accounted, Open
    <3>3. HalfOpen(p)'
      BY <1>1, <1>4, <1>7, <3>1, <3>2, AtProvider DEF HalfOpen
    <3> QED
      BY <2>3, <3>1, <3>3 DEF Accounted
  <2>4. CASE q = p /\ state[p] = "half-open"
    <3>1. state'[p] = "half-open" /\ attempts'[p] = attempts[p] + 1 /\ successes'[p] = successes[p]
      BY <1>1, <1>5, <2>4 DEF FallbackIInv, FallbackTypeOK
    <3>2. HalfOpen(p)'
      BY <1>1, <1>4, <1>7, <2>4, <3>1, AtProvider DEF Accounted, HalfOpen
    <3> QED
      BY <2>4, <3>1, <3>2 DEF Accounted
  <2> QED
    BY <1>1, <2>1, <2>2, <2>3, <2>4, AtProvider
<1> QED
  BY <1>8, <1>9, <1>10 DEF FallbackIInv

(* A provider answers: its hits start again.                                *)
LEMMA AnswerInv ==
  ASSUME FallbackAssumption, FallbackIInv, NEW r \in Requests, Answer(r)
  PROVE  FallbackIInv'
<1>1. PICK p \in Providers :
        /\ request[r].at \in {"wait", "doomed"} /\ request[r].p = p
        /\ request \in [Requests -> Request]
        /\ request' = [request EXCEPT ![r] = Idle] /\ hits' = [hits EXCEPT ![p] = 0]
        /\ RecordSuccess(p) /\ UNCHANGED <<cooled, up, outages>>
  BY DEF Answer, Waiting, FallbackIInv, FallbackTypeOK, AtProviders, Request
<1>2. /\ request' \in [Requests -> Request] /\ request'[r] = Idle
      /\ \A q \in Requests \ {r} : request'[q] = request[q]
  BY <1>1 DEF Request, Idle, FallbackAssumption
<1>3. Outstanding(p)' = Outstanding(p) - 1 /\ Outstanding(p)' \in Nat /\ \A q : q # p => Waiting(q)' = Waiting(q)
  <2>1. request'[r].at \notin {"wait", "doomed"}
    BY <1>2 DEF Idle
  <2> QED
    BY <1>1, <1>2, <2>1, OneLess
<1>4. hits' \in [Providers -> Nat] /\ hits'[p] = 0 /\ \A q \in Providers \ {p} : hits'[q] = hits[q]
  BY <1>1 DEF FallbackIInv, FallbackTypeOK
<1>5. /\ state' \in [Providers -> {"closed", "open", "half-open"}]
      /\ failures' \in [Providers -> 0..FailureThreshold]
      /\ successes' \in [Providers -> 0..HalfOpenRequests - 1]
      /\ attempts' \in [Providers -> 0..HalfOpenRequests]
      /\ \A q \in Providers \ {p} : UNCHANGED <<state[q], failures[q], successes[q], attempts[q]>>
  BY <1>1, AtProvider DEF RecordSuccess, Recovered, FallbackIInv, FallbackTypeOK
<1>6. \/ state'[p] = "half-open" /\ state[p] = "half-open" /\ successes'[p] = successes[p] + 1 /\ attempts'[p] = attempts[p]
      \/ state'[p] = "closed" /\ failures'[p] = 0
      \/ state'[p] = "open" /\ state[p] = "open"
  BY <1>1, AtProvider DEF RecordSuccess, FallbackIInv, FallbackTypeOK
<1>7. FallbackTypeOK'
  BY <1>1, <1>2, <1>4, <1>5 DEF FallbackIInv, FallbackTypeOK, Request
<1>8. AtProviders'
  BY <1>2 DEF FallbackIInv, AtProviders, Idle
<1>9. ASSUME NEW q \in Providers PROVE Accounted(q)'
  <2>1. CASE q # p
    BY <1>1, <1>3, <1>4, <1>5, <2>1, AccountKept DEF FallbackIInv
  <2>2. Accounted(p)'
    BY <1>1, <1>3, <1>4, <1>6, AtProvider DEF Accounted, Closed, Open, HalfOpen
  <2> QED
    BY <2>1, <2>2
<1> QED
  BY <1>7, <1>8, <1>9 DEF FallbackIInv

(* A provider fails a request: a failure is one hit that counts no more as  *)
(* under way.                                                               *)
LEMMA FailOverInv ==
  ASSUME FallbackAssumption, FallbackIInv, NEW r \in Requests, FailOver(r)
  PROVE  FallbackIInv'
<1>1. PICK p \in Providers :
        /\ request[r].at = "doomed" /\ request[r].p = p
        /\ request \in [Requests -> Request]
        /\ request' = [request EXCEPT ![r] = [at |-> "try", p |-> p + 1]]
        /\ RecordFailure(p) /\ UNCHANGED <<up, outages, hits>>
  BY DEF FailOver, FallbackIInv, FallbackTypeOK, AtProviders, Request
<1>2. /\ p + 1 \in 1..Last + 1 /\ request' \in [Requests -> Request]
      /\ request'[r] = [at |-> "try", p |-> p + 1]
      /\ \A q \in Requests \ {r} : request'[q] = request[q]
  <2>1. p + 1 \in 1..Last + 1 /\ [at |-> "try", p |-> p + 1] \in Request
    BY <1>1 DEF FallbackAssumption, Providers, Request
  <2> QED
    BY <1>1, <2>1
<1>3. /\ Outstanding(p)' = Outstanding(p) - 1 /\ Outstanding(p)' \in Nat
      /\ \A q : q # p => Waiting(q)' = Waiting(q)
  <2>1. request[r].at \in {"wait", "doomed"} /\ request'[r].at \notin {"wait", "doomed"}
    BY <1>1, <1>2
  <2> QED
    BY <1>1, <1>2, <2>1, OneLess
<1>4. /\ failures' \in [Providers -> 0..FailureThreshold]
      /\ failures'[p] = Least(failures[p] + 1, FailureThreshold)
      /\ cooled' \in [Providers -> BOOLEAN] /\ cooled'[p] = FALSE
  BY <1>1, AtProvider DEF RecordFailure, Least, FallbackIInv, FallbackTypeOK
<1>5. /\ state' \in [Providers -> {"closed", "open", "half-open"}]
      /\ successes' \in [Providers -> 0..HalfOpenRequests - 1]
      /\ attempts' \in [Providers -> 0..HalfOpenRequests]
  <2>1. /\ state \in [Providers -> {"closed", "open", "half-open"}]
        /\ successes \in [Providers -> 0..HalfOpenRequests - 1]
        /\ attempts \in [Providers -> 0..HalfOpenRequests]
    BY DEF FallbackIInv, FallbackTypeOK
  <2>2. 0 \in 0..HalfOpenRequests - 1 /\ 0 \in 0..HalfOpenRequests
    BY DEF FallbackAssumption
  <2>3. CASE state[p] = "half-open"
    BY <1>1, <2>1, <2>2, <2>3 DEF RecordFailure
  <2>4. CASE state[p] # "half-open"
    <3>1. \E x \in {"open", state[p]} : state' = [state EXCEPT ![p] = x]
      BY <1>1, <2>4 DEF RecordFailure
    <3>2. UNCHANGED <<successes, attempts>>
      BY <1>1, <2>4 DEF RecordFailure
    <3> QED
      BY <2>1, <3>1, <3>2
  <2> QED
    BY <2>3, <2>4
<1>6. \A q \in Providers \ {p} :
        UNCHANGED <<state[q], failures[q], successes[q], attempts[q], cooled[q], hits[q]>>
  BY <1>1 DEF RecordFailure, FallbackIInv, FallbackTypeOK
<1>7. \/ state'[p] = "open"
      \/ state'[p] = "closed" /\ state[p] = "closed" /\ failures'[p] < FailureThreshold
  <2>1. state \in [Providers -> {"closed", "open", "half-open"}]
    BY DEF FallbackIInv, FallbackTypeOK
  <2>2. CASE state[p] = "half-open" \/ failures'[p] >= FailureThreshold
    <3>1. state' = [state EXCEPT ![p] = "open"]
      BY <1>1, <2>2 DEF RecordFailure
    <3> QED
      BY <2>1, <3>1
  <2>3. CASE state[p] # "half-open" /\ ~(failures'[p] >= FailureThreshold)
    <3>1. state' = state
      BY <1>1, <2>1, <2>3 DEF RecordFailure
    <3>2. failures'[p] < FailureThreshold
      BY <1>4, <2>3 DEF FallbackAssumption
    <3> QED
      BY <2>1, <2>3, <3>1, <3>2
  <2> QED
    BY <2>2, <2>3
<1>8. FallbackTypeOK'
  BY <1>1, <1>2, <1>4, <1>5 DEF FallbackIInv, FallbackTypeOK, Request
<1>9. AtProviders'
  BY <1>2 DEF FallbackIInv, AtProviders
<1>10. Accounted(p)'
  <2>1. hits'[p] = hits[p] /\ hits[p] <= FailureThreshold - 1 + Cardinality(Requests)
    BY <1>1, AccountedSuffices DEF NotHammered
  <2>2. CASE state'[p] = "open"
    BY <1>4, <2>1, <2>2 DEF Accounted, Open
  <2>3. CASE state'[p] = "closed" /\ state[p] = "closed" /\ failures'[p] < FailureThreshold
    <3>1. failures'[p] = failures[p] + 1
      BY <1>4, <2>3, AtProvider DEF Least
    <3>2. hits'[p] <= failures'[p] + Outstanding(p)'
      BY <1>3, <2>1, <2>3, <3>1, AtProvider DEF Accounted, Closed
    <3> QED
      BY <2>3, <3>2 DEF Accounted, Closed
  <2> QED
    BY <1>7, <2>2, <2>3
<1>11. ASSUME NEW q \in Providers \ {p} PROVE Accounted(q)'
  BY <1>3, <1>6, AccountKept DEF FallbackIInv
<1> QED
  BY <1>8, <1>9, <1>10, <1>11 DEF FallbackIInv

(* Time passes, and nothing was hit since.                                  *)
LEMMA CoolInv == ASSUME FallbackAssumption, FallbackIInv, NEW p \in Providers, Cool(p) PROVE FallbackIInv'
<1>1. /\ cooled' \in [Providers -> BOOLEAN] /\ hits' \in [Providers -> Nat] /\ hits'[p] = 0
      /\ \A q \in Providers \ {p} : UNCHANGED <<cooled[q], hits[q]>>
      /\ UNCHANGED <<state, failures, successes, attempts, request, up, outages>>
  BY DEF Cool, breakers, FallbackIInv, FallbackTypeOK
<1>2. FallbackTypeOK' /\ AtProviders'
  BY <1>1 DEF FallbackIInv, FallbackTypeOK, AtProviders
<1>3. \A q : Waiting(q)' = Waiting(q)
  BY <1>1 DEF Waiting
<1>4. Accounted(p)'
  BY <1>1, <1>3, AtProvider DEF Accounted, Closed, Open, HalfOpen, Outstanding
<1>5. ASSUME NEW q \in Providers \ {p} PROVE Accounted(q)'
  BY <1>1, <1>3, AccountKept DEF FallbackIInv
<1> QED
  BY <1>2, <1>4, <1>5 DEF FallbackIInv

(* All breakers start again, under the calls that are under way.            *)
LEMMA ResetInv == ASSUME FallbackAssumption, FallbackIInv, Reset PROVE FallbackIInv'
<1>1. FallbackTypeOK'
  BY DEF FallbackAssumption, Reset, FallbackIInv, FallbackTypeOK
<1>2. AtProviders'
  BY DEF Reset, FallbackIInv, AtProviders
<1>3. ASSUME NEW p \in Providers PROVE Accounted(p)'
  <2>1. Outstanding(p)' = Outstanding(p) /\ Outstanding(p) \in Nat
    BY OutstandingBounded DEF Reset, Outstanding, Waiting
  <2> QED
    BY <2>1 DEF FallbackAssumption, Reset, Accounted, Closed
<1> QED
  BY <1>1, <1>2, <1>3 DEF FallbackIInv

(* An outage dooms those who wait, who wait on; a return changes nothing.   *)
LEMMA OutageInv ==
  ASSUME FallbackAssumption, FallbackIInv, NEW p \in Providers, GoDown(p) \/ ComeBack(p)
  PROVE  FallbackIInv'
<1>1. /\ UNCHANGED <<state, failures, successes, attempts, cooled, hits>>
      /\ up' \subseteq Providers /\ outages' \in 0..MaxOutages
  BY DEF GoDown, ComeBack, breakers, FallbackIInv, FallbackTypeOK, FallbackAssumption
<1>2. /\ request' \in [Requests -> Request]
      /\ \A r \in Requests : /\ request'[r].p = request[r].p
                             /\ \/ request'[r] = request[r]
                                \/ request'[r].at = "doomed" /\ request[r].at \in {"wait", "doomed"}
  <2>1. CASE ComeBack(p)
    BY <2>1 DEF ComeBack, FallbackIInv, FallbackTypeOK, Request
  <2>2. CASE GoDown(p)
    <3>1. [at |-> "doomed", p |-> p] \in Request /\ request \in [Requests -> Request]
      BY DEF Request, Providers, FallbackIInv, FallbackTypeOK, FallbackAssumption
    <3> QED
      BY <2>2, <3>1 DEF GoDown, Waiting
  <2> QED
    BY <2>1, <2>2
<1>3. FallbackTypeOK'
  BY <1>1, <1>2 DEF FallbackIInv, FallbackTypeOK, Request
<1>4. AtProviders'
  BY <1>2 DEF FallbackIInv, AtProviders
<1>5. \A q : Waiting(q)' = Waiting(q)
  BY <1>2 DEF Waiting
<1>6. \A q \in Providers : Accounted(q)'
  BY <1>1, <1>5, AccountKept DEF FallbackIInv
<1> QED
  BY <1>3, <1>4, <1>6 DEF FallbackIInv

(* Every step keeps it.                                                     *)
LEMMA FallbackNextInv == ASSUME FallbackAssumption, FallbackIInv, [FallbackNext]_fallbackVars PROVE FallbackIInv'
<1>1. CASE UNCHANGED fallbackVars
  <2>1. FallbackTypeOK' /\ AtProviders'
    BY <1>1 DEF fallbackVars, breakers, FallbackIInv, FallbackTypeOK, AtProviders
  <2>2. \A q \in Providers : Accounted(q)'
    BY <1>1, AccountKept DEF fallbackVars, breakers, FallbackIInv, Waiting
  <2> QED
    BY <2>1, <2>2 DEF FallbackIInv
<1>2. CASE \E r \in Requests : Complete(r) \/ RequestStep(r)
  BY <1>2, ElsewhereInv, LetInInv, AnswerInv, FailOverInv DEF RequestStep
<1>3. CASE \E p \in Providers : Cool(p) \/ GoDown(p) \/ ComeBack(p)
  BY <1>3, CoolInv, OutageInv
<1> QED
  BY <1>1, <1>2, <1>3, ResetInv DEF FallbackNext

-----------------------------------------------------------------------------
(* However many requests overlap and however late their outcomes come, a    *)
(* half-open breaker that admits nobody has a call under way that will move *)
(* it (execute in provider-fallback.ts).                                    *)
THEOREM NoBreakerStranded == ASSUME FallbackAssumption PROVE FallbackSpec => []ProbeOutstanding
<1>1. FallbackInit => FallbackIInv
  BY FallbackInitInv
<1>2. FallbackIInv /\ [FallbackNext]_fallbackVars => FallbackIInv'
  BY FallbackNextInv
<1>3. FallbackIInv => ProbeOutstanding
  BY AccountedSuffices
<1> QED
  BY <1>1, <1>2, <1>3, PTL DEF FallbackSpec

(* "CircuitBreaker prevents hammering a down provider": until it answers or *)
(* cools down it gets no more calls than failures that open the breaker and *)
(* calls that were under way (provider-fallback.ts).                        *)
THEOREM ProvidersSpared == ASSUME FallbackAssumption PROVE FallbackSpec => []NotHammered
<1>1. FallbackInit => FallbackIInv
  BY FallbackInitInv
<1>2. FallbackIInv /\ [FallbackNext]_fallbackVars => FallbackIInv'
  BY FallbackNextInv
<1>3. FallbackIInv => NotHammered
  BY AccountedSuffices
<1> QED
  BY <1>1, <1>2, <1>3, PTL DEF FallbackSpec
=============================================================================
