------------------------------ MODULE MCRecovery ------------------------------
(* The components that must come back to what is right by themselves: the    *)
(* saga coordinator, and beside it the provider fallback, the retries and    *)
(* the cached scores.  A behaviour chooses a part at the start and takes     *)
(* steps of that part only.                                                  *)
EXTENDS SagaCoordinator, ProviderFallback

CONSTANTS Calls, None    \* of the retries and of the scores

VARIABLES part,
          made, retryCall, delay,
          version, pending, recheck, cache, history, call

retryVars == <<made, retryCall, delay>>
qualityVars == <<version, pending, recheck, cache, history, call>>

Retries == INSTANCE RetryManager WITH MaxAttempts <- 3, Delays <- 3, attempts <- made, call <- retryCall
Quality == INSTANCE QualityScores WITH MaxVersion <- 3, StoreFails <- TRUE

ASSUME Assumptions == FallbackAssumption /\ Retries!RetryAssumption

NoSaga == /\ sagaStatus = "pending" /\ stepStatus = <<>> /\ current = 1 /\ undoable = {} /\ retries = 0
          /\ working = {} /\ done = {} /\ undone = <<>> /\ reported = <<>>

RecoveryInit == /\ part \in {"saga", "fallback", "retry", "quality"}
                /\ Quality!Init
                /\ FallbackInit
                /\ IF part = "saga" THEN Init ELSE NoSaga
                /\ IF part = "retry" THEN Retries!Init
                   ELSE made = 0 /\ retryCall = [c \in Calls |-> "returned"] /\ delay = [c \in Calls |-> 0]

RecoveryNext == \/ part = "saga" /\ Next /\ UNCHANGED <<part, fallbackVars, retryVars, qualityVars>>
                \/ part = "fallback" /\ FallbackNext /\ UNCHANGED <<part, vars, retryVars, qualityVars>>
                \/ part = "retry" /\ Retries!Next /\ UNCHANGED <<part, vars, fallbackVars, qualityVars>>
                \/ part = "quality" /\ Quality!Next /\ UNCHANGED <<part, vars, fallbackVars, retryVars>>

(* The fairness of each component, in the behaviours of its part.            *)
RecoveryFairness ==
  /\ WF_vars(part = "saga" /\ Progress)
  /\ \A r \in Requests : WF_fallbackVars(part = "fallback" /\ (Complete(r) \/ RequestStep(r)))
  /\ \A p \in Providers : WF_fallbackVars(part = "fallback" /\ Cool(p))
  /\ \A c \in Calls : WF_retryVars(part = "retry" /\ (Retries!Run(c) \/ Retries!Return(c) \/ Retries!Catch(c)))
  /\ WF_qualityVars(part = "quality" /\ Quality!Expire)

RecoverySpec ==
  RecoveryInit /\ [][RecoveryNext]_<<part, vars, fallbackVars, retryVars, qualityVars>> /\ RecoveryFairness

-------------------------------------------------------------------------------
(* retry-manager.ts: every call of executeWithRetry ends.                    *)
EveryCallEnds == Retries!EveryCallEnds

(* get-quality-score.ts: no score outlives its table's version for long.     *)
StaleEnds == Quality!StaleEnds
===============================================================================
