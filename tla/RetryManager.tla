----------------------------- MODULE RetryManager -----------------------------
(***************************************************************************)
(* core/agent-lifecycle/src/retry-manager.ts: concurrent executeWithRetry  *)
(* calls of one manager, which share its counter of attempts.  A call runs *)
(* fn, then returns, throws, or waits out a delay and runs fn again.       *)
(***************************************************************************)
EXTENDS Integers, FiniteSets

CONSTANTS Calls,        \* executeWithRetry calls, each made once
          MaxAttempts,  \* config.maxAttempts
          Delays        \* the number of delays in config.backoffMs

(* What the constants must satisfy.                                         *)
RetryAssumption == MaxAttempts \in Nat \ {0} /\ Delays \in Nat \ {0}

VARIABLES attempts,   \* shared by all calls
          call,       \* where each call is
          delay       \* the index of the delay a call waited last, 0 for none

vars == <<attempts, call, delay>>

-----------------------------------------------------------------------------
Init == /\ attempts = 0
        /\ call = [c \in Calls |-> "new"]
        /\ delay = [c \in Calls |-> 0]

(* getBackoffMs: the delay at the index of the attempts made.               *)
BackoffIndex(n) == IF n >= Delays THEN Delays ELSE n + 1

CanRetry(n) == n < MaxAttempts

(* fn is called: at first, or after a delay.                                *)
Run(c) == /\ call[c] \in {"new", "waiting"}
          /\ call' = [call EXCEPT ![c] = "running"]
          /\ UNCHANGED <<attempts, delay>>

(* fn succeeds: the counter of all calls is reset.                          *)
Return(c) == /\ call[c] = "running"
             /\ call' = [call EXCEPT ![c] = "returned"]
             /\ attempts' = 0
             /\ UNCHANGED delay

(* Mutant: a failure is not recorded while the call goes on.                *)
CatchUnrecorded(c) ==
  /\ call[c] = "running"
  /\ IF CanRetry(attempts + 1)
     THEN /\ call' = [call EXCEPT ![c] = "waiting"]
          /\ UNCHANGED <<attempts, delay>>
     ELSE /\ call' = [call EXCEPT ![c] = "thrown"]
          /\ attempts' = attempts + 1
          /\ UNCHANGED delay

(* fn fails: the attempt is recorded first, then the limit and the delay    *)
(* are read from the counter.                                               *)
Catch(c) ==
  /\ call[c] = "running"
  /\ attempts' = attempts + 1
  /\ IF CanRetry(attempts')
     THEN /\ call' = [call EXCEPT ![c] = "waiting"]
          /\ delay' = [delay EXCEPT ![c] = BackoffIndex(attempts')]
     ELSE /\ call' = [call EXCEPT ![c] = "thrown"]
          /\ UNCHANGED delay

Next == \E c \in Calls : Run(c) \/ Return(c) \/ Catch(c)

Spec == Init /\ [][Next]_vars

(* fn settles sooner or later, and so does every delay.                     *)
FairSpec == Spec /\ \A c \in Calls : WF_vars(Run(c) \/ Return(c) \/ Catch(c))

-----------------------------------------------------------------------------
(* The shared counter goes no further than the failures of calls that were  *)
(* running when it reached the limit.                                       *)
TypeOK == /\ attempts \in 0..(MaxAttempts + Cardinality(Calls) - 1)
          /\ call \in [Calls -> {"new", "running", "waiting", "returned", "thrown"}]
          /\ delay \in [Calls -> 0..Delays]

(* Every call ends, also when the successes of others renew its retries.    *)
EveryCallEnds == \A c \in Calls : <>[](call[c] \in {"returned", "thrown"})
=============================================================================
