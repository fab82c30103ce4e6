--------------------------- MODULE ProviderFallback ---------------------------
(***************************************************************************)
(* core/llm-provider/src/provider-fallback.ts: complete() tries the        *)
(* primary provider and then each fallback, every one behind a breaker of  *)
(* its own.  Requests overlap, and a provider answers when it likes, so an *)
(* outcome may reach a breaker that has changed its state since.           *)
(* The breaker reads the clock only to ask whether resetTimeMs passed      *)
(* since the last failure: cooled says so.                                 *)
(***************************************************************************)
EXTENDS Naturals, FiniteSets

CONSTANTS Requests,          \* identities for concurrent complete() calls
          Last,              \* the number of providers; 1 is the primary
          FailureThreshold,  \* config.failureThreshold
          HalfOpenRequests,  \* config.halfOpenRequests
          MaxOutages,        \* bound on the times a provider goes down
          MayReset           \* whether reset() may be called

Providers == 1..Last

(* What the constants must satisfy.                                         *)
FallbackAssumption ==
  /\ Last \in Nat \ {0}
  /\ FailureThreshold \in Nat \ {0}
  /\ HalfOpenRequests \in Nat \ {0}
  /\ MaxOutages \in Nat
  /\ MayReset \in BOOLEAN
  /\ IsFiniteSet(Requests)

VARIABLES state,      \* the state of each provider's breaker
          failures,   \* failures, no further than the threshold
          successes,  \* successes
          attempts,   \* halfOpenAttempts
          cooled,     \* whether resetTimeMs passed since lastFailureTime
          request,    \* where each request is
          up,         \* the providers that answer
          outages,    \* how often a provider went down
          hits        \* calls to each provider since it last answered or cooled

breakers == <<state, failures, successes, attempts>>
fallbackVars == <<breakers, cooled, request, up, outages, hits>>

Idle == [at |-> "idle", p |-> 0]

(* The requests awaiting provider p; a doomed one met its outage.           *)
Waiting(p) == {r \in Requests : /\ request[r].at \in {"wait", "doomed"}
                                /\ request[r].p = p}

-----------------------------------------------------------------------------
FallbackInit == /\ state = [p \in Providers |-> "closed"]
                /\ failures = [p \in Providers |-> 0]
                /\ successes = [p \in Providers |-> 0]
                /\ attempts = [p \in Providers |-> 0]
                /\ cooled = [p \in Providers |-> TRUE]
                /\ request = [r \in Requests |-> Idle]
                /\ up = Providers
                /\ outages = 0
                /\ hits = [p \in Providers |-> 0]

Complete(r) ==
  /\ request[r] = Idle
  /\ request' = [request EXCEPT ![r] = [at |-> "try", p |-> 1]]
  /\ UNCHANGED <<breakers, cooled, up, outages, hits>>

(* Mutants: an open breaker lets nobody in; an open breaker lets everybody  *)
(* in.                                                                      *)
RejectsForEver(p) ==
  \/ state[p] = "open"
  \/ state[p] = "half-open" /\ attempts[p] >= HalfOpenRequests
RejectsHalfOpen(p) == state[p] = "half-open" /\ attempts[p] >= HalfOpenRequests

(* The two early throws of execute.                                         *)
Rejects(p) ==
  \/ state[p] = "open" /\ ~ cooled[p]
  \/ state[p] = "half-open" /\ attempts[p] >= HalfOpenRequests

(* execute turns the request away: the loop goes on to the next provider.   *)
TurnAway(r) ==
  /\ request[r].at = "try"
  /\ request[r].p \in Providers
  /\ Rejects(request[r].p)
  /\ request' = [request EXCEPT ![r].p = @ + 1]
  /\ UNCHANGED <<breakers, cooled, up, outages, hits>>

(* execute lets the request in: it awaits the provider.                     *)
LetIn(r) ==
  LET p == request[r].p IN
  /\ request[r].at = "try"
  /\ p \in Providers
  /\ ~ Rejects(p)
  /\ request' = [request EXCEPT ![r].at = IF p \in up THEN "wait" ELSE "doomed"]
  /\ IF state[p] = "closed"
     THEN UNCHANGED <<state, attempts>>
     ELSE /\ state' = [state EXCEPT ![p] = "half-open"]
          /\ attempts' = [attempts EXCEPT ![p] =
                            IF state[p] = "open" THEN 1 ELSE @ + 1]
  /\ hits' = [hits EXCEPT ![p] = @ + 1]
  /\ UNCHANGED <<failures, successes, cooled, up, outages>>

(* No provider is left: complete throws.                                    *)
Exhausted(r) == /\ request[r].at = "try"
                /\ request[r].p > Last
                /\ request' = [request EXCEPT ![r] = Idle]
                /\ UNCHANGED <<breakers, cooled, up, outages, hits>>

(* Mutant: the success at hand is not counted.                              *)
RecoveredLate(p) == successes[p] >= HalfOpenRequests

(* The probes that succeeded, this one included, are enough.                *)
Recovered(p) == successes[p] + 1 >= HalfOpenRequests

RecordSuccess(p) ==
  \/ /\ state[p] = "half-open"
     /\ ~ Recovered(p)
     /\ successes' = [successes EXCEPT ![p] = @ + 1]
     /\ UNCHANGED <<state, failures, attempts>>
  \/ /\ state[p] = "half-open"
     /\ Recovered(p)
     /\ state' = [state EXCEPT ![p] = "closed"]
     /\ failures' = [failures EXCEPT ![p] = 0]
     /\ successes' = [successes EXCEPT ![p] = 0]
     /\ attempts' = [attempts EXCEPT ![p] = 0]
  \/ /\ state[p] # "half-open"
     /\ failures' = [failures EXCEPT ![p] = 0]
     /\ UNCHANGED <<state, successes, attempts>>

Least(m, n) == IF m < n THEN m ELSE n

RecordFailure(p) ==
  /\ failures' = [failures EXCEPT ![p] = Least(@ + 1, FailureThreshold)]
  /\ cooled' = [cooled EXCEPT ![p] = FALSE]
  /\ IF state[p] = "half-open"
     THEN /\ state' = [state EXCEPT ![p] = "open"]
          /\ successes' = [successes EXCEPT ![p] = 0]
          /\ attempts' = [attempts EXCEPT ![p] = 0]
     ELSE /\ state' = [state EXCEPT ![p] =
                         IF failures'[p] >= FailureThreshold THEN "open" ELSE @]
          /\ UNCHANGED <<successes, attempts>>

(* The provider answers a request, which returns.                           *)
Answer(r) ==
  LET p == request[r].p IN
  /\ r \in Waiting(p)
  /\ p \in up
  /\ request' = [request EXCEPT ![r] = Idle]
  /\ hits' = [hits EXCEPT ![p] = 0]
  /\ RecordSuccess(p)
  /\ UNCHANGED <<cooled, up, outages>>

(* The provider fails a request it got or had when it was down, perhaps     *)
(* when it is back already; the request goes on to the next provider.       *)
FailOver(r) ==
  LET p == request[r].p IN
  /\ request[r].at = "doomed"
  /\ request' = [request EXCEPT ![r] = [at |-> "try", p |-> p + 1]]
  /\ RecordFailure(p)
  /\ UNCHANGED <<up, outages, hits>>

(* resetTimeMs passed since the last failure of p.                          *)
Cool(p) == /\ ~ cooled[p]
           /\ cooled' = [cooled EXCEPT ![p] = TRUE]
           /\ hits' = [hits EXCEPT ![p] = 0]
           /\ UNCHANGED <<breakers, request, up, outages>>

(* reset(), while requests are under way.                                   *)
Reset == /\ MayReset
         /\ state' = [p \in Providers |-> "closed"]
         /\ failures' = [p \in Providers |-> 0]
         /\ successes' = [p \in Providers |-> 0]
         /\ attempts' = [p \in Providers |-> 0]
         /\ cooled' = [p \in Providers |-> TRUE]
         /\ hits' = [p \in Providers |-> 0]
         /\ UNCHANGED <<request, up, outages>>

GoDown(p) == /\ p \in up
             /\ outages < MaxOutages
             /\ up' = up \ {p}
             /\ outages' = outages + 1
             /\ request' = [r \in Requests |->
                              IF r \in Waiting(p)
                              THEN [at |-> "doomed", p |-> p] ELSE request[r]]
             /\ UNCHANGED <<breakers, cooled, hits>>

ComeBack(p) == /\ p \notin up
               /\ up' = up \cup {p}
               /\ UNCHANGED <<breakers, cooled, request, outages, hits>>

RequestStep(r) == \/ TurnAway(r) \/ LetIn(r) \/ Exhausted(r)
                  \/ Answer(r) \/ FailOver(r)

FallbackNext == \/ \E r \in Requests : Complete(r) \/ RequestStep(r)
                \/ \E p \in Providers : Cool(p) \/ GoDown(p) \/ ComeBack(p)
                \/ Reset

FallbackSpec == FallbackInit /\ [][FallbackNext]_fallbackVars

(* Requests keep coming, every provider settles the calls it has, and time  *)
(* passes.                                                                  *)
FallbackFairness == /\ \A r \in Requests : WF_fallbackVars(Complete(r) \/ RequestStep(r))
                    /\ \A p \in Providers : WF_fallbackVars(Cool(p))

FallbackFairSpec == FallbackSpec /\ FallbackFairness

-----------------------------------------------------------------------------
FallbackTypeOK ==
  /\ state \in [Providers -> {"closed", "open", "half-open"}]
  /\ failures \in [Providers -> 0..FailureThreshold]
  /\ successes \in [Providers -> 0..HalfOpenRequests - 1]
  /\ attempts \in [Providers -> 0..HalfOpenRequests]
  /\ cooled \in [Providers -> BOOLEAN]
  /\ request \in [Requests -> [at : {"idle", "try", "wait", "doomed"}, p : 0..Last + 1]]
  /\ up \subseteq Providers
  /\ outages \in 0..MaxOutages
  /\ hits \in [Providers -> Nat]

(* A half-open breaker that lets nobody in any more has a call under way    *)
(* whose outcome will move it: late outcomes of earlier calls never use up  *)
(* its probes and leave it half-open for ever.                              *)
ProbeOutstanding ==
  \A p \in Providers :
     state[p] = "half-open" /\ attempts[p] >= HalfOpenRequests
        => Waiting(p) # {}

(* "CircuitBreaker prevents hammering a down provider": until it answers or *)
(* cools down, a provider gets no more calls than the failures that open    *)
(* its breaker and those under way at that moment.                          *)
NotHammered ==
  \A p \in Providers :
     hits[p] <= FailureThreshold - 1 + Cardinality(Requests)

(* A primary provider that answers again for good is in use again.          *)
PrimaryReturns == <>[](1 \in up) => []<>(state[1] = "closed")
=============================================================================
