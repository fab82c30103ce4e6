----------------------------- MODULE AgentGuards -----------------------------
(* What core/conflict-resolution puts before an agent's actions: the hourly   *)
(* limit of confidence-cascade.ts and the breaker of agent-circuit-breaker.ts. *)
(* Both keep their entries per agent, so one agent is enough.                 *)
EXTENDS Integers, FiniteSets, Sequences

CONSTANTS
    MaxActions,   \* maxActionsPerHour
    Hour,         \* 3,600,000 ms
    MaxFailures,  \* failures in a row that open the breaker
    Reset,        \* resetMs
    MaxClock,     \* bound on the clock
    MaxStreak     \* bound on the failures in a row

VARIABLES
    clock,
    window,   \* actionCounts' entry: count and windowStart
    guard,    \* the breaker's entry: state, failures, openedAt
    acted,    \* when the actions were that were allowed
    inFlight, \* actions that were allowed and have no outcome yet
    inARow    \* failures since the last success or reset, and when the last was

vars == <<clock, window, guard, acted, inFlight, inARow>>

Moments == 0 .. MaxClock

GuardsAssumption ==
    /\ {MaxActions, Hour, MaxFailures} \subseteq Nat \ {0}
    /\ {Reset, MaxClock, MaxStreak} \subseteq Nat

TypeOK ==
    /\ clock \in Moments
    /\ window \in [count : Nat, start : Moments]
    /\ guard \in [state : {"closed", "open", "half-open"}, failures : 0 .. MaxStreak, openedAt : Moments]
    /\ acted \in Seq(Moments)
    /\ inFlight \in Nat
    /\ inARow \in [number : 0 .. MaxStreak, last : Moments]

Fresh == [state |-> "closed", failures |-> 0, openedAt |-> 0]

Init ==
    /\ clock = 0
    /\ window = [count |-> 0, start |-> 0]
    /\ guard = Fresh
    /\ acted = <<>>
    /\ inFlight = 0
    /\ inARow = [number |-> 0, last |-> 0]

------------------------------------------------------------------------------
\* The entry of a window that is over counts for nothing.
Elapsed == clock - window.start > Hour
RateLimited == ~Elapsed /\ window.count >= MaxActions

RecordAction ==
    window' = IF window.count = 0 \/ Elapsed THEN [count |-> 1, start |-> clock]
              ELSE [window EXCEPT !.count = @ + 1]

\* getState turns an open breaker half-open when it is asked after resetMs.
Asked == [guard EXCEPT !.state = IF @ = "open" /\ clock - guard.openedAt > Reset THEN "half-open" ELSE @]

\* An agent acts if neither guard objects.
Act ==
    /\ guard' = Asked
    /\ IF Asked.state = "open" \/ RateLimited THEN UNCHANGED <<window, acted, inFlight>>
       ELSE /\ RecordAction
            /\ acted' = Append(acted, clock)
            /\ inFlight' = inFlight + 1
    /\ UNCHANGED <<clock, inARow>>

Fail ==
    /\ inFlight > 0 /\ inARow.number < MaxStreak
    /\ guard' = IF guard.failures + 1 < MaxFailures THEN [guard EXCEPT !.failures = @ + 1]
                ELSE [state |-> "open", failures |-> guard.failures + 1, openedAt |-> clock]
    /\ inFlight' = inFlight - 1
    /\ inARow' = [number |-> inARow.number + 1, last |-> clock]
    /\ UNCHANGED <<clock, window, acted>>

\* recordSuccess, and reset after a manual review.
Clear ==
    /\ guard' = Fresh
    /\ inARow' = [number |-> 0, last |-> 0]
    /\ inFlight' \in {inFlight, inFlight - 1} \cap Nat
    /\ UNCHANGED <<clock, window, acted>>

Tick ==
    /\ clock < MaxClock
    /\ clock' = clock + 1
    /\ UNCHANGED <<window, guard, acted, inFlight, inARow>>

Next == Act \/ Fail \/ Clear \/ Tick

Spec == Init /\ [][Next]_vars

------------------------------------------------------------------------------
Between(from, to) == Cardinality({i \in DOMAIN acted : acted[i] \in from .. to})

\* The breaker objects exactly while the last MaxFailures outcomes or more were
\* failures and the latest came no longer than resetMs ago, whenever it was asked
\* before.
ObjectsExactly ==
    Asked.state = "open" <=> inARow.number >= MaxFailures /\ clock - inARow.last <= Reset

\* The limit objects exactly when the window that the clock is in has seen
\* MaxActions.  Windows do not slide: an hour that straddles two of them sees more
\* actions than the limit, but fewer than twice the limit.
HourlyRate ==
    /\ RateLimited <=> ~Elapsed /\ Between(window.start, clock) >= MaxActions
    /\ \A t \in Moments : t + Hour <= clock => Between(t, t + Hour) < 2 * MaxActions
==============================================================================
