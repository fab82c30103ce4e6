----------------------------- MODULE ToolBreaker -----------------------------
(***************************************************************************)
(* core/mcp-framework/src: the circuit breaker of one tool                 *)
(* (circuit-breaker.ts) under callTool (server.ts), which lets concurrent  *)
(* calls in, awaits the handler against a timeout and reports the outcome  *)
(* whenever it comes.  Every tool has a breaker of its own.                *)
(***************************************************************************)
EXTENDS Integers, FiniteSets, Sequences

CONSTANTS Calls,        \* identities for concurrent callTool calls
          MaxFailures,  \* config.maxFailures
          WindowMs,     \* config.windowMs, in clock ticks
          ResetMs,      \* config.resetMs, in clock ticks
          Timeout,      \* timeout.defaultMs, in clock ticks
          MaxNow,       \* bound on the clock
          MaxStreak,    \* bound on the failures in a row, the pending included
          Idle          \* the state of a call identity that is not in use

(* What the constants must satisfy.                                         *)
BreakerAssumption ==
  /\ MaxFailures \in Nat \ {0}
  /\ WindowMs \in Nat
  /\ ResetMs \in Nat
  /\ Timeout \in Nat
  /\ MaxNow \in Nat
  /\ MaxStreak \in Nat
  /\ Idle \notin Nat

VARIABLES now,       \* Date.now(), in ticks
          state,     \* state
          failures,  \* the times of the failures that count
          openedAt,  \* openedAt
          call,      \* when each call in progress was let in
          streak     \* the times of all failures since the last success

vars == <<now, state, failures, openedAt, call, streak>>

States == {"closed", "open", "half-open"}

-----------------------------------------------------------------------------
Init == /\ now = 0
        /\ state = "closed"
        /\ failures = <<>>
        /\ openedAt = 0
        /\ call = [c \in Calls |-> Idle]
        /\ streak = <<>>

(* The timer of a call fires when it is due.                                *)
Tick == /\ now < MaxNow
        /\ \A c \in Calls : call[c] # Idle => now - call[c] < Timeout
        /\ now' = now + 1
        /\ UNCHANGED <<state, failures, openedAt, call, streak>>

(* checkHalfOpen                                                            *)
HalfOpened == IF state = "open" /\ now - openedAt >= ResetMs
              THEN "half-open" ELSE state

(* callTool: isOpen() first; a call that is let in awaits the handler.      *)
CallTool(c) ==
  /\ call[c] = Idle
  /\ Len(streak) + Cardinality({d \in Calls : call[d] # Idle}) < MaxStreak
  /\ state' = HalfOpened
  /\ call' = [call EXCEPT ![c] = IF HalfOpened = "open" THEN Idle ELSE now]
  /\ UNCHANGED <<now, failures, openedAt, streak>>

(* getState() from outside.                                                 *)
GetState == /\ state' = HalfOpened
            /\ UNCHANGED <<now, failures, openedAt, call, streak>>

(* Mutant: a failure on the edge of the window is dropped.                  *)
RecentInside(s, t) ==
  LET old == CHOOSE n \in 0..Len(s) : \A i \in DOMAIN s : s[i] > t - WindowMs <=> i > n
  IN  SubSeq(s, old + 1, Len(s))

(* The failures the window still holds at time t: failures come in order of *)
(* time, so filtering out the old ones drops the first ones.                *)
Recent(s, t) ==
  LET old == CHOOSE n \in 0..Len(s) : \A i \in DOMAIN s : s[i] >= t - WindowMs <=> i > n
  IN  SubSeq(s, old + 1, Len(s))

GetFailureCount == /\ failures' = Recent(failures, now)
                   /\ UNCHANGED <<now, state, openedAt, call, streak>>

(* The handler answers in time.                                             *)
RecordSuccess(c) ==
  /\ call[c] # Idle
  /\ failures' = <<>>
  /\ state' = "closed"
  /\ call' = [call EXCEPT ![c] = Idle]
  /\ streak' = <<>>
  /\ UNCHANGED <<now, openedAt>>

(* The handler throws, or its timer fires.                                  *)
RecordFailure(c) ==
  /\ call[c] # Idle
  /\ failures' = Recent(Append(failures, now), now)
  /\ IF Len(failures') >= MaxFailures
     THEN state' = "open" /\ openedAt' = now
     ELSE UNCHANGED <<state, openedAt>>
  /\ call' = [call EXCEPT ![c] = Idle]
  /\ streak' = Append(streak, now)
  /\ UNCHANGED now

(* reset(), while calls are under way.                                      *)
Reset == /\ failures' = <<>>
         /\ state' = "closed"
         /\ openedAt' = 0
         /\ streak' = <<>>
         /\ UNCHANGED <<now, call>>

Next == \/ Tick
        \/ GetState
        \/ Reset
        \/ GetFailureCount
        \/ \E c \in Calls : CallTool(c) \/ RecordSuccess(c) \/ RecordFailure(c)

Spec == Init /\ [][Next]_vars

-----------------------------------------------------------------------------
TypeOK == /\ now \in Nat
          /\ state \in States
          /\ failures \in Seq(0..now)
          /\ openedAt \in 0..now
          /\ call \in [Calls -> 0..now \cup {Idle}]
          /\ streak \in Seq(0..now)

(* Since the last success there were MaxFailures failures in a row that one *)
(* window holds, and the cooldown after them is not over.                   *)
Tripped ==
  \E k \in MaxFailures..Len(streak) :
     /\ streak[k] - streak[k - MaxFailures + 1] <= WindowMs
     /\ now - streak[k] < ResetMs

(* Calls are turned away exactly when the outcomes recorded so far say so,  *)
(* however the calls that produced them overlapped, whatever was asked of   *)
(* the breaker in between, and through any number of half-open periods.     *)
RejectsExactly == HalfOpened = "open" <=> Tripped
=============================================================================
