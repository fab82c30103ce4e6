-------------------------- MODULE AlertDeduplication --------------------------
(* agents/dw-incidents/src/engine/anomaly-classifier.ts: which of a stream of   *)
(* anomalies raises an alert, and which repeats one.                            *)
EXTENDS Naturals, FiniteSetsExt

CONSTANTS Keys,       \* metric, method and severity of an anomaly
          Window,     \* deduplicationWindowMs
          MaxTime,    \* bound on the clock
          MaxSame,    \* bound on the anomalies of a key in one moment
          Absent

VARIABLES time,
          recentAlerts,  \* per key its entry, or Absent
          seen,          \* per key and moment, how many anomalies came
          raised         \* per key, the moments at which an alert was raised

vars == <<time, recentAlerts, seen, raised>>

Times == 0 .. MaxTime

Entries == [count : Nat \ {0}, firstSeen : Times, lastSeen : Times]

DeduplicationAssumption ==
    Window \in Nat \ {0} /\ {MaxTime, MaxSame} \subseteq Nat /\ Absent \notin Entries

TypeOK ==
    /\ time \in Times
    /\ recentAlerts \in [Keys -> Entries \cup {Absent}]
    /\ seen \in [Keys -> [Times -> Nat]] /\ raised \in [Keys -> SUBSET Times]

Init ==
    /\ time = 0
    /\ recentAlerts = [k \in Keys |-> Absent]
    /\ seen = [k \in Keys |-> [t \in Times |-> 0]] /\ raised = [k \in Keys |-> {}]

-------------------------------------------------------------------------------
Repeats(k) == recentAlerts[k] # Absent /\ time - recentAlerts[k].lastSeen < Window

Classify(k) ==
    /\ seen[k][time] < MaxSame
    /\ seen' = [seen EXCEPT ![k][time] = @ + 1]
    /\ IF Repeats(k)
       THEN /\ recentAlerts' = [recentAlerts EXCEPT ![k].count = @ + 1, ![k].lastSeen = time]
            /\ UNCHANGED raised
       ELSE /\ recentAlerts' = [recentAlerts EXCEPT ![k] = [count |-> 1, firstSeen |-> time, lastSeen |-> time]]
            /\ raised' = [raised EXCEPT ![k] = @ \cup {time}]
    /\ UNCHANGED time

Expired(k) == recentAlerts[k] # Absent /\ time - recentAlerts[k].lastSeen > Window

Cleanup ==
    /\ recentAlerts' = [k \in Keys |-> IF Expired(k) THEN Absent ELSE recentAlerts[k]]
    /\ UNCHANGED <<time, seen, raised>>

Tick == time < MaxTime /\ time' = time + 1 /\ UNCHANGED <<recentAlerts, seen, raised>>

Next == (\E k \in Keys : Classify(k)) \/ Cleanup \/ Tick

Spec == Init /\ [][Next]_vars

-------------------------------------------------------------------------------
\* An anomaly raises an alert exactly if none like it came within the window before
\* it, whenever the entries were cleaned up: one that keeps coming raises one alert
\* only, the one its entry is about.
RaisedExactly ==
    \A k \in Keys :
        /\ raised[k] = {t \in Times : seen[k][t] > 0 /\ \A u \in 0 .. t - 1 : seen[k][u] > 0 => t - u >= Window}
        /\ recentAlerts[k] # Absent => recentAlerts[k].firstSeen = Max(raised[k])

\* How many came in these moments.
Total(came, from, to) ==
    LET sum[t \in from .. to] == came[t] + IF t = from THEN 0 ELSE sum[t - 1]
    IN  sum[to]

\* The entry counts all that came since that alert.
CountsAll ==
    \A k \in Keys : recentAlerts[k] # Absent =>
        recentAlerts[k].count = Total(seen[k], recentAlerts[k].firstSeen, time)
===============================================================================
