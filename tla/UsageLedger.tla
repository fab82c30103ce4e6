------------------------------ MODULE UsageLedger ------------------------------
(* The hash chain over the usage events of agents/dw-usage-intelligence: what  *)
(* event-ingester.ts and ingest-otel-spans.ts write to usage_events, and what  *)
(* the two tools that verify the chain make of it, while rows get lost in the  *)
(* database and the process starts again.  A hash is the set of the ids it was *)
(* computed from: ids grow, so the set tells their order, and two hashes are   *)
(* equal only by equal histories.                                              *)
EXTENDS Integers, FiniteSets

CONSTANTS
    Agents,
    Times,      \* the timestamps, in units of the second a log entry may lag
    MaxEvents,  \* bound on the events ingested
    Limits      \* the limits a reader of the log may ask for

\* What the constants must satisfy.
LedgerAssumption == Times \subseteq Nat /\ MaxEvents \in Nat /\ Limits \subseteq Nat \ {0}

Genesis == {}

VARIABLES
    rows,       \* the table usage_events; the ids are in the order of the inserts
    lastHash,   \* EventIngester.lastHash
    ingested,   \* ghost: every row that was inserted
    chained     \* ghost: no span was ingested and the process never restarted

vars == <<rows, lastHash, ingested, chained>>

Init == rows = {} /\ lastHash = Genesis /\ ingested = {} /\ chained = TRUE

Row(a, t, previous) ==
    LET id == Cardinality(ingested) + 1
    IN  [id |-> id, agent |-> a, time |-> t, previous |-> previous, hash |-> previous \cup {id}]

Insert(row) ==
    /\ Cardinality(ingested) < MaxEvents
    /\ rows' = rows \cup {row}
    /\ ingested' = ingested \cup {row}

\* ingest: the hash is computed and the row inserted before the first await.
Ingest(a, t) ==
    LET row == Row(a, t, lastHash)
    IN  /\ Insert(row)
        /\ lastHash' = row.hash
        /\ UNCHANGED chained

\* One span of ingest_otel_spans: its row follows the genesis hash.
IngestSpan(a, t) ==
    /\ Insert(Row(a, t, Genesis))
    /\ chained' = FALSE
    /\ UNCHANGED lastHash

\* A new EventIngester begins with the genesis hash, whatever the table holds.
Restart ==
    /\ lastHash' = Genesis
    /\ chained' = FALSE
    /\ UNCHANGED <<rows, ingested>>

Lose(row) ==
    /\ rows' = rows \ {row}
    /\ UNCHANGED <<lastHash, ingested, chained>>

Next ==
    \/ \E a \in Agents, t \in Times : Ingest(a, t) \/ IngestSpan(a, t)
    \/ Restart
    \/ \E row \in rows : Lose(row)

Spec == Init /\ [][Next]_vars

-------------------------------------------------------------------------------
\* The order of the timestamps, for one time that of the inserts.
Before(r, q) == r.time < q.time \/ (r.time = q.time /\ r.id < q.id)

\* Which rows follow each other once the rows S are sorted.
Links(S) == {l \in S \X S : Before(l[1], l[2]) /\ ~\E r \in S : Before(l[1], r) /\ Before(r, l[2])}

Linked(l) == l[2].previous = l[1].hash

Of(S, a) == {r \in S : r.agent = a}

\* A plausible bug: the loop starts one pair too late.
ValidLate(a) ==
    \A l \in Links(Of(rows, a)) : (\E r \in Of(rows, a) : Before(r, l[1])) => Linked(l)

\* verify_global_hash_chain for one agent.
Valid(a) == \A l \in Links(Of(rows, a)) : Linked(l)

\* get_usage_activity_log: the entries since the cutoff, of one agent if asked
\* for, the most recent ones; a broken link counts between close entries only.
Entries(agents, cutoff, limit) ==
    LET since == {r \in rows : r.time >= cutoff /\ r.agent \in agents}
    IN  {r \in since : Cardinality({q \in since : Before(r, q)}) < limit}

ChainIntegrity(agents, cutoff, limit) ==
    \A a \in agents :
        \A l \in Links(Of(Entries(agents, cutoff, limit), a)) : Linked(l) \/ l[2].time - l[1].time >= 1

-------------------------------------------------------------------------------
TypeOK ==
    /\ rows \subseteq ingested
    /\ \A r \in ingested : r.hash = r.previous \cup {r.id} /\ r.hash \subseteq 1 .. r.id
    /\ lastHash \subseteq 1 .. Cardinality(ingested)
    /\ Cardinality(ingested) <= MaxEvents

InOrder(S) == \A r, q \in S : r.id < q.id => r.time <= q.time

\* What the verification of an agent's events is worth.  If it says "valid", no
\* event is lost that a later one of the agent's was chained to, unless all of
\* the agent's before it are lost as well.  It says so of a ledger that one agent
\* filled in the order of the timestamps and of which nothing in between was
\* lost.  And the activity log calls no stretch of the agent's events broken
\* that the verification calls valid.
GapsAreFound ==
    \A a \in Agents :
        LET mine == Of(rows, a)
            lost == {r \in ingested \ rows : /\ \E q \in mine : r.id \in q.previous
                                             /\ \E p \in mine : p.id < r.id}
        IN  /\ Valid(a) => lost = {}
            /\ (chained /\ (\A r \in ingested : r.agent = a) /\ InOrder(rows) /\ lost = {}) => Valid(a)
            /\ Valid(a) => \A cutoff \in Times, limit \in Limits : ChainIntegrity({a}, cutoff, limit)
===============================================================================
