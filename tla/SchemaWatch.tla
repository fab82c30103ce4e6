------------------------------ MODULE SchemaWatch -----------------------------
(* The detect_schema_change and get_schema_snapshot tools of agents/dw-schema *)
(* and the snapshot store below them: scans of one table or of all of them,   *)
(* awaiting the warehouse and the key-value store between their steps, while  *)
(* the other tool saves snapshots of its own, the tables change, snapshots    *)
(* expire or are evicted, and the warehouse or the store fails.  Each tool    *)
(* has a SnapshotStore, with its own list of keys, over the same store.       *)
EXTENDS SchemaDiff

CONSTANTS
    Listings,    \* what listTables may answer: sequences of tables
    Schemas,     \* the schemas a table may have
    MaxEntries,  \* snapshotCacheMaxEntries
    MaxPeeked,   \* bound on the tables of a source that get_schema_snapshot is called for
    None

VARIABLES
    listed,    \* the tables of the source, in the order listTables answers
    live,      \* the schema of each table in the warehouse
    snapshot,  \* the key-value store: the remembered schema, or None
    lru,       \* SnapshotStore.lruKeys of detect_schema_change
    scan,      \* its call under way
    looked,    \* SnapshotStore.lruKeys of get_schema_snapshot
    peek,      \* what its call under way has read of the warehouse, or None
    known,     \* ghost: the columns a reader of every detection believes in
    lost       \* ghost: tables whose snapshot changed without being announced

vars == <<listed, live, snapshot, lru, scan, looked, peek, known, lost>>

\* What the constants must satisfy.
WatchAssumption ==
    /\ MaxEntries \in Nat /\ MaxPeeked \in Nat /\ None \notin Schemas
    /\ \A s \in Schemas : IsSchema(s)
    /\ \A l \in Listings : l \in Seq(Range(l)) /\ IsInjective(l)

TableSet == Range(listed)

Idle == [at |-> "idle", full |-> FALSE, todo |-> <<>>, cur |-> <<>>, old |-> None, news |-> <<>>]

TypeOK ==
    /\ live \in [TableSet -> Schemas]
    /\ snapshot \in [TableSet -> Schemas \cup {None}]
    /\ \A keys \in {lru, looked} : keys \in Seq(TableSet) /\ IsInjective(keys)
    /\ \A t \in TableSet : snapshot[t] # None => t \in Range(lru) \cup Range(looked)
    /\ scan.at \in {"idle", "schema", "snapshot", "save", "publish"}
    /\ scan.cur \in Schemas \cup {<<>>} /\ scan.old \in Schemas \cup {None}
    /\ peek # None => peek.table \in TableSet /\ peek.cur \in Schemas
    /\ lost \subseteq TableSet

Init ==
    /\ listed \in Listings
    /\ live \in [TableSet -> Schemas]
    /\ snapshot = [t \in TableSet |-> None]
    /\ lru = <<>> /\ looked = <<>>
    /\ scan = Idle /\ peek = None
    /\ known = [t \in TableSet |-> {}]
    /\ lost = {}

\* The key, spliced out if it is there, is pushed at the end.
Touch(keys, t) ==
    LET idx == CHOOSE i \in DOMAIN keys : keys[i] = t
    IN  IF t \in Range(keys)
        THEN Append([i \in 1 .. Len(keys) - 1 |-> keys[IF i < idx THEN i ELSE i + 1]], t)
        ELSE Append(keys, t)

\* saveSnapshot: the snapshots after the new one was set and the least recently
\* used of this store were evicted, and the keys that are left.
Spare(keys) == IF Len(keys) > MaxEntries THEN Len(keys) - MaxEntries ELSE 0
Kept(keys, t) == LET all == Touch(keys, t) IN SubSeq(all, Spare(all) + 1, Len(all))
Saved(keys, t, columns) ==
    [k \in TableSet |-> IF k \in Range(Touch(keys, t)) \ Range(Kept(keys, t)) THEN None
                        ELSE IF k = t THEN columns ELSE snapshot[k]]

\* Once every table of the call is done, there are news to publish or nothing.
Proceed(todo, news) ==
    [scan EXCEPT !.todo = todo, !.news = news, !.cur = <<>>, !.old = None,
                 !.at = IF todo # <<>> THEN "schema" ELSE "publish"]

Start(full, todo) ==
    /\ scan.at = "idle"
    /\ scan' = [Idle EXCEPT !.at = IF todo # <<>> THEN "schema" ELSE "publish",
                            !.full = full, !.todo = todo]
    /\ UNCHANGED <<listed, live, snapshot, lru, looked, peek, known, lost>>

\* getTableSchema: the schema as it is at this moment.
ReadSchema ==
    /\ scan.at = "schema"
    /\ scan' = [scan EXCEPT !.cur = live[Head(scan.todo)], !.at = "snapshot"]
    /\ UNCHANGED <<listed, live, snapshot, lru, looked, peek, known, lost>>

\* getSnapshot, and the diff that follows it: a full scan saves nothing for a
\* table without a change, a scan of one table saves in any case.
ReadSnapshot ==
    /\ scan.at = "snapshot"
    /\ LET t == Head(scan.todo) IN
        /\ lru' = IF snapshot[t] = None THEN lru ELSE Touch(lru, t)
        /\ scan' = IF scan.full /\ snapshot[t] # None /\ Diff(snapshot[t], scan.cur) = {}
                   THEN Proceed(Tail(scan.todo), scan.news)
                   ELSE [scan EXCEPT !.old = snapshot[t], !.at = "save"]
    /\ UNCHANGED <<listed, live, snapshot, looked, peek, known, lost>>

\* saveSnapshot; then the baseline or the changes join what the call will answer.
Save ==
    /\ scan.at = "save"
    /\ LET t == Head(scan.todo) IN
        /\ lru' = Kept(lru, t)
        /\ snapshot' = Saved(lru, t, scan.cur)
        /\ scan' = Proceed(Tail(scan.todo),
                     Append(scan.news,
                         [table |-> t, baseline |-> scan.old = None, cur |-> scan.cur,
                          changes |-> IF scan.old = None THEN {} ELSE Diff(scan.old, scan.cur)]))
        /\ lost' = lost \ {k \in {t} : scan.old = None}
    /\ UNCHANGED <<listed, live, looked, peek, known>>

\* Of these tables the snapshot is not what the answers said.
Forget(tables) ==
    /\ lost' = lost \cup tables
    /\ known' = [t \in TableSet |-> IF t \in tables THEN {} ELSE known[t]]

\* What a reader knows of a table after the news of an answer.
Learn(k, news) ==
    LET Hear(acc, n) ==
            [acc EXCEPT ![n.table] = IF n.table \in lost THEN {}
                                     ELSE IF n.baseline THEN Range(n.cur) ELSE Migrate(@, n.changes)]
        heard[i \in 0 .. Len(news)] == IF i = 0 THEN k ELSE Hear(heard[i - 1], news[i])
    IN  heard[Len(news)]

\* The event is published, or fails and is swallowed; the call answers.
Answer ==
    /\ scan.at = "publish"
    /\ known' = Learn(known, scan.news)
    /\ scan' = Idle
    /\ UNCHANGED <<listed, live, snapshot, lru, looked, peek, lost>>

\* The warehouse or the store throws: the call answers an error and no more.
Fail ==
    /\ scan.at \in {"schema", "snapshot", "save"}
    /\ Forget({n.table : n \in Range(scan.news)})
    /\ scan' = Idle
    /\ UNCHANGED <<listed, live, snapshot, lru, looked, peek>>

\* get_schema_snapshot answers from the store, where a read evicts nothing,
Cached(t) ==
    /\ Len(listed) <= MaxPeeked /\ peek = None /\ snapshot[t] # None
    /\ looked' = Touch(looked, t)
    /\ UNCHANGED <<listed, live, snapshot, lru, scan, peek, known, lost>>

\* or, asked for the live schema or without a snapshot, reads the warehouse
Peek(t) ==
    /\ Len(listed) <= MaxPeeked /\ peek = None
    /\ peek' = [table |-> t, cur |-> live[t]]
    /\ UNCHANGED <<listed, live, snapshot, lru, scan, looked, known, lost>>

\* and saves what it read, which no detection will report.
SavePeek ==
    /\ peek # None
    /\ looked' = Kept(looked, peek.table)
    /\ snapshot' = Saved(looked, peek.table, peek.cur)
    /\ Forget({t \in {peek.table} : snapshot[t] # peek.cur})
    /\ peek' = None
    /\ UNCHANGED <<listed, live, lru, scan>>

Alter(t, s) ==
    /\ s # live[t]
    /\ live' = [live EXCEPT ![t] = s]
    /\ UNCHANGED <<listed, snapshot, lru, scan, looked, peek, known, lost>>

\* The TTL of a snapshot passes; lruKeys keeps its key.
Expire(t) ==
    /\ snapshot[t] # None
    /\ snapshot' = [snapshot EXCEPT ![t] = None]
    /\ UNCHANGED <<listed, live, lru, scan, looked, peek, known, lost>>

Next ==
    \/ \E t \in TableSet : Start(FALSE, <<t>>) \/ Cached(t) \/ Peek(t) \/ Expire(t)
    \/ Start(TRUE, listed)
    \/ ReadSchema \/ ReadSnapshot \/ Save \/ Answer \/ Fail \/ SavePeek
    \/ \E t \in TableSet, s \in Schemas : Alter(t, s)

Spec == Init /\ [][Next]_vars

-------------------------------------------------------------------------------
\* Between calls, whoever ran the migrations made of every answer on the
\* baseline it was given has the columns the store remembers: no change is
\* absorbed unreported, reported twice or reported wrong.  Not so for a table
\* whose change a failed full scan or get_schema_snapshot had saved already.
AnswersAddUp ==
    scan.at = "idle" =>
        \A t \in TableSet \ lost : snapshot[t] # None => known[t] = Range(snapshot[t])

\* The migrations of the report that is about to be made lead there and back.
ReportLeads == scan.at = "save" /\ scan.old # None => MigrationsLead(scan.old, scan.cur)
===============================================================================
