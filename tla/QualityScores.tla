----------------------------- MODULE QualityScores ----------------------------
(* The quality score of one dataset in agents/dw-quality: get_quality_score   *)
(* computes it from a profile of the table and caches it with a TTL, and the  *)
(* subscriptions to schema_changed and migration_applied drop it from the     *)
(* cache.  A score is known by the version of the table it was computed from. *)
EXTENDS Naturals

CONSTANTS
    Calls,        \* the get_quality_score calls
    MaxVersion,   \* bound on the changes of the table
    StoreFails,   \* whether operations of the key-value store may throw
    None

VARIABLES
    version,  \* the table in the warehouse
    pending,  \* events published about it and not delivered yet
    recheck,  \* quality_recheck_needed
    cache,    \* quality_score: the score and whether it has a TTL, or None
    history,  \* the versions quality_score_history has a score of
    call      \* where each call stands, and the version it profiled

vars == <<version, pending, recheck, cache, history, call>>

Idle == [at |-> "idle", seen |-> 0]

TypeOK ==
    /\ version \in 1 .. MaxVersion
    /\ pending \subseteq {"schema_changed", "migration_applied"}
    /\ recheck \in BOOLEAN
    /\ cache \in [score : 1 .. version, ttl : BOOLEAN] \cup {None}
    /\ history \subseteq 1 .. version
    /\ call \in [Calls -> [at : {"idle", "cache", "profile", "set", "history"}, seen : 0 .. version]]

Init ==
    /\ version = 1 /\ pending = {} /\ recheck = FALSE
    /\ cache = None /\ history = {}
    /\ call = [c \in Calls |-> Idle]

To(c, at) == call' = [call EXCEPT ![c] = IF at = "idle" THEN Idle ELSE [@ EXCEPT !.at = at]]

Ask(c) ==
    /\ call[c].at = "idle"
    /\ To(c, "cache")
    /\ UNCHANGED <<version, pending, recheck, cache, history>>

\* A cached score is the answer.
ReadCache(c) ==
    /\ call[c].at = "cache"
    /\ To(c, IF cache # None THEN "idle" ELSE "profile")
    /\ UNCHANGED <<version, pending, recheck, cache, history>>

\* profileTable; a table that is not there is answered without a score.  The
\* reads of earlier metrics and scores follow, the score is computed.
Profile(c) ==
    /\ call[c].at = "profile"
    /\ \/ call' = [call EXCEPT ![c] = [at |-> "set", seen |-> version]]
       \/ To(c, "idle")
    /\ UNCHANGED <<version, pending, recheck, cache, history>>

\* A plausible bug: the score is cached without the TTL.
StoreForever(c) ==
    /\ call[c].at = "set"
    /\ cache' = [score |-> call[c].seen, ttl |-> FALSE]
    /\ To(c, "history")
    /\ UNCHANGED <<version, pending, recheck, history>>

Store(c) ==
    /\ call[c].at = "set"
    /\ cache' = [score |-> call[c].seen, ttl |-> TRUE]
    /\ To(c, "history")
    /\ UNCHANGED <<version, pending, recheck, history>>

Record(c) ==
    /\ call[c].at = "history"
    /\ history' = history \cup {call[c].seen}
    /\ To(c, "idle")
    /\ UNCHANGED <<version, pending, recheck, cache>>

\* An awaited operation throws: the call answers an error.
Fail(c) ==
    /\ \/ call[c].at = "profile"
       \/ StoreFails /\ call[c].at \in {"cache", "set", "history"}
    /\ To(c, "idle")
    /\ UNCHANGED <<version, pending, recheck, cache, history>>

\* The table changes and the event that says so is published.
Change(topic) ==
    /\ version < MaxVersion
    /\ version' = version + 1
    /\ pending' = pending \cup {topic}
    /\ UNCHANGED <<recheck, cache, history, call>>

\* The subscription's delete and set, neither awaited, each with an empty catch.
Invalidate(topic) ==
    /\ topic \in pending
    /\ pending' = pending \ {topic}
    /\ cache' \in {None} \cup IF StoreFails THEN {cache} ELSE {}
    /\ recheck' \in IF topic = "schema_changed"
                    THEN {TRUE} \cup IF StoreFails THEN {recheck} ELSE {}
                    ELSE {recheck}
    /\ UNCHANGED <<version, history, call>>

Expire ==
    /\ cache # None /\ cache.ttl
    /\ cache' = None
    /\ UNCHANGED <<version, pending, recheck, history, call>>

Next ==
    \/ \E c \in Calls : Ask(c) \/ ReadCache(c) \/ Profile(c) \/ Store(c) \/ Record(c) \/ Fail(c)
    \/ \E topic \in {"schema_changed", "migration_applied"} : Change(topic) \/ Invalidate(topic)
    \/ Expire

Spec == Init /\ [][Next]_vars

FairSpec == Spec /\ WF_vars(Expire)

-------------------------------------------------------------------------------
Stale == cache # None /\ cache.score < version

\* A score of an older table is answered for the TTL at most, whatever events
\* are lost, fail or are overtaken by a computation under way.
StaleEnds == []<>~Stale
===============================================================================
