--------------------------- MODULE ContextSelection ---------------------------
(* Which context an agent is given (core/context-layer/src/                   *)
(* context-propagation.ts): the customer's items that are good enough, by     *)
(* class and relevance, as far as the token budget goes, and the conflicts    *)
(* among them.  Scores are in hundredths; how freshness decays is left out,   *)
(* an item has the freshness it has when the selection is made.               *)
EXTENDS Naturals, Sequences, FiniteSets, SequencesExt

CONSTANTS
    Items,        \* [id, customer, origin, class, fresh, relevance, confidence, tokens, timestamp]
    Budgets,      \* totalTokens
    MinQuality,   \* minQualityScore
    MaxItems      \* bound on the items there are

VARIABLE available  \* the items on offer, in the caller's order

vars == available

Classes == 1 .. 4  \* task-specific, cross-agent, historical, org-preferences

SelectionAssumption ==
    /\ \A i \in Items : /\ i.class \in Classes /\ {i.tokens, i.timestamp} \subseteq Nat
                        /\ {i.fresh, i.relevance, i.confidence} \subseteq 0 .. 100
    /\ MinQuality \in Nat /\ Budgets \subseteq Nat

TypeOK == available \in Seq(Items) /\ IsInjective(available)

Init == available = <<>>

Offer(i) ==
    /\ Len(available) < MaxItems /\ i \notin Range(available)
    /\ available' = Append(available, i)

Next == \E i \in Items : Offer(i)

Spec == Init /\ [][Next]_vars

-------------------------------------------------------------------------------
\* Relevance, of 1000, and the quality that is compared with the minimum.
Score(i) == 4 * i.fresh + 4 * i.confidence + 2 * i.relevance
GoodEnough(i) == 330 * i.fresh + 34 * Score(i) + 330 * i.confidence >= 1000 * MinQuality

\* The sort is stable: the earlier of two equals stays ahead.
Ahead(items, m, n) ==
    LET i == items[m] j == items[n] IN
    \/ i.class < j.class
    \/ i.class = j.class /\ (Score(i) > Score(j) \/ (Score(i) = Score(j) /\ m < n))

Qualified(items, customer) == SelectSeq(items, LAMBDA i : i.customer = customer /\ GoodEnough(i))
Ranked(items) ==
    LET order == SetToSortSeq(DOMAIN items, LAMBDA m, n : Ahead(items, m, n)) IN
    [k \in DOMAIN items |-> items[order[k]]]

\* Every item that still fits is taken, also behind one that did not.
Pack(items, budget) ==
    FoldLeft(LAMBDA packed, i :
               IF packed.tokens + i.tokens > budget THEN packed
               ELSE [items |-> Append(packed.items, i), tokens |-> packed.tokens + i.tokens],
             [items |-> <<>>, tokens |-> 0], items)

Select(items, customer, budget) == Pack(Ranked(Qualified(items, customer)), budget).items

\* The newest of what one agent says of one source against each of the others.
Conflicts(packed) ==
    LET group(o) == SelectSeq(packed, LAMBDA i : i.origin = o)
        newest(g) == CHOOSE k \in DOMAIN g : \A n \in DOMAIN g :
                       g[n].timestamp < g[k].timestamp \/ (g[n].timestamp = g[k].timestamp /\ k <= n) IN
    UNION {LET g == group(o) IN {<<g[newest(g)], i>> : i \in Range(g) \ {g[newest(g)]}} :
             o \in {i.origin : i \in Range(packed)}}

-------------------------------------------------------------------------------
Customers == {i.customer : i \in Items}
Tokens(items) == FoldLeft(LAMBDA sum, i : sum + i.tokens, 0, items)

\* What a customer is given fits the budget, holds nothing of another customer, and
\* does not depend on what other customers, or less important classes, have on
\* offer: more of those never displaces an item.
NotCrowded ==
    \A customer \in Customers, budget \in Budgets :
        LET given == Select(available, customer, budget) IN
        /\ Tokens(given) <= budget
        /\ \A class \in Classes :
             LET above == SelectSeq(available, LAMBDA i : i.class <= class /\ i.customer = customer) IN
             SelectSeq(given, LAMBDA i : i.class <= class) = Select(above, customer, budget)

\* Nothing that would fit beside what is given is left out.
NothingWasted ==
    \A customer \in Customers, budget \in Budgets :
        LET given == Select(available, customer, budget) IN
        \A i \in Range(Qualified(available, customer)) \ Range(given) : Tokens(given) + i.tokens > budget

\* A conflict sets what an agent says of a source against the newest it says of it,
\* and every item that is given beside another of its origin is in a conflict.
ConflictsNamed ==
    \A customer \in Customers, budget \in Budgets :
        LET given == Select(available, customer, budget)
            named == Conflicts(given) IN
        /\ \A d \in named : d[1] # d[2] /\ d[1].origin = d[2].origin /\ d[1].timestamp >= d[2].timestamp
        /\ \A i \in Range(given) :
             (\E j \in Range(given) \ {i} : j.origin = i.origin) <=> \E d \in named : i \in {d[1], d[2]}
===============================================================================
