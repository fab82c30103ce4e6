------------------------------ MODULE PolicyStore ------------------------------
(* The policies of one tenant in agents/dw-governance: addPolicy,             *)
(* removePolicy, which empties the table and fills it again with an await for *)
(* every row, and evaluateAccess, which every other tool of the agent asks.   *)
(* Resources, agents and actions that a policy is about are the requests it   *)
(* applies to.                                                                *)
EXTENDS Naturals, Sequences, FiniteSets, SequencesExt

CONSTANTS
    Policies,  \* [id, priority, action, needs, applies]
    Facts,     \* what a context may say
    Kinds,     \* kinds of access
    Removals,  \* calls of removePolicy, each made once
    MaxAdds    \* bound on the policies that are added

VARIABLES
    policies,  \* the table
    removal,   \* per call: where it stands, its id and the rows left to insert
    adds,      \* how many were added
    standing,  \* the table as the calls made one after the other would leave it
    disturbed  \* whether a removal was overlapped by another call

vars == <<policies, removal, adds, standing, disturbed>>

Verdicts == {"allow", "deny", "review"}
AccessRequests == [kind : Kinds, context : SUBSET Facts]

PolicyAssumption ==
    /\ MaxAdds \in Nat
    /\ \A p \in Policies : /\ p.priority \in Nat /\ p.action \in Verdicts
                           /\ p.needs \subseteq Facts /\ p.applies \subseteq Kinds

TypeOK ==
    /\ Range(policies) \subseteq Policies /\ Range(standing) \subseteq Policies
    /\ \A c \in Removals : /\ removal[c].at \in {"idle", "read", "insert", "done"}
                           /\ Range(removal[c].rest) \subseteq Policies
    /\ adds \in 0 .. MaxAdds /\ Len(standing) <= adds

Init ==
    /\ policies = <<>> /\ standing = <<>>
    /\ removal = [c \in Removals |-> [at |-> "idle", id |-> "", rest |-> <<>>]]
    /\ adds = 0 /\ disturbed = FALSE

-------------------------------------------------------------------------------
\* The walk takes rows by priority, rows of one priority as they were inserted.
Applicable(rows, r) == {i \in DOMAIN rows : r.kind \in rows[i].applies}
Top(rows, r) ==
    {i \in Applicable(rows, r) : \A j \in Applicable(rows, r) : rows[j].priority <= rows[i].priority}

\* An allow whose requiredContext the caller's context does not have is passed.
Skipped(p, r) == p.action = "allow" /\ ~(p.needs \subseteq r.context)

Earlier(rows, i, j) ==
    \/ rows[i].priority > rows[j].priority
    \/ rows[i].priority = rows[j].priority /\ i <= j

\* A plausible bug: pass 1 is left out.
EvaluateFirst(rows, r) ==
    LET walked == {i \in Applicable(rows, r) : ~Skipped(rows[i], r)} IN
    IF walked = {} THEN "deny"
    ELSE rows[CHOOSE i \in walked : \A j \in walked : Earlier(rows, i, j)].action

\* Pass 1: a deny at the highest priority.  Pass 2: the first policy of the walk
\* that is not passed.  Default: deny.
Evaluate(rows, r) ==
    LET walked == {i \in Applicable(rows, r) : ~Skipped(rows[i], r)} IN
    IF walked = {} \/ \E i \in Top(rows, r) : rows[i].action = "deny" THEN "deny"
    ELSE rows[CHOOSE i \in walked : \A j \in walked : Earlier(rows, i, j)].action

-------------------------------------------------------------------------------
Running == {c \in Removals : removal[c].at \in {"read", "insert"}}

\* The rows of another id, in their order.
Without(rows, id) ==
    LET kept == {i \in DOMAIN rows : rows[i].id # id}
        nth(k) == CHOOSE i \in kept : Cardinality({j \in kept : j <= i}) = k
    IN  [k \in 1 .. Cardinality(kept) |-> rows[nth(k)]]

AddPolicy(p) ==
    /\ adds < MaxAdds
    /\ policies' = Append(policies, p)
    /\ standing' = Append(standing, p)
    /\ adds' = adds + 1
    /\ disturbed' = (disturbed \/ Running # {})
    /\ UNCHANGED removal

\* removePolicy awaits a copy of the table,
Read(c, id) ==
    /\ removal[c].at = "idle"
    /\ removal' = [removal EXCEPT ![c] = [at |-> "read", id |-> id, rest |-> policies]]
    /\ standing' = Without(standing, id)
    /\ disturbed' = (disturbed \/ Running # {})
    /\ UNCHANGED <<policies, adds>>

\* Where a removal goes on with the rows that are left to insert.
Rest(c, rows) ==
    removal' = [removal EXCEPT ![c] = [@ EXCEPT !.at = IF rows = <<>> THEN "done" ELSE "insert", !.rest = rows]]

\* clears it,
Clear(c) ==
    /\ removal[c].at = "read"
    /\ policies' = <<>>
    /\ Rest(c, Without(removal[c].rest, removal[c].id))
    /\ UNCHANGED <<adds, standing, disturbed>>

\* and inserts the other rows one by one.
Insert(c) ==
    /\ removal[c].at = "insert"
    /\ policies' = Append(policies, Head(removal[c].rest))
    /\ Rest(c, Tail(removal[c].rest))
    /\ UNCHANGED <<adds, standing, disturbed>>

Next ==
    \/ \E p \in Policies : AddPolicy(p)
    \/ \E c \in Removals :
        \/ \E p \in Policies : Read(c, p.id)
        \/ Clear(c) \/ Insert(c)

Spec == Init /\ [][Next]_vars

-------------------------------------------------------------------------------
\* Once no removal is under way the table is what the calls leave one after the
\* other, in their order, unless a removal overlapped another call.
TableIsStanding == Running = {} /\ ~disturbed => policies = standing

\* No access is allowed without an allow policy whose context the caller has,
\* that no deny outranks, and beside which, at the highest priority, none stands.
AllowedIsEarned ==
    \A r \in AccessRequests : Evaluate(policies, r) = "allow" =>
        \E i \in Applicable(policies, r) :
            /\ policies[i].action = "allow" /\ policies[i].needs \subseteq r.context
            /\ \A j \in Applicable(policies, r) : policies[j].action = "deny" =>
                 \/ policies[j].priority < policies[i].priority
                 \/ policies[j].priority = policies[i].priority /\ j > i /\ j \notin Top(policies, r)

\* A deny or a review that is added opens nothing, and an allow that is added
\* closes nothing.  (An allow whose context the caller does not have may open
\* what a deny below it had closed.)
DenyClosesOnly ==
    \A p \in Policies, r \in AccessRequests :
        LET before == Evaluate(policies, r) IN
        LET after == Evaluate(Append(policies, p), r) IN
        IF p.action = "allow" THEN before = "allow" => after = "allow"
        ELSE after = "allow" => before = "allow"
===============================================================================
