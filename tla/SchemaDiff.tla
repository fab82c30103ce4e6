------------------------------ MODULE SchemaDiff ------------------------------
(* The diff engine of agents/dw-schema, what it reports between two scans of  *)
(* a table, and the migrations that are made of the report.  A schema is the  *)
(* sequence of the table's columns in the order the warehouse lists them;     *)
(* names are already lower-cased, nullability is left out, as the engine      *)
(* leaves it out.                                                             *)
EXTENDS Integers, Sequences, FiniteSetsExt

CONSTANTS
    Close,      \* the pairs of names within the Levenshtein threshold
    Widening    \* the pairs of types whose change is non-breaking

\* A schema: its columns have names of their own.
IsSchema(s) ==
    /\ s \in Seq(Range(s))
    /\ \A c \in Range(s) : c = [name |-> c.name, type |-> c.type]
    /\ \A i, j \in DOMAIN s : s[i].name = s[j].name => i = j

Named(columns, n) == \E c \in Range(columns) : c.name = n

\* The places in one list whose name the other has not.
Missing(columns, other) == {i \in DOMAIN columns : ~Named(other, columns[i].name)}

\* A plausible bug: the rename search does not compare the types.
RenamesLoose(close, old, new) ==
    LET removed == Missing(old, new)
        added == Missing(new, old)
        Pair(pairs, i) ==
            LET fits == {j \in added : <<old[i].name, new[j].name>> \in close /\ \A p \in pairs : p[2] # j}
            IN  IF i \in removed /\ fits # {} THEN pairs \cup {<<i, Min(fits)>>} ELSE pairs
        taken[i \in 0 .. Len(old)] == IF i = 0 THEN {} ELSE Pair(taken[i - 1], i)
    IN  taken[Len(old)]

\* Removed columns pair, in order, with the first added column of their type
\* and a close name that no earlier one took.
Renames(close, old, new) ==
    LET removed == Missing(old, new)
        added == Missing(new, old)
        Pair(pairs, i) ==
            LET fits == {j \in added : /\ new[j].type = old[i].type
                                       /\ <<old[i].name, new[j].name>> \in close
                                       /\ \A p \in pairs : p[2] # j}
            IN  IF i \in removed /\ fits # {} THEN pairs \cup {<<i, Min(fits)>>} ELSE pairs
        taken[i \in 0 .. Len(old)] == IF i = 0 THEN {} ELSE Pair(taken[i - 1], i)
    IN  taken[Len(old)]

Severity(widening, old, new) == IF <<old, new>> \in widening THEN "non-breaking" ELSE "breaking"

Change(kind, column, name, was, type, severity) ==
    [kind |-> kind, column |-> column, name |-> name, was |-> was, type |-> type, severity |-> severity]

\* The report, for any names that count as close and types that count as wider.
DiffBy(close, widening, old, new) ==
    LET pairs == Renames(close, old, new)
    IN  {Change("renamed", old[p[1]].name, new[p[2]].name, old[p[1]].type, old[p[1]].type, "warning") : p \in pairs}
        \cup {Change("removed", old[i].name, old[i].name, old[i].type, old[i].type, "breaking") :
                i \in Missing(old, new) \ {p[1] : p \in pairs}}
        \cup {Change("added", new[j].name, new[j].name, new[j].type, new[j].type, "non-breaking") :
                j \in Missing(new, old) \ {p[2] : p \in pairs}}
        \cup {Change("retyped", p[1].name, p[2].name, p[1].type, p[2].type, Severity(widening, p[1].type, p[2].type)) :
                p \in {q \in Range(old) \X Range(new) :
                          q[1].name = q[2].name /\ q[1].type # q[2].type}}

Diff(old, new) == DiffBy(Close, Widening, old, new)

-------------------------------------------------------------------------------
\* The statements that generate_migration writes, run on a set of columns.
Add(columns, name, type) == columns \cup {[name |-> name, type |-> type]}
Drop(columns, name) == {c \in columns : c.name # name}
Retype(columns, name, type) ==
    {IF c.name = name THEN [c EXCEPT !.type = type] ELSE c : c \in columns}
Rename(columns, from, to) ==
    {IF c.name = from THEN [c EXCEPT !.name = to] ELSE c : c \in columns}

\* forwardSql and rollbackSql of a change.
Forward(d, columns) ==
    CASE d.kind = "added" -> Add(columns, d.column, d.type)
      [] d.kind = "removed" -> Drop(columns, d.column)
      [] d.kind = "retyped" -> Retype(columns, d.column, d.type)
      [] d.kind = "renamed" -> Rename(columns, d.column, d.name)

Rollback(d, columns) ==
    CASE d.kind = "added" -> Drop(columns, d.column)
      [] d.kind = "removed" -> Add(columns, d.column, d.was)
      [] d.kind = "retyped" -> Retype(columns, d.column, d.was)
      [] d.kind = "renamed" -> Rename(columns, d.name, d.column)

\* The statements of all changes, one after the other in any order.
Migrate(columns, changes) ==
    LET after[done \in SUBSET changes] ==
            IF done = {} THEN columns
            ELSE LET d == CHOOSE e \in done : TRUE IN Forward(d, after[done \ {d}])
    IN  after[changes]

RollBack(columns, changes) ==
    LET after[done \in SUBSET changes] ==
            IF done = {} THEN columns
            ELSE LET d == CHOOSE e \in done : TRUE IN Rollback(d, after[done \ {d}])
    IN  after[changes]

\* detectIcebergSchemaEvolution: the changes between the consecutive snapshots
\* of a table.  Here any two names are close and no change of type widens.
Evolution(history) ==
    LET names == {c.name : c \in UNION {Range(history[i]) : i \in DOMAIN history}}
    IN  [i \in 1 .. Len(history) - 1 |-> DiffBy(names \X names, {}, history[i], history[i + 1])]

-------------------------------------------------------------------------------
\* The migrations made of a report lead from the columns before to the columns
\* after, and their rollbacks lead back.
MigrationsLead(old, new) ==
    /\ Migrate(Range(old), Diff(old, new)) = Range(new)
    /\ RollBack(Range(new), Diff(old, new)) = Range(old)

\* Applied one after the other they lead through the whole history.
EvolutionLeads(history) ==
    LET reached[i \in 0 .. Len(history) - 1] ==
            IF i = 0 THEN Range(history[1]) ELSE Migrate(reached[i - 1], Evolution(history)[i])
    IN  reached[Len(history) - 1] = Range(history[Len(history)])
===============================================================================
