------------------------------ MODULE DriftHealer ------------------------------
(* core/medallion/src/schema-drift-healer.ts: the drift between the schemas of  *)
(* two layers, which of it is healed, and what the migrations that heal it do   *)
(* to the target.  A schema gives its columns their type and whether they are   *)
(* nullable.                                                                    *)
EXTENDS Integers, FiniteSets, Functions

CONSTANTS Columns, Types,
          Width   \* per type its place in TYPE_WIDTH, -1 for a type it does not have

VARIABLES upstream, downstream, healed  \* healed: no drift since the target was migrated

vars == <<upstream, downstream, healed>>

Schemas == UNION {[S -> [type : Types, nullable : BOOLEAN]] : S \in SUBSET Columns}

HealerAssumption == Width \in [Types -> {-1} \cup Nat]

TypeOK == upstream \in Schemas /\ downstream \in Schemas /\ healed \in BOOLEAN

--------------------------------------------------------------------------------
\* A drift: its kind, its column and whether it is autoHealable.
Drift(kind, column, heals) == [kind |-> kind, column |-> column, heals |-> heals]

Wider(s, t) == Width[s] > Width[t] /\ Width[t] >= 0

Detect(source, target) ==
    LET both == DOMAIN source \cap DOMAIN target IN
    {Drift("added", c, TRUE) : c \in DOMAIN source \ DOMAIN target}
    \cup {Drift("removed", c, FALSE) : c \in DOMAIN target \ DOMAIN source}
    \cup {LET widens == Wider(source[c].type, target[c].type) IN
          Drift(IF widens THEN "widened" ELSE "narrowed", c, widens) :
            c \in {d \in both : source[d].type # target[d].type}}
    \cup {Drift("nullable", c, source[c].nullable) :
            c \in {d \in both : source[d].nullable # target[d].nullable}}

\* What autoHeal's statements make of the target: a new column is nullable.
Heal(drifts, source, target) ==
    LET heals(kind, c) == Drift(kind, c, TRUE) \in drifts IN
    [c \in DOMAIN target \cup {d.column : d \in {e \in drifts : e.kind = "added"}} |->
       IF heals("added", c) THEN [type |-> source[c].type, nullable |-> TRUE]
       ELSE [type |-> IF heals("widened", c) THEN source[c].type ELSE target[c].type,
             nullable |-> target[c].nullable \/ heals("nullable", c)]]

--------------------------------------------------------------------------------
Init == upstream \in Schemas /\ downstream = upstream /\ healed = TRUE

\* The source drops a column, or has a new one or a changed one.
Change ==
    /\ \/ \E c \in DOMAIN upstream : upstream' = Restrict(upstream, DOMAIN upstream \ {c})
       \/ \E c \in Columns, d \in [type : Types, nullable : BOOLEAN] :
            upstream' = [e \in DOMAIN upstream \cup {c} |-> IF e = c THEN d ELSE upstream[e]]
    /\ healed' = FALSE
    /\ UNCHANGED downstream

Migrate ==
    /\ downstream' = Heal(Detect(upstream, downstream), upstream, downstream)
    /\ healed' = TRUE
    /\ UNCHANGED upstream

Next == Change \/ Migrate

Spec == Init /\ [][Next]_vars

--------------------------------------------------------------------------------
\* After the target was migrated what is left is what needs a person: nothing more
\* to heal, and no column of the source is missing.
HealsAll ==
    healed => /\ \A d \in Detect(upstream, downstream) : ~d.heals
              /\ DOMAIN upstream \subseteq DOMAIN downstream

\* A migration takes no column away and narrows none: what the target held it holds.
HealsSafely ==
    LET after == Heal(Detect(upstream, downstream), upstream, downstream) IN
    \A c \in DOMAIN downstream :
        /\ c \in DOMAIN after
        /\ after[c].type # downstream[c].type => Width[after[c].type] > Width[downstream[c].type]
        /\ downstream[c].nullable => after[c].nullable
================================================================================
