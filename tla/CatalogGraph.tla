----------------------------- MODULE CatalogGraph -----------------------------
(***************************************************************************)
(* The lineage graph of the catalog (core/infrastructure-stubs/src/        *)
(* graph-db.ts) and what dw-context-catalog computes from it: column       *)
(* lineage, the impact of a change, and the lineage that is stitched       *)
(* together from the local graph and the providers of other platforms.     *)
(* The graph keeps every edge twice, with its source and with its target;  *)
(* edges may name assets that are not there.  Names stand for ids.         *)
(***************************************************************************)
EXTENDS Integers, Sequences, FiniteSetsExt

CONSTANTS Assets,
          Kinds,         \* nodes: records of a type and the names of the columns
          Mappings,      \* pairs of columns a column-lineage edge may have
          MaxEdges,      \* bound on the number of edges
          CriticalOver, HighOver, MediumFrom, \* 10, 5 and 2 dependents in the code
          Providers, Foreign, \* platforms, and the assets only they know
          Absent

(* What the constants must satisfy.                                         *)
GraphAssumption == /\ \A k \in Kinds : DOMAIN k = {"type", "columns"}
                   /\ Absent \notin Kinds /\ Kinds # {}
                   /\ {MaxEdges, CriticalOver, HighOver, MediumFrom} \subseteq Nat
                   /\ IsFiniteSet(Assets) /\ IsFiniteSet(Providers)
                   /\ Foreign \cap Assets = {}

VARIABLES nodes,     \* nodes[a]: what is known of asset a
          outEdges,  \* outEdges[a]: the edges that start in a
          inEdges    \* inEdges[a]: the edges that end in a

vars == <<nodes, outEdges, inEdges>>

Table == <<>>   \* the mapping of an edge between tables
Edge == [source : Assets, target : Assets, columns : Mappings \cup {Table}]
Directions == {"upstream", "downstream"}

-----------------------------------------------------------------------------
Init == /\ nodes = [a \in Assets |-> Absent]
        /\ outEdges = [a \in Assets |-> {}]
        /\ inEdges = [a \in Assets |-> {}]

AddNode(a, kind) == /\ nodes' = [nodes EXCEPT ![a] = kind]
                    /\ UNCHANGED <<outEdges, inEdges>>

AddEdge(e) == /\ Cardinality((UNION Range(outEdges)) \cup {e}) <= MaxEdges
              /\ outEdges' = [outEdges EXCEPT ![e.source] = @ \cup {e}]
              /\ inEdges' = [inEdges EXCEPT ![e.target] = @ \cup {e}]
              /\ UNCHANGED nodes

(* Mutant: the incoming edges of the targets are kept.                      *)
RemoveNodeOut(a) ==
  /\ nodes[a] # Absent
  /\ nodes' = [nodes EXCEPT ![a] = Absent]
  /\ outEdges' = [b \in Assets |-> IF b = a THEN {} ELSE {e \in outEdges[b] : e.target # a}]
  /\ inEdges' = [inEdges EXCEPT ![a] = {}]

RemoveNode(a) ==
  /\ nodes[a] # Absent
  /\ nodes' = [nodes EXCEPT ![a] = Absent]
  /\ outEdges' = [b \in Assets |-> IF b = a THEN {} ELSE {e \in outEdges[b] : e.target # a}]
  /\ inEdges' = [b \in Assets |-> IF b = a THEN {} ELSE {e \in inEdges[b] : e.source # a}]

Next == \/ \E a \in Assets, kind \in Kinds : AddNode(a, kind)
        \/ \E e \in Edge : AddEdge(e)
        \/ \E a \in Assets : RemoveNode(a)

Spec == Init /\ [][Next]_vars

-----------------------------------------------------------------------------
End(e, dir) == IF dir = "upstream" THEN e.source ELSE e.target
EdgesOf(a, dir) == IF dir = "upstream" THEN inEdges[a] ELSE outEdges[a]

(* The neighbours of every asset, edges between columns left aside.         *)
Adjacent(dir) == [a \in Assets |-> {End(e, dir) : e \in {f \in EdgesOf(a, dir) : f.columns = Table}}]

Present == {a \in Assets : nodes[a] # Absent}

(* The state of a walk: the ids seen, the queue and the results.            *)
Place == [id : Assets, depth : Nat]
Walks == [visited : SUBSET Assets, queue : Seq(Place), results : SUBSET Place]

(* A set in one of its orders.                                              *)
Ordered(S) == CHOOSE s \in [1..Cardinality(S) -> S] : IsInjective(s)

(* Mutant: an asset that is not in the graph is walked through.             *)
TurnThrough(w, next, there, max) ==
  LET c == Head(w.queue)
      new == IF c.depth >= max THEN {} ELSE next[c.id] \ w.visited
      at == [n \in new |-> [id |-> n, depth |-> c.depth + 1]]
  IN IF w.queue = <<>> THEN w
     ELSE [visited |-> w.visited \cup new, queue |-> Tail(w.queue) \o Ordered({at[n] : n \in new}),
           results |-> w.results \cup {at[n] : n \in new \cap there}]

(* One turn of the loop of bfs.                                             *)
Turn(w, next, there, max) ==
  LET c == Head(w.queue)
      new == IF c.depth >= max THEN {} ELSE next[c.id] \ w.visited
      found == {[id |-> n, depth |-> c.depth + 1] : n \in new \cap there}
  IN IF w.queue = <<>> THEN w
     ELSE [visited |-> w.visited \cup new, queue |-> Tail(w.queue) \o Ordered(found), results |-> w.results \cup found]

(* bfs from start, along next over the assets that are there.  Every turn   *)
(* takes another asset from the queue, so there are no more than Assets.    *)
Search(next, there, start, max) ==
  LET turn == [w \in Walks |-> Turn(w, next, there, max)]
      Walk[n \in Nat] ==
        IF n = 0 THEN [visited |-> {start}, queue |-> <<[id |-> start, depth |-> 0]>>, results |-> {}]
        ELSE turn[Walk[n - 1]]
  IN Walk[Cardinality(Assets)]

Bfs(start, max, dir) == Search(Adjacent(dir), Present, start, max).results

Found(start, max, dir) == {r.id : r \in Bfs(start, max, dir)}

-----------------------------------------------------------------------------
(* Mutant: a column that several upstream tables have is left out.         *)
UncoveredClear(a, u, c, explicit) ==
  /\ c \in nodes[u].columns
  /\ ~\E x \in explicit : x.table = u /\ x.to = c
  /\ \A v \in Found(a, 1, "upstream") \ {u} : c \notin nodes[v].columns

(* The column c of a is also one of the table u, and no edge leads from u   *)
(* to it.                                                                   *)
Uncovered(a, u, c, explicit) ==
  /\ c \in nodes[u].columns
  /\ ~\E x \in explicit : x.table = u /\ x.to = c

(* getColumnLineage: the column edges of the asset, and between it and a    *)
(* direct upstream table the columns of one name that no such edge covers.  *)
ColumnLineage(a) ==
  LET Entry(u, c, d, how) == [table |-> u, from |-> c, to |-> d, how |-> how]
      explicit == {Entry(e.source, e.columns[1], e.columns[2], "explicit") :
                     e \in {f \in inEdges[a] : f.columns # Table}}
      shared == {p \in Found(a, 1, "upstream") \X nodes[a].columns : Uncovered(a, p[1], p[2], explicit)}
      inferred == {Entry(p[1], p[2], p[2], "inferred") : p \in shared}
  IN IF nodes[a] = Absent THEN {} ELSE explicit \cup inferred

(* computeSeverity: LOW, MEDIUM, HIGH, CRITICAL are 1 to 4.                 *)
Severity(count, dashboards) ==
  IF count > CriticalOver /\ dashboards > 0 THEN 4
  ELSE IF count > HighOver \/ dashboards > 0 THEN 3
  ELSE IF count >= MediumFrom THEN 2 ELSE 1

(* analyzeImpact, with the walk's default depth of 5.                       *)
Impact(a) ==
  LET consumers == Found(a, 5, "downstream")
      dashboards == {c \in consumers : nodes[c].type \in {"dashboard", "report"}}
  IN IF nodes[a] = Absent THEN [severity |-> 1, consumers |-> {}]
     ELSE [severity |-> Severity(Cardinality(consumers), Cardinality(dashboards)), consumers |-> consumers]

(* analyzeColumnImpact: the columns that derive from column c of a.         *)
ColumnImpact(a, c) ==
  UNION {{<<b, x.to>> : x \in {y \in ColumnLineage(b) : y.from = c /\ y.table = a}} :
           b \in {a} \cup Impact(a).consumers}

(* traceAcrossPlatforms: answers[p][dir] are the assets platform p names,   *)
(* or Absent when it fails or times out; platforms are asked in the order   *)
(* of the sequence, the directions of each upstream first.                  *)
Merge(acc, dir, answer) ==
  IF answer = Absent THEN acc
  ELSE [acc EXCEPT !.seen = @ \cup answer, ![dir] = @ \cup (answer \ acc.seen)]

(* Mutant: a platform that fails in one direction ends the round.           *)
AskStop(acc, answer) ==
  IF answer["upstream"] = Absent THEN acc
  ELSE Merge(Merge(acc, "upstream", answer["upstream"]), "downstream", answer["downstream"])

Ask(acc, answer) == Merge(Merge(acc, "upstream", answer["upstream"]), "downstream", answer["downstream"])

(* What the local graph knows of a.                                         *)
Local(a) ==
  LET up == IF nodes[a] = Absent THEN {} ELSE Found(a, 5, "upstream")
      down == IF nodes[a] = Absent THEN {} ELSE Found(a, 5, "downstream")
      self == IF nodes[a] = Absent THEN {} ELSE {a}
  IN [seen |-> up \cup down \cup self, upstream |-> up, downstream |-> down]

Trace(local, order, answers) ==
  LET Told[n \in 0..Len(order)] == IF n = 0 THEN local ELSE Ask(Told[n - 1], answers[order[n]])
  IN Told[Len(order)]

-----------------------------------------------------------------------------
(* The two copies of the edges agree after any adding and removing, also of *)
(* edges to assets that are not there yet or not there any more.            *)
TypeOK == /\ nodes \in [Assets -> Kinds \cup {Absent}]
          /\ outEdges \in [Assets -> SUBSET Edge]
          /\ inEdges \in [Assets -> SUBSET Edge]
          /\ \A a \in Assets : /\ inEdges[a] = {e \in UNION Range(outEdges) : e.target = a}
                              /\ outEdges[a] = {e \in UNION Range(inEdges) : e.source = a}

(* A walk finds every asset once, at the length of the shortest path over   *)
(* assets that are in the graph, in cycles and around missing ones too, and *)
(* upstream is the converse of downstream: a consumer is found from its     *)
(* source and a source from its consumer.                                   *)
WalksAreShortest ==
  \A a \in Assets :
    LET Near[n \in Nat] ==
          IF n = 0 THEN {a}
          ELSE Near[n - 1] \cup {b \in Assets : /\ nodes[b] # Absent
                                              /\ \E s \in Near[n - 1], e \in inEdges[b] : e.source = s /\ e.columns = Table}
    IN \A max \in 0..Cardinality(Assets) :
         LET down == Bfs(a, max, "downstream") IN
         /\ Search(Adjacent("downstream"), Present, a, max).queue = <<>>
         /\ down = UNION {{[id |-> b, depth |-> n] : b \in Near[n] \ Near[n - 1]} : n \in 1..max}
         /\ nodes[a] # Absent => \A r \in down : [id |-> a, depth |-> r.depth] \in Bfs(r.id, max, "upstream")

(* A further edge never lowers the severity of a change of any asset, and a *)
(* further edge between tables takes no column out of the columns that a    *)
(* change of a column affects.                                              *)
Grows ==
  \A e \in UNION Range(outEdges') : AddEdge(e) =>
    \A a \in Assets :
      /\ Impact(a).severity <= Impact(a)'.severity
      /\ e.columns = Table => \A c \in UNION {k.columns : k \in Kinds} : ColumnImpact(a, c) \subseteq ColumnImpact(a, c)'

ImpactGrows == [][Grows]_vars

(* A trace lists whatever a platform that answers names, whichever other    *)
(* platforms fail, and lists an asset that the local graph does not know on *)
(* one side only.  (All answers of the platforms stand for all orders.)     *)
TraceIsComplete ==
  \A a \in Assets :
    LET local == Local(a) IN
    \A answers \in [Providers -> [Directions -> (SUBSET Foreign) \cup {Absent}]] :
      LET t == Trace(local, Ordered(Providers), answers)
          told == {q \in Providers \X Directions : answers[q[1]][q[2]] # Absent}
          named == UNION {answers[q[1]][q[2]] : q \in told}
      IN named \subseteq t.upstream \cup t.downstream /\ named \cap t.upstream \cap t.downstream = {}
=============================================================================
