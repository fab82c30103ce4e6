---------------------------- MODULE LineageEditing ----------------------------
(***************************************************************************)
(* The calls of dw-context-catalog that write lineage, on its graph:       *)
(* update_lineage, register_pipeline_asset, the OpenLineage consumer and   *)
(* the persister of crawled assets.  Each is a list of calls of the graph  *)
(* with an await after every one of them, and decides by what it read      *)
(* before the await, while other calls go on.  An asset's id stands for    *)
(* its name; what a node holds does not matter here.                       *)
(***************************************************************************)
EXTENDS CatalogGraph

CONSTANT Calls

VARIABLES job,    \* job[c]: what call c still has to do, and what it read last
          links   \* ghost: the edges added, but for those a crawl took away since

lineageVars == <<job, links>>

(* A call of the graph: it is made always, or only if the last read found   *)
(* something, or only if it found nothing.                                  *)
Do(op, when, a, b) == [op |-> op, when |-> when, a |-> a, b |-> b]
Look(a) == Do("look", "always", a, a)
LookToo(a) == Do("look", "found", a, a)
Put(a) == Do("put", "always", a, a)
PutMissing(a) == Do("put", "missing", a, a)
RemoveFound(a) == Do("remove", "found", a, a)
Link(s, t) == Do("link", "always", s, t)
Find(s, t, d) == [op |-> "find", when |-> "always", a |-> s, b |-> t, id |-> d]

Ops == [op : {"look", "put", "remove", "link", "unique", "edit", "mark"}, when : {"always", "found", "missing"},
        a : Assets, b : Assets]
       \cup [op : {"find"}, when : {"always"}, a : Assets, b : Assets, id : Calls]

(* The edges that are added here.                                           *)
Added == [source : Assets, target : Assets, columns : {Table}, by : Calls, edited : BOOLEAN, deleted : BOOLEAN]

Jobs == [todo : Seq(Ops), seen : BOOLEAN, found : SUBSET Added]

WritersAssumption == GraphAssumption /\ Absent \notin Jobs

-----------------------------------------------------------------------------
Kind == CHOOSE kind \in Kinds : TRUE

(* Any assets are there already, and no edges.                              *)
LineageInit == /\ nodes \in [Assets -> {Kind, Absent}]
               /\ outEdges = [a \in Assets |-> {}]
               /\ inEdges = [a \in Assets |-> {}]
               /\ job = [c \in Calls |-> Absent]
               /\ links = {}

(* A call arrives.                                                          *)
Begin(c, todo) == /\ job[c] = Absent
                  /\ job' = [job EXCEPT ![c] = [todo |-> todo, seen |-> FALSE, found |-> {}]]
                  /\ UNCHANGED <<vars, links>>

(* update_lineage that adds an edge: both datasets must be there, they must *)
(* differ, and no active edge of the kind may lead from one to the other.   *)
UpdateLineage(c, s, t) ==
  Begin(c, IF s = t THEN <<Look(s), LookToo(t)>>
           ELSE <<Look(s), LookToo(t), Do("unique", "found", s, t), Do("edit", "found", s, t)>>)

(* update_lineage with softDelete: the id is that of the edge call d added. *)
SoftDelete(c, s, t, d) ==
  Begin(c, <<Find(s, t, d), Do("mark", "found", s, t)>>)

(* Mutant: the targets are taken to be there.                               *)
RegisterTrusting(c, p, s, t) == Begin(c, <<Put(p), Look(s), PutMissing(s), Link(s, p), Link(p, t)>>)

(* Each dataset is looked up, and put if it is missing, before it is linked. *)
RegisterPipeline(c, p, s, t) ==
  Begin(c, <<Put(p), Look(s), PutMissing(s), Link(s, p), Look(t), PutMissing(t), Link(p, t)>>)

(* A RUNNING or COMPLETE event of a job with one input and one output.      *)
IngestEvent(c, j, i, o) ==
  Begin(c, <<Look(j), PutMissing(j), Look(i), PutMissing(i), Link(i, j),
             Look(o), PutMissing(o), Link(j, o), Link(i, o)>>)

(* persistToGraph of a dbt manifest: its models are removed if they are     *)
(* there and put, and then the edges of those that are there are linked.    *)
PersistToGraph(c, a, b) ==
  Begin(c, <<Look(a), RemoveFound(a), Put(a), Look(b), RemoveFound(b), Put(b),
             Look(a), LookToo(b), Do("link", "found", a, b)>>)

-----------------------------------------------------------------------------
(* What is left to do, from the next call of the graph that is due.         *)
Due(todo, seen) ==
  LET due == {k \in DOMAIN todo : todo[k].when \in {"always", IF seen THEN "found" ELSE "missing"}}
  IN IF due = {} THEN <<>> ELSE SubSeq(todo, Min(due), Len(todo))

Busy(c, op) == job[c] # Absent /\ job[c].todo # <<>> /\ Head(job[c].todo).op = op

Goes(c, seen, found) ==
  job' = [job EXCEPT ![c] = [todo |-> Due(Tail(job[c].todo), seen), seen |-> seen, found |-> found]]

Edges == UNION Range(outEdges)
Between(s, t) == {e \in outEdges[s] : e.target = t}

(* getNode.                                                                 *)
LookUp(c) ==
  /\ Busy(c, "look")
  /\ Goes(c, nodes[Head(job[c].todo).a] # Absent, {})
  /\ UNCHANGED <<vars, links>>

(* getEdgesBetween, for the check for duplicates.                           *)
CheckUnique(c) ==
  /\ Busy(c, "unique")
  /\ LET i == Head(job[c].todo)
     IN Goes(c, ~\E e \in Between(i.a, i.b) : e.edited /\ ~e.deleted, {})
  /\ UNCHANGED <<vars, links>>

(* getEdgesBetween, for the edge to delete: the one with the id, or the     *)
(* only one there is.                                                       *)
FindEdge(c) ==
  /\ Busy(c, "find")
  /\ LET i == Head(job[c].todo)
         found == {e \in Between(i.a, i.b) : (e.edited /\ e.by = i.id) \/ Cardinality(Between(i.a, i.b)) = 1}
     IN Goes(c, found # {}, found)
  /\ UNCHANGED <<vars, links>>

PutNode(c) ==
  /\ Busy(c, "put")
  /\ AddNode(Head(job[c].todo).a, Kind)
  /\ Goes(c, job[c].seen, {})
  /\ UNCHANGED links

TakeNode(c) ==
  /\ Busy(c, "remove")
  /\ LET a == Head(job[c].todo).a
     IN /\ IF nodes[a] = Absent THEN UNCHANGED vars ELSE RemoveNode(a)
        /\ links' = {e \in links : a \notin {e.source, e.target}}
  /\ Goes(c, job[c].seen, {})

(* addEdge; the copy that marks an edge as deleted comes beside it.         *)
PutEdge(c) ==
  /\ job[c] # Absent /\ job[c].todo # <<>>
  /\ LET i == Head(job[c].todo)
         new == [source |-> i.a, target |-> i.b, columns |-> Table,
                 by |-> c, edited |-> i.op = "edit", deleted |-> FALSE]
         e == IF i.op = "mark" THEN [(CHOOSE f \in job[c].found : TRUE) EXCEPT !.deleted = TRUE] ELSE new
     IN /\ i.op \in {"link", "edit", "mark"}
        /\ AddEdge(e)
        /\ links' = links \cup {e}
  /\ Goes(c, job[c].seen, {})

Continue(c) == \/ LookUp(c) \/ CheckUnique(c) \/ FindEdge(c)
               \/ PutNode(c) \/ TakeNode(c) \/ PutEdge(c)

LineageNext ==
  \E c \in Calls :
    \/ \E s, t \in Assets : UpdateLineage(c, s, t) \/ (s # t /\ PersistToGraph(c, s, t))
    \/ \E s, t \in Assets, d \in Calls : SoftDelete(c, s, t, d)
    \/ \E p \in Assets : \E s, t \in Assets \ {p} : RegisterPipeline(c, p, s, t) \/ IngestEvent(c, p, s, t)
    \/ Continue(c)

LineageSpec == LineageInit /\ [][LineageNext]_<<vars, lineageVars>>

-----------------------------------------------------------------------------
(* Both copies of the edges agree, and a call remembers what it read as     *)
(* edges, whether they are still there or not.                              *)
LineageTypeOK ==
  /\ nodes \in [Assets -> Kinds \cup {Absent}]
  /\ \A a \in Assets : /\ inEdges[a] = {e \in Edges : e.target = a}
                      /\ outEdges[a] = {e \in UNION Range(inEdges) : e.source = a}
  /\ links \cup Edges \subseteq Added
  /\ job \in [Calls -> Jobs \cup {Absent}]

(* The assets a crawl has removed and not put back yet.                     *)
Replaced == {Head(job[c].todo).a : c \in {d \in Calls : Busy(d, "put") /\ job[d].seen}}

(* Whatever edge a call has added is found by a walk from either end, with  *)
(* all the calls under way beside it, as long as no crawl removes one of    *)
(* its ends after that; and only while a crawl is replacing an end it may   *)
(* be out of sight.                                                         *)
LinkedIsFound ==
  \A e \in links : {e.source, e.target} \cap Replaced = {} /\ e.source # e.target =>
    e.source \in Found(e.target, 1, "upstream") /\ e.target \in Found(e.source, 1, "downstream")

(* update-lineage.ts:7: soft-delete marks the edge, which is active no      *)
(* longer.                                                                  *)
SoftDeletedIsMarked ==
  \A e \in Edges : e.deleted => [e EXCEPT !.deleted = FALSE] \notin Edges
=============================================================================
