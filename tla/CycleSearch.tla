----------------------------- MODULE CycleSearch -----------------------------
(***************************************************************************)
(* The depth-first search for a cycle that core/conflict-resolution's      *)
(* deadlock.ts and dw-pipelines' pipeline-validator.ts share.  The path is *)
(* the stack of the search: a node that is met again on it closes a cycle. *)
(***************************************************************************)
EXTENDS Integers, Sequences, FiniteSets, Functions

CONSTANT Nodes

Search == [visited : SUBSET Nodes, path : Seq(Nodes), found : BOOLEAN]

(* Mutant: a node met before counts as a cycle, on the path or not.         *)
MeetAny(s, n) == [s EXCEPT !.path = Append(@, n), !.found = TRUE]

(* A neighbour that was visited before.                                     *)
Meet(s, n) == IF n \in Range(s.path) THEN [s EXCEPT !.path = Append(@, n), !.found = TRUE] ELSE s

(* The loop over the nodes next, where dfs goes to those not visited yet.   *)
Loop(dfs, next, s) ==
  LET Visit(acc, n) == IF acc.found THEN acc ELSE IF n \in acc.visited THEN Meet(acc, n) ELSE dfs[n][acc]
      at[i \in 0..Len(next)] == IF i = 0 THEN s ELSE Visit(at[i - 1], next[i])
  IN at[Len(next)]

Enter(s, n) == [s EXCEPT !.visited = @ \cup {n}, !.path = Append(@, n)]
Leave(s) == IF s.found THEN s ELSE [s EXCEPT !.path = SubSeq(@, 1, Len(@) - 1)]

(* dfs, which goes no deeper than there are nodes, and the loop over the    *)
(* nodes that have neighbours, in their order.  There the path is empty, so *)
(* that to meet a node again changes nothing.                               *)
FindCycle(order, adj) ==
  LET Dfs[k \in Nat] == [n \in Nodes |-> [s \in Search |->
                           IF k = 0 THEN s ELSE Leave(Loop(Dfs[k - 1], adj[n], Enter(s, n)))]]
  IN Loop(Dfs[Cardinality(Nodes)], order, [visited |-> {}, path |-> <<>>, found |-> FALSE])
=============================================================================
