--------------------------- MODULE DeadlockDetector ---------------------------
(***************************************************************************)
(* core/conflict-resolution/src/deadlock.ts: waits recorded and removed,   *)
(* and at any moment the search for a cycle.                               *)
(***************************************************************************)
EXTENDS Integers, SequencesExt, Relation

CONSTANTS Agents, Resources,
          MaxWaits     \* bound on the number of waits recorded

(* What the constants must satisfy.                                         *)
DetectorAssumption == MaxWaits \in Nat

VARIABLE waitGraph   \* the waits, in the order they were recorded

(* No agent waits for a resource it holds itself.                           *)
Wait == {w \in [waiter : Agents, holder : Agents, resource : Resources] : w.waiter # w.holder}

Cycles == INSTANCE CycleSearch WITH Nodes <- Agents

-----------------------------------------------------------------------------
Init == waitGraph = <<>>

AddWait(w) == /\ Len(waitGraph) < MaxWaits
              /\ waitGraph' = Append(waitGraph, w)

(* The waits that are left, in their order.                                 *)
RemoveWait(a, r) ==
  LET kept == {i \in DOMAIN waitGraph : ~(waitGraph[i].waiter = a /\ waitGraph[i].resource = r)}
      nth(k) == CHOOSE i \in kept : Cardinality({j \in kept : j <= i}) = k
  IN waitGraph' = [k \in 1..Cardinality(kept) |-> waitGraph[nth(k)]]

Next == \/ \E w \in Wait : AddWait(w)
        \/ \E a \in Agents, r \in Resources : RemoveWait(a, r)

Spec == Init /\ [][Next]_waitGraph

-----------------------------------------------------------------------------
(* The Map from each waiter to its holders, and its keys in their order.    *)
Adj == [a \in Agents |-> LET Of(w) == w.waiter = a
                             waits == SelectSeq(waitGraph, Of)
                         IN [i \in DOMAIN waits |-> waits[i].holder]]
Waiters == LET Key(keys, w) == IF Contains(keys, w.waiter) THEN keys ELSE Append(keys, w.waiter)
           IN FoldLeft(Key, <<>>, waitGraph)

DetectCycle == Cycles!FindCycle(Waiters, Adj)

-----------------------------------------------------------------------------
TypeOK == waitGraph \in Seq(Wait)

WaitsFor == [p \in Agents \X Agents |-> \E i \in DOMAIN waitGraph :
                                           waitGraph[i].waiter = p[1] /\ waitGraph[i].holder = p[2]]

(* A cycle is reported if and only if some agent waits for itself in the    *)
(* end, and the path reported then ends in a cycle of waits.                *)
DetectsExactly ==
  LET s == DetectCycle IN
  /\ s.found <=> \E a \in Agents : TransitiveClosure(WaitsFor, Agents)[a, a]
  /\ s.found => /\ Contains(Front(s.path), Last(s.path))
                /\ \A i \in 1..(Len(s.path) - 1) : WaitsFor[s.path[i], s.path[i + 1]]
=============================================================================
