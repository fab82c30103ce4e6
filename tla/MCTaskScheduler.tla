-------------------------- MODULE MCTaskScheduler --------------------------
(* Small instances of the task scheduler for TLC.                           *)
EXTENDS TaskScheduler

CONSTANTS a1, a2, t1, t2, c1, c2

Symmetry == Permutations(Tasks) \cup Permutations(Agents)
                                \cup Permutations(Calls)

(* The tasks have different priorities; ageing still makes their scores tie.*)
MixedInit == Init /\ IsInjective(priority)
MixedSpec == MixedInit /\ [][Next]_vars
=============================================================================
