------------------------------ MODULE MCRunLoop ------------------------------
(* Instances of RunLoop for TLC. *)
EXTENDS RunLoop

\* 2 depends on 1.
ChainTasks == {1, 2}
ChainDeps == [t \in ChainTasks |-> IF t = 2 THEN {1} ELSE {}]

\* Two independent tasks.
PairDeps == [t \in ChainTasks |-> {}]
=============================================================================
