---------------------------- MODULE MCDriverWatch ----------------------------
(* A chain of two tasks, the second behind the verify gate, and a task beside *)
(* it.  Files of every version and with foreign objects where processes race  *)
(* to migrate; the current version where they watch a run.                    *)
EXTENDS DriverWatch

CONSTANTS p1, p2, d1, d2, w1, w2, v1

ChainTasks == {1, 2, 3}
ChainDeps == [t \in ChainTasks |-> IF t = 2 THEN {1} ELSE {}]
AllProcesses == {p1, p2, d1, d2, w1, w2, v1}

Fresh == [t \in ChainTasks |-> "Pending"]
HalfDone == [t \in ChainTasks |-> IF t = 2 THEN "Pending" ELSE "Integrated"]
Migrating(who) ==
  [who |-> who, current |-> FALSE, plans |-> {"PlanAccepted"}, found |-> HalfDone]
Watching(who, plans, found) ==
  [who |-> who, current |-> TRUE, plans |-> plans, found |-> found]
AllCasts ==
  {Migrating({p1, p2}), Migrating({p1, d1}), Migrating({p1, w2}), Migrating({p1, v1}),
   Watching({d1, d2, v1}, {"PlanAccepted"}, HalfDone), Watching({d1, w1}, PlanStates, Fresh),
   Watching({d1, w1}, PlanStates, HalfDone), Watching({d1, w2}, PlanStates, HalfDone)}
=============================================================================
