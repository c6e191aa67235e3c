-------------------------- MODULE MCPlannerSession --------------------------
(* PlannerSession with planners of two attempts each: one on every          *)
(* platform, two beside each other where a dead planner leaves its worker.  *)
EXTENDS PlannerSession, TLC
CONSTANTS p1, p2
MCPlanners == {p1, p2}
MCCasts == {[who |-> {p1}, on |-> Platforms], [who |-> {p1, p2}, on |-> {"linux"}]}
=============================================================================
