---------------------------- MODULE TaskLifecycle ----------------------------
(***************************************************************************)
(* What the run loop promises about task states, as an observer of the     *)
(* folded event log sees them: every change is a transition of the table,  *)
(* one task at a time; a task is made ready only over integrated            *)
(* dependencies; an integrated or cancelled task never moves again.         *)
(***************************************************************************)
EXTENDS TaskState

CONSTANTS Tasks, Deps

VARIABLE st

Init == st = [t \in Tasks |-> "Pending"]

\* The precondition column of the lifecycle table that outlives a race.
Allowed(t, event) ==
  event = "DependencySatisfied" => \A d \in Deps[t] : st[d] = "Integrated"

Step(t, event) ==
  /\ transition(st[t], event) # Illegal
  /\ Allowed(t, event)
  /\ st' = [st EXCEPT ![t] = transition(st[t], event)]

Next == \E t \in Tasks, event \in Events : Step(t, event)

Spec == Init /\ [][Next]_st
=============================================================================
