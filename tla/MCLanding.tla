------------------------------ MODULE MCLanding ------------------------------
(* Instances of Landing for TLC. *)
EXTENDS Landing

N(id, deps, tg) == [id |-> id, deps |-> deps, tier |-> 2, gate |-> "human", tag |-> tg]

\* A root and its dependent, of two deliverables.
MCPair == <<N(1, {}, "a"), N(2, {1}, "b")>>
=============================================================================
