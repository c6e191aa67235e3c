-------------------------- MODULE MCHarnessCapture --------------------------
(* Two invokes of one attempt id; an invoke and two probes, which want    *)
(* more permits than there are; an invoke, a check and a plain command.    *)
EXTENDS HarnessCapture

CONSTANTS w1, w2, p1, p2, v1, g1, k1

MCWorkers == {w1, w2}
MCProbes == {p1, p2}
MCChecks == {v1}
MCCommands == {g1}
MCKeys == {k1}
MCKeyOf == [w \in MCWorkers |-> k1]
MCMixes == {{w1, w2}, {w1, p1, p2}, {w1, v1, g1}}
=============================================================================
