------------------------------ MODULE MCOutputs ------------------------------
(* Instances of Outputs for TLC.                                            *)
EXTENDS Outputs, TLC

CONSTANTS t1, t2, o1, o2, c1, c2

\* Two threads share one Output; one of them has another for itself.
SharedOutput == {<<t1, o1>>, <<t2, o1>>, <<t2, o2>>}

Symm == Permutations(Connections)
=============================================================================
