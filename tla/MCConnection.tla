---------------------------- MODULE MCConnection ----------------------------
(* Connection with two or three application threads.                       *)
EXTENDS Connection, TLC

CONSTANTS t1, t2, t3

TwoThreads   == {t1, t2}
ThreeThreads == {t1, t2, t3}
MainThread   == {t1}
BothModes    == {"external_token", "access_key"}
NoThread     == {}
\* Behaviours without faults; with a signal; without any and with all.
Faultless    == {{}}
Signal       == {{"interrupt"}}
NoneOrAll    == {{}, {"interrupt", "native"}}

Symm         == Permutations(Threads)
=============================================================================
