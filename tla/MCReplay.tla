------------------------------ MODULE MCReplay ------------------------------
(* Replay with two threads and two ranges that share no time.               *)
EXTENDS Replay

CONSTANTS t1, t2, k1

TwoRanges == {<<0, 1>>, <<1, 2>>}
=============================================================================
