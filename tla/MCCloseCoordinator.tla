------------------------- MODULE MCCloseCoordinator -------------------------
(* CloseCoordinator with small sets of threads and errors.                 *)
EXTENDS CloseCoordinator, TLC

CONSTANTS t1, t2, t3, e1, e2

MCThreads == {t1, t2, t3}
MCErrors  == {e1, e2}
MCMain    == {t1}
=============================================================================
