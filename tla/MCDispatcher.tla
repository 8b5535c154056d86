---------------------------- MODULE MCDispatcher ----------------------------
(* Instances of Dispatcher for TLC.                                         *)
EXTENDS Dispatcher, TLC

CONSTANTS out1, rep, conn

\* One Output: the queue policy.
PolicyEmits == (out1 :> {"state", "error", "frame"})
PolicyFrameCapacity == (out1 :> 2)

\* A Replay whose callback may close the Connection.
PoolEmits == (conn :> {"message"}) @@ (rep :> {"native_task"})
PoolFrameCapacity == (conn :> 1) @@ (rep :> 1)
PoolCloses == {<<rep, conn>>}

Symm == Permutations(Workers) \cup Permutations(SdkThreads) \cup Permutations(Tasks)
=============================================================================
