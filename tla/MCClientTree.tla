---------------------------- MODULE MCClientTree ----------------------------
(* The RTC and the Cloud tree over the same five nodes.                     *)
EXTENDS ClientTree

CONSTANTS t1, t2, n1, n2, n3, n4, n5

Edge(kind, parent, made) == [kind |-> kind, parent |-> parent, made |-> made]

\* A Client with a Connection that may record and dump, and another one.
RtcTree == (n1 :> Edge("client", None, TRUE)) @@ (n2 :> Edge("connection", n1, TRUE)) @@
           (n3 :> Edge("connection", n1, FALSE)) @@ (n4 :> Edge("task", n2, FALSE)) @@
           (n5 :> Edge("dump", n2, FALSE))

\* A Client that may open a CloudStorage, with a Replay that records and dumps.
CloudTree == (n1 :> Edge("client", None, TRUE)) @@ (n2 :> Edge("replay", n3, FALSE)) @@
             (n3 :> Edge("cloud", n1, FALSE)) @@ (n4 :> Edge("task", n2, FALSE)) @@
             (n5 :> Edge("dump", n2, FALSE))

\* One thread closes the Client, one uses everything below, and a callback of
\* n2 may close everything it can reach.
ClosersAndUser == ({t1} \X {n1}) \cup ({t2} \X {n2, n3, n4, n5}) \cup ({n2} \X Nodes)

BothTrees == {RtcTree, CloudTree}
=============================================================================
