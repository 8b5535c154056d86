-------------------------- MODULE ClientTreeProofs --------------------------
(* Proofs about ClientTree, for any trees, callers and number of failures.  *)
(* The invariant is about the stacks: what the frame of a close() still has *)
(* before it covers every child whose native object is not gone.            *)
EXTENDS ClientTree, SequenceTheorems, TLAPS

Statuses == {"open", "closing", "close_failed", "closed"}
Files    == {None, "kept", "deleted", "refused"}

NodeRecord ==
    [made : BOOLEAN, gone : BOOLEAN, kids : SUBSET Nodes, status : Statuses,
     shut : BOOLEAN, stopped : BOOLEAN, error : BOOLEAN, file : Files,
     given : BOOLEAN, stops : Nat]

Closers == {"stop", "destroy", "dump_stop", "dump_close", "children", "release",
            "unregister", "succeed"}
Labels  == Closers \cup {"lock", "closed", "join"}

FrameRecord ==
    [n : Nodes, pc : Labels, todo : SUBSET Nodes, child : Nodes \cup {None}, err : BOOLEAN]

Typed ==
    /\ tree \in Shapes
    /\ node \in [Nodes -> NodeRecord]
    /\ busy \subseteq Nodes
    /\ stack \in [Callers -> Seq(FrameRecord)]
    /\ ret \in [Callers -> {None, "ok", "error"}]
    /\ faults \in 0 .. MaxFaults

Made(n)     == node[n].made
Closed(n)   == node[n].status = "closed"
ChildOf(m, n) == Made(m) /\ Parent(m) = n

\* f is the i-th frame on the stack of t.
Framed(t, i, f) == i \in 1 .. Len(stack[t]) /\ stack[t][i] = f

\* A frame that works on its object, which another caller then only joins.
Works(f) == f.pc \in Closers

\* A frame that is past its native calls.
Ends(f) == f.pc \in {"unregister", "succeed"}

\* The labels a frame of each kind of object goes through.
Labelled(f) ==
    /\ f.pc \in {"children", "release"} => Kind(f.n) \in Containers
    /\ f.pc \in {"stop", "destroy"} => Kind(f.n) = "task"
    /\ f.pc \in {"lock", "dump_stop", "dump_close"} => Kind(f.n) = "dump"
    /\ f.pc \in {"closed", "join"} => Kind(f.n) # "dump"
    /\ f.err => Kind(f.n) # "task"

\* What a frame says of its object.
Marked(f) ==
    /\ f.pc = "closed" => Closed(f.n)
    /\ Works(f) => node[f.n].status = IF f.pc = "unregister" /\ Kind(f.n) \notin {"task", "replay"}
                                      THEN "closed" ELSE "closing"
    /\ Ends(f) => node[f.n].gone
    /\ f.pc = "release" => \A m \in Nodes : ChildOf(m, f.n) => node[m].gone

FrameHolds(f) == Made(f.n) /\ Labelled(f) /\ Marked(f)

\* The frame waits for the call it made, or for what the call raised.
Waits(t, i) == i < Len(stack[t]) \/ ret[t] = "error"

\* Every child whose native object is not gone is still before the frame, or is
\* the one it waits for.
Covered(t, i, f) ==
    /\ f.child # None => ChildOf(f.child, f.n)
    /\ \A m \in f.todo : ChildOf(m, f.n)
    /\ f.pc = "children" => \A m \in Nodes : ChildOf(m, f.n) /\ ~node[m].gone =>
                               m \in f.todo \/ (Waits(t, i) /\ m = f.child)

\* A frame calls the close() of its child, and hears what became of it.
Linked(t) ==
    /\ \A i \in Nat : \A f, g \in FrameRecord : Framed(t, i, f) /\ Framed(t, i + 1, g) =>
          f.pc = "children" /\ f.child = g.n
    /\ ret[t] # None => \E f \in FrameRecord :
          Framed(t, Len(stack[t]), f) /\ f.pc = "children" /\ f.child # None

Stacked(t) ==
    /\ \A i \in Nat : \A f \in FrameRecord :
          Framed(t, i, f) => FrameHolds(f) /\ Covered(t, i, f)
    /\ Linked(t)

\* One frame works on an object.
OneWorker ==
    \A t, u \in Callers : \A i, j \in Nat : \A f, g \in FrameRecord :
        /\ Framed(t, i, f) /\ Framed(u, j, g)
        /\ Works(f) /\ Works(g) /\ f.n = g.n
        => t = u /\ i = j

Finishing(n) ==
    \E t \in Callers : \E i \in Nat : \E f \in FrameRecord :
        Framed(t, i, f) /\ Ends(f) /\ f.n = n

\* The native object goes before the status says so, and after those of the
\* children.
GoneExact ==
    \A n \in Nodes :
        /\ Closed(n) => node[n].gone
        /\ node[n].gone => Closed(n) \/ Finishing(n)
        /\ node[n].gone => \A m \in Nodes : ChildOf(m, n) => node[m].gone

\* What nobody holds is there, and a child is registered from its creation until
\* its native object is gone.
Registered ==
    \A n \in Nodes : /\ Parent(n) = None => Made(n)
                     /\ \A m \in node[n].kids : ChildOf(m, n)
                     /\ \A m \in Nodes : ChildOf(m, n) /\ ~node[m].gone => m \in node[n].kids

\* The close() of t is about to delete the file of m.
Deletes(t, m) ==
    /\ ret[t] = "ok"
    /\ \E f \in FrameRecord : Framed(t, Len(stack[t]), f) /\ f.pc = "children" /\ f.child = m

\* What is known of a recording.
Recording(m) ==
    /\ node[m].file # None => Made(m) /\ Kind(m) = "task" /\ ~node[m].error
    /\ node[m].stops <= IF Kind(m) = "task" /\ node[m].stopped THEN 1 ELSE 0
    /\ node[m].file = "kept" /\ Closed(m) /\ ~node[m].given /\ Parent(m) # None =>
          \E t \in Callers : Deletes(t, m)

Recorded == \A m \in Nodes : Recording(m)

TreeInv ==
    Typed /\ (\A t \in Callers : Stacked(t)) /\ OneWorker /\ GoneExact /\ Registered /\ Recorded
-----------------------------------------------------------------------------
(* Stacks.                                                                  *)

LEMMA TopOf ==
    ASSUME NEW s \in Seq(FrameRecord), s # <<>>
    PROVE  /\ Len(s) \in Nat \ {0} /\ Last(s) = s[Len(s)] /\ Last(s) \in FrameRecord
           /\ Front(s) \in Seq(FrameRecord) /\ Len(Front(s)) = Len(s) - 1
           /\ \A i \in 1 .. Len(s) - 1 : Front(s)[i] = s[i]
<1>1. Len(s) \in Nat \ {0} /\ \A i \in 1 .. Len(s) : s[i] \in FrameRecord
  BY EmptySeq, LenProperties, ElementOfSeq
<1>2. Last(s) = s[Len(s)] /\ Last(s) \in FrameRecord
  BY <1>1 DEF Last
<1>3. Front(s) = SubSeq(s, 1, Len(s) - 1)
  BY DEF Front
<1>4. \A i \in 1 .. Len(s) - 1 : s[i] \in FrameRecord
  BY <1>1
<1>5. \A k \in Nat : (\A i \in 1 .. k : s[i] \in FrameRecord) =>
         /\ SubSeq(s, 1, k) \in Seq(FrameRecord) /\ Len(SubSeq(s, 1, k)) = k
         /\ \A i \in 1 .. k : SubSeq(s, 1, k)[i] = s[i]
  <2> TAKE k \in Nat
  <2> HAVE \A i \in 1 .. k : s[i] \in FrameRecord
  <2>1. /\ SubSeq(s, 1, k) \in Seq(FrameRecord)
        /\ Len(SubSeq(s, 1, k)) = IF 1 <= k THEN k - 1 + 1 ELSE 0
        /\ \A i \in 1 .. k - 1 + 1 : SubSeq(s, 1, k)[i] = s[1 + i - 1]
    BY SubSeqProperties, k \in Int, 1 \in Int
  <2>2. k - 1 + 1 = k /\ \A i \in 1 .. k : 1 + i - 1 = i
    OBVIOUS
  <2> QED BY <2>1, <2>2
<1>6. Len(s) - 1 \in Nat
  BY <1>1
<1> QED BY <1>1, <1>2, <1>3, <1>4, <1>5, <1>6

\* The top frame of a stack is replaced.
LEMMA TopReplaced ==
    ASSUME NEW s \in Seq(FrameRecord), s # <<>>, NEW e \in FrameRecord
    PROVE  LET r == Append(Front(s), e)
           IN  /\ r \in Seq(FrameRecord) /\ Len(r) = Len(s)
               /\ \A i \in 1 .. Len(s) : r[i] = IF i = Len(s) THEN e ELSE s[i]
<1> DEFINE r == Append(Front(s), e)
<1>1. /\ Len(s) \in Nat \ {0} /\ Front(s) \in Seq(FrameRecord) /\ Len(Front(s)) = Len(s) - 1
      /\ \A i \in 1 .. Len(s) - 1 : Front(s)[i] = s[i]
  BY TopOf
<1>2. /\ r \in Seq(FrameRecord) /\ Len(r) = Len(Front(s)) + 1
      /\ \A i \in 1 .. Len(Front(s)) + 1 :
            r[i] = IF i <= Len(Front(s)) THEN Front(s)[i] ELSE e
  BY <1>1, AppendProperties
<1> HIDE DEF r
<1> QED BY <1>1, <1>2

\* A frame is put on top of a stack.
LEMMA TopAdded ==
    ASSUME NEW r \in Seq(FrameRecord), NEW g \in FrameRecord
    PROVE  LET s == r \o <<g>>
           IN  /\ s \in Seq(FrameRecord) /\ Len(s) = Len(r) + 1
               /\ \A i \in 1 .. Len(r) + 1 : s[i] = IF i = Len(r) + 1 THEN g ELSE r[i]
<1> DEFINE s == r \o <<g>>
<1>1. <<g>> \in Seq(FrameRecord) /\ Len(<<g>>) = 1 /\ <<g>>[1] = g
  OBVIOUS
<1>2. Len(r) \in Nat
  BY LenProperties
<1>3. /\ s \in Seq(FrameRecord) /\ Len(s) = Len(r) + Len(<<g>>)
      /\ \A i \in 1 .. Len(r) + Len(<<g>>) :
            s[i] = IF i <= Len(r) THEN r[i] ELSE <<g>>[i - Len(r)]
  BY <1>1, ConcatProperties
<1> HIDE DEF s
<1> QED BY <1>1, <1>2, <1>3

\* The frame a caller is in.
LEMMA TopFrame ==
    ASSUME Typed, NEW t \in Callers, stack[t] # <<>>
    PROVE  /\ Top(t) \in FrameRecord /\ Len(stack[t]) \in Nat \ {0}
           /\ Framed(t, Len(stack[t]), Top(t))
BY TopOf DEF Typed, Top, Framed

LEMMA Framings ==
    ASSUME Typed, NEW t \in Callers, NEW i, NEW f, Framed(t, i, f)
    PROVE  /\ f \in FrameRecord /\ i \in Nat \ {0} /\ Len(stack[t]) \in Nat
           /\ i <= Len(stack[t]) /\ stack[t] # <<>>
BY ElementOfSeq, LenProperties, EmptySeq DEF Typed, Framed

LEMMA MovedFrames ==
    ASSUME Typed, NEW t \in Callers, stack[t] # <<>>, NEW e \in FrameRecord,
           stack' = [stack EXCEPT ![t] = Append(Front(@), e)]
    PROVE  /\ stack' \in [Callers -> Seq(FrameRecord)]
           /\ \A u \in Callers : Len(stack'[u]) = Len(stack[u])
           /\ \A u \in Callers \ {t} : stack'[u] = stack[u]
           /\ \A u \in Callers : \A i, f :
                 Framed(u, i, f)' <=> IF u = t /\ i = Len(stack[t]) THEN f = e ELSE Framed(u, i, f)
<1>1. stack[t] \in Seq(FrameRecord) /\ \A u \in Callers \ {t} : stack'[u] = stack[u]
  BY DEF Typed
<1>2. stack'[t] = Append(Front(stack[t]), e)
  BY DEF Typed
<1>3. /\ stack'[t] \in Seq(FrameRecord) /\ Len(stack'[t]) = Len(stack[t])
      /\ \A i \in 1 .. Len(stack[t]) : stack'[t][i] = IF i = Len(stack[t]) THEN e ELSE stack[t][i]
  BY <1>1, <1>2, TopReplaced
<1>4. Len(stack[t]) \in Nat \ {0}
  BY TopFrame
<1>5. stack' \in [Callers -> Seq(FrameRecord)]
  BY <1>3 DEF Typed
<1> QED BY <1>1, <1>3, <1>4, <1>5 DEF Framed

LEMMA PushedFrames ==
    ASSUME Typed, NEW t \in Callers, stack[t] # <<>>, NEW e \in FrameRecord, NEW g \in FrameRecord,
           stack' = [stack EXCEPT ![t] = Append(Front(@), e) \o <<g>>]
    PROVE  /\ stack' \in [Callers -> Seq(FrameRecord)]
           /\ Len(stack'[t]) = Len(stack[t]) + 1
           /\ \A u \in Callers \ {t} : stack'[u] = stack[u]
           /\ \A u \in Callers : \A i, f :
                 Framed(u, i, f)' <=> IF u = t /\ i = Len(stack[t]) THEN f = e
                                      ELSE IF u = t /\ i = Len(stack[t]) + 1 THEN f = g
                                      ELSE Framed(u, i, f)
<1>1. stack[t] \in Seq(FrameRecord) /\ \A u \in Callers \ {t} : stack'[u] = stack[u]
  BY DEF Typed
<1>2. stack'[t] = Append(Front(stack[t]), e) \o <<g>>
  BY DEF Typed
<1>4. Len(stack[t]) \in Nat \ {0}
  BY TopFrame
<1>3. /\ stack'[t] \in Seq(FrameRecord) /\ Len(stack'[t]) = Len(stack[t]) + 1
      /\ \A i \in 1 .. Len(stack[t]) : stack'[t][i] = IF i = Len(stack[t]) THEN e ELSE stack[t][i]
      /\ stack'[t][Len(stack[t]) + 1] = g
  <2> DEFINE r == Append(Front(stack[t]), e)
  <2>1. /\ r \in Seq(FrameRecord) /\ Len(r) = Len(stack[t])
        /\ \A i \in 1 .. Len(stack[t]) : r[i] = IF i = Len(stack[t]) THEN e ELSE stack[t][i]
    BY <1>1, TopReplaced
  <2> HIDE DEF r
  <2>3. stack'[t] = r \o <<g>>
    BY <1>2 DEF r
  <2>2. /\ stack'[t] \in Seq(FrameRecord) /\ Len(stack'[t]) = Len(r) + 1
        /\ \A i \in 1 .. Len(r) + 1 : stack'[t][i] = IF i = Len(r) + 1 THEN g ELSE r[i]
    <3>1. /\ r \o <<g>> \in Seq(FrameRecord) /\ Len(r \o <<g>>) = Len(r) + 1
          /\ \A i \in 1 .. Len(r) + 1 : (r \o <<g>>)[i] = IF i = Len(r) + 1 THEN g ELSE r[i]
      BY <2>1, TopAdded
    <3> QED BY <2>3, <3>1
  <2> QED BY <1>4, <2>1, <2>2
<1>5. stack' \in [Callers -> Seq(FrameRecord)]
  BY <1>3 DEF Typed
<1> QED BY <1>1, <1>3, <1>4, <1>5 DEF Framed

LEMMA PoppedFrames ==
    ASSUME Typed, NEW S \in SUBSET Callers, \A u \in S : stack[u] # <<>>, NEW v,
           PopAll(S, v)
    PROVE  /\ stack' \in [Callers -> Seq(FrameRecord)]
           /\ \A u \in Callers \ S : stack'[u] = stack[u] /\ ret'[u] = ret[u]
           /\ \A u \in S : /\ Len(stack'[u]) = Len(stack[u]) - 1
                           /\ ret'[u] = IF Len(stack[u]) > 1 THEN v ELSE None
           /\ \A u \in Callers : \A i, f :
                 Framed(u, i, f)' <=> Framed(u, i, f) /\ (u \in S => i # Len(stack[u]))
<1>1. \A u \in Callers : stack'[u] = IF u \in S THEN Front(stack[u]) ELSE stack[u]
  BY DEF PopAll
<1>2. \A u \in S : /\ stack'[u] \in Seq(FrameRecord) /\ Len(stack'[u]) = Len(stack[u]) - 1
                   /\ \A i \in 1 .. Len(stack[u]) - 1 : stack'[u][i] = stack[u][i]
                   /\ Len(stack[u]) \in Nat \ {0}
  BY <1>1, TopOf DEF Typed
<1>3. stack' \in [Callers -> Seq(FrameRecord)]
  BY <1>1, <1>2 DEF Typed, PopAll
<1>4. \A u \in S : \A i, f :
         Framed(u, i, f)' <=> Framed(u, i, f) /\ i # Len(stack[u])
  BY <1>2 DEF Framed
<1>5. \A u \in Callers \ S : \A i, f : Framed(u, i, f)' <=> Framed(u, i, f)
  BY <1>1 DEF Framed
<1>6. \A u \in Callers : ret'[u] = IF u \notin S THEN ret[u]
                                   ELSE IF Len(stack[u]) > 1 THEN v ELSE None
  BY DEF PopAll
<1> QED BY <1>1, <1>2, <1>3, <1>4, <1>5, <1>6
-----------------------------------------------------------------------------
(* Steps that leave the tree as it is: nothing that is closed or gone comes  *)
(* back, and nothing is created.                                            *)

NodesGo ==
    /\ tree' = tree /\ node' \in [Nodes -> NodeRecord]
    /\ \A n \in Nodes : /\ node'[n].made = node[n].made
                        /\ Closed(n) => node'[n].status = "closed"
                        /\ node[n].gone => node'[n].gone

\* Of the statuses only that of n changes.
OnlyStatusOf(n) == \A m \in Nodes \ {n} : node'[m].status = node[m].status

\* No frame works on n.
Idle(n) ==
    \A t \in Callers : \A i \in Nat : \A f \in FrameRecord :
        Framed(t, i, f) /\ Works(f) => f.n # n

LEMMA Shape ==
    ASSUME Typed, NEW n \in Nodes
    PROVE  /\ None \notin Nodes
           /\ Kind(n) \in Containers \cup {"task", "dump"} /\ tree[n].made \in BOOLEAN
           /\ Parent(n) = None => tree[n].made
           /\ Parent(n) # None => Parent(n) \in Nodes /\ Kind(Parent(n)) \in Containers
BY TreeAssumption, ShapeAssumption DEF Typed, Kind, Parent

LEMMA FrameStays ==
    ASSUME NodesGo, NEW f \in FrameRecord, FrameHolds(f),
           Works(f) => node'[f.n].status = node[f.n].status
    PROVE  FrameHolds(f)'
<1>1. f.n \in Nodes
  BY DEF FrameRecord
<1>2. Made(f.n)' /\ Labelled(f)'
  BY <1>1 DEF FrameHolds, Made, Labelled, Kind, NodesGo
<1>3. Marked(f)'
  BY <1>1 DEF FrameHolds, Marked, Kind, NodesGo, Closed, ChildOf, Made, Parent
<1> QED BY <1>2, <1>3 DEF FrameHolds

LEMMA CoverStays ==
    ASSUME NodesGo, NEW t \in Callers, NEW i \in Nat, NEW f \in FrameRecord, Covered(t, i, f),
           Waits(t, i) => Waits(t, i)' \/ node'[f.child].gone
    PROVE  Covered(t, i, f)'
<1>1. \A m, n \in Nodes : ChildOf(m, n)' <=> ChildOf(m, n)
  BY DEF NodesGo, ChildOf, Made, Parent
<1>2. \A m \in Nodes : node[m].gone => node'[m].gone
  BY DEF NodesGo
<1>3. f.n \in Nodes /\ f.todo \subseteq Nodes /\ f.child \in Nodes \cup {None}
  BY DEF FrameRecord
<1>4. f.child # None => ChildOf(f.child, f.n)'
  BY <1>1, <1>3 DEF Covered
<1>5. \A m \in f.todo : ChildOf(m, f.n)'
  BY <1>1, <1>3 DEF Covered
<1>6. ASSUME f.pc = "children", NEW m \in Nodes, ChildOf(m, f.n)', ~node'[m].gone
      PROVE  m \in f.todo \/ (Waits(t, i)' /\ m = f.child)
  BY <1>1, <1>2, <1>3, <1>6 DEF Covered
<1> QED BY <1>4, <1>5, <1>6 DEF Covered

LEMMA TreeInvFacts ==
    ASSUME TreeInv
    PROVE  /\ Typed /\ OneWorker /\ GoneExact /\ Registered /\ Recorded
           /\ \A t \in Callers : Linked(t)
           /\ \A t \in Callers : \A i \in Nat : \A f \in FrameRecord :
                 Framed(t, i, f) => FrameHolds(f) /\ Covered(t, i, f)
BY DEF TreeInv, Stacked

\* The call in the top frame f of t goes on as e.
LEMMA Moves ==
    ASSUME TreeInv, NEW t \in Callers, NEW f \in FrameRecord, NEW e \in FrameRecord,
           Framed(t, Len(stack[t]), f), e.n = f.n,
           stack' = [stack EXCEPT ![t] = Append(Front(@), e)],
           \A u \in Callers \ {t} : ret'[u] = ret[u],
           ret'[t] # None => e.pc = "children" /\ e.child # None,
           NodesGo, OnlyStatusOf(f.n), Works(f) \/ Idle(f.n),
           FrameHolds(e)', Covered(t, Len(stack[t]), e)'
    PROVE  (\A u \in Callers : Stacked(u)') /\ OneWorker'
<1>1. stack[t] # <<>> /\ Len(stack[t]) \in Nat \ {0}
  BY TreeInvFacts, Framings
<1>2. /\ \A u \in Callers : Len(stack'[u]) = Len(stack[u])
      /\ \A u \in Callers : \A i, g :
            Framed(u, i, g)' <=> IF u = t /\ i = Len(stack[t]) THEN g = e ELSE Framed(u, i, g)
  BY <1>1, MovedFrames, TreeInvFacts
<1>3. ASSUME NEW u \in Callers, NEW i \in Nat, NEW g \in FrameRecord, Framed(u, i, g),
             ~(u = t /\ i = Len(stack[t])), Works(g)
      PROVE  g.n # f.n
  BY <1>1, <1>3, TreeInvFacts DEF OneWorker, Idle
<1>4. ASSUME NEW u \in Callers, NEW i \in Nat, NEW g \in FrameRecord, Framed(u, i, g)'
      PROVE  FrameHolds(g)' /\ Covered(u, i, g)'
  <2>1. CASE u = t /\ i = Len(stack[t])
    BY <1>2, <1>4, <2>1
  <2>2. CASE ~(u = t /\ i = Len(stack[t]))
    <3>1. Framed(u, i, g)
      BY <1>2, <1>4, <2>2
    <3>2. FrameHolds(g) /\ Covered(u, i, g) /\ g.n \in Nodes
      BY <3>1, TreeInvFacts DEF FrameRecord
    <3>3. Works(g) => node'[g.n].status = node[g.n].status
      BY <1>3, <2>2, <3>1, <3>2 DEF OnlyStatusOf
    <3>4. Waits(u, i) => Waits(u, i)'
      <4>1. u = t => i < Len(stack[t])
        BY <1>1, <2>2, <3>1, TreeInvFacts, Framings
      <4> QED BY <1>2, <4>1 DEF Waits
    <3> QED BY <3>2, <3>3, <3>4, FrameStays, CoverStays
  <2> QED BY <2>1, <2>2
<1>5. ASSUME NEW u \in Callers PROVE Linked(u)'
  <2>1. ASSUME NEW i \in Nat, NEW g \in FrameRecord, NEW h \in FrameRecord,
               Framed(u, i, g)', Framed(u, i + 1, h)'
        PROVE  g.pc = "children" /\ g.child = h.n
    <3>1. ~(u = t /\ i = Len(stack[t]))
      <4>1. i + 1 <= Len(stack'[u])
        BY <2>1, LenProperties, MovedFrames, TreeInvFacts, <1>1 DEF Framed
      <4> QED BY <1>1, <1>2, <4>1
    <3>2. Framed(u, i, g)
      BY <1>2, <2>1, <3>1
    <3>3. CASE u = t /\ i + 1 = Len(stack[t])
      BY <1>2, <2>1, <3>2, <3>3, TreeInvFacts DEF Linked
    <3>4. CASE ~(u = t /\ i + 1 = Len(stack[t]))
      BY <1>2, <2>1, <3>2, <3>4, TreeInvFacts DEF Linked
    <3> QED BY <3>3, <3>4
  <2>2. ASSUME ret'[u] # None
        PROVE  \E g \in FrameRecord :
                  Framed(u, Len(stack[u]), g)' /\ g.pc = "children" /\ g.child # None
    <3>1. CASE u = t
      BY <1>1, <1>2, <2>2, <3>1
    <3>2. CASE u # t
      BY <1>2, <2>2, <3>2, TreeInvFacts DEF Linked
    <3> QED BY <3>1, <3>2
  <2> QED BY <2>1, <2>2 DEF Linked
<1>6. OneWorker'
  <2> SUFFICES ASSUME NEW u \in Callers, NEW v \in Callers, NEW i \in Nat, NEW j \in Nat,
                      NEW g \in FrameRecord, NEW h \in FrameRecord,
                      Framed(u, i, g)', Framed(v, j, h)', Works(g), Works(h), g.n = h.n
               PROVE  u = v /\ i = j
    BY DEF OneWorker, Works
  <2>1. CASE (u = t /\ i = Len(stack[t])) /\ ~(v = t /\ j = Len(stack[t]))
    BY <1>2, <1>3, <2>1
  <2>2. CASE ~(u = t /\ i = Len(stack[t])) /\ (v = t /\ j = Len(stack[t]))
    BY <1>2, <1>3, <2>2
  <2>3. CASE ~(u = t /\ i = Len(stack[t])) /\ ~(v = t /\ j = Len(stack[t]))
    BY <1>2, <2>3, TreeInvFacts DEF OneWorker
  <2> QED BY <2>1, <2>2, <2>3
<1> QED BY <1>4, <1>5, <1>6 DEF Stacked

\* A caller when the calls of S, which are all of n, return v.
LEMMA PopsIn ==
    ASSUME TreeInv, NEW u \in Callers, NEW S \in SUBSET Callers, NEW n \in Nodes,
           NEW v \in {"ok", "error"},
           NodesGo, OnlyStatusOf(n), v = "ok" => node'[n].gone,
           u \in S => stack[u] # <<>> /\ Top(u).n = n,
           u \notin S => stack'[u] = stack[u] /\ ret'[u] = ret[u],
           u \in S => /\ Len(stack'[u]) = Len(stack[u]) - 1
                      /\ ret'[u] = IF Len(stack[u]) > 1 THEN v ELSE None,
           \A i, f : Framed(u, i, f)' <=> Framed(u, i, f) /\ (u \in S => i # Len(stack[u])),
           \/ node'[n].status = node[n].status
           \/ \A i \in Nat : \A f \in FrameRecord :
                 Framed(u, i, f) /\ Works(f) /\ f.n = n => u \in S /\ i = Len(stack[u])
    PROVE  Stacked(u)'
<1>2. u \in S => /\ Framed(u, Len(stack[u]), Top(u)) /\ Top(u) \in FrameRecord
                 /\ Len(stack[u]) \in Nat \ {0}
  BY TreeInvFacts, TopFrame
\* Below the frame that returns is the one that called it.
<1>3. ASSUME u \in S, NEW i \in Nat, NEW f \in FrameRecord, Framed(u, i, f), i + 1 = Len(stack[u])
      PROVE  f.pc = "children" /\ f.child = n
  <2> PICK g \in FrameRecord : g = Top(u)
    BY <1>2, <1>3
  <2> QED BY <1>2, <1>3, TreeInvFacts DEF Linked
<1>4. ASSUME NEW i \in Nat, NEW f \in FrameRecord, Framed(u, i, f)'
      PROVE  FrameHolds(f)' /\ Covered(u, i, f)'
  <2>1. Framed(u, i, f) /\ (u \in S => i # Len(stack[u]))
    BY <1>4
  <2>2. FrameHolds(f) /\ Covered(u, i, f) /\ f.n \in Nodes
    BY <2>1, TreeInvFacts DEF FrameRecord
  <2>3. Works(f) => node'[f.n].status = node[f.n].status
    BY <2>1, <2>2 DEF OnlyStatusOf
  <2>4. Waits(u, i) => Waits(u, i)' \/ node'[f.child].gone
    <3>1. CASE u \in S
      <4>1. i < Len(stack[u]) /\ Len(stack[u]) > 1 /\ i \in Nat \ {0}
        BY <1>2, <2>1, <3>1, TreeInvFacts, Framings
      <4>2. CASE i + 1 < Len(stack[u])
        BY <1>2, <3>1, <4>2 DEF Waits
      <4>3. CASE i + 1 = Len(stack[u])
        <5>1. ret'[u] = v /\ f.child = n
          BY <1>3, <2>1, <3>1, <4>1, <4>3
        <5> QED BY <5>1 DEF Waits
      <4> QED BY <1>2, <3>1, <4>1, <4>2, <4>3
    <3>2. CASE u \notin S
      BY <3>2 DEF Waits
    <3> QED BY <3>1, <3>2
  <2> QED BY <2>2, <2>3, <2>4, FrameStays, CoverStays
<1>5. ASSUME NEW i \in Nat, NEW g \in FrameRecord, NEW h \in FrameRecord,
             Framed(u, i, g)', Framed(u, i + 1, h)'
      PROVE  g.pc = "children" /\ g.child = h.n
  BY <1>5, TreeInvFacts DEF Linked
<1>6. ASSUME ret'[u] # None
      PROVE  \E g \in FrameRecord :
                Framed(u, Len(stack[u]), g)' /\ g.pc = "children" /\ g.child # None
  <2>1. CASE u \in S
    <3>1. Len(stack[u]) > 1 /\ Len(stack'[u]) = Len(stack[u]) - 1
      BY <1>6, <2>1
    <3>2. Len(stack[u]) \in Nat \ {0}
      BY <1>2, <2>1
    <3>3. PICK k \in Nat \ {0} : k \in 1 .. Len(stack[u]) /\ k + 1 = Len(stack[u])
      <4>1. \A l \in Nat \ {0} : l > 1 => \E k \in Nat \ {0} : k \in 1 .. l /\ k + 1 = l
        <5> TAKE l \in Nat \ {0}
        <5> HAVE l > 1
        <5> WITNESS l - 1 \in Nat \ {0}
        <5> QED OBVIOUS
      <4> QED BY <3>1, <3>2, <4>1
    <3>4. stack[u][k] \in FrameRecord /\ Framed(u, k, stack[u][k])
      BY <3>3, TreeInvFacts, ElementOfSeq DEF Typed, Framed
    <3> PICK g \in FrameRecord : Framed(u, k, g)
      BY <3>4
    <3>5. g.pc = "children" /\ g.child = n /\ n # None
      BY <1>3, <2>1, <3>3, TreeInvFacts, Shape
    <3>6. Framed(u, k, g)' /\ k = Len(stack'[u])
      BY <2>1, <3>1, <3>2, <3>3
    <3>7. Framed(u, Len(stack[u]), g)'
      BY <3>6
    <3> QED BY <3>5, <3>7
  <2>2. CASE u \notin S
    BY <1>6, <2>2, TreeInvFacts DEF Linked
  <2> QED BY <2>1, <2>2
<1>7. Linked(u)'
  BY <1>5, <1>6 DEF Linked
<1> QED BY <1>4, <1>7 DEF Stacked

\* The calls of S, which are all of n, return v.
LEMMA Pops ==
    ASSUME TreeInv, NEW S \in SUBSET Callers, NEW n \in Nodes, NEW v \in {"ok", "error"},
           PopAll(S, v), NodesGo, OnlyStatusOf(n), v = "ok" => node'[n].gone,
           \A u \in S : stack[u] # <<>> /\ Top(u).n = n,
           \/ node'[n].status = node[n].status
           \/ \A u \in Callers : \A i \in Nat : \A f \in FrameRecord :
                 Framed(u, i, f) /\ Works(f) /\ f.n = n => u \in S /\ i = Len(stack[u])
    PROVE  (\A u \in Callers : Stacked(u)') /\ OneWorker'
<1>1. /\ \A u \in Callers \ S : stack'[u] = stack[u] /\ ret'[u] = ret[u]
      /\ \A u \in S : /\ Len(stack'[u]) = Len(stack[u]) - 1
                      /\ ret'[u] = IF Len(stack[u]) > 1 THEN v ELSE None
      /\ \A u \in Callers : \A i, f :
            Framed(u, i, f)' <=> Framed(u, i, f) /\ (u \in S => i # Len(stack[u]))
  BY TreeInvFacts, PoppedFrames
<1>2. ASSUME NEW u \in Callers PROVE Stacked(u)'
  BY <1>1, PopsIn
<1>3. OneWorker'
  BY <1>1, TreeInvFacts DEF OneWorker, Works
<1> QED BY <1>2, <1>3

-----------------------------------------------------------------------------
(* What a step leaves of the other parts of the invariant.                  *)

LEMMA GoneStays ==
    ASSUME TreeInv, NodesGo,
           \A n \in Nodes : /\ node'[n].gone => node[n].gone \/ Closed(n)' \/ Finishing(n)'
                            /\ node'[n].gone /\ ~node[n].gone =>
                                  \A m \in Nodes : ChildOf(m, n) => node[m].gone
                            /\ Closed(n)' /\ ~Closed(n) => node'[n].gone
                            /\ Finishing(n) => Closed(n)' \/ Finishing(n)'
    PROVE  GoneExact'
<1>1. \A m, n \in Nodes : ChildOf(m, n)' <=> ChildOf(m, n)
  BY DEF NodesGo, ChildOf, Made, Parent
<1>2. \A n \in Nodes : (Closed(n) => Closed(n)') /\ (node[n].gone => node'[n].gone)
  BY DEF NodesGo, Closed
<1> SUFFICES ASSUME NEW n \in Nodes
             PROVE  /\ Closed(n)' => node'[n].gone
                    /\ node'[n].gone => Closed(n)' \/ Finishing(n)'
                    /\ node'[n].gone => \A m \in Nodes : ChildOf(m, n)' => node'[m].gone
  BY DEF GoneExact
<1>3. /\ Closed(n) => node[n].gone
      /\ node[n].gone => Closed(n) \/ Finishing(n)
      /\ node[n].gone => \A m \in Nodes : ChildOf(m, n) => node[m].gone
  BY TreeInvFacts DEF GoneExact
<1> QED BY <1>1, <1>2, <1>3

LEMMA RegisteredStays ==
    ASSUME TreeInv, NodesGo, \A n \in Nodes : node'[n].kids = node[n].kids
    PROVE  Registered'
<1>1. \A m, n \in Nodes : ChildOf(m, n)' <=> ChildOf(m, n)
  BY DEF NodesGo, ChildOf, Made, Parent
<1>2. \A n \in Nodes : (node[n].gone => node'[n].gone) /\ node[n].kids \subseteq Nodes
  BY TreeInvFacts DEF NodesGo, Typed, NodeRecord
<1>3. \A n \in Nodes : (Parent(n) = None => Made(n))'
  BY TreeInvFacts DEF Registered, NodesGo, Made, Parent
<1> QED BY <1>1, <1>2, <1>3, TreeInvFacts DEF Registered

\* What is recorded of m does not change.
Untouched(m) ==
    /\ node'[m].file = node[m].file /\ node'[m].error = node[m].error
    /\ node'[m].stops = node[m].stops /\ node'[m].stopped = node[m].stopped
    /\ node'[m].given = node[m].given /\ (node[m].made => node'[m].made)
    /\ Closed(m)' => Closed(m)

LEMMA RecordingStays ==
    ASSUME TreeInv, tree' = tree, NEW m \in Nodes, Untouched(m),
           \A t \in Callers : Deletes(t, m) => Deletes(t, m)'
    PROVE  Recording(m)'
<1>1. Recording(m)
  BY TreeInvFacts DEF Recorded
<1>2. /\ node'[m].file # None => Made(m)' /\ Kind(m)' = "task" /\ ~node'[m].error
      /\ node'[m].stops <= IF Kind(m)' = "task" /\ node'[m].stopped THEN 1 ELSE 0
  BY <1>1 DEF Recording, Untouched, Kind, Made
<1>3. ASSUME node'[m].file = "kept", Closed(m)', ~node'[m].given, Parent(m)' # None
      PROVE  \E t \in Callers : Deletes(t, m)'
  BY <1>1, <1>3 DEF Recording, Untouched, Parent
<1> QED BY <1>2, <1>3 DEF Recording

\* A step of t whose top frame is neither about to finish nor to delete a file.
LEMMA MovesRest ==
    ASSUME TreeInv, NEW t \in Callers, NEW f \in FrameRecord, NEW e \in FrameRecord,
           Framed(t, Len(stack[t]), f),
           stack' = [stack EXCEPT ![t] = Append(Front(@), e)],
           \A u \in Callers \ {t} : ret'[u] = ret[u],
           Ends(f) => Ends(e) /\ e.n = f.n, f.pc # "children" \/ ret[t] # "ok"
    PROVE  /\ \A n \in Nodes : Finishing(n) => Finishing(n)'
           /\ \A u \in Callers, m \in Nodes : Deletes(u, m) => Deletes(u, m)'
<1>1. stack[t] # <<>> /\ Len(stack[t]) \in Nat \ {0}
  BY TreeInvFacts, Framings
<1>2. /\ \A u \in Callers : Len(stack'[u]) = Len(stack[u])
      /\ \A u \in Callers : \A i, g :
            Framed(u, i, g)' <=> IF u = t /\ i = Len(stack[t]) THEN g = e ELSE Framed(u, i, g)
  BY <1>1, MovedFrames, TreeInvFacts
<1>3. ASSUME NEW n \in Nodes, Finishing(n) PROVE Finishing(n)'
  <2>1. PICK u \in Callers, i \in Nat, g \in FrameRecord :
           Framed(u, i, g) /\ Ends(g) /\ g.n = n
    BY <1>3 DEF Finishing
  <2>2. CASE u = t /\ i = Len(stack[t])
    <3>1. Ends(e) /\ e.n = n
      BY <2>1, <2>2 DEF Framed
    <3>2. Framed(u, i, e)'
      BY <1>2, <2>2
    <3> QED BY <3>1, <3>2 DEF Finishing, Ends
  <2>3. CASE ~(u = t /\ i = Len(stack[t]))
    <3>1. Framed(u, i, g)'
      BY <1>2, <2>1, <2>3
    <3> QED BY <2>1, <3>1 DEF Finishing, Ends
  <2> QED BY <2>2, <2>3
<1>4. ASSUME NEW u \in Callers, NEW m \in Nodes, Deletes(u, m) PROVE Deletes(u, m)'
  <2>1. PICK g \in FrameRecord :
           Framed(u, Len(stack[u]), g) /\ g.pc = "children" /\ g.child = m /\ ret[u] = "ok"
    BY <1>4 DEF Deletes
  <2>2. u # t
    BY <2>1 DEF Framed
  <2>3. Framed(u, Len(stack[u]), g)' /\ ret'[u] = "ok"
    BY <1>2, <2>1, <2>2
  <2> QED BY <2>1, <2>3 DEF Deletes
<1> QED BY <1>3, <1>4

\* Who hears that a child was closed, and deletes its file.
LEMMA WhoDeletes ==
    ASSUME TreeInv, NEW t \in Callers, NEW m \in Nodes, Deletes(t, m)
    PROVE  stack[t] # <<>> /\ Top(t).pc = "children" /\ Top(t).child = m /\ ret[t] = "ok"
<1>1. PICK f \in FrameRecord :
         Framed(t, Len(stack[t]), f) /\ f.pc = "children" /\ f.child = m /\ ret[t] = "ok"
  BY DEF Deletes
<1>2. stack[t] # <<>>
  BY <1>1, TreeInvFacts, Framings
<1> QED BY <1>1, <1>2, TreeInvFacts, TopFrame DEF Framed

\* Calls return that are not about to finish.
LEMMA PopsRest ==
    ASSUME TreeInv, NEW S \in SUBSET Callers, NEW v, PopAll(S, v), \A u \in S : stack[u] # <<>>
    PROVE  /\ \A n \in Nodes : Finishing(n) => \/ Finishing(n)'
                                              \/ \E u \in S : Ends(Top(u)) /\ Top(u).n = n
           /\ \A u \in Callers \ S, m \in Nodes : Deletes(u, m) => Deletes(u, m)'
<1>1. /\ \A u \in Callers \ S : stack'[u] = stack[u] /\ ret'[u] = ret[u]
      /\ \A u \in Callers : \A i, f :
            Framed(u, i, f)' <=> Framed(u, i, f) /\ (u \in S => i # Len(stack[u]))
  BY TreeInvFacts, PoppedFrames
<1>2. \A u \in S : Framed(u, Len(stack[u]), Top(u))
  BY TreeInvFacts, TopFrame
<1>3. ASSUME NEW n \in Nodes, Finishing(n), ~\E u \in S : Ends(Top(u)) /\ Top(u).n = n
      PROVE  Finishing(n)'
  <2>1. PICK u \in Callers, i \in Nat, g \in FrameRecord :
           Framed(u, i, g) /\ Ends(g) /\ g.n = n
    BY <1>3 DEF Finishing
  <2>2. ~(u \in S /\ i = Len(stack[u]))
    BY <1>2, <1>3, <2>1 DEF Framed
  <2>3. Framed(u, i, g)'
    BY <1>1, <2>1, <2>2
  <2> QED BY <2>1, <2>3 DEF Finishing, Ends
<1>4. ASSUME NEW u \in Callers \ S, NEW m \in Nodes, Deletes(u, m) PROVE Deletes(u, m)'
  <2>1. PICK g \in FrameRecord :
           Framed(u, Len(stack[u]), g) /\ g.pc = "children" /\ g.child = m /\ ret[u] = "ok"
    BY <1>4 DEF Deletes
  <2>3. Framed(u, Len(stack[u]), g)' /\ ret'[u] = "ok"
    BY <1>1, <2>1
  <2> QED BY <2>1, <2>3 DEF Deletes
<1> QED BY <1>3, <1>4
-----------------------------------------------------------------------------
(* Steps of the objects.                                                    *)

LEMMA NodeFields ==
    ASSUME NEW r \in NodeRecord
    PROVE  /\ \A s \in Statuses : [r EXCEPT !.status = s] \in NodeRecord
           /\ \A b \in BOOLEAN : /\ [r EXCEPT !.gone = b] \in NodeRecord
                                 /\ [r EXCEPT !.shut = b] \in NodeRecord
                                 /\ [r EXCEPT !.stopped = b] \in NodeRecord
           /\ \A x \in Files : [r EXCEPT !.file = x] \in NodeRecord
BY DEF NodeRecord

\* begin() of the coordinator: whoever is not elected waits, or finds n closed.
LEMMA Enters ==
    ASSUME TreeInv, NEW n \in Nodes, Made(n), tree' = tree, node' = Entered(n)
    PROVE  /\ NodesGo /\ OnlyStatusOf(n)
           /\ \A m \in Nodes : /\ node'[m].kids = node[m].kids /\ node'[m].gone = node[m].gone
                               /\ Untouched(m)
           /\ \A t \in Callers : \A i \in Nat : \A f \in FrameRecord :
                 Framed(t, i, f) /\ Works(f) => node'[f.n].status = node[f.n].status
<1>1. node \in [Nodes -> NodeRecord] /\ node[n] \in NodeRecord
  BY TreeInvFacts DEF Typed
<1>2. CASE Kind(n) # "dump" /\ node[n].status # "closed"
  <2>1. node' = [node EXCEPT ![n].status = "closing"]
    BY <1>2 DEF Entered
  <2>2. node' \in [Nodes -> NodeRecord]
    BY <1>1, <2>1, NodeFields DEF Statuses
  <2>3. /\ \A m \in Nodes \ {n} : node'[m] = node[m]
        /\ node'[n] = [node[n] EXCEPT !.status = "closing"]
    BY <1>1, <2>1
  <2>4. /\ NodesGo /\ OnlyStatusOf(n)
        /\ \A m \in Nodes : /\ node'[m].kids = node[m].kids /\ node'[m].gone = node[m].gone
                            /\ Untouched(m)
    BY <1>1, <1>2, <2>2, <2>3 DEF NodesGo, OnlyStatusOf, Untouched, Closed, NodeRecord
  <2>5. ASSUME NEW t \in Callers, NEW i \in Nat, NEW f \in FrameRecord, Framed(t, i, f), Works(f)
        PROVE  node'[f.n].status = node[f.n].status
    <3>1. f.n \in Nodes /\ (f.n = n => node[n].status = "closing")
      BY <1>2, <2>5, TreeInvFacts DEF FrameHolds, Marked, FrameRecord
    <3> QED BY <1>1, <2>3, <3>1 DEF NodeRecord
  <2> QED BY <2>4, <2>5
<1>3. CASE ~(Kind(n) # "dump" /\ node[n].status # "closed")
  <2>1. node' = node
    BY <1>3 DEF Entered
  <2> QED BY <1>1, <2>1 DEF NodesGo, OnlyStatusOf, Untouched, Closed
<1> QED BY <1>2, <1>3

LEMMA Entries ==
    ASSUME TreeInv, NEW n \in Nodes, Made(n), tree' = tree, node' = Entered(n),
           NEW g, g = Entry(n)
    PROVE  /\ g \in FrameRecord /\ g.n = n /\ (Works(g) => Idle(n))
           /\ FrameHolds(g)' /\ \A t \in Callers : \A i \in Nat : Covered(t, i, g)'
           /\ ~Ends(g)
<1>1. /\ node \in [Nodes -> NodeRecord] /\ node[n] \in NodeRecord
      /\ Kind(n) \in Containers \cup {"task", "dump"} /\ None \notin Nodes
  BY TreeInvFacts, Shape DEF Typed
<1>2. NodesGo /\ Made(n)' /\ Kind(n)' = Kind(n)
  BY Enters DEF NodesGo, Made, Kind
<1>3. Idle(n) \/ node[n].status = "closing" \/ Kind(n) = "dump" \/ node[n].status = "closed"
  BY TreeInvFacts DEF Idle, FrameHolds, Marked
<1>4. CASE Kind(n) = "dump"
  <2>1. g = Frame(n, "lock")
    BY <1>4 DEF Entry
  <2>2. /\ g \in FrameRecord /\ g.n = n /\ g.pc = "lock" /\ g.child = None /\ g.todo = {}
        /\ ~g.err
    BY <2>1 DEF Frame, FrameRecord, Labels
  <2> QED BY <1>2, <1>4, <2>2 DEF Works, Closers, Ends, FrameHolds, Labelled, Marked, Covered, Containers
<1>5. CASE Kind(n) # "dump" /\ node[n].status = "closed"
  <2>1. g = Frame(n, "closed") /\ node' = node
    BY <1>5 DEF Entry, Entered
  <2>2. /\ g \in FrameRecord /\ g.n = n /\ g.pc = "closed" /\ g.child = None /\ g.todo = {}
        /\ ~g.err
    BY <2>1 DEF Frame, FrameRecord, Labels
  <2> QED BY <1>2, <1>5, <2>1, <2>2
          DEF Works, Closers, Ends, FrameHolds, Labelled, Marked, Covered, Containers, Closed
<1>6. CASE Kind(n) # "dump" /\ node[n].status = "closing"
  <2>1. g = Frame(n, "join")
    BY <1>6 DEF Entry
  <2>2. /\ g \in FrameRecord /\ g.n = n /\ g.pc = "join" /\ g.child = None /\ g.todo = {}
        /\ ~g.err
    BY <2>1 DEF Frame, FrameRecord, Labels
  <2> QED BY <1>2, <1>6, <2>2 DEF Works, Closers, Ends, FrameHolds, Labelled, Marked, Covered, Containers
<1>7. CASE Kind(n) = "task" /\ node[n].status \notin {"closing", "closed"}
  <2>1. g = Frame(n, "stop") /\ node' = [node EXCEPT ![n].status = "closing"]
    BY <1>7 DEF Entry, Entered
  <2>2. /\ g \in FrameRecord /\ g.n = n /\ g.pc = "stop" /\ g.child = None /\ g.todo = {}
        /\ ~g.err /\ node'[n].status = "closing"
    BY <1>1, <2>1 DEF Frame, FrameRecord, Labels, Closers, NodeRecord
  <2> QED BY <1>2, <1>3, <1>7, <2>2
          DEF Works, Closers, Ends, FrameHolds, Labelled, Marked, Covered, Containers
<1>8. CASE Kind(n) \in Containers /\ node[n].status \notin {"closing", "closed"}
  <2>0. Kind(n) \notin {"task", "dump"}
    BY <1>8 DEF Containers
  <2>1. /\ g = [Frame(n, "children") EXCEPT !.todo = node[n].kids]
        /\ node' = [node EXCEPT ![n].status = "closing"]
    BY <1>8, <2>0 DEF Entry, Entered
  <2>9. node[n].kids \subseteq Nodes /\ node'[n].status = "closing"
    BY <1>1, <2>1 DEF NodeRecord
  <2>6. /\ g.n = n /\ g.pc = "children" /\ g.child = None /\ g.todo = node[n].kids /\ ~g.err
        /\ g = [n |-> n, pc |-> "children", todo |-> node[n].kids, child |-> None, err |-> FALSE]
    BY <2>1 DEF Frame
  <2>2. /\ g \in FrameRecord /\ g.n = n /\ g.pc = "children" /\ g.child = None
        /\ g.todo = node[n].kids /\ ~g.err /\ node'[n].status = "closing"
    BY <2>6, <2>9 DEF FrameRecord, Labels, Closers
  <2>3. FrameHolds(g)' /\ (Works(g) => Idle(n))
    BY <1>2, <1>3, <1>8, <2>0, <2>2 DEF Works, Closers, Ends, FrameHolds, Labelled, Marked
  <2>4. ASSUME NEW t \in Callers, NEW i \in Nat PROVE Covered(t, i, g)
    BY <2>2, TreeInvFacts DEF Covered, Registered
  <2>5. ASSUME NEW t \in Callers, NEW i \in Nat PROVE Covered(t, i, g)'
    <3>1. \A m \in Nodes : /\ ChildOf(m, n)' <=> ChildOf(m, n)
                           /\ node[m].gone => node'[m].gone
      BY <1>2 DEF NodesGo, ChildOf, Made, Parent
    <3> QED BY <1>1, <2>2, <3>1, TreeInvFacts DEF Covered, Registered, NodeRecord
  <2> QED BY <2>2, <2>3, <2>5 DEF Ends
<1> QED BY <1>1, <1>4, <1>5, <1>6, <1>7, <1>8

-----------------------------------------------------------------------------
(* The actions.                                                             *)

LEMMA TopAt ==
    ASSUME Typed, NEW t \in Callers, NEW label, At(t, label)
    PROVE  \E f \in FrameRecord :
              /\ f = Top(t) /\ Framed(t, Len(stack[t]), f) /\ f.pc = label /\ f.n \in Nodes
              /\ stack[t] # <<>> /\ Len(stack[t]) \in Nat \ {0}
BY TopFrame DEF At, FrameRecord

LEMMA Relabelled ==
    ASSUME NEW f \in FrameRecord, NEW label \in Labels
    PROVE  \E e \in FrameRecord :
              /\ e = [f EXCEPT !.pc = label] /\ e.pc = label
              /\ e.n = f.n /\ e.todo = f.todo /\ e.child = f.child /\ e.err = f.err
<1> [f EXCEPT !.pc = label] \in FrameRecord
  BY DEF FrameRecord
<1> WITNESS [f EXCEPT !.pc = label] \in FrameRecord
<1> QED BY DEF FrameRecord

\* A task and a dump have no children.
LEMMA Childless ==
    ASSUME Typed, NEW n \in Nodes, Kind(n) \in {"task", "dump"}
    PROVE  \A m \in Nodes : ~ChildOf(m, n)
<1> SUFFICES ASSUME NEW m \in Nodes, Parent(m) = n PROVE FALSE
  BY DEF ChildOf
<1>1. Parent(m) # None /\ Kind(Parent(m)) \in Containers
  BY Shape
<1> QED BY <1>1 DEF Containers

\* One object changes, and neither its creation nor its children.
LEMMA OneChanges ==
    ASSUME Typed, tree' = tree, NEW n \in Nodes, NEW r \in NodeRecord,
           node' = [node EXCEPT ![n] = r],
           r.made = node[n].made, r.kids = node[n].kids, node[n].gone => r.gone,
           node[n].status = "closed" => r.status = "closed"
    PROVE  /\ NodesGo /\ OnlyStatusOf(n) /\ node'[n] = r
           /\ \A m \in Nodes \ {n} : node'[m] = node[m] /\ Untouched(m)
           /\ \A m \in Nodes : node'[m].kids = node[m].kids
<1>1. /\ node' \in [Nodes -> NodeRecord] /\ node'[n] = r
      /\ \A m \in Nodes \ {n} : node'[m] = node[m]
  BY DEF Typed
<1> QED BY <1>1 DEF NodesGo, OnlyStatusOf, Untouched, Closed

\* The parts of the invariant when nothing of the objects changes.
LEMMA SameNodes ==
    ASSUME TreeInv, UNCHANGED <<tree, node>>
    PROVE  /\ NodesGo /\ \A m \in Nodes : Untouched(m) /\ OnlyStatusOf(m)
           /\ Registered' /\ \A f : FrameHolds(f) => FrameHolds(f)'
<1>1. NodesGo /\ \A m \in Nodes : Untouched(m) /\ OnlyStatusOf(m)
  BY TreeInvFacts DEF NodesGo, Untouched, OnlyStatusOf, Closed, Typed
<1>2. Registered'
  BY <1>1, RegisteredStays
<1>3. \A f : FrameHolds(f) => FrameHolds(f)'
  BY DEF FrameHolds, Made, Labelled, Marked, Kind, Closed, ChildOf, Parent
<1> QED BY <1>1, <1>2, <1>3

LEMMA CloseStep ==
    ASSUME TreeInv, NEW t \in Callers, NEW n \in Nodes, Close(t, n)
    PROVE  TreeInv'
<1>1. /\ stack[t] = <<>> /\ Made(n) /\ node' = Entered(n)
      /\ stack' = [stack EXCEPT ![t] = <<Entry(n)>>]
      /\ UNCHANGED <<tree, busy, ret, faults>>
  BY DEF Close, Made
<1>2. PICK g : g = Entry(n)
  OBVIOUS
<1>3. /\ g \in FrameRecord /\ g.n = n /\ (Works(g) => Idle(n))
      /\ FrameHolds(g)' /\ \A u \in Callers : \A i \in Nat : Covered(u, i, g)'
  BY <1>1, <1>2, Entries
<1>4. /\ NodesGo /\ OnlyStatusOf(n)
      /\ \A m \in Nodes : /\ node'[m].kids = node[m].kids /\ node'[m].gone = node[m].gone
                          /\ Untouched(m)
      /\ \A u \in Callers : \A i \in Nat : \A f \in FrameRecord :
            Framed(u, i, f) /\ Works(f) => node'[f.n].status = node[f.n].status
  BY <1>1, Enters
<1>5. /\ Len(stack[t]) = 0 /\ stack'[t] = <<g>> /\ <<g>> \in Seq(FrameRecord)
      /\ Len(<<g>>) = 1 /\ <<g>>[1] = g
      /\ \A u \in Callers \ {t} : stack'[u] = stack[u]
  BY <1>1, <1>2, <1>3, TreeInvFacts DEF Typed
<1>6. /\ stack' \in [Callers -> Seq(FrameRecord)]
      /\ \A u \in Callers : \A i, f :
            Framed(u, i, f)' <=> IF u = t THEN i = 1 /\ f = g ELSE Framed(u, i, f)
      /\ \A i, f : ~Framed(t, i, f)
  <2>1. stack' \in [Callers -> Seq(FrameRecord)]
    BY <1>1, <1>5, TreeInvFacts DEF Typed
  <2>2. \A i, f : Framed(t, i, f)' <=> i = 1 /\ f = g
    BY <1>5 DEF Framed
  <2>3. \A u \in Callers \ {t} : \A i, f : Framed(u, i, f)' <=> Framed(u, i, f)
    BY <1>5 DEF Framed
  <2>4. \A i, f : ~Framed(t, i, f)
    BY <1>5 DEF Framed
  <2> QED BY <2>1, <2>2, <2>3, <2>4
<1>7. ret[t] = None /\ ret' = ret
  BY <1>1, <1>6, TreeInvFacts DEF Linked
<1>8. ASSUME NEW u \in Callers PROVE Stacked(u)'
  <2>1. ASSUME NEW i \in Nat, NEW f \in FrameRecord, Framed(u, i, f)'
        PROVE  FrameHolds(f)' /\ Covered(u, i, f)'
    <3>1. CASE u = t
      BY <1>3, <1>6, <2>1, <3>1
    <3>2. CASE u # t
      <4>1. Framed(u, i, f) /\ FrameHolds(f) /\ Covered(u, i, f)
        BY <1>6, <2>1, <3>2, TreeInvFacts
      <4>2. Waits(u, i) => Waits(u, i)'
        BY <1>5, <1>7, <3>2 DEF Waits
      <4> QED BY <1>4, <4>1, <4>2, FrameStays, CoverStays
    <3> QED BY <3>1, <3>2
  <2>2. Linked(u)'
    <3>1. CASE u = t
      BY <1>6, <1>7, <3>1 DEF Linked
    <3>2. CASE u # t
      BY <1>5, <1>6, <1>7, <3>2, TreeInvFacts DEF Linked
    <3> QED BY <3>1, <3>2
  <2> QED BY <2>1, <2>2 DEF Stacked
<1>9. OneWorker'
  <2> SUFFICES ASSUME NEW u \in Callers, NEW v \in Callers, NEW i \in Nat, NEW j \in Nat,
                      NEW f \in FrameRecord, NEW h \in FrameRecord,
                      Framed(u, i, f)', Framed(v, j, h)', Works(f), Works(h), f.n = h.n
               PROVE  u = v /\ i = j
    BY DEF OneWorker, Works
  <2>1. CASE u = t /\ v # t
    BY <1>3, <1>6, <2>1 DEF Idle
  <2>2. CASE u # t /\ v = t
    BY <1>3, <1>6, <2>2 DEF Idle
  <2>3. CASE u = t /\ v = t
    BY <1>6, <2>3
  <2>4. CASE u # t /\ v # t
    BY <1>6, <2>4, TreeInvFacts DEF OneWorker
  <2> QED BY <2>1, <2>2, <2>3, <2>4
<1>10. \A m \in Nodes : Finishing(m) => Finishing(m)'
  BY <1>6 DEF Finishing
<1>11. \A u \in Callers, m \in Nodes : Deletes(u, m) => Deletes(u, m)'
  <2> SUFFICES ASSUME NEW u \in Callers, NEW m \in Nodes, Deletes(u, m) PROVE Deletes(u, m)'
    OBVIOUS
  <2>1. u # t
    BY <1>7 DEF Deletes, None
  <2> QED BY <1>5, <1>6, <1>7, <2>1 DEF Deletes
<1>12. GoneExact'
  BY <1>4, <1>10, GoneStays DEF Untouched
<1>13. Registered' /\ Recorded'
  BY <1>1, <1>4, <1>11, RegisteredStays, RecordingStays DEF Recorded
<1>14. Typed'
  BY <1>1, <1>4, <1>6, TreeInvFacts DEF Typed, NodesGo
<1> QED BY <1>8, <1>9, <1>12, <1>13, <1>14 DEF TreeInv

\* A frame that asks nothing of its children any more.
LEMMA CoverDone ==
    ASSUME NodesGo, NEW t \in Callers, NEW f \in FrameRecord, NEW e \in FrameRecord,
           e.n = f.n, e.todo = f.todo, e.child = f.child, e.pc # "children"
    PROVE  \A i \in Nat : Covered(t, i, f) => Covered(t, i, e)'
<1>1. \A m, n \in Nodes : ChildOf(m, n)' <=> ChildOf(m, n)
  BY DEF NodesGo, ChildOf, Made, Parent
<1>2. f.n \in Nodes /\ f.todo \subseteq Nodes /\ f.child \in Nodes \cup {None}
  BY DEF FrameRecord
<1> QED BY <1>1, <1>2 DEF Covered

\* What a change of n alone says of the objects that are gone.
LEMMA GoneOne ==
    ASSUME TreeInv, tree' = tree, NEW n \in Nodes, NEW r \in NodeRecord,
           node' = [node EXCEPT ![n] = r],
           r.made = node[n].made, r.kids = node[n].kids, node[n].gone => r.gone,
           node[n].status = "closed" => r.status = "closed",
           r.gone => node[n].gone \/ r.status = "closed" \/ Finishing(n)',
           r.gone /\ ~node[n].gone => \A m \in Nodes : ChildOf(m, n) => node[m].gone,
           r.status = "closed" => node[n].status = "closed" \/ r.gone,
           \A m \in Nodes : Finishing(m) => Closed(m)' \/ Finishing(m)'
    PROVE  GoneExact'
<1>1. /\ NodesGo /\ OnlyStatusOf(n) /\ node'[n] = r
      /\ \A m \in Nodes \ {n} : node'[m] = node[m] /\ Untouched(m)
      /\ \A m \in Nodes : node'[m].kids = node[m].kids
  BY TreeInvFacts, OneChanges
<1> QED BY <1>1, GoneStays DEF Closed

\* A frame past its native calls, after those of the children.
GonePast(e) == Ends(e) /\ \A m \in Nodes : ChildOf(m, e.n) => node[m].gone

\* The call in the top frame f of t goes on as e, with a change of its object.
LEMMA GoesOn ==
    ASSUME TreeInv, NEW t \in Callers, NEW f \in FrameRecord, NEW e \in FrameRecord,
           Framed(t, Len(stack[t]), f), e.n = f.n,
           ~Ends(f), f.pc # "children" \/ ret[t] # "ok", Works(f) \/ Idle(f.n),
           stack' = [stack EXCEPT ![t] = Append(Front(@), e)],
           ret' \in [Callers -> {None, "ok", "error"}], \A u \in Callers \ {t} : ret'[u] = ret[u],
           ret'[t] = None,
           UNCHANGED <<tree, busy, faults>>,
           NEW r \in NodeRecord, node' = [node EXCEPT ![f.n] = r],
           r.made = node[f.n].made, r.kids = node[f.n].kids, node[f.n].gone => r.gone,
           node[f.n].status = "closed" => r.status = "closed",
           r.gone => node[f.n].gone \/ GonePast(e),
           r.status = "closed" => node[f.n].status = "closed" \/ r.gone,
           FrameHolds(e)', \A i \in Nat : Covered(t, i, f) => Covered(t, i, e)', Recording(f.n)'
    PROVE  TreeInv'
<1>0. f.n \in Nodes
  BY DEF FrameRecord
<1>1. /\ NodesGo /\ OnlyStatusOf(f.n) /\ node'[f.n] = r
      /\ \A m \in Nodes \ {f.n} : node'[m] = node[m] /\ Untouched(m)
      /\ \A m \in Nodes : node'[m].kids = node[m].kids
  BY <1>0, TreeInvFacts, OneChanges
<1>3. /\ \A n \in Nodes : Finishing(n) => Finishing(n)'
      /\ \A u \in Callers, m \in Nodes : Deletes(u, m) => Deletes(u, m)'
  BY MovesRest
<1>4. stack[t] # <<>> /\ Len(stack[t]) \in Nat \ {0}
  BY TreeInvFacts, Framings
<1>5. /\ stack' \in [Callers -> Seq(FrameRecord)]
      /\ Len(stack'[t]) = Len(stack[t])
      /\ Framed(t, Len(stack[t]), e)'
  BY <1>4, MovedFrames, TreeInvFacts
<1>11. Covered(t, Len(stack[t]), e)'
  BY <1>4, <1>5, TreeInvFacts
<1>2. (\A u \in Callers : Stacked(u)') /\ OneWorker'
  BY <1>1, <1>11, Moves
<1>6. Ends(e) => Finishing(f.n)'
  BY <1>4, <1>5 DEF Finishing, Ends
<1>7. GoneExact'
  BY <1>0, <1>3, <1>6, GoneOne DEF GonePast
<1>8. Registered'
  BY <1>1, RegisteredStays
<1>9. Recorded'
  BY <1>1, <1>3, RecordingStays DEF Recorded
<1>10. Typed'
  BY <1>1, <1>5, TreeInvFacts DEF Typed, NodesGo
<1> QED BY <1>2, <1>7, <1>8, <1>9, <1>10 DEF TreeInv

\* Nobody in S is in the last step of a close(), or hears of a child's end.
Leaves(S, n) ==
    \A u \in S : /\ stack[u] # <<>> /\ Top(u).n = n /\ ~Ends(Top(u))
                 /\ Top(u).pc # "children" \/ ret[u] # "ok"

\* Whoever works on n is in S.
WorkedIn(S, n) ==
    \A u \in Callers : \A i \in Nat : \A f \in FrameRecord :
        Framed(u, i, f) /\ Works(f) /\ f.n = n => u \in S /\ i = Len(stack[u])

\* The calls of S, all of n, return; its object may have failed to close.
LEMMA Returns ==
    ASSUME TreeInv, NEW S \in SUBSET Callers, NEW n \in Nodes, NEW v \in {"ok", "error"},
           PopAll(S, v), v = "ok" => node'[n].gone, Leaves(S, n),
           UNCHANGED <<tree, busy>>, faults' \in 0 .. MaxFaults,
           NEW s \in Statuses, node' = [node EXCEPT ![n].status = s],
           node[n].status = "closed" <=> s = "closed",
           s = node[n].status \/ WorkedIn(S, n)
    PROVE  TreeInv'
<1>0. node[n] \in NodeRecord
  BY TreeInvFacts DEF Typed
<1>1. PICK r \in NodeRecord :
         /\ node' = [node EXCEPT ![n] = r]
         /\ r.made = node[n].made /\ r.kids = node[n].kids
         /\ r.gone = node[n].gone /\ r.status = s
         /\ r.file = node[n].file /\ r.error = node[n].error /\ r.stops = node[n].stops
         /\ r.stopped = node[n].stopped /\ r.given = node[n].given
  <2>1. [node[n] EXCEPT !.status = s] \in NodeRecord
    BY <1>0, NodeFields
  <2> WITNESS [node[n] EXCEPT !.status = s] \in NodeRecord
  <2> QED BY <1>0 DEF NodeRecord
<1>2. /\ node[n].gone => r.gone
      /\ node[n].status = "closed" => r.status = "closed"
      /\ r.gone => node[n].gone
      /\ r.status = "closed" => node[n].status = "closed"
  BY <1>1
<1>3. /\ NodesGo /\ OnlyStatusOf(n) /\ node'[n] = r
      /\ \A m \in Nodes \ {n} : node'[m] = node[m] /\ Untouched(m)
      /\ \A m \in Nodes : node'[m].kids = node[m].kids
  BY <1>1, <1>2, TreeInvFacts, OneChanges
<1>4. Untouched(n)
  BY <1>1, <1>3 DEF Untouched, Closed
<1>5. (\A u \in Callers : Stacked(u)') /\ OneWorker'
  BY <1>1, <1>3, Pops DEF Leaves, WorkedIn
<1>6. /\ \A m \in Nodes : Finishing(m) => Finishing(m)'
      /\ \A u \in Callers, m \in Nodes : Deletes(u, m) => Deletes(u, m)'
  <2>1. \A u \in S : /\ stack[u] # <<>> /\ ~Ends(Top(u))
                     /\ \A m \in Nodes : ~Deletes(u, m)
    BY WhoDeletes DEF Leaves
  <2>2. /\ \A m \in Nodes : Finishing(m) => \/ Finishing(m)'
                                            \/ \E u \in S : Ends(Top(u)) /\ Top(u).n = m
        /\ \A u \in Callers \ S, m \in Nodes : Deletes(u, m) => Deletes(u, m)'
    BY <2>1, PopsRest
  <2> QED BY <2>1, <2>2
<1>7. GoneExact'
  BY <1>1, <1>2, <1>6, GoneOne
<1>8. Registered' /\ Recorded'
  BY <1>3, <1>4, <1>6, RegisteredStays, RecordingStays DEF Recorded
<1>9. stack' \in [Callers -> Seq(FrameRecord)]
  BY TreeInvFacts, PoppedFrames DEF Leaves
<1>10. ret' \in [Callers -> {None, "ok", "error"}]
  BY TreeInvFacts DEF PopAll, Typed
<1> QED BY <1>3, <1>5, <1>7, <1>8, <1>9, <1>10, TreeInvFacts DEF TreeInv, Typed, NodesGo

-----------------------------------------------------------------------------
(* Tasks and dumps.                                                         *)

\* What the invariant says of the top frame of a caller.
LEMMA TopFacts ==
    ASSUME TreeInv, NEW t \in Callers, NEW label, At(t, label)
    PROVE  \E f \in FrameRecord :
              /\ f = Top(t) /\ Framed(t, Len(stack[t]), f) /\ f.pc = label /\ f.n \in Nodes
              /\ stack[t] # <<>> /\ Len(stack[t]) \in Nat \ {0}
              /\ FrameHolds(f) /\ Covered(t, Len(stack[t]), f)
              /\ node[f.n] \in NodeRecord
              /\ f.pc # "children" => ret[t] = None
<1> PICK f \in FrameRecord :
       /\ f = Top(t) /\ Framed(t, Len(stack[t]), f) /\ f.pc = label /\ f.n \in Nodes
       /\ stack[t] # <<>> /\ Len(stack[t]) \in Nat \ {0}
  BY TreeInvFacts, TopAt
<1>1. FrameHolds(f) /\ Covered(t, Len(stack[t]), f) /\ node[f.n] \in NodeRecord
  BY TreeInvFacts DEF Typed
<1>2. f.pc # "children" => ret[t] = None
  BY TreeInvFacts DEF Linked, Framed
<1> QED BY <1>1, <1>2

LEMMA CloseAgainStep ==
    ASSUME TreeInv, NEW t \in Callers, CloseAgain(t)
    PROVE  TreeInv'
<1> PICK f \in FrameRecord :
       /\ f = Top(t) /\ Framed(t, Len(stack[t]), f) /\ f.pc = "closed" /\ f.n \in Nodes
       /\ stack[t] # <<>> /\ FrameHolds(f) /\ node[f.n] \in NodeRecord
  BY TopFacts DEF CloseAgain
<1>1. PICK v \in {"ok", "error"} : PopAll({t}, v)
  BY DEF CloseAgain
<1>2. Closed(f.n) /\ UNCHANGED <<tree, node, busy, faults>>
  BY DEF CloseAgain, FrameHolds, Marked
<1>3. PICK s \in Statuses :
         /\ s = node[f.n].status /\ node' = [node EXCEPT ![f.n].status = s] /\ Closed(f.n)'
         /\ node[f.n].status = "closed" <=> s = "closed"
  BY <1>2, TreeInvFacts DEF NodeRecord, Closed, Typed
<1>4. faults' \in 0 .. MaxFaults
  BY <1>2, TreeInvFacts DEF Typed
<1>5. {t} \in SUBSET Callers /\ Leaves({t}, f.n)
  BY DEF Leaves, Ends
<1>6. UNCHANGED <<tree, busy>> /\ node'[f.n].gone
  BY <1>2, TreeInvFacts DEF GoneExact
<1> QED BY <1>1, <1>3, <1>4, <1>5, <1>6, Returns

LEMMA StopTaskStep ==
    ASSUME TreeInv, NEW t \in Callers, StopTask(t)
    PROVE  TreeInv'
<1> PICK f \in FrameRecord :
       /\ f = Top(t) /\ Framed(t, Len(stack[t]), f) /\ f.pc = "stop" /\ f.n \in Nodes
       /\ stack[t] # <<>> /\ Len(stack[t]) \in Nat \ {0}
       /\ FrameHolds(f) /\ Covered(t, Len(stack[t]), f)
       /\ node[f.n] \in NodeRecord /\ ret[t] = None
  BY TopFacts DEF StopTask
<1>0. "destroy" \in Labels
  BY DEF Labels, Closers
<1>1. PICK e \in FrameRecord :
         /\ e = [f EXCEPT !.pc = "destroy"] /\ e.pc = "destroy"
         /\ e.n = f.n /\ e.todo = f.todo /\ e.child = f.child /\ e.err = f.err
  BY <1>0, Relabelled
<1>2. /\ stack' = [stack EXCEPT ![t] = Append(Front(@), e)]
      /\ UNCHANGED <<tree, busy, ret, faults>>
  BY <1>1 DEF StopTask, Goto
<1>3. Kind(f.n) = "task" /\ node[f.n].status = "closing" /\ Recording(f.n)
  <2>1. Kind(f.n) = "task"
    BY DEF FrameHolds, Labelled
  <2>2. node[f.n].status = "closing"
    BY <2>1 DEF FrameHolds, Marked, Works, Closers
  <2>3. f.n \in Nodes
    OBVIOUS
  <2>4. Recorded
    BY ONLY TreeInv, TreeInvFacts
  <2>5. Recording(f.n)
    BY ONLY <2>3, <2>4, ZenonT(60) DEF Recorded
  <2> QED BY <2>1, <2>2, <2>5
<1>4. PICK r \in NodeRecord :
         /\ node' = [node EXCEPT ![f.n] = r]
         /\ r.made = node[f.n].made /\ r.kids = node[f.n].kids /\ r.gone = node[f.n].gone
         /\ r.status = "closing"
         /\ r.file # None => ~r.error
         /\ r.stops <= IF r.stopped THEN 1 ELSE 0
  <2>1. CASE node[f.n].stopped /\ UNCHANGED node
    <3>1. node' = [node EXCEPT ![f.n] = node[f.n]]
      BY <2>1, TreeInvFacts DEF Typed
    <3> WITNESS node[f.n] \in NodeRecord
    <3> QED BY <1>3, <3>1 DEF Recording
  <2>2. CASE /\ ~node[f.n].stopped
             /\ \E error \in BOOLEAN :
                   node' = [node EXCEPT ![f.n].stopped = TRUE, ![f.n].stops = @ + 1,
                                        ![f.n].error = error,
                                        ![f.n].file = IF error THEN None ELSE "kept"]
    <3> PICK error \in BOOLEAN :
           node' = [node EXCEPT ![f.n].stopped = TRUE, ![f.n].stops = @ + 1,
                                ![f.n].error = error,
                                ![f.n].file = IF error THEN None ELSE "kept"]
      BY <2>2
    <3>1. PICK r : r = [node[f.n] EXCEPT !.stopped = TRUE, !.stops = @ + 1, !.error = error,
                                         !.file = IF error THEN None ELSE "kept"]
      OBVIOUS
    <3>2. node' = [node EXCEPT ![f.n] = r]
      BY <3>1, TreeInvFacts DEF Typed
    <3>3. node[f.n].stops \in Nat /\ node[f.n].stops <= 0
      BY <1>3, <2>2 DEF Recording, NodeRecord
    <3>4. node[f.n].stops + 1 \in Nat /\ node[f.n].stops + 1 <= 1
      BY <3>3
    <3>5. /\ r \in NodeRecord /\ r.made = node[f.n].made /\ r.kids = node[f.n].kids
          /\ r.gone = node[f.n].gone /\ r.status = node[f.n].status
          /\ r.file = (IF error THEN None ELSE "kept") /\ r.error = error
          /\ r.stops = node[f.n].stops + 1 /\ r.stopped
      BY <3>1, <3>4 DEF NodeRecord, Files
    <3> r \in NodeRecord
      BY <3>5
    <3> WITNESS r \in NodeRecord
    <3> QED BY <1>3, <3>2, <3>4, <3>5 DEF None
  <2> QED BY <2>1, <2>2 DEF StopTask
<1>12. /\ node[f.n].gone => r.gone
       /\ node[f.n].status = "closed" => r.status = "closed"
       /\ r.gone => node[f.n].gone \/ GonePast(e)
  BY <1>3, <1>4
<1>5. NodesGo /\ node'[f.n] = r
  BY <1>2, <1>4, <1>12, TreeInvFacts, OneChanges
<1>6. Made(f.n)' /\ Kind(f.n)' = "task"
  BY <1>2, <1>3, <1>5 DEF NodesGo, Made, Kind, FrameHolds
<1>7. Labelled(e)' /\ Marked(e)'
  BY <1>1, <1>3, <1>4, <1>5, <1>6 DEF FrameHolds, Labelled, Marked, Works, Closers, Containers, Ends
<1>8. FrameHolds(e)'
  BY <1>1, <1>6, <1>7 DEF FrameHolds
<1>9. \A i \in Nat : Covered(t, i, f) => Covered(t, i, e)'
  BY <1>1, <1>5, CoverDone
<1>10. Recording(f.n)'
  BY <1>4, <1>5, <1>6 DEF Recording, Closed
<1>11. ret' \in [Callers -> {None, "ok", "error"}]
  BY <1>2, TreeInvFacts DEF Typed
<1>13. Works(f) /\ ~Ends(f) /\ r.status # "closed"
  BY <1>4 DEF Works, Closers, Ends
<1> QED BY <1>1, <1>2, <1>4, <1>8, <1>9, <1>10, <1>11, <1>12, <1>13, GoesOn

LEMMA DestroyStep ==
    ASSUME TreeInv, NEW t \in Callers, Destroy(t)
    PROVE  TreeInv'
<1> PICK f \in FrameRecord :
       /\ f = Top(t) /\ Framed(t, Len(stack[t]), f) /\ f.pc = "destroy" /\ f.n \in Nodes
       /\ stack[t] # <<>> /\ Len(stack[t]) \in Nat \ {0}
       /\ FrameHolds(f) /\ Covered(t, Len(stack[t]), f)
       /\ node[f.n] \in NodeRecord /\ ret[t] = None
  BY TopFacts DEF Destroy
<1>0. "unregister" \in Labels
  BY DEF Labels, Closers
<1>1. PICK e \in FrameRecord :
         /\ e = [f EXCEPT !.pc = "unregister"] /\ e.pc = "unregister"
         /\ e.n = f.n /\ e.todo = f.todo /\ e.child = f.child /\ e.err = f.err
  BY <1>0, Relabelled
<1>2. /\ stack' = [stack EXCEPT ![t] = Append(Front(@), e)]
      /\ UNCHANGED <<tree, busy, ret, faults>>
  BY <1>1 DEF Destroy, Goto
<1>3. Kind(f.n) = "task" /\ node[f.n].status = "closing" /\ Recording(f.n)
  <2>1. Kind(f.n) = "task"
    BY DEF FrameHolds, Labelled
  <2>2. node[f.n].status = "closing"
    BY <2>1 DEF FrameHolds, Marked, Works, Closers
  <2>3. f.n \in Nodes
    OBVIOUS
  <2>4. Recorded
    BY ONLY TreeInv, TreeInvFacts
  <2>5. Recording(f.n)
    BY ONLY <2>3, <2>4, Zenon DEF Recorded
  <2> QED BY <2>1, <2>2, <2>5
<1>4. PICK r \in NodeRecord :
         /\ r = [node[f.n] EXCEPT !.gone = TRUE] /\ node' = [node EXCEPT ![f.n] = r]
  BY NodeFields, TreeInvFacts DEF Destroy, Typed
<1>5. /\ r.made = node[f.n].made /\ r.kids = node[f.n].kids /\ r.gone /\ r.status = "closing"
      /\ r.file = node[f.n].file /\ r.error = node[f.n].error /\ r.stops = node[f.n].stops
      /\ r.stopped = node[f.n].stopped /\ r.given = node[f.n].given
  BY <1>3, <1>4 DEF NodeRecord
<1>6. NodesGo /\ node'[f.n] = r
  BY <1>2, <1>3, <1>4, <1>5, TreeInvFacts, OneChanges
<1>7. Made(f.n)' /\ Kind(f.n)' = "task"
  BY <1>2, <1>3, <1>6 DEF NodesGo, Made, Kind, FrameHolds
<1>8. \A m \in Nodes : ~ChildOf(m, f.n)
  BY <1>3, TreeInvFacts, Childless
<1>9. Labelled(e)' /\ Marked(e)'
  BY <1>1, <1>5, <1>6, <1>7, <1>8 DEF FrameHolds, Labelled, Marked, Works, Closers, Ends
<1>10. FrameHolds(e)'
  BY <1>1, <1>7, <1>9 DEF FrameHolds
<1>11. \A i \in Nat : Covered(t, i, f) => Covered(t, i, e)'
  BY <1>1, <1>6, CoverDone
<1>12. Recording(f.n)'
  BY <1>3, <1>5, <1>6, <1>7 DEF Recording, Closed
<1>13. ret' \in [Callers -> {None, "ok", "error"}]
  BY <1>2, TreeInvFacts DEF Typed
<1>14. /\ Works(f) /\ r.status # "closed"
       /\ node[f.n].gone => r.gone
       /\ node[f.n].status = "closed" => r.status = "closed"
       /\ r.gone => node[f.n].gone \/ GonePast(e)
       /\ ~Ends(f)
  BY <1>1, <1>3, <1>5, <1>8 DEF Works, Closers, GonePast, Ends
<1> QED BY <1>1, <1>2, <1>4, <1>5, <1>10, <1>11, <1>12, <1>13, <1>14, GoesOn

\* fail() of the coordinator: the close() of t and those that wait for it return.
LEMMA FailStep ==
    ASSUME TreeInv, NEW t \in Callers, stack[t] # <<>>, Works(Top(t)), ~Ends(Top(t)),
           Top(t).pc # "children" \/ ret[t] # "ok", Kind(Top(t).n) # "dump",
           Fail(t), UNCHANGED <<tree, busy>>, faults' \in 0 .. MaxFaults
    PROVE  TreeInv'
<1> PICK f \in FrameRecord :
       /\ f = Top(t) /\ Framed(t, Len(stack[t]), f) /\ Len(stack[t]) \in Nat \ {0} /\ f.n \in Nodes
  BY TreeInvFacts, TopFrame DEF FrameRecord
<1>1. FrameHolds(f) /\ node[f.n].status = "closing"
  BY TreeInvFacts DEF FrameHolds, Marked, Ends
<1>2. PICK S \in SUBSET Callers : S = Served(t, f.n)
  BY DEF Served
<1>3. Leaves(S, f.n)
  <2> SUFFICES ASSUME NEW u \in S
               PROVE  /\ stack[u] # <<>> /\ Top(u).n = f.n /\ ~Ends(Top(u))
                      /\ Top(u).pc # "children" \/ ret[u] # "ok"
    BY DEF Leaves
  <2>1. CASE u = t
    BY <2>1
  <2>2. CASE u # t
    BY <1>2, <2>2 DEF Served, At, Ends
  <2> QED BY <2>1, <2>2
<1>4. WorkedIn(S, f.n)
  <2> SUFFICES ASSUME NEW u \in Callers, NEW i \in Nat, NEW g \in FrameRecord,
                      Framed(u, i, g), Works(g), g.n = f.n
               PROVE  u \in S /\ i = Len(stack[u])
    BY DEF WorkedIn
  <2>1. u = t /\ i = Len(stack[t])
    BY TreeInvFacts DEF OneWorker
  <2> QED BY <1>2, <2>1 DEF Served
<1>5. PICK s \in Statuses :
         /\ s = "close_failed" /\ node' = [node EXCEPT ![f.n].status = s]
         /\ node[f.n].status = "closed" <=> s = "closed"
  BY <1>1 DEF Fail, Statuses
<1>6. PICK v \in {"ok", "error"} : v = "error" /\ PopAll(S, v)
  BY <1>2 DEF Fail
<1> QED BY <1>3, <1>4, <1>5, <1>6, Returns

LEMMA TimesOutStep ==
    ASSUME TreeInv, NEW t \in Callers, TimesOut(t)
    PROVE  TreeInv'
<1>1. PICK label \in {"stop", "destroy", "release"} : At(t, label)
  BY DEF TimesOut
<1> PICK f \in FrameRecord :
       /\ f = Top(t) /\ f.pc = label /\ stack[t] # <<>> /\ FrameHolds(f) /\ f.n \in Nodes
  BY <1>1, TopFacts
<1>2. Works(f) /\ Kind(f.n) # "dump"
  BY <1>1 DEF Works, Closers, FrameHolds, Labelled, Containers
<1>3. Fail(t) /\ UNCHANGED <<tree, busy>> /\ faults < MaxFaults /\ faults' = faults + 1
  BY DEF TimesOut, Fault
<1>4. faults' \in 0 .. MaxFaults
  BY <1>3, TreeInvFacts, TreeAssumption DEF Typed
<1>5. ~Ends(Top(t)) /\ Top(t).pc # "children"
  BY <1>1 DEF Ends
<1> QED BY <1>2, <1>3, <1>4, <1>5, FailStep

LEMMA LockDumpStep ==
    ASSUME TreeInv, NEW t \in Callers, LockDump(t)
    PROVE  TreeInv'
<1> PICK f \in FrameRecord :
       /\ f = Top(t) /\ Framed(t, Len(stack[t]), f) /\ f.pc = "lock" /\ f.n \in Nodes
       /\ stack[t] # <<>> /\ Len(stack[t]) \in Nat \ {0}
       /\ FrameHolds(f) /\ Covered(t, Len(stack[t]), f)
       /\ node[f.n] \in NodeRecord /\ ret[t] = None
  BY TopFacts DEF LockDump
<1>1. Kind(f.n) = "dump" /\ Recording(f.n) /\ UNCHANGED <<tree, busy, faults>>
  BY TreeInvFacts DEF FrameHolds, Labelled, Recorded, LockDump
<1>2. CASE /\ node[f.n].status = "open" /\ node' = [node EXCEPT ![f.n].status = "closing"]
           /\ Goto(t, "dump_stop") /\ UNCHANGED ret
  <2>0. "dump_stop" \in Labels
    BY DEF Labels, Closers
  <2>1. PICK e \in FrameRecord :
           /\ e = [f EXCEPT !.pc = "dump_stop"] /\ e.pc = "dump_stop"
           /\ e.n = f.n /\ e.todo = f.todo /\ e.child = f.child /\ e.err = f.err
    BY <2>0, Relabelled
  <2>2. stack' = [stack EXCEPT ![t] = Append(Front(@), e)]
    BY <1>2, <2>1 DEF Goto
  <2>3. Idle(f.n) /\ ~Ends(f)
    BY <1>1, <1>2, TreeInvFacts DEF Idle, FrameHolds, Marked, Ends
  <2>4. PICK r \in NodeRecord :
           /\ r = [node[f.n] EXCEPT !.status = "closing"] /\ node' = [node EXCEPT ![f.n] = r]
    BY <1>2, NodeFields, TreeInvFacts DEF Typed, Statuses
  <2>5. /\ r.made = node[f.n].made /\ r.kids = node[f.n].kids /\ r.gone = node[f.n].gone
        /\ r.status = "closing"
        /\ r.file = node[f.n].file /\ r.error = node[f.n].error /\ r.stops = node[f.n].stops
        /\ r.stopped = node[f.n].stopped /\ r.given = node[f.n].given
    BY <2>4 DEF NodeRecord
  <2>6. /\ r.status # "closed" /\ node[f.n].gone => r.gone
        /\ node[f.n].status = "closed" => r.status = "closed"
        /\ r.gone => node[f.n].gone \/ GonePast(e)
    BY <1>2, <2>5
  <2>7. NodesGo /\ node'[f.n] = r
    BY <1>1, <2>4, <2>5, <2>6, TreeInvFacts, OneChanges
  <2>8. Made(f.n)' /\ Kind(f.n)' = "dump"
    BY <1>1, <2>7 DEF NodesGo, Made, Kind, FrameHolds
  <2>9. Labelled(e)' /\ Marked(e)'
    BY <2>1, <2>5, <2>7, <2>8 DEF Labelled, Marked, Works, Closers, Ends
  <2>10. FrameHolds(e)'
    BY <2>1, <2>8, <2>9 DEF FrameHolds
  <2>11. \A i \in Nat : Covered(t, i, f) => Covered(t, i, e)'
    BY <2>1, <2>7, CoverDone
  <2>12. Recording(f.n)'
    BY <1>1, <2>5, <2>7, <2>8 DEF Recording, Closed
  <2>13. ret' \in [Callers -> {None, "ok", "error"}] /\ ret' = ret
    BY <1>2, TreeInvFacts DEF Typed
  <2> QED BY <1>1, <2>1, <2>2, <2>3, <2>4, <2>5, <2>6, <2>10, <2>11, <2>12, <2>13, GoesOn
<1>3. CASE node[f.n].status = "closed" /\ PopAll({t}, "ok") /\ UNCHANGED node
  <2>1. PICK v \in {"ok", "error"} : PopAll({t}, v)
    BY <1>3
  <2>2. PICK s \in Statuses :
           /\ s = node[f.n].status /\ node' = [node EXCEPT ![f.n].status = s] /\ Closed(f.n)'
           /\ node[f.n].status = "closed" <=> s = "closed"
    BY <1>3, TreeInvFacts DEF NodeRecord, Closed, Typed
  <2>3. {t} \in SUBSET Callers /\ Leaves({t}, f.n) /\ faults' \in 0 .. MaxFaults
    BY <1>1, TreeInvFacts DEF Leaves, Typed, Ends
  <2>4. UNCHANGED <<tree, busy>> /\ node'[f.n].gone
    BY <1>1, <1>3, TreeInvFacts DEF GoneExact, Closed
  <2> QED BY <2>1, <2>2, <2>3, <2>4, Returns
<1> QED BY <1>2, <1>3 DEF LockDump

LEMMA StopFirstStep ==
    ASSUME TreeInv, NEW t \in Callers, StopFirst(t)
    PROVE  TreeInv'
<1> PICK f \in FrameRecord :
       /\ f = Top(t) /\ Framed(t, Len(stack[t]), f) /\ f.pc = "dump_stop" /\ f.n \in Nodes
       /\ stack[t] # <<>> /\ Len(stack[t]) \in Nat \ {0}
       /\ FrameHolds(f) /\ Covered(t, Len(stack[t]), f)
       /\ node[f.n] \in NodeRecord /\ ret[t] = None
  BY TopFacts DEF StopFirst
<1>1. /\ Kind(f.n) = "dump" /\ Recording(f.n) /\ node[f.n].status = "closing" /\ Works(f)
      /\ UNCHANGED <<tree, busy, ret, faults>>
  BY TreeInvFacts DEF FrameHolds, Labelled, Marked, Works, Closers, Recorded, StopFirst
<1>2. PICK e \in FrameRecord :
         /\ stack' = [stack EXCEPT ![t] = Append(Front(@), e)]
         /\ e.pc = "dump_close" /\ e.n = f.n /\ e.todo = f.todo /\ e.child = f.child
  <2> DEFINE g == [f EXCEPT !.pc = "dump_close"]
             h == [f EXCEPT !.pc = "dump_close", !.err = TRUE]
  <2>1. /\ g \in FrameRecord /\ g.pc = "dump_close" /\ g.n = f.n
        /\ g.todo = f.todo /\ g.child = f.child
    BY DEF FrameRecord, Labels, Closers
  <2>2. /\ h \in FrameRecord /\ h.pc = "dump_close" /\ h.n = f.n
        /\ h.todo = f.todo /\ h.child = f.child
    BY DEF FrameRecord, Labels, Closers
  <2>3. \/ stack' = [stack EXCEPT ![t] = Append(Front(@), g)]
        \/ stack' = [stack EXCEPT ![t] = Append(Front(@), h)]
    BY DEF StopFirst, Goto
  <2> HIDE DEF g, h
  <2> QED BY <2>1, <2>2, <2>3
<1>3. PICK r \in NodeRecord :
         /\ node' = [node EXCEPT ![f.n] = r]
         /\ r.made = node[f.n].made /\ r.kids = node[f.n].kids /\ r.gone = node[f.n].gone
         /\ r.status = "closing"
         /\ r.file = node[f.n].file /\ r.error = node[f.n].error /\ r.stops = node[f.n].stops
         /\ r.given = node[f.n].given
  <2>1. CASE node' = [node EXCEPT ![f.n].stopped = TRUE]
    <3> [node[f.n] EXCEPT !.stopped = TRUE] \in NodeRecord
      BY NodeFields
    <3> WITNESS [node[f.n] EXCEPT !.stopped = TRUE] \in NodeRecord
    <3> QED BY <1>1, <2>1 DEF NodeRecord
  <2>2. CASE UNCHANGED node
    <3>1. node' = [node EXCEPT ![f.n] = node[f.n]]
      BY <2>2, TreeInvFacts DEF Typed
    <3> WITNESS node[f.n] \in NodeRecord
    <3> QED BY <1>1, <3>1
  <2> QED BY <2>1, <2>2 DEF StopFirst
<1>4. /\ r.status # "closed" /\ node[f.n].gone => r.gone
      /\ node[f.n].status = "closed" => r.status = "closed"
      /\ r.gone => node[f.n].gone \/ GonePast(e)
      /\ ~Ends(f)
  BY <1>1, <1>3 DEF Ends
<1>5. NodesGo /\ node'[f.n] = r
  BY <1>1, <1>3, <1>4, TreeInvFacts, OneChanges
<1>6. Made(f.n)' /\ Kind(f.n)' = "dump"
  BY <1>1, <1>5 DEF NodesGo, Made, Kind, FrameHolds
<1>7. Labelled(e)' /\ Marked(e)'
  BY <1>2, <1>3, <1>5, <1>6 DEF Labelled, Marked, Works, Closers, Ends
<1>8. FrameHolds(e)'
  BY <1>2, <1>6, <1>7 DEF FrameHolds
<1>9. \A i \in Nat : Covered(t, i, f) => Covered(t, i, e)'
  BY <1>2, <1>5, CoverDone
<1>10. Recording(f.n)'
  BY <1>1, <1>3, <1>5, <1>6 DEF Recording, Closed
<1>11. ret' \in [Callers -> {None, "ok", "error"}] /\ ret' = ret
  BY <1>1, TreeInvFacts DEF Typed
<1> QED BY <1>1, <1>2, <1>3, <1>4, <1>8, <1>9, <1>10, <1>11, GoesOn

LEMMA CloseDumpStep ==
    ASSUME TreeInv, NEW t \in Callers, CloseDump(t)
    PROVE  TreeInv'
<1> PICK f \in FrameRecord :
       /\ f = Top(t) /\ Framed(t, Len(stack[t]), f) /\ f.pc = "dump_close" /\ f.n \in Nodes
       /\ stack[t] # <<>> /\ Len(stack[t]) \in Nat \ {0}
       /\ FrameHolds(f) /\ Covered(t, Len(stack[t]), f)
       /\ node[f.n] \in NodeRecord /\ ret[t] = None
  BY TopFacts DEF CloseDump
<1>1. /\ Kind(f.n) = "dump" /\ Recording(f.n) /\ node[f.n].status = "closing" /\ Works(f)
      /\ UNCHANGED <<tree, busy>> /\ \A m \in Nodes : ~ChildOf(m, f.n)
  BY TreeInvFacts, Childless DEF FrameHolds, Labelled, Marked, Works, Closers, Recorded, CloseDump
<1>2. CASE /\ node' = [node EXCEPT ![f.n].gone = TRUE, ![f.n].status = "closed"]
           /\ Goto(t, "unregister") /\ UNCHANGED <<ret, faults>>
  <2>0. "unregister" \in Labels
    BY DEF Labels, Closers
  <2>1. PICK e \in FrameRecord :
           /\ e = [f EXCEPT !.pc = "unregister"] /\ e.pc = "unregister"
           /\ e.n = f.n /\ e.todo = f.todo /\ e.child = f.child /\ e.err = f.err
    BY <2>0, Relabelled
  <2>2. stack' = [stack EXCEPT ![t] = Append(Front(@), e)]
    BY <1>2, <2>1 DEF Goto
  <2>4. PICK r \in NodeRecord :
           /\ node' = [node EXCEPT ![f.n] = r]
           /\ r.made = node[f.n].made /\ r.kids = node[f.n].kids /\ r.gone
           /\ r.status = "closed"
           /\ r.file = node[f.n].file /\ r.error = node[f.n].error /\ r.stops = node[f.n].stops
           /\ r.stopped = node[f.n].stopped /\ r.given = node[f.n].given
    <3>1. PICK r : r = [node[f.n] EXCEPT !.gone = TRUE, !.status = "closed"]
      OBVIOUS
    <3>2. node' = [node EXCEPT ![f.n] = r]
      BY <1>2, <3>1, TreeInvFacts DEF Typed
    <3> r \in NodeRecord
      BY <3>1 DEF NodeRecord, Statuses
    <3> WITNESS r \in NodeRecord
    <3> QED BY <3>1, <3>2 DEF NodeRecord
  <2>6. /\ node[f.n].gone => r.gone
        /\ node[f.n].status = "closed" => r.status = "closed"
        /\ r.gone => node[f.n].gone \/ GonePast(e)
        /\ ~Ends(f)
    BY <1>1, <2>1, <2>4 DEF GonePast, Ends
  <2>7. NodesGo /\ node'[f.n] = r
    BY <1>1, <2>4, <2>6, TreeInvFacts, OneChanges
  <2>8. Made(f.n)' /\ Kind(f.n)' = "dump" /\ \A m \in Nodes : ~ChildOf(m, f.n)'
    BY <1>1, <2>7 DEF NodesGo, Made, Kind, FrameHolds, ChildOf, Parent
  <2>9. Labelled(e)' /\ Marked(e)'
    BY <2>1, <2>4, <2>7, <2>8 DEF Labelled, Marked, Works, Closers, Ends
  <2>10. FrameHolds(e)'
    BY <2>1, <2>8, <2>9 DEF FrameHolds
  <2>11. \A i \in Nat : Covered(t, i, f) => Covered(t, i, e)'
    BY <2>1, <2>7, CoverDone
  <2>12. Recording(f.n)'
    <3>1. node[f.n].file = None /\ node[f.n].stops <= 0
      BY <1>1 DEF Recording
    <3> QED BY <2>4, <2>7, <2>8, <3>1 DEF Recording, None
  <2>13. ret' \in [Callers -> {None, "ok", "error"}] /\ ret' = ret /\ UNCHANGED <<tree, busy, faults>>
    BY <1>1, <1>2, TreeInvFacts DEF Typed
  <2> QED BY <1>1, <2>1, <2>2, <2>4, <2>6, <2>10, <2>11, <2>12, <2>13, GoesOn
<1>3. CASE /\ Fault
           /\ node' = [node EXCEPT ![f.n].status = "open"] /\ PopAll({t}, "error")
  <2>1. PICK v \in {"ok", "error"} : PopAll({t}, v) /\ v = "error"
    BY <1>3
  <2>2. PICK s \in Statuses :
           /\ node' = [node EXCEPT ![f.n].status = s]
           /\ node[f.n].status = "closed" <=> s = "closed"
    BY <1>1, <1>3 DEF Statuses
  <2>3. {t} \in SUBSET Callers /\ Leaves({t}, f.n) /\ faults' \in 0 .. MaxFaults
    BY <1>3, TreeInvFacts, TreeAssumption DEF Leaves, Typed, Fault, Ends
  <2>4. WorkedIn({t}, f.n)
    BY <1>1, TreeInvFacts DEF WorkedIn, OneWorker
  <2> QED BY <1>1, <2>1, <2>2, <2>3, <2>4, Returns
<1> QED BY <1>2, <1>3 DEF CloseDump

-----------------------------------------------------------------------------
(* Containers.                                                              *)

LEMMA ShutStep ==
    ASSUME TreeInv, NEW t \in Callers, Shut(t)
    PROVE  TreeInv'
<1> PICK f \in FrameRecord :
       /\ f = Top(t) /\ Framed(t, Len(stack[t]), f) /\ f.pc = "children" /\ f.n \in Nodes
       /\ stack[t] # <<>> /\ Len(stack[t]) \in Nat \ {0}
       /\ FrameHolds(f) /\ Covered(t, Len(stack[t]), f)
       /\ node[f.n] \in NodeRecord
  BY TopFacts DEF Shut
<1>0. "release" \in Labels
  BY DEF Labels, Closers
<1>1. PICK e \in FrameRecord :
         /\ e = [f EXCEPT !.pc = "release"] /\ e.pc = "release"
         /\ e.n = f.n /\ e.todo = f.todo /\ e.child = f.child /\ e.err = f.err
  BY <1>0, Relabelled
<1>2. /\ stack' = [stack EXCEPT ![t] = Append(Front(@), e)]
      /\ UNCHANGED <<tree, busy, ret, faults>> /\ ret[t] = None /\ f.todo = {}
  BY <1>1 DEF Shut, Goto
<1>3. /\ Kind(f.n) \in Containers /\ node[f.n].status = "closing" /\ Recording(f.n) /\ Works(f)
  BY TreeInvFacts DEF FrameHolds, Labelled, Marked, Works, Closers, Recorded, Containers
\* Nothing is left before the frame, which waits for nothing.
<1>4. \A m \in Nodes : ChildOf(m, f.n) => node[m].gone
  BY <1>2 DEF Covered, Waits, None
<1>5. PICK r \in NodeRecord :
         /\ r = [node[f.n] EXCEPT !.shut = TRUE] /\ node' = [node EXCEPT ![f.n] = r]
  BY NodeFields, TreeInvFacts DEF Shut, Typed
<1>6. /\ r.made = node[f.n].made /\ r.kids = node[f.n].kids /\ r.gone = node[f.n].gone
      /\ r.status = "closing"
      /\ r.file = node[f.n].file /\ r.error = node[f.n].error /\ r.stops = node[f.n].stops
      /\ r.stopped = node[f.n].stopped /\ r.given = node[f.n].given
  BY <1>3, <1>5 DEF NodeRecord
<1>7. /\ r.status # "closed" /\ node[f.n].gone => r.gone
      /\ node[f.n].status = "closed" => r.status = "closed"
      /\ r.gone => node[f.n].gone \/ GonePast(e)
      /\ ~Ends(f)
  BY <1>3, <1>6 DEF Ends
<1>8. NodesGo /\ node'[f.n] = r
  BY <1>2, <1>5, <1>6, <1>7, TreeInvFacts, OneChanges
<1>9. /\ Made(f.n)' /\ Kind(f.n)' = Kind(f.n)
      /\ \A m \in Nodes : ChildOf(m, f.n)' => node'[m].gone
  BY <1>2, <1>4, <1>8 DEF NodesGo, Made, Kind, FrameHolds, ChildOf, Parent, Closed
<1>10. Labelled(e)' /\ Marked(e)'
  BY <1>1, <1>3, <1>6, <1>8, <1>9 DEF FrameHolds, Labelled, Marked, Works, Closers, Containers, Ends
<1>11. FrameHolds(e)'
  BY <1>1, <1>9, <1>10 DEF FrameHolds
<1>12. \A i \in Nat : Covered(t, i, f) => Covered(t, i, e)'
  BY <1>1, <1>8, CoverDone
<1>13. Recording(f.n)'
  BY <1>3, <1>6, <1>8, <1>9 DEF Recording, Closed
<1>14. ret' \in [Callers -> {None, "ok", "error"}] /\ ret' = ret /\ ret[t] # "ok"
  BY <1>2, TreeInvFacts DEF Typed, None
<1> QED BY <1>1, <1>2, <1>3, <1>5, <1>6, <1>7, <1>11, <1>12, <1>13, <1>14, GoesOn

LEMMA ReleaseStep ==
    ASSUME TreeInv, NEW t \in Callers, Release(t)
    PROVE  TreeInv'
<1> PICK f \in FrameRecord :
       /\ f = Top(t) /\ Framed(t, Len(stack[t]), f) /\ f.pc = "release" /\ f.n \in Nodes
       /\ stack[t] # <<>> /\ Len(stack[t]) \in Nat \ {0}
       /\ FrameHolds(f) /\ Covered(t, Len(stack[t]), f)
       /\ node[f.n] \in NodeRecord /\ ret[t] = None
  BY TopFacts DEF Release
<1>0. (IF Kind(f.n) = "replay" THEN "unregister" ELSE "succeed") \in Labels
  BY DEF Labels, Closers
<1>1. PICK e \in FrameRecord :
         /\ e = [f EXCEPT !.pc = IF Kind(f.n) = "replay" THEN "unregister" ELSE "succeed"]
         /\ Ends(e) /\ e.pc \notin {"closed", "children", "release", "stop", "destroy"}
         /\ e.pc = "unregister" => Kind(f.n) = "replay"
         /\ e.pc \notin {"lock", "dump_stop", "dump_close", "join"}
         /\ e.n = f.n /\ e.todo = f.todo /\ e.child = f.child /\ e.err = f.err
  BY <1>0, Relabelled DEF Ends
<1>2. /\ stack' = [stack EXCEPT ![t] = Append(Front(@), e)]
      /\ UNCHANGED <<tree, busy, ret, faults>>
  BY <1>1 DEF Release, Goto
<1>3. /\ Kind(f.n) \in Containers /\ node[f.n].status = "closing" /\ Recording(f.n) /\ Works(f)
      /\ \A m \in Nodes : ChildOf(m, f.n) => node[m].gone
  BY TreeInvFacts DEF FrameHolds, Labelled, Marked, Works, Closers, Recorded, Containers
<1>5. PICK r \in NodeRecord :
         /\ r = [node[f.n] EXCEPT !.gone = TRUE] /\ node' = [node EXCEPT ![f.n] = r]
  BY NodeFields, TreeInvFacts DEF Release, Typed
<1>6. /\ r.made = node[f.n].made /\ r.kids = node[f.n].kids /\ r.gone
      /\ r.status = "closing"
      /\ r.file = node[f.n].file /\ r.error = node[f.n].error /\ r.stops = node[f.n].stops
      /\ r.stopped = node[f.n].stopped /\ r.given = node[f.n].given
  BY <1>3, <1>5 DEF NodeRecord
<1>7. /\ r.status # "closed" /\ node[f.n].gone => r.gone
      /\ node[f.n].status = "closed" => r.status = "closed"
      /\ r.gone => node[f.n].gone \/ GonePast(e)
      /\ ~Ends(f)
  BY <1>1, <1>3, <1>6 DEF GonePast, Ends
<1>8. NodesGo /\ node'[f.n] = r
  BY <1>2, <1>5, <1>6, <1>7, TreeInvFacts, OneChanges
<1>9. /\ Made(f.n)' /\ Kind(f.n)' = Kind(f.n)
      /\ \A m \in Nodes : ChildOf(m, f.n)' => node'[m].gone
  BY <1>2, <1>3, <1>8 DEF NodesGo, Made, Kind, FrameHolds, ChildOf, Parent, Closed
<1>10. Labelled(e)' /\ Marked(e)'
  BY <1>1, <1>3, <1>6, <1>8, <1>9 DEF FrameHolds, Labelled, Marked, Works, Closers, Containers, Ends
<1>11. FrameHolds(e)'
  BY <1>1, <1>9, <1>10 DEF FrameHolds
<1>12. \A i \in Nat : Covered(t, i, f) => Covered(t, i, e)'
  BY <1>1, <1>8, CoverDone
<1>13. Recording(f.n)'
  BY <1>3, <1>6, <1>8, <1>9 DEF Recording, Closed
<1>14. ret' \in [Callers -> {None, "ok", "error"}] /\ ret' = ret
  BY <1>2, TreeInvFacts DEF Typed
<1> QED BY <1>1, <1>2, <1>3, <1>5, <1>6, <1>7, <1>11, <1>12, <1>13, <1>14, GoesOn

LEMMA ChildRaisedStep ==
    ASSUME TreeInv, NEW t \in Callers, ChildRaised(t)
    PROVE  TreeInv'
<1> PICK f \in FrameRecord :
       /\ f = Top(t) /\ Framed(t, Len(stack[t]), f) /\ f.pc = "children" /\ f.n \in Nodes
       /\ stack[t] # <<>> /\ Len(stack[t]) \in Nat \ {0}
       /\ FrameHolds(f) /\ Covered(t, Len(stack[t]), f)
       /\ node[f.n] \in NodeRecord
  BY TopFacts DEF ChildRaised
<1>1. /\ Kind(f.n) \in Containers /\ Kind(f.n) \notin {"task", "dump"} /\ Recording(f.n) /\ Works(f)
      /\ ~Ends(f)
      /\ UNCHANGED <<tree, busy, faults>> /\ ret[t] = "error"
  BY TreeInvFacts
     DEF FrameHolds, Labelled, Marked, Works, Closers, Ends, Recorded, Containers, ChildRaised
<1>2. CASE /\ node[f.child].status = "closed"
           /\ stack' = [stack EXCEPT ![t] = Append(Front(@), [f EXCEPT !.err = TRUE])]
           /\ ret' = [ret EXCEPT ![t] = None]
           /\ UNCHANGED node
  <2>1. PICK e \in FrameRecord :
           /\ e = [f EXCEPT !.err = TRUE] /\ e.pc = "children"
           /\ e.n = f.n /\ e.todo = f.todo /\ e.child = f.child
    <3> [f EXCEPT !.err = TRUE] \in FrameRecord
      BY DEF FrameRecord
    <3> WITNESS [f EXCEPT !.err = TRUE] \in FrameRecord
    <3> QED BY DEF FrameRecord
  <2>2. NodesGo /\ \A g : FrameHolds(g) => FrameHolds(g)'
    BY <1>1, <1>2, SameNodes
  <2>3. FrameHolds(e)
    BY <1>1, <2>1 DEF FrameHolds, Labelled, Marked, Works, Closers, Containers, Ends
  <2>4. \A i \in Nat : Covered(t, i, f) => Covered(t, i, e)'
    <3>1. f.child # None => node[f.child].gone
      BY <1>2, TreeInvFacts DEF GoneExact, Closed, FrameRecord
    <3>2. None \notin Nodes
      BY TreeInvFacts, Shape
    <3> QED BY <1>1, <1>2, <2>1, <3>1, <3>2 DEF Covered, ChildOf, Made, Parent
  <2>5. PICK r \in NodeRecord : r = node[f.n] /\ node' = [node EXCEPT ![f.n] = r]
    BY <1>2, TreeInvFacts DEF Typed
  <2>6. /\ r.made = node[f.n].made /\ r.kids = node[f.n].kids /\ node[f.n].gone => r.gone
        /\ node[f.n].status = "closed" => r.status = "closed"
        /\ r.gone => node[f.n].gone \/ GonePast(e)
        /\ r.status = "closed" => node[f.n].status = "closed"
    BY <2>5
  <2>8. /\ ret' \in [Callers -> {None, "ok", "error"}] /\ \A u \in Callers \ {t} : ret'[u] = ret[u]
        /\ ret'[t] = None /\ ret[t] # "ok"
    BY <1>1, <1>2, TreeInvFacts DEF Typed
  <2>7. Recording(f.n)'
    <3>1. Untouched(f.n)
      BY <1>2 DEF Untouched, Closed
    <3>2. \A u \in Callers : Deletes(u, f.n) => Deletes(u, f.n)'
      BY <1>1, <1>2, <2>1, <2>8, MovesRest
    <3> QED BY <1>1, <3>1, <3>2, RecordingStays
  <2>9. stack' = [stack EXCEPT ![t] = Append(Front(@), e)] /\ ~Ends(f) /\ FrameHolds(e)'
    BY <1>1, <1>2, <2>1, <2>2, <2>3
  <2> QED BY <1>1, <2>1, <2>4, <2>5, <2>6, <2>7, <2>8, <2>9, GoesOn
<1>3. CASE Fail(t)
  <2>1. faults' \in 0 .. MaxFaults
    BY <1>1, TreeInvFacts DEF Typed
  <2>2. Works(Top(t)) /\ ~Ends(Top(t)) /\ ret[t] # "ok" /\ Kind(Top(t).n) # "dump"
    BY <1>1
  <2> QED BY <1>1, <1>3, <2>1, <2>2, FailStep
<1> QED BY <1>2, <1>3 DEF ChildRaised


\* A step in which no call is made or returns, and no status changes.
LEMMA SameStacks ==
    ASSUME TreeInv, NodesGo, UNCHANGED stack,
           \A m \in Nodes : node'[m].status = node[m].status,
           \A u \in Callers : ret'[u] = ret[u] \/ (ret[u] = "ok" /\ ret'[u] = None)
    PROVE  /\ \A u \in Callers : Stacked(u)'
           /\ OneWorker' /\ \A m \in Nodes : Finishing(m) => Finishing(m)'
<1>1. \A u \in Callers : \A i, f : Framed(u, i, f)' <=> Framed(u, i, f)
  BY DEF Framed
<1>2. ASSUME NEW u \in Callers, NEW i \in Nat, NEW f \in FrameRecord, Framed(u, i, f)'
      PROVE  FrameHolds(f)' /\ Covered(u, i, f)'
  <2>1. FrameHolds(f) /\ Covered(u, i, f) /\ f.n \in Nodes
    BY <1>1, <1>2, TreeInvFacts DEF FrameRecord
  <2>2. Waits(u, i) => Waits(u, i)'
    BY DEF Waits
  <2>3. Works(f) => node'[f.n].status = node[f.n].status
    BY <2>1
  <2> QED BY <2>1, <2>2, <2>3, FrameStays, CoverStays
<1>3. ASSUME NEW u \in Callers PROVE Linked(u)'
  <2>1. ret'[u] # None => ret[u] # None
    BY DEF None
  <2> QED BY <1>1, <2>1, TreeInvFacts DEF Linked
<1>4. OneWorker'
  BY <1>1, TreeInvFacts DEF OneWorker, Works
<1>5. \A m \in Nodes : Finishing(m) => Finishing(m)'
  BY <1>1 DEF Finishing
<1> QED BY <1>2, <1>3, <1>4, <1>5 DEF Stacked

LEMMA CallbackSteps ==
    ASSUME TreeInv, NEW n \in Nodes, CallbackBegins(n) \/ CallbackReturns(n)
    PROVE  TreeInv'
<1>1. UNCHANGED <<tree, node, stack, ret, faults>> /\ busy' \subseteq Nodes
  BY TreeInvFacts DEF CallbackBegins, CallbackReturns, Typed
<1>2. NodesGo /\ Registered' /\ \A m \in Nodes : Untouched(m)
  BY <1>1, SameNodes
<1>3. /\ \A u \in Callers : Stacked(u)'
      /\ OneWorker' /\ \A m \in Nodes : Finishing(m) => Finishing(m)'
  BY <1>1, <1>2, SameStacks
<1>4. GoneExact'
  BY <1>1, <1>2, <1>3, GoneStays DEF Closed
<1>5. Recorded'
  BY <1>1, <1>2, RecordingStays DEF Recorded, Deletes, Framed
<1> QED BY <1>1, <1>2, <1>3, <1>4, <1>5, TreeInvFacts DEF TreeInv, Typed

LEMMA StopDumpStep ==
    ASSUME TreeInv, NEW t \in Callers, NEW n \in Nodes, StopDump(t, n)
    PROVE  TreeInv'
<1>1. /\ UNCHANGED <<tree, busy, stack, ret, faults>> /\ Kind(n) = "dump"
      /\ node' = [node EXCEPT ![n].stopped = TRUE] /\ node[n] \in NodeRecord
  BY TreeInvFacts DEF StopDump, Typed
<1>2. PICK r \in NodeRecord :
         /\ node' = [node EXCEPT ![n] = r]
         /\ r.made = node[n].made /\ r.kids = node[n].kids /\ r.gone = node[n].gone
         /\ r.status = node[n].status
         /\ r.file = node[n].file /\ r.error = node[n].error /\ r.stops = node[n].stops
         /\ r.given = node[n].given
  <2> [node[n] EXCEPT !.stopped = TRUE] \in NodeRecord
    BY <1>1, NodeFields
  <2> WITNESS [node[n] EXCEPT !.stopped = TRUE] \in NodeRecord
  <2> QED BY <1>1 DEF NodeRecord
<1>3. /\ node[n].gone => r.gone
      /\ node[n].status = "closed" => r.status = "closed"
  BY <1>2
<1>4. /\ NodesGo /\ node'[n] = r
      /\ \A m \in Nodes \ {n} : node'[m] = node[m] /\ Untouched(m)
      /\ \A m \in Nodes : node'[m].kids = node[m].kids
  BY <1>1, <1>2, <1>3, TreeInvFacts, OneChanges
<1>5. \A m \in Nodes : node'[m].status = node[m].status /\ node'[m].gone = node[m].gone
  BY <1>2, <1>4
<1>6. /\ \A u \in Callers : Stacked(u)'
      /\ OneWorker' /\ \A m \in Nodes : Finishing(m) => Finishing(m)'
  BY <1>1, <1>4, <1>5, SameStacks
<1>7. GoneExact' /\ Registered'
  BY <1>4, <1>5, <1>6, GoneStays, RegisteredStays DEF Closed
<1>8. ASSUME NEW m \in Nodes PROVE Recording(m)'
  <2>1. \A u \in Callers : Deletes(u, m) => Deletes(u, m)'
    BY <1>1 DEF Deletes, Framed
  <2>2. CASE m # n
    BY <1>1, <1>4, <2>1, <2>2, RecordingStays
  <2>3. CASE m = n
    <3>1. node[n].file = None /\ node[n].stops <= 0
      BY <1>1, TreeInvFacts DEF Recorded, Recording
    <3> QED BY <1>1, <1>2, <1>4, <2>3, <3>1 DEF Recording, None, Kind
  <2> QED BY <2>2, <2>3
<1> QED BY <1>1, <1>4, <1>6, <1>7, <1>8, TreeInvFacts DEF TreeInv, Typed, NodesGo, Recorded

LEMMA ChildClosedStep ==
    ASSUME TreeInv, NEW t \in Callers, ChildClosed(t)
    PROVE  TreeInv'
<1> PICK f \in FrameRecord :
       /\ f = Top(t) /\ Framed(t, Len(stack[t]), f) /\ f.pc = "children" /\ f.n \in Nodes
       /\ stack[t] # <<>> /\ Len(stack[t]) \in Nat \ {0}
       /\ FrameHolds(f) /\ Covered(t, Len(stack[t]), f)
       /\ node[f.n] \in NodeRecord
  BY TopFacts DEF ChildClosed
<1>1. /\ ret[t] = "ok" /\ ret' = [ret EXCEPT ![t] = None] /\ UNCHANGED <<tree, busy, stack, faults>>
      /\ node' = [node EXCEPT ![f.child].file = IF @ = None THEN None ELSE "deleted"]
  BY DEF ChildClosed
<1>2. f.child \in Nodes
  <2>1. \E g \in FrameRecord : Framed(t, Len(stack[t]), g) /\ g.child # None
    BY <1>1, TreeInvFacts DEF Linked, None
  <2>2. f.child # None
    BY <2>1 DEF Framed
  <2> QED BY <2>2 DEF FrameRecord
<1>3. PICK r \in NodeRecord :
         /\ node' = [node EXCEPT ![f.child] = r]
         /\ r.made = node[f.child].made /\ r.kids = node[f.child].kids
         /\ r.gone = node[f.child].gone /\ r.status = node[f.child].status
         /\ r.file = (IF node[f.child].file = None THEN None ELSE "deleted")
         /\ r.error = node[f.child].error /\ r.stops = node[f.child].stops
         /\ r.stopped = node[f.child].stopped /\ r.given = node[f.child].given
  <2> DEFINE x == IF node[f.child].file = None THEN None ELSE "deleted"
  <2>1. x \in Files /\ node[f.child] \in NodeRecord
    BY <1>2, TreeInvFacts DEF Files, Typed
  <2>2. node' = [node EXCEPT ![f.child] = [node[f.child] EXCEPT !.file = x]]
    BY <1>1
  <2> HIDE DEF x
  <2> [node[f.child] EXCEPT !.file = x] \in NodeRecord
    BY <2>1, NodeFields
  <2>3. WITNESS [node[f.child] EXCEPT !.file = x] \in NodeRecord
  <2> QED BY <2>1, <2>2 DEF NodeRecord, x
<1>4. /\ node[f.child].gone => r.gone
      /\ node[f.child].status = "closed" => r.status = "closed"
      /\ tree' = tree
  BY <1>1, <1>3
<1>5. /\ NodesGo /\ node'[f.child] = r
      /\ \A m \in Nodes \ {f.child} : node'[m] = node[m] /\ Untouched(m)
      /\ \A m \in Nodes : node'[m].kids = node[m].kids
  BY <1>2, <1>3, <1>4, TreeInvFacts, OneChanges
<1>6. \A m \in Nodes : node'[m].status = node[m].status /\ node'[m].gone = node[m].gone
  BY <1>2, <1>3, <1>5
<1>7. /\ \A u \in Callers : ret'[u] = ret[u] \/ (ret[u] = "ok" /\ ret'[u] = None)
      /\ \A u \in Callers \ {t} : ret'[u] = ret[u]
      /\ ret' \in [Callers -> {None, "ok", "error"}]
  BY <1>1, TreeInvFacts DEF Typed
<1>8. /\ \A u \in Callers : Stacked(u)'
      /\ OneWorker' /\ \A m \in Nodes : Finishing(m) => Finishing(m)'
  BY <1>1, <1>5, <1>6, <1>7, SameStacks
<1>9. GoneExact' /\ Registered'
  BY <1>5, <1>6, <1>8, GoneStays, RegisteredStays DEF Closed
<1>10. ASSUME NEW m \in Nodes PROVE Recording(m)'
  <2>1. CASE m # f.child
    <3>1. ASSUME NEW u \in Callers, Deletes(u, m) PROVE Deletes(u, m)'
      <4>1. u # t
        BY <2>1, <3>1, WhoDeletes
      <4> QED BY <1>1, <1>7, <3>1, <4>1 DEF Deletes, Framed
    <3> QED BY <1>1, <1>5, <2>1, <3>1, RecordingStays
  <2>2. CASE m = f.child
    <3>1. Recording(m)
      BY TreeInvFacts DEF Recorded
    <3>2. Made(m) => Made(m)'
      BY <1>5 DEF NodesGo, Made
    <3> QED BY <1>1, <1>3, <1>5, <2>2, <3>1, <3>2 DEF Recording, None, Kind
  <2> QED BY <2>1, <2>2
<1> QED BY <1>1, <1>5, <1>7, <1>8, <1>9, <1>10, TreeInvFacts DEF TreeInv, Typed, NodesGo, Recorded


LEMMA CreatesStep ==
    ASSUME TreeInv, NEW t, NEW n \in Nodes, NEW kind, Creates(t, n, kind)
    PROVE  TreeInv'
<1>1. /\ UNCHANGED <<tree, busy, stack, ret, faults>>
      /\ node' = [node EXCEPT ![n].made = TRUE, ![Parent(n)].kids = @ \cup {n}]
      /\ ~Made(n) /\ node[Parent(n)].made /\ node[Parent(n)].status = "open"
  BY DEF Creates, Made
<1>2. PICK p \in Nodes : p = Parent(n) /\ Made(p) /\ node[p].status = "open" /\ p # n
  BY <1>1, TreeInvFacts, Shape DEF Registered, Made
<1>3. /\ node \in [Nodes -> NodeRecord] /\ node[n] \in NodeRecord /\ node[p] \in NodeRecord
  BY <1>2, TreeInvFacts DEF Typed
<1>4. /\ node'[n] = [node[n] EXCEPT !.made = TRUE]
      /\ node'[p] = [node[p] EXCEPT !.kids = @ \cup {n}]
      /\ \A m \in Nodes \ {n, p} : node'[m] = node[m]
  BY <1>1, <1>2, <1>3
<1>5. node'[n] \in NodeRecord /\ node'[p] \in NodeRecord
  <2>1. node'[n] \in NodeRecord
    BY <1>3, <1>4 DEF NodeRecord
  <2>2. node[p].kids \cup {n} \in SUBSET Nodes
    BY <1>3 DEF NodeRecord
  <2>3. [node[p] EXCEPT !.kids = node[p].kids \cup {n}] \in NodeRecord
    BY <1>3, <2>2 DEF NodeRecord
  <2> QED BY <1>4, <2>1, <2>3
<1>6. node' \in [Nodes -> NodeRecord]
  <2>1. node' = [m \in Nodes |-> node'[m]]
    BY <1>1, <1>2, <1>3
  <2>2. \A m \in Nodes : node'[m] \in NodeRecord
    BY <1>3, <1>4, <1>5
  <2> QED BY <2>1, <2>2
<1>7. \A m \in Nodes : /\ node'[m].status = node[m].status /\ node'[m].gone = node[m].gone
                       /\ node'[m].made = (node[m].made \/ m = n)
                       /\ node'[m].kids = IF m = p THEN node[m].kids \cup {n} ELSE node[m].kids
                       /\ Untouched(m)
  <2>1. ASSUME NEW m \in Nodes, m = n
        PROVE  /\ node'[m].status = node[m].status /\ node'[m].gone = node[m].gone
               /\ node'[m].made /\ node'[m].kids = node[m].kids /\ Untouched(m)
    BY <1>3, <1>4, <2>1 DEF NodeRecord, Untouched, Closed
  <2>2. ASSUME NEW m \in Nodes, m = p
        PROVE  /\ node'[m].status = node[m].status /\ node'[m].gone = node[m].gone
               /\ node'[m].made = node[m].made /\ node'[m].kids = node[m].kids \cup {n}
               /\ Untouched(m)
    BY <1>3, <1>4, <2>2 DEF NodeRecord, Untouched, Closed
  <2>3. ASSUME NEW m \in Nodes \ {n, p}
        PROVE  node'[m] = node[m] /\ Untouched(m)
    BY <1>4, <2>3 DEF Untouched, Closed
  <2>4. \A m \in Nodes : node[m].made \in BOOLEAN
    BY <1>3 DEF NodeRecord
  <2> QED BY <1>2, <2>1, <2>2, <2>3, <2>4
\* The new object is a child of p, which is open: no close() of p is under way.
<1>8. \A m, q \in Nodes : ChildOf(m, q)' <=> ChildOf(m, q) \/ (m = n /\ q = p)
  BY <1>1, <1>2, <1>7 DEF ChildOf, Made, Parent
<1>9. \A m \in Nodes : Closed(m)' <=> Closed(m)
  BY <1>7 DEF Closed
<1>10. \A u \in Callers : \A i, f : Framed(u, i, f)' <=> Framed(u, i, f)
  BY <1>1 DEF Framed
<1>11. ASSUME NEW u \in Callers, NEW i \in Nat, NEW f \in FrameRecord, Framed(u, i, f)'
       PROVE  FrameHolds(f)' /\ Covered(u, i, f)'
  <2>1. FrameHolds(f) /\ Covered(u, i, f) /\ f.n \in Nodes
    BY <1>10, <1>11, TreeInvFacts DEF FrameRecord
  <2>2. f.todo \subseteq Nodes /\ f.child \in Nodes \cup {None}
    BY DEF FrameRecord
  <2>3. Works(f) => f.n # p
    BY <1>2, <2>1 DEF FrameHolds, Marked
  <2>4. Made(f.n)' /\ Labelled(f)'
    BY <1>1, <1>7, <2>1 DEF FrameHolds, Made, Labelled, Kind
  <2>5. Marked(f)'
    <3>1. Marked(f)
      BY <2>1 DEF FrameHolds
    <3>2. f.pc = "release" => Works(f)
      BY DEF Works, Closers
    <3>3. f.pc = "release" => \A m \in Nodes : ChildOf(m, f.n)' => node'[m].gone
      BY <1>7, <1>8, <2>1, <2>3, <3>1, <3>2 DEF Marked
    <3>4. /\ node'[f.n].status = node[f.n].status /\ node'[f.n].gone = node[f.n].gone
          /\ Kind(f.n)' = Kind(f.n) /\ (Closed(f.n)' <=> Closed(f.n))
      BY <1>1, <1>7, <1>9, <2>1 DEF Kind
    <3> QED BY ONLY <3>1, <3>3, <3>4 DEF Marked
  <2>6. Covered(u, i, f)'
    <3>1. f.child # None => ChildOf(f.child, f.n)'
      BY <1>8, <2>1, <2>2 DEF Covered
    <3>2. \A m \in f.todo : ChildOf(m, f.n)'
      BY <1>8, <2>1, <2>2 DEF Covered
    <3>3. ASSUME f.pc = "children", NEW m \in Nodes, ChildOf(m, f.n)', ~node'[m].gone
          PROVE  m \in f.todo \/ (Waits(u, i)' /\ m = f.child)
      <4>1. ChildOf(m, f.n) /\ ~node[m].gone
        BY <1>7, <1>8, <2>1, <2>3, <3>3 DEF Works, Closers
      <4>2. Waits(u, i)' <=> Waits(u, i)
        BY <1>1 DEF Waits
      <4> QED BY <2>1, <3>3, <4>1, <4>2 DEF Covered
    <3> QED BY <3>1, <3>2, <3>3 DEF Covered
  <2> QED BY <2>4, <2>5, <2>6 DEF FrameHolds
<1>12. \A u \in Callers : Linked(u)'
  BY <1>1, <1>10, TreeInvFacts DEF Linked
<1>13. OneWorker' /\ \A m \in Nodes : Finishing(m) <=> Finishing(m)'
  BY <1>10, TreeInvFacts DEF OneWorker, Works, Finishing
<1>14. GoneExact'
  <2> SUFFICES ASSUME NEW q \in Nodes
               PROVE  /\ Closed(q)' => node'[q].gone
                      /\ node'[q].gone => Closed(q)' \/ Finishing(q)'
                      /\ node'[q].gone => \A m \in Nodes : ChildOf(m, q)' => node'[m].gone
    BY DEF GoneExact
  <2>1. /\ Closed(q) => node[q].gone
        /\ node[q].gone => Closed(q) \/ Finishing(q)
        /\ node[q].gone => \A m \in Nodes : ChildOf(m, q) => node[m].gone
    BY TreeInvFacts DEF GoneExact
  <2>2. node'[q].gone = node[q].gone
    BY <1>7
  <2>3. node[q].gone => q # p
    <3>1. ~Closed(p)
      BY <1>2 DEF Closed
    <3>2. ~Finishing(p)
      <4> SUFFICES ASSUME NEW u \in Callers, NEW i \in Nat, NEW f \in FrameRecord,
                          Framed(u, i, f), Ends(f), f.n = p
                   PROVE  FALSE
        BY DEF Finishing
      <4>1. FrameHolds(f) /\ Works(f)
        BY TreeInvFacts DEF Ends, Works, Closers
      <4> QED BY <1>2, <4>1 DEF FrameHolds, Marked
    <3> QED BY <2>1, <3>1, <3>2
  <2>4. node'[q].gone => \A m \in Nodes : ChildOf(m, q)' => node'[m].gone
    BY <1>7, <1>8, <2>1, <2>3
  <2> QED BY <1>9, <1>13, <2>1, <2>2, <2>4
<1>15. Registered'
  <2> SUFFICES ASSUME NEW q \in Nodes
               PROVE  /\ Parent(q)' = None => Made(q)'
                      /\ \A m \in node'[q].kids : ChildOf(m, q)'
                      /\ \A m \in Nodes : ChildOf(m, q)' /\ ~node'[m].gone => m \in node'[q].kids
    BY DEF Registered
  <2>1. node[q].kids \subseteq Nodes
    BY <1>3 DEF NodeRecord
  <2>2. Parent(q)' = None => Made(q)'
    BY <1>1, <1>7, TreeInvFacts DEF Registered, Parent, Made
  <2>3. \A m \in node'[q].kids : ChildOf(m, q)'
    <3> TAKE m \in node'[q].kids
    <3>1. \A l \in node[q].kids : ChildOf(l, q)
      BY TreeInvFacts DEF Registered
    <3>2. m \in Nodes /\ (m \in node[q].kids \/ (m = n /\ q = p))
      BY <1>7, <2>1
    <3> QED BY <1>8, <3>1, <3>2
  <2>4. \A m \in Nodes : ChildOf(m, q)' /\ ~node'[m].gone => m \in node'[q].kids
    <3>1. \A l \in Nodes : ChildOf(l, q) /\ ~node[l].gone => l \in node[q].kids
      BY TreeInvFacts DEF Registered
    <3> QED BY <1>7, <1>8, <3>1
  <2> QED BY <2>2, <2>3, <2>4
<1>16. Recorded'
  BY <1>1, <1>7, RecordingStays DEF Recorded, Deletes, Framed
<1> QED BY <1>1, <1>6, <1>11, <1>12, <1>13, <1>14, <1>15, <1>16, TreeInvFacts
        DEF TreeInv, Typed, Stacked

LEMMA DeleteRaisesStep ==
    ASSUME TreeInv, NEW t \in Callers, DeleteRaises(t)
    PROVE  TreeInv'
<1> PICK f \in FrameRecord :
       /\ f = Top(t) /\ Framed(t, Len(stack[t]), f) /\ f.pc = "children" /\ f.n \in Nodes
       /\ stack[t] # <<>> /\ Len(stack[t]) \in Nat \ {0}
       /\ FrameHolds(f) /\ Covered(t, Len(stack[t]), f)
       /\ node[f.n] \in NodeRecord
  BY TopFacts DEF DeleteRaises
<1>1. /\ ret[t] = "ok" /\ node[f.child].file = "kept" /\ UNCHANGED <<tree, busy>>
      /\ node' = [node EXCEPT ![f.child].file = "refused", ![f.n].status = "close_failed"]
      /\ faults < MaxFaults /\ faults' = faults + 1 /\ PopAll(Served(t, f.n), "error")
  BY DEF DeleteRaises, Fault
<1>2. f.child \in Nodes
  <2>1. \E g \in FrameRecord : Framed(t, Len(stack[t]), g) /\ g.child # None
    BY <1>1, TreeInvFacts DEF Linked, None
  <2>2. f.child # None
    BY <2>1 DEF Framed
  <2> QED BY <2>2 DEF FrameRecord
\* The child is a recording, the object closed a container.
<1>3. f.child # f.n /\ node[f.n].status = "closing" /\ Works(f)
  <2>1. Kind(f.child) = "task"
    BY <1>1, <1>2, TreeInvFacts DEF Recorded, Recording, None
  <2> QED BY <2>1 DEF FrameHolds, Labelled, Marked, Works, Closers, Containers
<1>4. /\ node \in [Nodes -> NodeRecord] /\ node[f.child] \in NodeRecord
  BY <1>2, TreeInvFacts DEF Typed
<1>5. /\ node'[f.child] = [node[f.child] EXCEPT !.file = "refused"]
      /\ node'[f.n] = [node[f.n] EXCEPT !.status = "close_failed"]
      /\ \A m \in Nodes \ {f.child, f.n} : node'[m] = node[m]
  BY <1>1, <1>2, <1>3, <1>4
<1>6. node'[f.child] \in NodeRecord /\ node'[f.n] \in NodeRecord
  <2>1. "refused" \in Files /\ "close_failed" \in Statuses
    BY DEF Statuses, Files
  <2> QED BY <1>4, <1>5, <2>1, NodeFields
<1>7. node' \in [Nodes -> NodeRecord]
  <2>1. node' = [m \in Nodes |-> node'[m]]
    BY <1>1, <1>2, <1>4
  <2>2. \A m \in Nodes : node'[m] \in NodeRecord
    BY <1>4, <1>5, <1>6
  <2> QED BY <2>1, <2>2
<1>8. /\ node'[f.child].made = node[f.child].made /\ node'[f.child].status = node[f.child].status
      /\ node'[f.child].gone = node[f.child].gone /\ node'[f.child].kids = node[f.child].kids
      /\ node'[f.child].stops = node[f.child].stops
      /\ node'[f.child].stopped = node[f.child].stopped
      /\ node'[f.child].error = node[f.child].error /\ node'[f.child].file = "refused"
  BY <1>4, <1>5 DEF NodeRecord
<1>9. /\ node'[f.n].made = node[f.n].made /\ node'[f.n].status = "close_failed"
      /\ node'[f.n].gone = node[f.n].gone /\ node'[f.n].kids = node[f.n].kids /\ Untouched(f.n)
  BY <1>5 DEF NodeRecord, Untouched, Closed
<1>10. /\ NodesGo /\ OnlyStatusOf(f.n)
       /\ \A m \in Nodes : node'[m].kids = node[m].kids /\ node'[m].gone = node[m].gone
       /\ \A m \in Nodes : Closed(m)' => Closed(m)
       /\ \A m \in Nodes \ {f.child} : Untouched(m)
  <2>1. \A m \in Nodes : /\ node'[m].made = node[m].made /\ node'[m].kids = node[m].kids
                         /\ node'[m].gone = node[m].gone
                         /\ Closed(m) <=> node'[m].status = "closed"
    <3> TAKE m \in Nodes
    <3>1. CASE m = f.child
      BY <1>8, <3>1 DEF Closed
    <3>2. CASE m = f.n
      BY <1>3, <1>9, <3>2 DEF Closed
    <3>3. CASE m \notin {f.child, f.n}
      BY <1>5, <3>3 DEF Closed
    <3> QED BY <3>1, <3>2, <3>3
  <2>2. \A m \in Nodes \ {f.child} : Untouched(m)
    <3> TAKE m \in Nodes \ {f.child}
    <3>1. CASE m = f.n
      BY <1>9, <3>1
    <3>2. CASE m # f.n
      BY <1>5, <3>2 DEF Untouched, Closed
    <3> QED BY <3>1, <3>2
  <2>3. OnlyStatusOf(f.n)
    BY <1>5, <1>8 DEF OnlyStatusOf
  <2> QED BY <1>1, <1>7, <2>1, <2>2, <2>3 DEF NodesGo, Closed
<1>11. PICK S \in SUBSET Callers : S = Served(t, f.n)
  BY DEF Served
<1>12. \A u \in S : stack[u] # <<>> /\ Top(u).n = f.n /\ (u = t \/ Top(u).pc = "join")
  BY <1>11 DEF Served, At
<1>13. WorkedIn(S, f.n)
  <2> SUFFICES ASSUME NEW u \in Callers, NEW i \in Nat, NEW g \in FrameRecord,
                      Framed(u, i, g), Works(g), g.n = f.n
               PROVE  u \in S /\ i = Len(stack[u])
    BY DEF WorkedIn
  <2>1. u = t /\ i = Len(stack[t])
    BY <1>3, TreeInvFacts DEF OneWorker
  <2> QED BY <1>11, <2>1 DEF Served
<1>14. PICK v \in {"ok", "error"} : v = "error" /\ PopAll(S, v)
  BY <1>1, <1>11
<1>15. (\A u \in Callers : Stacked(u)') /\ OneWorker'
  BY <1>10, <1>12, <1>13, <1>14, Pops DEF WorkedIn
<1>16. /\ \A m \in Nodes : Finishing(m) => Finishing(m)'
       /\ \A u \in Callers, m \in Nodes \ {f.child} : Deletes(u, m) => Deletes(u, m)'
  <2>1. /\ \A m \in Nodes : Finishing(m) => \/ Finishing(m)'
                                            \/ \E u \in S : Ends(Top(u)) /\ Top(u).n = m
        /\ \A u \in Callers \ S, m \in Nodes : Deletes(u, m) => Deletes(u, m)'
    BY <1>12, <1>14, PopsRest
  <2>2. \A u \in S, m \in Nodes \ {f.child} : ~Deletes(u, m)
    BY <1>12, WhoDeletes
  <2>3. \A u \in S : ~Ends(Top(u))
    BY <1>12 DEF Ends
  <2> QED BY <2>1, <2>2, <2>3
<1>17. GoneExact' /\ Registered'
  BY <1>10, <1>16, GoneStays, RegisteredStays
<1>18. ASSUME NEW m \in Nodes PROVE Recording(m)'
  <2>1. CASE m # f.child
    BY <1>1, <1>10, <1>16, <2>1, RecordingStays
  <2>2. CASE m = f.child
    <3>1. Recording(m) /\ node[m].file # None
      BY <1>1, <2>2, TreeInvFacts DEF Recorded, None
    <3>2. Made(m) => Made(m)'
      BY <1>10 DEF NodesGo, Made
    <3> QED BY <1>1, <1>8, <2>2, <3>1, <3>2 DEF Recording, Kind
  <2> QED BY <2>1, <2>2
<1>19. /\ stack' \in [Callers -> Seq(FrameRecord)] /\ ret' \in [Callers -> {None, "ok", "error"}]
       /\ faults' \in 0 .. MaxFaults
  <2>1. stack' \in [Callers -> Seq(FrameRecord)]
    BY <1>12, <1>14, PoppedFrames, TreeInvFacts
  <2>2. ret' \in [Callers -> {None, "ok", "error"}]
    BY <1>14, TreeInvFacts DEF PopAll, Typed
  <2>3. faults' \in 0 .. MaxFaults
    BY <1>1, TreeInvFacts, TreeAssumption DEF Typed
  <2> QED BY <2>1, <2>2, <2>3
<1> QED BY <1>1, <1>7, <1>15, <1>17, <1>18, <1>19, TreeInvFacts DEF TreeInv, Typed, Recorded


\* The close() of a container calls that of a child: a frame on top.
LEMMA CloseChildStep ==
    ASSUME TreeInv, NEW t \in Callers, NEW c \in Nodes, CloseChild(t, c)
    PROVE  TreeInv'
<1> PICK f \in FrameRecord :
       /\ f = Top(t) /\ Framed(t, Len(stack[t]), f) /\ f.pc = "children" /\ f.n \in Nodes
       /\ stack[t] # <<>> /\ Len(stack[t]) \in Nat \ {0}
       /\ FrameHolds(f) /\ Covered(t, Len(stack[t]), f)
  BY TopFacts DEF CloseChild
<1> PICK k \in Nat \ {0} : k = Len(stack[t])
  OBVIOUS
<1>1. /\ ret[t] = None /\ c \in f.todo /\ UNCHANGED <<tree, busy, ret, faults>>
      /\ node' = Entered(c) /\ ChildOf(c, f.n) /\ Made(c) /\ Works(f)
  BY DEF CloseChild, Covered, ChildOf, Works, Closers
<1>2. PICK g : g = Entry(c)
  OBVIOUS
<1>3. /\ g \in FrameRecord /\ g.n = c /\ (Works(g) => Idle(c)) /\ ~Ends(g)
      /\ FrameHolds(g)' /\ \A u \in Callers : \A i \in Nat : Covered(u, i, g)'
  BY <1>1, <1>2, Entries
<1>4. /\ NodesGo /\ OnlyStatusOf(c)
      /\ \A m \in Nodes : /\ node'[m].kids = node[m].kids /\ node'[m].gone = node[m].gone
                          /\ Untouched(m)
      /\ \A u \in Callers : \A i \in Nat : \A h \in FrameRecord :
            Framed(u, i, h) /\ Works(h) => node'[h.n].status = node[h.n].status
  BY <1>1, Enters
<1>5. PICK e \in FrameRecord :
         /\ stack' = [stack EXCEPT ![t] = Append(Front(@), e) \o <<g>>]
         /\ e.n = f.n /\ e.pc = "children" /\ e.todo = f.todo \ {c} /\ e.child = c /\ e.err = f.err
  <2>1. PICK e : e = [f EXCEPT !.todo = @ \ {c}, !.child = c]
    OBVIOUS
  <2> e \in FrameRecord
    BY <2>1 DEF FrameRecord
  <2>2. stack' = [stack EXCEPT ![t] = Append(Front(@), e) \o <<g>>]
    BY <1>2, <2>1 DEF CloseChild
  <2>3. /\ e.n = f.n /\ e.pc = "children" /\ e.todo = f.todo \ {c} /\ e.child = c
        /\ e.err = f.err
    BY <2>1 DEF FrameRecord
  <2> WITNESS e \in FrameRecord
  <2> QED BY <2>2, <2>3
<1>6. /\ stack' \in [Callers -> Seq(FrameRecord)]
      /\ Len(stack'[t]) = k + 1
      /\ \A u \in Callers \ {t} : stack'[u] = stack[u]
      /\ \A u \in Callers : \A i, h :
            Framed(u, i, h)' <=> IF u = t /\ i = k THEN h = e
                                 ELSE IF u = t /\ i = k + 1 THEN h = g
                                 ELSE Framed(u, i, h)
  <2>0. Typed
    BY TreeInvFacts
  <2>1. /\ stack' \in [Callers -> Seq(FrameRecord)]
        /\ Len(stack'[t]) = Len(stack[t]) + 1
        /\ \A u \in Callers \ {t} : stack'[u] = stack[u]
        /\ \A u \in Callers : \A i, h :
              Framed(u, i, h)' <=> IF u = t /\ i = Len(stack[t]) THEN h = e
                                   ELSE IF u = t /\ i = Len(stack[t]) + 1 THEN h = g
                                   ELSE Framed(u, i, h)
    BY <1>3, <1>5, <2>0, PushedFrames
  <2> QED BY <2>1
<1>7. /\ \A i, h : Framed(t, i, h) => i \in Nat \ {0} /\ i <= k
      /\ \A h : Framed(t, k, h) => h = f
  BY TreeInvFacts, Framings DEF Framed
<1>8. \A m \in Nodes : /\ ChildOf(m, f.n)' <=> ChildOf(m, f.n)
                       /\ node[m].gone => node'[m].gone
  BY <1>4 DEF NodesGo, ChildOf, Made, Parent
<1>9. FrameHolds(e)'
  <2>1. FrameHolds(e)
    BY <1>5 DEF FrameHolds, Labelled, Marked, Ends, Works, Closers
  <2>2. node'[e.n].status = node[e.n].status
    BY <1>1, <1>4, <1>5
  <2> QED BY <1>4, <2>1, <2>2, FrameStays
<1>10. Covered(t, k, e)'
  <2>1. ASSUME NEW m \in Nodes, ChildOf(m, f.n), ~node[m].gone
        PROVE  m \in f.todo
    BY <1>1, <2>1 DEF Covered, Waits, None
  <2>2. Waits(t, k)'
    BY <1>6 DEF Waits
  <2>3. \A m \in f.todo : ChildOf(m, f.n) /\ m \in Nodes
    BY DEF Covered, FrameRecord
  <2>4. /\ c \in Nodes /\ ChildOf(c, f.n)'
        /\ \A m \in f.todo \ {c} : ChildOf(m, f.n)'
        /\ \A m \in Nodes : ChildOf(m, f.n)' /\ ~node'[m].gone => m \in f.todo
    BY <1>1, <1>8, <2>1, <2>3
  <2> QED BY <1>5, <2>2, <2>4 DEF Covered
<1>11. ASSUME NEW u \in Callers, NEW i \in Nat, NEW h \in FrameRecord, Framed(u, i, h)'
       PROVE  FrameHolds(h)' /\ Covered(u, i, h)'
  <2>1. CASE u = t /\ i = k
    BY <1>6, <1>9, <1>10, <1>11, <2>1
  <2>2. CASE u = t /\ i = k + 1
    BY <1>3, <1>6, <1>11, <2>2
  <2>3. CASE ~(u = t /\ i \in {k, k + 1})
    <3>1. Framed(u, i, h)
      BY <1>6, <1>11, <2>3
    <3>2. FrameHolds(h) /\ Covered(u, i, h)
      BY <3>1, TreeInvFacts
    <3>3. Works(h) => node'[h.n].status = node[h.n].status
      BY <1>4, <3>1
    <3>4. Waits(u, i) => Waits(u, i)'
      <4>1. CASE u = t
        BY <1>6, <1>7, <3>1, <4>1 DEF Waits
      <4>2. CASE u # t
        BY <1>1, <1>6, <4>2 DEF Waits
      <4> QED BY <4>1, <4>2
    <3> QED BY <1>4, <3>2, <3>3, <3>4, FrameStays, CoverStays
  <2> QED BY <2>1, <2>2, <2>3
<1>12. ASSUME NEW u \in Callers PROVE Linked(u)'
  <2>1. ASSUME NEW i \in Nat, NEW h \in FrameRecord, NEW l \in FrameRecord,
               Framed(u, i, h)', Framed(u, i + 1, l)'
        PROVE  h.pc = "children" /\ h.child = l.n
    <3>1. CASE u = t /\ i = k
      BY <1>3, <1>5, <1>6, <2>1, <3>1
    <3>2. CASE u = t /\ i = k + 1
      <4>1. i + 1 <= k + 1
        BY <1>6, <2>1, <3>2 DEF Framed
      <4> QED BY <3>2, <4>1
    <3>3. CASE u = t /\ i + 1 = k
      <4>1. Framed(t, i, h) /\ l = e /\ Framed(t, i + 1, f)
        BY <1>6, <2>1, <3>3
      <4> QED BY <1>5, <3>3, <4>1, TreeInvFacts DEF Linked
    <3>4. CASE ~(u = t /\ (i \in {k, k + 1} \/ i + 1 = k))
      <4>1. Framed(u, i, h) /\ Framed(u, i + 1, l)
        BY <1>6, <2>1, <3>4
      <4> QED BY <4>1, TreeInvFacts DEF Linked
    <3> QED BY <3>1, <3>2, <3>3, <3>4
  <2>2. ASSUME ret'[u] # None
        PROVE  \E h \in FrameRecord :
                  Framed(u, Len(stack[u]), h)' /\ h.pc = "children" /\ h.child # None
    <3>1. u # t /\ ret[u] # None
      BY <1>1, <2>2
    <3>2. PICK h \in FrameRecord : Framed(u, Len(stack[u]), h) /\ h.pc = "children" /\ h.child # None
      BY <3>1, TreeInvFacts DEF Linked
    <3>3. Framed(u, Len(stack[u]), h)'
      BY <1>6, <3>1, <3>2
    <3> QED BY <3>2, <3>3
  <2> QED BY <2>1, <2>2 DEF Linked
<1>13. OneWorker'
  <2>0. ASSUME NEW u \in Callers, NEW i \in Nat, NEW h \in FrameRecord, Framed(u, i, h)', Works(h)
        PROVE  \/ u = t /\ i = k + 1 /\ h = g /\ Works(g)
               \/ /\ ~(u = t /\ i = k + 1)
                  /\ \E l \in FrameRecord : Framed(u, i, l) /\ Works(l) /\ l.n = h.n
    <3>1. CASE u = t /\ i = k
      BY <1>1, <1>5, <1>6, <2>0, <3>1
    <3>2. CASE ~(u = t /\ i = k)
      BY <1>6, <2>0, <3>2
    <3> QED BY <3>1, <3>2
  <2> SUFFICES ASSUME NEW u \in Callers, NEW v \in Callers, NEW i \in Nat, NEW j \in Nat,
                      NEW h \in FrameRecord, NEW l \in FrameRecord,
                      Framed(u, i, h)', Framed(v, j, l)', Works(h), Works(l), h.n = l.n
               PROVE  u = v /\ i = j
    BY DEF OneWorker, Works
  <2>1. CASE (u = t /\ i = k + 1) /\ (v = t /\ j = k + 1)
    BY <2>1
  <2>2. CASE (u = t /\ i = k + 1) /\ ~(v = t /\ j = k + 1)
    BY <1>3, <2>0, <2>2 DEF Idle
  <2>3. CASE ~(u = t /\ i = k + 1) /\ (v = t /\ j = k + 1)
    BY <1>3, <2>0, <2>3 DEF Idle
  <2>4. CASE ~(u = t /\ i = k + 1) /\ ~(v = t /\ j = k + 1)
    <3>1. PICK a \in FrameRecord : Framed(u, i, a) /\ Works(a) /\ a.n = h.n
      BY <2>0, <2>4
    <3>2. PICK b \in FrameRecord : Framed(v, j, b) /\ Works(b) /\ b.n = l.n
      BY <2>0, <2>4
    <3> QED BY <3>1, <3>2, TreeInvFacts DEF OneWorker
  <2> QED BY <2>1, <2>2, <2>3, <2>4
<1>14. ASSUME NEW n \in Nodes, Finishing(n) PROVE Finishing(n)'
  <2>1. PICK u \in Callers, i \in Nat, h \in FrameRecord :
           Framed(u, i, h) /\ Ends(h) /\ h.n = n
    BY <1>14 DEF Finishing
  <2>2. ~(u = t /\ i \in {k, k + 1})
    BY <1>7, <2>1 DEF Ends
  <2>3. Framed(u, i, h)'
    BY <1>6, <2>1, <2>2
  <2> QED BY <2>1, <2>3 DEF Finishing
<1>15. ASSUME NEW u \in Callers, NEW m \in Nodes, Deletes(u, m) PROVE Deletes(u, m)'
  <2>1. u # t
    BY <1>1, <1>15 DEF Deletes, None
  <2> QED BY <1>1, <1>6, <1>15, <2>1 DEF Deletes
<1>16. GoneExact'
  BY <1>4, <1>14, GoneStays DEF Untouched
<1>17. Registered' /\ Recorded'
  BY <1>1, <1>4, <1>15, RegisteredStays, RecordingStays DEF Recorded
<1>18. Typed'
  BY <1>1, <1>4, <1>6, TreeInvFacts DEF Typed, NodesGo
<1> QED BY <1>11, <1>12, <1>13, <1>16, <1>17, <1>18 DEF TreeInv, Stacked


\* The parent forgets n, whose native object is gone.
LEMMA Forgotten ==
    ASSUME TreeInv, tree' = tree, NEW n \in Nodes, node[n].gone, node' = Unregistered(n)
    PROVE  /\ NodesGo /\ Registered'
           /\ \A m \in Nodes : /\ OnlyStatusOf(m) /\ Untouched(m)
                               /\ node'[m].status = node[m].status /\ node'[m].gone = node[m].gone
<1>1. node \in [Nodes -> NodeRecord]
  BY TreeInvFacts DEF Typed
<1>2. ASSUME NEW m \in Nodes
      PROVE  /\ node'[m] \in NodeRecord
             /\ node'[m].made = node[m].made /\ node'[m].gone = node[m].gone
             /\ node'[m].kids = IF m = Parent(n) THEN node[m].kids \ {n} ELSE node[m].kids
             /\ node'[m].file = node[m].file /\ node'[m].error = node[m].error
             /\ node'[m].stops = node[m].stops /\ node'[m].stopped = node[m].stopped
             /\ node'[m].status = node[m].status /\ node'[m].given = node[m].given
  <2>1. node[m] \in NodeRecord
    BY <1>1
  <2>2. CASE m = Parent(n)
    <3>1. node'[m] = [node[m] EXCEPT !.kids = @ \ {n}]
      BY <2>2 DEF Unregistered
    <3>2. node[m].kids \ {n} \in SUBSET Nodes
      BY <2>1 DEF NodeRecord
    <3> QED BY <2>1, <2>2, <3>1, <3>2 DEF NodeRecord
  <2>3. CASE m # Parent(n)
    BY <2>1, <2>3 DEF Unregistered
  <2> QED BY <2>2, <2>3
<1>3. node' = [m \in Nodes |-> node'[m]]
  BY DEF Unregistered
<1>4. NodesGo /\ \A m \in Nodes : OnlyStatusOf(m) /\ Untouched(m)
  <2>1. node' \in [Nodes -> NodeRecord]
    BY <1>2, <1>3
  <2>2. \A m \in Nodes : /\ node'[m].made = node[m].made /\ node'[m].gone = node[m].gone
                         /\ node'[m].status = node[m].status
    BY <1>2
  <2>3. NodesGo /\ \A m \in Nodes : OnlyStatusOf(m)
    BY <2>1, <2>2 DEF NodesGo, OnlyStatusOf, Closed
  <2>4. \A m \in Nodes : Untouched(m)
    BY <1>2 DEF Untouched, Closed
  <2> QED BY <2>3, <2>4
<1>5. Registered'
  <2> SUFFICES ASSUME NEW q \in Nodes
               PROVE  /\ Parent(q)' = None => Made(q)'
                      /\ \A m \in node'[q].kids : ChildOf(m, q)'
                      /\ \A m \in Nodes : ChildOf(m, q)' /\ ~node'[m].gone => m \in node'[q].kids
    BY DEF Registered
  <2>1. \A m \in Nodes : ChildOf(m, q)' <=> ChildOf(m, q)
    BY <1>4 DEF NodesGo, ChildOf, Made, Parent
  <2>2. /\ Parent(q) = None => Made(q)
        /\ \A m \in node[q].kids : ChildOf(m, q)
        /\ \A m \in Nodes : ChildOf(m, q) /\ ~node[m].gone => m \in node[q].kids
    BY TreeInvFacts DEF Registered
  <2>3. /\ node[q].kids \subseteq Nodes
        /\ node'[q].kids = IF q = Parent(n) THEN node[q].kids \ {n} ELSE node[q].kids
    BY <1>1, <1>2 DEF NodeRecord
  <2>4. Parent(q)' = None => Made(q)'
    BY <1>4, <2>2 DEF NodesGo, Parent, Made
  <2>5. \A m \in node'[q].kids : ChildOf(m, q)'
    BY <2>1, <2>2, <2>3
  <2>6. ASSUME NEW m \in Nodes, ChildOf(m, q)', ~node'[m].gone PROVE m \in node'[q].kids
    <3>1. ~node[m].gone /\ m # n
      BY <1>2, <2>6
    <3>2. m \in node[q].kids
      BY <2>1, <2>2, <2>6, <3>1
    <3> QED BY <2>3, <3>1, <3>2
  <2> QED BY <2>4, <2>5, <2>6
<1> QED BY <1>2, <1>4, <1>5

LEMMA UnregisterStep ==
    ASSUME TreeInv, NEW t \in Callers, Unregister(t)
    PROVE  TreeInv'
<1> PICK f \in FrameRecord :
       /\ f = Top(t) /\ Framed(t, Len(stack[t]), f) /\ f.pc = "unregister" /\ f.n \in Nodes
       /\ stack[t] # <<>> /\ Len(stack[t]) \in Nat \ {0}
       /\ FrameHolds(f) /\ Covered(t, Len(stack[t]), f)
       /\ node[f.n] \in NodeRecord /\ ret[t] = None
  BY TopFacts DEF Unregister
<1> PICK n \in Nodes : n = f.n
  OBVIOUS
<1>1. /\ Made(n) /\ node[n].gone /\ Works(f) /\ Ends(f)
      /\ node[n].status = IF Kind(n) \notin {"task", "replay"} THEN "closed" ELSE "closing"
  BY DEF FrameHolds, Marked, Works, Closers, Ends
<1>2. node' = Unregistered(n) /\ UNCHANGED <<tree, busy, faults>>
  BY DEF Unregister
<1>3. /\ NodesGo /\ Registered'
      /\ \A m \in Nodes : /\ OnlyStatusOf(m) /\ Untouched(m)
                          /\ node'[m].status = node[m].status /\ node'[m].gone = node[m].gone
  BY <1>1, <1>2, Forgotten
<1>4. /\ (\A u \in Callers : Stacked(u)') /\ OneWorker'
      /\ \A m \in Nodes : Finishing(m) => Finishing(m)' \/ Closed(m)'
      /\ \A u \in Callers, m \in Nodes : Deletes(u, m) => Deletes(u, m)'
      /\ stack' \in [Callers -> Seq(FrameRecord)]
      /\ ret' \in [Callers -> {None, "ok", "error"}]
\* A task or a Replay goes on to succeed().
  <2>1. CASE Kind(n) \in {"task", "replay"}
    <3>1. Goto(t, "succeed") /\ ret' = ret
      BY <2>1 DEF Unregister
    <3>2. "succeed" \in Labels
      BY DEF Labels, Closers
    <3>3. PICK e \in FrameRecord :
             /\ e = [f EXCEPT !.pc = "succeed"] /\ e.pc = "succeed"
             /\ e.n = f.n /\ e.todo = f.todo /\ e.child = f.child /\ e.err = f.err
      BY <3>2, Relabelled
    <3>4. stack' = [stack EXCEPT ![t] = Append(Front(@), e)]
      BY <3>1, <3>3 DEF Goto
    <3>5. FrameHolds(e)'
      <4>1. Made(n)' /\ node'[n].gone /\ node'[n].status = "closing"
        BY <1>1, <1>3, <2>1 DEF NodesGo, Made
      <4>2. Labelled(e)'
        BY <1>2, <3>3 DEF FrameHolds, Labelled, Kind
      <4>3. Marked(e)'
        BY <3>3, <4>1 DEF Marked, Works, Closers, Ends
      <4> QED BY <3>3, <4>1, <4>2, <4>3 DEF FrameHolds
    <3>6. Covered(t, Len(stack[t]), e)'
      <4>1. \A i \in Nat : Covered(t, i, f) => Covered(t, i, e)'
        BY <1>3, <3>3, CoverDone
      <4>2. Len(stack'[t]) = Len(stack[t])
        BY <3>4, MovedFrames, TreeInvFacts
      <4> QED BY <4>1, <4>2
    <3>7. (\A u \in Callers : Stacked(u)') /\ OneWorker'
      BY <1>1, <1>3, <3>1, <3>3, <3>4, <3>5, <3>6, Moves
    <3>8. /\ \A m \in Nodes : Finishing(m) => Finishing(m)'
          /\ \A u \in Callers, m \in Nodes : Deletes(u, m) => Deletes(u, m)'
      BY <3>1, <3>3, <3>4, MovesRest DEF Ends
    <3>9. stack' \in [Callers -> Seq(FrameRecord)]
      BY <3>4, MovedFrames, TreeInvFacts
    <3> QED BY <3>1, <3>7, <3>8, <3>9, TreeInvFacts DEF Typed
\* The others are closed already, and return.
  <2>2. CASE Kind(n) \notin {"task", "replay"}
    <3>1. PICK v \in {"ok", "error"} : PopAll({t}, v)
      BY <2>2 DEF Unregister, Outcome
    <3>2. {t} \in SUBSET Callers /\ \A u \in {t} : stack[u] # <<>> /\ Top(u).n = n
      OBVIOUS
    <3>3. (\A u \in Callers : Stacked(u)') /\ OneWorker'
      BY <1>1, <1>3, <3>1, <3>2, Pops
    <3>4. /\ \A m \in Nodes : Finishing(m) => Finishing(m)' \/ m = n
          /\ \A u \in Callers, m \in Nodes : Deletes(u, m) => Deletes(u, m)'
      <4>1. /\ \A m \in Nodes : Finishing(m) => \/ Finishing(m)'
                                                \/ \E u \in {t} : Ends(Top(u)) /\ Top(u).n = m
            /\ \A u \in Callers \ {t}, m \in Nodes : Deletes(u, m) => Deletes(u, m)'
        BY <3>1, <3>2, PopsRest
      <4>2. \A m \in Nodes : ~Deletes(t, m)
        BY WhoDeletes
      <4> QED BY <4>1, <4>2
    <3>5. Closed(n)'
      BY <1>1, <1>3, <2>2 DEF Closed
    <3>6. stack' \in [Callers -> Seq(FrameRecord)] /\ ret' \in [Callers -> {None, "ok", "error"}]
      <4>1. stack' \in [Callers -> Seq(FrameRecord)]
        BY <3>1, <3>2, PoppedFrames, TreeInvFacts
      <4> QED BY <3>1, <4>1, TreeInvFacts DEF PopAll, Typed
    <3> QED BY <3>3, <3>4, <3>5, <3>6
  <2> QED BY <2>1, <2>2
<1>5. GoneExact'
  BY <1>3, <1>4, GoneStays DEF Closed
<1>6. Recorded'
  BY <1>2, <1>3, <1>4, RecordingStays DEF Recorded
<1> QED BY <1>2, <1>3, <1>4, <1>5, <1>6, TreeInvFacts DEF TreeInv, Typed, NodesGo

\* t goes on as e while the others in S, who wait for it, return.
LEMMA OthersReturn ==
    ASSUME TreeInv, NEW t \in Callers, NEW S \in SUBSET Callers, NEW n \in Nodes,
           NEW v \in {"ok", "error"}, NEW label, NEW f \in FrameRecord, NEW e \in FrameRecord,
           f = Top(t), Framed(t, Len(stack[t]), f), stack[t] # <<>>, ret[t] = None,
           e = [f EXCEPT !.pc = label], f.n = n, e.n = n,
           Works(f), Works(e), Ends(e), PopOthers(t, S, label, v),
           NodesGo, OnlyStatusOf(n), v = "ok" => node'[n].gone,
           \A u \in S \ {t} : stack[u] # <<>> /\ Top(u).n = n /\ Top(u).pc = "join",
           FrameHolds(e)', \A i \in Nat : Covered(t, i, f) => Covered(t, i, e)'
    PROVE  /\ (\A u \in Callers : Stacked(u)') /\ OneWorker'
           /\ \A m \in Nodes : Finishing(m) => Finishing(m)'
           /\ \A u \in Callers, m \in Nodes : Deletes(u, m) => Deletes(u, m)'
           /\ stack' \in [Callers -> Seq(FrameRecord)]
           /\ ret' \in [Callers -> {None, "ok", "error"}]
<1> DEFINE W == S \ {t}
<1>1. /\ stack' = [u \in Callers |-> IF u = t THEN Append(Front(stack[t]), e)
                                     ELSE IF u \in W THEN Front(stack[u]) ELSE stack[u]]
      /\ ret' = [u \in Callers |-> IF u \notin W THEN ret[u]
                                   ELSE IF Len(stack[u]) > 1 THEN v ELSE None]
  BY DEF PopOthers
<1>2. stack \in [Callers -> Seq(FrameRecord)] /\ Len(stack[t]) \in Nat \ {0}
  BY TreeInvFacts, TopFrame DEF Typed
<1> HIDE DEF W
<1>3. /\ stack'[t] \in Seq(FrameRecord) /\ Len(stack'[t]) = Len(stack[t])
      /\ \A i \in 1 .. Len(stack[t]) : stack'[t][i] = IF i = Len(stack[t]) THEN e ELSE stack[t][i]
  BY <1>1, <1>2, TopReplaced
<1>4. ASSUME NEW u \in W
      PROVE  /\ stack'[u] \in Seq(FrameRecord) /\ Len(stack'[u]) = Len(stack[u]) - 1
             /\ \A i \in 1 .. Len(stack[u]) - 1 : stack'[u][i] = stack[u][i]
             /\ Len(stack[u]) \in Nat \ {0}
  BY <1>1, <1>2, TopOf DEF W
<1>5. ASSUME NEW u \in Callers, u # t, u \notin W
      PROVE  stack'[u] = stack[u] /\ ret'[u] = ret[u]
  BY <1>1, <1>5
\* The frames that are left.
<1>6. /\ \A i, g : Framed(t, i, g)' <=> IF i = Len(stack[t]) THEN g = e ELSE Framed(t, i, g)
      /\ \A u \in Callers \ {t} : \A i, g :
            Framed(u, i, g)' <=> Framed(u, i, g) /\ (u \in W => i # Len(stack[u]))
  <2>1. \A i, g : Framed(t, i, g)' <=> IF i = Len(stack[t]) THEN g = e ELSE Framed(t, i, g)
    BY <1>2, <1>3 DEF Framed
  <2>2. ASSUME NEW u \in Callers \ {t}
        PROVE  \A i, g : Framed(u, i, g)' <=> Framed(u, i, g) /\ (u \in W => i # Len(stack[u]))
    <3>1. CASE u \in W
      BY <1>4, <3>1 DEF Framed
    <3>2. CASE u \notin W
      BY <1>5, <3>2 DEF Framed
    <3> QED BY <3>1, <3>2
  <2> QED BY <2>1, <2>2
\* Nobody but t works on n.
<1>7. ASSUME NEW u \in Callers, NEW i \in Nat, NEW g \in FrameRecord, Framed(u, i, g),
             Works(g), g.n = n
      PROVE  u = t /\ i = Len(stack[t])
  BY <1>2, <1>7, TreeInvFacts DEF OneWorker
<1>8. ASSUME NEW u \in Callers \ {t} PROVE Stacked(u)'
  <2>1. W \in SUBSET Callers /\ (u \in W => stack[u] # <<>> /\ Top(u).n = n)
    BY DEF W
  <2>2. /\ u \notin W => stack'[u] = stack[u] /\ ret'[u] = ret[u]
        /\ u \in W => /\ Len(stack'[u]) = Len(stack[u]) - 1
                      /\ ret'[u] = IF Len(stack[u]) > 1 THEN v ELSE None
    BY <1>1, <1>4, <1>5
  <2>3. \A i, g : Framed(u, i, g)' <=> Framed(u, i, g) /\ (u \in W => i # Len(stack[u]))
    BY <1>6
  <2>4. \A i \in Nat : \A g \in FrameRecord :
           Framed(u, i, g) /\ Works(g) /\ g.n = n => u \in W /\ i = Len(stack[u])
    BY <1>7
  <2> QED BY <2>1, <2>2, <2>3, <2>4, PopsIn
<1>9. Stacked(t)'
  <2>1. ASSUME NEW i \in Nat, NEW g \in FrameRecord, Framed(t, i, g)'
        PROVE  FrameHolds(g)' /\ Covered(t, i, g)'
    <3>1. CASE i = Len(stack[t])
      <4>1. g = e /\ Covered(t, i, f)
        BY <1>6, <2>1, <3>1, TreeInvFacts
      <4> QED BY <4>1
    <3>2. CASE i # Len(stack[t])
      <4>1. Framed(t, i, g) /\ FrameHolds(g) /\ Covered(t, i, g) /\ g.n \in Nodes
        BY <1>6, <2>1, <3>2, TreeInvFacts DEF FrameRecord
      <4>2. Works(g) => node'[g.n].status = node[g.n].status
        BY <1>7, <3>2, <4>1 DEF OnlyStatusOf
      <4>3. i < Len(stack'[t])
        BY <1>2, <1>3, <3>2, <4>1 DEF Framed
      <4>4. Waits(t, i)'
        BY <4>3 DEF Waits
      <4> QED BY <4>1, <4>2, <4>4, FrameStays, CoverStays
    <3> QED BY <3>1, <3>2
  <2>2. ASSUME NEW i \in Nat, NEW g \in FrameRecord, NEW h \in FrameRecord,
               Framed(t, i, g)', Framed(t, i + 1, h)'
        PROVE  g.pc = "children" /\ g.child = h.n
    <3>1. i # Len(stack[t])
      BY <1>2, <1>3, <2>2 DEF Framed
    <3>2. Framed(t, i, g)
      BY <1>6, <2>2, <3>1
    <3>3. CASE i + 1 = Len(stack[t])
      <4>1. Framed(t, i + 1, f) /\ h.n = f.n
        BY <1>6, <2>2, <3>3
      <4> QED BY <3>2, <4>1, TreeInvFacts DEF Linked
    <3>4. CASE i + 1 # Len(stack[t])
      BY <1>6, <2>2, <3>2, <3>4, TreeInvFacts DEF Linked
    <3> QED BY <3>3, <3>4
  <2>3. ret'[t] = None
    BY <1>1 DEF W
  <2> QED BY <2>1, <2>2, <2>3 DEF Stacked, Linked
\* Each frame that is left is one of before, but for the label of f.
<1>10. OneWorker'
  <2>1. ASSUME NEW u \in Callers, NEW i \in Nat, NEW g \in FrameRecord, Framed(u, i, g)', Works(g)
        PROVE  \E h \in FrameRecord : Framed(u, i, h) /\ Works(h) /\ h.n = g.n
    <3>1. CASE u = t /\ i = Len(stack[t])
      BY <1>6, <2>1, <3>1
    <3>2. CASE ~(u = t /\ i = Len(stack[t]))
      BY <1>6, <2>1, <3>2
    <3> QED BY <3>1, <3>2
  <2> SUFFICES ASSUME NEW u \in Callers, NEW w \in Callers, NEW i \in Nat, NEW j \in Nat,
                      NEW g \in FrameRecord, NEW h \in FrameRecord,
                      Framed(u, i, g)', Framed(w, j, h)', Works(g), Works(h), g.n = h.n
               PROVE  u = w /\ i = j
    BY DEF OneWorker, Works
  <2> QED BY <2>1, TreeInvFacts DEF OneWorker
<1>11. ASSUME NEW m \in Nodes, Finishing(m) PROVE Finishing(m)'
  <2>1. PICK u \in Callers, i \in Nat, g \in FrameRecord : Framed(u, i, g) /\ Ends(g) /\ g.n = m
    BY <1>11 DEF Finishing
  <2>2. CASE u = t /\ i = Len(stack[t])
    <3>1. e.n = m /\ Framed(u, i, e)'
      BY <1>6, <2>1, <2>2 DEF Framed
    <3> QED BY <3>1 DEF Finishing, Ends
  <2>3. CASE ~(u = t /\ i = Len(stack[t]))
    <3>1. u \in W => i # Len(stack[u])
      <4> SUFFICES ASSUME u \in W, i = Len(stack[u]) PROVE FALSE
        OBVIOUS
      <4>1. g = Top(u) /\ Top(u).pc = "join"
        BY <2>1, TreeInvFacts, TopFrame DEF W, Framed
      <4> QED BY <2>1, <4>1 DEF Ends
    <3>2. Framed(u, i, g)'
      BY <1>6, <2>1, <2>3, <3>1
    <3> QED BY <2>1, <3>2 DEF Finishing, Ends
  <2> QED BY <2>2, <2>3
<1>12. ASSUME NEW u \in Callers, NEW m \in Nodes, Deletes(u, m) PROVE Deletes(u, m)'
  <2>1. stack[u] # <<>> /\ Top(u).pc = "children" /\ ret[u] = "ok"
    BY <1>12, WhoDeletes
  <2>2. u # t /\ u \notin W
    BY <2>1 DEF W, None
  <2>3. stack'[u] = stack[u] /\ ret'[u] = ret[u]
    BY <1>5, <2>2
  <2> QED BY <1>12, <2>3 DEF Deletes, Framed
<1>13. stack' \in [Callers -> Seq(FrameRecord)]
  BY <1>1, <1>2, <1>3, <1>4
<1>14. ret' \in [Callers -> {None, "ok", "error"}]
  BY <1>1, TreeInvFacts DEF Typed
<1> QED BY <1>8, <1>9, <1>10, <1>11, <1>12, <1>13, <1>14

\* The end of a close(): whoever was called by the close() of a container, and
\* not by the application, leaves the file of a recording to that close().
LEMMA SucceedStep ==
    ASSUME TreeInv, NEW t \in Callers, Succeed(t)
    PROVE  TreeInv'
<1> PICK f \in FrameRecord :
       /\ f = Top(t) /\ Framed(t, Len(stack[t]), f) /\ f.pc = "succeed" /\ f.n \in Nodes
       /\ stack[t] # <<>> /\ Len(stack[t]) \in Nat \ {0}
       /\ FrameHolds(f) /\ Covered(t, Len(stack[t]), f)
       /\ node[f.n] \in NodeRecord /\ ret[t] = None
  BY TopFacts DEF Succeed
<1> PICK n \in Nodes : n = f.n
  OBVIOUS
<1>1. Made(n) /\ node[n].gone /\ Works(f) /\ Ends(f) /\ (f.err => Kind(n) # "task")
  BY DEF FrameHolds, Labelled, Marked, Works, Closers, Ends
<1>2. PICK S \in SUBSET Callers :
         /\ S = Served(t, n)
         /\ node' = [node EXCEPT ![n].status = "closed",
                        ![n].given = @ \/ (node[n].file # None /\ Outermost(S))]
         /\ ~LeavesLast(n) => PopAll(S, Outcome(t))
         /\ LeavesLast(n) => PopOthers(t, S, "unregister", Outcome(t))
  <2>1. Served(t, n) \in SUBSET Callers
    BY DEF Served
  <2> WITNESS Served(t, n) \in SUBSET Callers
  <2> QED BY DEF Succeed
<1>3. UNCHANGED <<tree, busy, faults>>
  BY DEF Succeed
<1>4. t \in S /\ \A u \in S : stack[u] # <<>> /\ Top(u).n = n /\ (u = t \/ Top(u).pc = "join")
  BY <1>2 DEF Served, At
<1>5. PICK v \in {"ok", "error"} : v = Outcome(t)
  BY DEF Outcome
\* The outcome is published.
<1>6. PICK r \in NodeRecord :
         /\ node' = [node EXCEPT ![n] = r]
         /\ r.made = node[n].made /\ r.gone = node[n].gone /\ r.kids = node[n].kids
         /\ r.file = node[n].file /\ r.error = node[n].error /\ r.stops = node[n].stops
         /\ r.stopped = node[n].stopped /\ r.status = "closed"
         /\ r.given <=> node[n].given \/ (node[n].file # None /\ Outermost(S))
  <2>1. PICK b \in BOOLEAN : b = (node[n].given \/ (node[n].file # None /\ Outermost(S)))
    OBVIOUS
  <2>2. node' = [node EXCEPT ![n] = [node[n] EXCEPT !.status = "closed", !.given = b]]
    BY <1>2, <2>1, TreeInvFacts DEF Typed
  <2>3. \E r \in NodeRecord :
           /\ r = [node[n] EXCEPT !.status = "closed", !.given = b]
           /\ r.made = node[n].made /\ r.gone = node[n].gone /\ r.kids = node[n].kids
           /\ r.file = node[n].file /\ r.error = node[n].error /\ r.stops = node[n].stops
           /\ r.stopped = node[n].stopped /\ r.status = "closed" /\ r.given = b
    <3>1. [node[n] EXCEPT !.status = "closed", !.given = b] \in NodeRecord
      BY DEF NodeRecord, Statuses
    <3> WITNESS [node[n] EXCEPT !.status = "closed", !.given = b] \in NodeRecord
    <3> QED BY DEF NodeRecord
  <2> QED BY <2>1, <2>2, <2>3
<1>7. /\ NodesGo /\ OnlyStatusOf(n) /\ node'[n] = r
      /\ \A m \in Nodes \ {n} : node'[m] = node[m] /\ Untouched(m)
      /\ \A m \in Nodes : node'[m].kids = node[m].kids
  <2>1. Typed /\ tree' = tree /\ node' = [node EXCEPT ![n] = r]
    BY <1>3, <1>6, TreeInvFacts
  <2>2. /\ r.made = node[n].made /\ r.kids = node[n].kids /\ (node[n].gone => r.gone)
        /\ node[n].status = "closed" => r.status = "closed"
    BY <1>6
  <2> QED BY ONLY <2>1, <2>2, n \in Nodes, r \in NodeRecord, OneChanges
<1>8. Closed(n)' /\ node'[n].gone
  BY <1>1, <1>6, <1>7 DEF Closed
<1>9. /\ (\A u \in Callers : Stacked(u)') /\ OneWorker'
      /\ \A m \in Nodes : Finishing(m) => Finishing(m)' \/ Closed(m)'
      /\ \A u \in Callers, m \in Nodes : Deletes(u, m) => Deletes(u, m)'
      /\ stack' \in [Callers -> Seq(FrameRecord)]
      /\ ret' \in [Callers -> {None, "ok", "error"}]
  <2>1. CASE ~LeavesLast(n)
    <3>1. PopAll(S, v)
      BY <1>2, <1>5, <2>1
    <3>2. \A u \in Callers : \A i \in Nat : \A g \in FrameRecord :
             Framed(u, i, g) /\ Works(g) /\ g.n = n => u \in S /\ i = Len(stack[u])
      BY <1>1, <1>4, TreeInvFacts DEF OneWorker
    <3>3. (\A u \in Callers : Stacked(u)') /\ OneWorker'
      BY <1>4, <1>7, <1>8, <3>1, <3>2, Pops
    <3>4. /\ \A m \in Nodes : Finishing(m) => \/ Finishing(m)'
                                              \/ \E u \in S : Ends(Top(u)) /\ Top(u).n = m
          /\ \A u \in Callers \ S, m \in Nodes : Deletes(u, m) => Deletes(u, m)'
      BY <1>4, <3>1, PopsRest
    <3>5. \A u \in S, m \in Nodes : ~Deletes(u, m)
      BY <1>4, WhoDeletes
    <3>6. stack' \in [Callers -> Seq(FrameRecord)]
      BY <1>4, <3>1, PoppedFrames, TreeInvFacts
    <3>7. ret' \in [Callers -> {None, "ok", "error"}]
      BY <3>1, TreeInvFacts DEF PopAll, Typed
    <3> QED BY <1>4, <1>8, <3>3, <3>4, <3>5, <3>6, <3>7
  <2>2. CASE LeavesLast(n)
    <3>1. PopOthers(t, S, "unregister", v) /\ Kind(n) \notin {"task", "replay"}
      BY <1>2, <1>5, <2>2 DEF LeavesLast
    <3>2. "unregister" \in Labels
      BY DEF Labels, Closers
    <3>3. PICK e \in FrameRecord :
             /\ e = [f EXCEPT !.pc = "unregister"] /\ e.pc = "unregister"
             /\ e.n = f.n /\ e.todo = f.todo /\ e.child = f.child /\ e.err = f.err
      BY <3>2, Relabelled
    <3>4. FrameHolds(e)'
      <4>1. Made(n)' /\ node'[n].status = "closed" /\ Kind(n)' = Kind(n)
        BY <1>1, <1>3, <1>6, <1>7 DEF Made, Kind
      <4>2. Labelled(e)'
        BY <1>3, <3>3 DEF FrameHolds, Labelled, Kind
      <4>3. Marked(e)'
        BY <1>8, <3>1, <3>3, <4>1 DEF Marked, Works, Closers, Ends
      <4> QED BY <3>3, <4>1, <4>2, <4>3 DEF FrameHolds
    <3>5. \A i \in Nat : Covered(t, i, f) => Covered(t, i, e)'
      BY <1>7, <3>3, CoverDone
    <3>6. Works(e) /\ Ends(e)
      BY <3>3 DEF Works, Closers, Ends
    <3>7. \A u \in S \ {t} : stack[u] # <<>> /\ Top(u).n = n /\ Top(u).pc = "join"
      BY <1>4
    <3>8. f.n = n /\ e.n = n /\ Works(f) /\ NodesGo /\ OnlyStatusOf(n) /\ node'[n].gone
      BY <1>1, <1>7, <1>8, <3>3
    <3>9. /\ f = Top(t) /\ Framed(t, Len(stack[t]), f) /\ stack[t] # <<>> /\ ret[t] = None
          /\ e = [f EXCEPT !.pc = "unregister"] /\ PopOthers(t, S, "unregister", v)
      BY <3>1, <3>3
    <3>10. /\ (\A u \in Callers : Stacked(u)') /\ OneWorker'
           /\ \A m \in Nodes : Finishing(m) => Finishing(m)'
           /\ \A u \in Callers, m \in Nodes : Deletes(u, m) => Deletes(u, m)'
           /\ stack' \in [Callers -> Seq(FrameRecord)]
           /\ ret' \in [Callers -> {None, "ok", "error"}]
      BY ONLY TreeInv, t \in Callers, S \in SUBSET Callers, n \in Nodes, v \in {"ok", "error"},
              f \in FrameRecord, e \in FrameRecord, <3>4, <3>5, <3>6, <3>7, <3>8, <3>9, OthersReturn
    <3> QED BY <3>10
  <2> QED BY <2>1, <2>2
<1>10. GoneExact'
  BY <1>1, <1>3, <1>6, <1>9, GoneOne
<1>11. Registered'
  BY <1>7, RegisteredStays
\* A task that was closed by its parent is about to lose its file.
<1>12. ASSUME node[n].file = "kept", ~node'[n].given, Parent(n) # None
       PROVE  Deletes(t, n)'
  <2>1. Recording(n)
    BY TreeInvFacts DEF Recorded
  <2>2. Kind(n) = "task" /\ ~node[n].error /\ ~f.err
    BY <1>1, <1>12, <2>1 DEF Recording, None
  <2>3. v = "ok" /\ Len(stack[t]) # 1 /\ PopAll(S, v)
    BY <1>2, <1>4, <1>5, <1>6, <1>7, <1>12, <2>2 DEF Outermost, None, Outcome, LeavesLast
  <2>4. PICK k \in Nat \ {0} : k + 1 = Len(stack[t]) /\ k \in 1 .. Len(stack[t]) /\ Len(stack[t]) > 1
    <3>1. \A l \in Nat \ {0} : l # 1 => \E k \in Nat \ {0} : k + 1 = l /\ k \in 1 .. l /\ l > 1
      <4> TAKE l \in Nat \ {0}
      <4> HAVE l # 1
      <4> WITNESS l - 1 \in Nat \ {0}
      <4> QED OBVIOUS
    <3> QED BY <2>3, <3>1
  <2>5. PICK g \in FrameRecord : Framed(t, k, g)
    BY <2>4, TreeInvFacts, ElementOfSeq DEF Typed, Framed
  <2>6. g.pc = "children" /\ g.child = n
    <3>1. Framed(t, k + 1, f)
      BY <2>4
    <3> QED BY <2>5, <3>1, TreeInvFacts DEF Linked
  <2>7. /\ Len(stack'[t]) = Len(stack[t]) - 1
        /\ ret'[t] = IF Len(stack[t]) > 1 THEN v ELSE None
        /\ \A i, h : Framed(t, i, h)' <=> Framed(t, i, h) /\ i # Len(stack[t])
    <3>1. Typed /\ (\A u \in S : stack[u] # <<>>) /\ PopAll(S, v)
      BY <1>4, <2>3, TreeInvFacts
    <3>2. \A u \in S : /\ Len(stack'[u]) = Len(stack[u]) - 1
                        /\ ret'[u] = IF Len(stack[u]) > 1 THEN v ELSE None
      BY ONLY <3>1, PoppedFrames
    <3>3. \A u \in Callers : \A i, h :
             Framed(u, i, h)' <=> Framed(u, i, h) /\ (u \in S => i # Len(stack[u]))
      BY ONLY <3>1, PoppedFrames
    <3> QED BY <1>4, <3>2, <3>3
  <2>8. Len(stack'[t]) = k /\ k # Len(stack[t])
    BY <2>4, <2>7
  <2>9. Framed(t, Len(stack[t]), g)'
    <3>1. Framed(t, k, g)'
      BY <2>5, <2>7, <2>8
    <3> QED BY <2>8, <3>1
  <2> QED BY <2>3, <2>4, <2>6, <2>7, <2>9 DEF Deletes
<1>13. ASSUME NEW m \in Nodes PROVE Recording(m)'
  <2>1. CASE m # n
    BY <1>3, <1>7, <1>9, <2>1, RecordingStays
  <2>2. CASE m = n
    <3>1. Recording(n)
      BY TreeInvFacts DEF Recorded
    <3>2. /\ node'[n].file # None => Made(n)' /\ Kind(n)' = "task" /\ ~node'[n].error
          /\ node'[n].stops <= IF Kind(n)' = "task" /\ node'[n].stopped THEN 1 ELSE 0
      BY <1>3, <1>6, <1>7, <3>1 DEF Recording, Kind, Made
    <3>3. node'[n].file = "kept" /\ ~node'[n].given /\ Parent(n)' # None => Deletes(t, n)'
      BY <1>3, <1>6, <1>7, <1>12 DEF Parent
    <3> QED BY <2>2, <3>2, <3>3 DEF Recording
  <2> QED BY <2>1, <2>2
<1> QED BY <1>3, <1>7, <1>9, <1>10, <1>11, <1>13, TreeInvFacts
        DEF TreeInv, Typed, NodesGo, Recorded

-----------------------------------------------------------------------------
(* The invariant.                                                           *)

LEMMA TreeInit == Init => TreeInv
<1> SUFFICES ASSUME Init PROVE TreeInv
  OBVIOUS
<1>1. tree \in Shapes /\ \A n \in Nodes : tree[n].made \in BOOLEAN /\ tree[n].parent \in Nodes \cup {None}
  BY TreeAssumption DEF Init
<1>2. /\ node \in [Nodes -> NodeRecord]
      /\ \A n \in Nodes : /\ node[n].made = tree[n].made /\ node[n].status = "open"
                          /\ ~node[n].gone /\ node[n].file = None /\ node[n].stops = 0
                          /\ node[n].kids = {m \in Nodes : tree[m].made /\ tree[m].parent = n}
  <2> DEFINE k(n) == {m \in Nodes : tree[m].made /\ tree[m].parent = n}
             r(n) == [NewNode EXCEPT !.made = tree[n].made, !.kids = k(n)]
  <2>1. node = [n \in Nodes |-> r(n)]
    BY DEF Init
  <2>2. ASSUME NEW n \in Nodes
        PROVE  /\ r(n) \in NodeRecord
               /\ r(n).made = tree[n].made /\ r(n).status = "open"
               /\ ~r(n).gone /\ r(n).file = None /\ r(n).stops = 0 /\ r(n).kids = k(n)
    <3>1. k(n) \in SUBSET Nodes
      OBVIOUS
    <3> HIDE DEF k
    <3> QED BY <1>1, <3>1 DEF NewNode, NodeRecord, Statuses, Files
  <2> HIDE DEF r
  <2> QED BY <2>1, <2>2
<1>3. /\ busy = {} /\ faults = 0 /\ ret = [t \in Callers |-> None]
      /\ stack \in [Callers -> Seq(FrameRecord)] /\ \A t \in Callers : stack[t] = <<>>
  <2>1. <<>> \in Seq(FrameRecord)
    OBVIOUS
  <2> QED BY <2>1 DEF Init
<1>4. \A t \in Callers : \A i, f : ~Framed(t, i, f)
  BY <1>3 DEF Framed
<1>5. Typed
  BY <1>1, <1>2, <1>3, TreeAssumption DEF Typed
<1>6. (\A t \in Callers : Stacked(t)) /\ OneWorker
  BY <1>3, <1>4 DEF Stacked, Linked, OneWorker
<1>7. GoneExact
  BY <1>2 DEF GoneExact, Closed
<1>8. Registered
  BY <1>2, <1>5, Shape DEF Registered, ChildOf, Made, Parent
<1>9. Recorded
  BY <1>2 DEF Recorded, Recording, Closed
<1> QED BY <1>5, <1>6, <1>7, <1>8, <1>9 DEF TreeInv

LEMMA TreeStutters == TreeInv /\ UNCHANGED vars => TreeInv'
<1> SUFFICES ASSUME TreeInv, UNCHANGED vars PROVE TreeInv'
  OBVIOUS
<1>1. UNCHANGED <<tree, node, busy, stack, ret, faults>>
  BY DEF vars
<1>2. NodesGo /\ Registered' /\ \A m \in Nodes : Untouched(m)
  BY <1>1, SameNodes
<1>3. /\ \A u \in Callers : Stacked(u)'
      /\ OneWorker' /\ \A m \in Nodes : Finishing(m) => Finishing(m)'
  BY <1>1, <1>2, SameStacks
<1>4. GoneExact'
  BY <1>1, <1>2, <1>3, GoneStays DEF Closed
<1>5. Recorded'
  BY <1>1, <1>2, RecordingStays DEF Recorded, Deletes, Framed
<1> QED BY <1>1, <1>2, <1>3, <1>4, <1>5, TreeInvFacts DEF TreeInv, Typed

LEMMA TreeSteps ==
    ASSUME TreeInv, NEW t \in Callers, Step(t)
    PROVE  TreeInv'
BY CloseAgainStep, UnregisterStep, SucceedStep, StopTaskStep, TimesOutStep, DestroyStep, LockDumpStep,
   StopFirstStep, CloseDumpStep, CloseChildStep, ChildClosedStep, DeleteRaisesStep,
   ChildRaisedStep, ShutStep, ReleaseStep DEF Step

LEMMA TreeNext == TreeInv /\ [Next]_vars => TreeInv'
<1> SUFFICES ASSUME TreeInv, [Next]_vars PROVE TreeInv'
  OBVIOUS
<1>1. ASSUME NEW u \in Users,
             \/ CreateConnection(u[1], u[2]) \/ OpenCloud(u[1], u[2]) \/ CreateReplay(u[1], u[2])
             \/ StartRecording(u[1], u[2]) \/ StartRawDump(u[1], u[2])
             \/ StopDump(u[1], u[2]) \/ Close(u[1], u[2])
      PROVE  TreeInv'
  <2>1. u[1] \in Callers /\ u[2] \in Nodes
    BY TreeAssumption DEF Callers
  <2>2. CASE StopDump(u[1], u[2])
    BY <2>1, <2>2, StopDumpStep
  <2>3. CASE Close(u[1], u[2])
    BY <2>1, <2>3, CloseStep
  <2>4. CASE \E kind : Creates(u[1], u[2], kind)
    BY <2>1, <2>4, CreatesStep
  <2> QED BY <1>1, <2>2, <2>3, <2>4
          DEF CreateConnection, OpenCloud, CreateReplay, StartRecording, StartRawDump
<1>2. ASSUME NEW n \in Callbackers, CallbackBegins(n) \/ CallbackReturns(n)
      PROVE  TreeInv'
  BY <1>2, CallbackSteps, TreeAssumption
<1>3. CASE UNCHANGED vars
  BY <1>3, TreeStutters
<1> QED BY <1>1, <1>2, <1>3, TreeSteps DEF Next

\* The invariant of the tree: whatever threads and callbacks create, stop and
\* close, and whatever fails, each close() that is under way still has before it
\* every child whose native object is not gone, one of them works on an object,
\* the native object goes before the status says closed and after those of the
\* children, and the file of a closed recording that nobody was given has a
\* close() about to delete it.
THEOREM TreeInvariant == Spec => []TreeInv
<1>1. Init => TreeInv
  BY TreeInit
<1>2. TreeInv /\ [Next]_vars => TreeInv'
  BY TreeNext
<1> QED BY <1>1, <1>2, PTL DEF Spec

LEMMA NoParentBefore == TreeInv => ParentOutlivesChildren
<1> SUFFICES ASSUME TreeInv, NEW n \in Nodes, Made(n), Parent(n) # None, node[Parent(n)].gone
             PROVE  node[n].gone
  BY DEF ParentOutlivesChildren, Made
<1>1. Parent(n) \in Nodes /\ ChildOf(n, Parent(n))
  BY TreeInvFacts, Shape DEF ChildOf
<1> QED BY <1>1, TreeInvFacts DEF GoneExact

\* No native object is destroyed, and no lease given back, while an object made
\* from it lives: Client, Connection, CloudStorage and Replay close what they
\* created first, for any tree, any callers and any failures.
THEOREM ParentsOutlive == Spec => []ParentOutlivesChildren
BY TreeInvariant, NoParentBefore, PTL

LEMMA NoFileLost == TreeInv => NoOrphanFile
<1> SUFFICES ASSUME TreeInv, NEW n \in Nodes \ Roots, node[n].file = "kept",
                    Closed(Parent(n)), ~node[n].given
             PROVE  HandingOut(n)
  BY DEF NoOrphanFile, Closed
<1>1. Parent(n) # None /\ Parent(n) \in Nodes
  BY TreeInvFacts, Shape DEF Roots
<1>2. Recording(n) /\ Made(n) /\ ChildOf(n, Parent(n))
  BY TreeInvFacts DEF Recorded, Recording, None, ChildOf
\* No close() of the parent is among its children any more.
<1>3. ASSUME NEW t \in Callers, NEW i \in Nat, NEW f \in FrameRecord, Framed(t, i, f),
             f.pc = "children", f.child = n
      PROVE  FALSE
  <2>1. FrameHolds(f) /\ Covered(t, i, f)
    BY <1>3, TreeInvFacts
  <2>2. f.n = Parent(n)
    BY <1>3, <2>1, TreeInvFacts, Shape DEF Covered, ChildOf
  <2> QED BY <1>3, <2>1, <2>2 DEF FrameHolds, Marked, Works, Closers, Closed
<1>4. ~Closed(n)
  <2> SUFFICES ASSUME Closed(n) PROVE FALSE
    OBVIOUS
  <2>1. PICK t \in Callers : Deletes(t, n)
    BY <1>1, <1>2 DEF Recording
  <2>2. PICK f \in FrameRecord : Framed(t, Len(stack[t]), f) /\ f.pc = "children" /\ f.child = n
    BY <2>1 DEF Deletes
  <2>3. Len(stack[t]) \in Nat
    BY <2>2, TreeInvFacts, Framings
  <2> QED BY <1>3, <2>2, <2>3
\* Its native object is gone, and a stop() past its native calls has the file.
<1>5. node[n].gone
  BY <1>1, <1>2, TreeInvFacts DEF GoneExact
<1>6. PICK t \in Callers, i \in Nat, f \in FrameRecord : Framed(t, i, f) /\ Ends(f) /\ f.n = n
  BY <1>4, <1>5, TreeInvFacts DEF GoneExact, Finishing
<1>7. i \in Nat \ {0} /\ i <= Len(stack[t]) /\ Len(stack[t]) \in Nat /\ stack[t] # <<>>
  BY <1>6, TreeInvFacts, Framings
<1>8. i = Len(stack[t])
  <2> SUFFICES ASSUME i # Len(stack[t]) PROVE FALSE
    OBVIOUS
  <2>1. i + 1 \in 1 .. Len(stack[t])
    BY <1>7
  <2>2. PICK g \in FrameRecord : Framed(t, i + 1, g)
    BY <2>1, TreeInvFacts, ElementOfSeq DEF Typed, Framed
  <2>3. f.pc = "children"
    BY <1>6, <2>2, TreeInvFacts DEF Linked
  <2> QED BY <1>6, <2>3 DEF Ends
<1>9. Len(stack[t]) = 1
  <2> SUFFICES ASSUME Len(stack[t]) # 1 PROVE FALSE
    OBVIOUS
  <2>1. PICK j \in Nat : j + 1 = Len(stack[t]) /\ j \in 1 .. Len(stack[t])
    <3>1. \A l \in Nat \ {0} : l # 1 => \E j \in Nat : j + 1 = l /\ j \in 1 .. l
      <4> TAKE l \in Nat \ {0}
      <4> HAVE l # 1
      <4> WITNESS l - 1 \in Nat
      <4> QED OBVIOUS
    <3> QED BY <1>7, <1>8, <3>1
  <2>2. PICK g \in FrameRecord : Framed(t, j, g)
    BY <2>1, TreeInvFacts, ElementOfSeq DEF Typed, Framed
  <2>3. g.pc = "children" /\ g.child = n
    BY <1>6, <1>8, <2>1, <2>2, TreeInvFacts DEF Linked
  <2> QED BY <1>3, <2>2, <2>3
<1>10. Top(t) = f
  BY <1>6, <1>7, <1>8, TreeInvFacts, TopFrame DEF Framed
<1> QED BY <1>6, <1>9, <1>10 DEF HandingOut, Ends

LEMMA RecordingsFollow == TreeInv => RecordingsAccountedFor
<1> SUFFICES ASSUME TreeInv PROVE RecordingsAccountedFor
  OBVIOUS
<1>1. TypeOK
  BY TreeInvFacts DEF Typed, TypeOK, NodeRecord, Statuses, Files
<1>2. StoppedOnce
  <2> SUFFICES ASSUME NEW n \in Nodes PROVE node[n].stops <= 1
    BY DEF StoppedOnce
  <2>1. node[n].stops \in Nat
    BY TreeInvFacts DEF Typed, NodeRecord
  <2>2. node[n].stops <= 0 \/ node[n].stops <= 1
    BY TreeInvFacts DEF Recorded, Recording
  <2> QED BY <2>1, <2>2
<1> QED BY <1>1, <1>2, NoFileLost DEF RecordingsAccountedFor

\* What was recorded is accounted for: RecordingTask.stop() takes effect once, and
\* when a Connection or Replay is closed the file of each recording was returned
\* by stop(), is about to be by one that is past its native calls, was deleted by
\* the close(), or refused by the SDK, however a stop() of a thread and the close()
\* of a parent meet, fail and are repeated.
THEOREM RecordingsAccounted == Spec => []RecordingsAccountedFor
BY TreeInvariant, RecordingsFollow, PTL

-----------------------------------------------------------------------------
(* The trees implement Lifetimes.                                           *)

\* What is not created yet has no history.
Fresh == \A n \in Nodes : ~Made(n) => node[n].status = "open" /\ ~node[n].gone

Unaltered(m) ==
    /\ node'[m].made = node[m].made /\ node'[m].gone = node[m].gone
    /\ node'[m].status = node[m].status

\* A step of Lifetimes, or none.
LivesOn == Fresh' /\ [Lives!Next]_Lives!vars

LEMMA LifeStays ==
    ASSUME tree' = tree, NEW m \in Nodes, Unaltered(m)
    PROVE  Life(m)' = Life(m)
BY DEF Life, Unaltered, Kind

LEMMA LivesStutter ==
    ASSUME Fresh, tree' = tree, \A m \in Nodes : Unaltered(m)
    PROVE  LivesOn
<1>1. [n \in Nodes |-> Parent(n)]' = [n \in Nodes |-> Parent(n)]
  BY DEF Parent
<1>2. [n \in Nodes |-> Life(n)]' = [n \in Nodes |-> Life(n)]
  BY LifeStays
<1>3. Fresh'
  BY DEF Fresh, Made, Unaltered
<1> QED BY <1>1, <1>2, <1>3 DEF LivesOn, Lives!vars

LEMMA LifeBecomes ==
    ASSUME tree' = tree, NEW n \in Nodes, NEW next, Life(n)' = next,
           \A m \in Nodes \ {n} : Life(m)' = Life(m)
    PROVE  Lives!Becomes(n, next)
<1>1. [m \in Nodes |-> Parent(m)]' = [m \in Nodes |-> Parent(m)]
  BY DEF Parent
<1>2. [m \in Nodes |-> Life(m)]' = [[m \in Nodes |-> Life(m)] EXCEPT ![n] = next]
  OBVIOUS
<1> QED BY <1>1, <1>2 DEF Lives!Becomes

\* One object that is created goes on with its life.
LEMMA OneLife ==
    ASSUME TreeInv, Fresh, tree' = tree, NEW n \in Nodes, Made(n), node'[n].made,
           \A m \in Nodes \ {n} : Unaltered(m),
           \/ Life(n)' = Life(n)
           \/ Life(n) = "open" /\ Life(n)' = "ending"
           \/ /\ Life(n) = "ending" /\ Life(n)' = "destroyed"
              /\ \A m \in Nodes : ChildOf(m, n) => node[m].gone
           \/ Life(n) = "destroyed" /\ Life(n)' = "closed"
           \/ /\ Life(n) = "open" /\ Life(n)' = "closed"
              /\ \A m \in Nodes : Parent(m) # n
    PROVE  LivesOn
<1>1. Fresh'
  BY DEF Fresh, Made, Unaltered
<1>2. \A m \in Nodes \ {n} : Life(m)' = Life(m)
  BY LifeStays
<1>3. CASE Life(n)' = Life(n)
  <2>1. [m \in Nodes |-> Parent(m)]' = [m \in Nodes |-> Parent(m)]
    BY DEF Parent
  <2>2. [m \in Nodes |-> Life(m)]' = [m \in Nodes |-> Life(m)]
    BY <1>2, <1>3
  <2> QED BY <1>1, <2>1, <2>2 DEF LivesOn, Lives!vars
<1>4. CASE Life(n) = "open" /\ Life(n)' = "ending"
  <2>1. Lives!BeginEnd(n)
    BY <1>2, <1>4, LifeBecomes DEF Lives!BeginEnd
  <2> QED BY <1>1, <2>1 DEF LivesOn, Lives!Next
<1>5. CASE /\ Life(n) = "ending" /\ Life(n)' = "destroyed"
           /\ \A m \in Nodes : ChildOf(m, n) => node[m].gone
  <2>1. Lives!Becomes(n, "destroyed")
    BY <1>2, <1>5, LifeBecomes
  <2>2. \A m \in Nodes : Parent(m) = n => Life(m) \in {"absent", "destroyed", "closed"}
    BY <1>5 DEF Life, ChildOf, Made
  <2>3. Lives!Destroy(n)
    BY <1>5, <2>1, <2>2 DEF Lives!Destroy
  <2> QED BY <1>1, <2>3 DEF LivesOn, Lives!Next
<1>6. CASE Life(n) = "destroyed" /\ Life(n)' = "closed"
  <2>1. Lives!Close(n)
    BY <1>2, <1>6, LifeBecomes DEF Lives!Close
  <2> QED BY <1>1, <2>1 DEF LivesOn, Lives!Next
<1>7. CASE /\ Life(n) = "open" /\ Life(n)' = "closed"
           /\ \A m \in Nodes : Parent(m) # n
  <2>1. Lives!Becomes(n, "closed")
    BY <1>2, <1>7, LifeBecomes
  <2>2. Lives!CloseAtOnce(n)
    BY <1>7, <2>1 DEF Lives!CloseAtOnce
  <2> QED BY <1>1, <2>2 DEF LivesOn, Lives!Next
<1> QED BY <1>3, <1>4, <1>5, <1>6, <1>7

\* begin() of the coordinator.
LEMMA LifeEnters ==
    ASSUME TreeInv, Fresh, NEW n \in Nodes, Made(n), tree' = tree, node' = Entered(n)
    PROVE  LivesOn
<1>1. node \in [Nodes -> NodeRecord] /\ node[n] \in NodeRecord
  BY TreeInvFacts DEF Typed
<1>2. CASE Kind(n) # "dump" /\ node[n].status # "closed"
  <2>1. node' = [node EXCEPT ![n].status = "closing"]
    BY <1>2 DEF Entered
  <2>2. /\ \A m \in Nodes \ {n} : node'[m] = node[m]
        /\ node'[n].made = node[n].made /\ node'[n].gone = node[n].gone
        /\ node'[n].status = "closing"
    BY <1>1, <2>1 DEF NodeRecord
  <2>3. \/ Life(n)' = Life(n)
        \/ Life(n) = "open" /\ Life(n)' = "ending"
    BY <1>2, <2>2 DEF Life, Made, Kind
  <2>4. \A m \in Nodes \ {n} : Unaltered(m)
    BY <2>2 DEF Unaltered
  <2> QED BY <2>2, <2>3, <2>4, OneLife DEF Made
<1>3. CASE ~(Kind(n) # "dump" /\ node[n].status # "closed")
  BY <1>3, LivesStutter DEF Entered, Unaltered
<1> QED BY <1>2, <1>3

\* The status of the object of a frame that works becomes s, and it may be gone.
LEMMA LifeWorks ==
    ASSUME TreeInv, Fresh, tree' = tree, NEW n \in Nodes, Made(n), NEW r \in NodeRecord,
           node' = [node EXCEPT ![n] = r], r.made = node[n].made,
           node[n].status = "closing", node[n].gone => r.gone,
           \/ /\ r.status \in {"closing", "close_failed"} /\ Kind(n) # "dump"
              /\ r.gone => node[n].gone \/ \A m \in Nodes : ChildOf(m, n) => node[m].gone
           \/ r.status = "closed" /\ node[n].gone
           \/ Kind(n) = "dump" /\ r.gone = node[n].gone /\ r.status # "closed"
           \/ Kind(n) = "dump" /\ r.status = "closed"
    PROVE  LivesOn
<1>1. /\ node[n] \in NodeRecord /\ node'[n] = r
      /\ \A m \in Nodes \ {n} : node'[m] = node[m]
  BY TreeInvFacts DEF Typed
<1>2. \A m \in Nodes \ {n} : Unaltered(m)
  BY <1>1 DEF Unaltered
<1>3. /\ Life(n) = IF node[n].gone THEN "destroyed" ELSE IF Kind(n) = "dump" THEN "open" ELSE "ending"
      /\ Life(n)' = IF r.status = "closed" THEN "closed" ELSE IF r.gone THEN "destroyed"
                    ELSE IF r.status = "open" \/ Kind(n) = "dump" THEN "open" ELSE "ending"
  BY <1>1 DEF Life, Made, Kind
<1>4. Kind(n) = "dump" => \A m \in Nodes : Parent(m) # n
  BY TreeInvFacts, Shape DEF Containers
<1>5. node[n].gone \in BOOLEAN /\ r.gone \in BOOLEAN
  BY <1>1 DEF NodeRecord
<1>6. \/ Life(n)' = Life(n)
      \/ /\ Life(n) = "ending" /\ Life(n)' = "destroyed"
         /\ \A m \in Nodes : ChildOf(m, n) => node[m].gone
      \/ Life(n) = "destroyed" /\ Life(n)' = "closed"
      \/ /\ Life(n) = "open" /\ Life(n)' = "closed"
         /\ \A m \in Nodes : Parent(m) # n
  BY <1>3, <1>4, <1>5
<1> QED BY <1>1, <1>2, <1>6, OneLife DEF Made

\* The work of the top frame f of t on its object, which becomes r.
LEMMA LifeTop ==
    ASSUME TreeInv, Fresh, NEW t \in Callers, NEW f \in FrameRecord, FrameHolds(f), f.n \in Nodes,
           Works(f), ~Ends(f), tree' = tree, NEW r \in NodeRecord,
           node' = [node EXCEPT ![f.n] = r], r.made = node[f.n].made,
           node[f.n].gone => r.gone,
           \/ /\ r.status \in {"closing", "close_failed"} /\ Kind(f.n) # "dump"
              /\ r.gone => node[f.n].gone \/ \A m \in Nodes : ChildOf(m, f.n) => node[m].gone
           \/ Kind(f.n) = "dump" /\ r.gone = node[f.n].gone /\ r.status # "closed"
           \/ Kind(f.n) = "dump" /\ r.status = "closed"
    PROVE  LivesOn
<1>1. Made(f.n) /\ node[f.n].status = "closing"
  BY DEF FrameHolds, Marked, Ends
<1> QED BY <1>1, LifeWorks

\* fail() of the coordinator, and a native call that destroys.
LEMMA LifeFails ==
    ASSUME TreeInv, Fresh, NEW t \in Callers, tree' = tree, Fail(t),
           \E label \in {"stop", "destroy", "release", "children"} : At(t, label)
    PROVE  LivesOn
<1>1. PICK label \in {"stop", "destroy", "release", "children"} : At(t, label)
  OBVIOUS
<1> PICK f \in FrameRecord :
       /\ f = Top(t) /\ f.pc = label /\ f.n \in Nodes
       /\ FrameHolds(f) /\ node[f.n] \in NodeRecord
  BY <1>1, TopFacts
<1>2. Works(f) /\ ~Ends(f) /\ Kind(f.n) # "dump"
  BY DEF Works, Closers, Ends, FrameHolds, Labelled, Containers
<1>3. PICK r : r = [node[f.n] EXCEPT !.status = "close_failed"]
  OBVIOUS
<1>5. /\ r \in NodeRecord /\ r.made = node[f.n].made /\ r.gone = node[f.n].gone
      /\ r.status = "close_failed"
  BY <1>3 DEF NodeRecord, Statuses
<1>4. node' = [node EXCEPT ![f.n] = r]
  BY <1>3 DEF Fail
<1> QED BY <1>2, <1>4, <1>5, LifeTop

LEMMA LifeDestroys ==
    ASSUME TreeInv, Fresh, NEW t \in Callers, Destroy(t) \/ Release(t)
    PROVE  LivesOn
<1>1. PICK label \in {"destroy", "release"} :
         /\ At(t, label) /\ tree' = tree
         /\ node' = [node EXCEPT ![Top(t).n].gone = TRUE]
  BY DEF Destroy, Release
<1> PICK f \in FrameRecord :
       /\ f = Top(t) /\ f.pc = label /\ f.n \in Nodes
       /\ FrameHolds(f) /\ node[f.n] \in NodeRecord
  BY <1>1, TopFacts
<1>2. /\ Works(f) /\ ~Ends(f) /\ Kind(f.n) # "dump" /\ node[f.n].status = "closing"
      /\ \A m \in Nodes : ChildOf(m, f.n) => node[m].gone
  <2>1. /\ Works(f) /\ ~Ends(f) /\ Kind(f.n) # "dump"
        /\ f.pc = "destroy" => Kind(f.n) = "task"
    BY DEF Works, Closers, Ends, FrameHolds, Labelled, Containers
  <2>2. node[f.n].status = "closing"
    BY <2>1 DEF FrameHolds, Marked, Ends
  <2>3. CASE f.pc = "destroy"
    BY <2>1, <2>2, <2>3, TreeInvFacts, Childless
  <2>4. CASE f.pc = "release"
    BY <2>1, <2>2, <2>4 DEF FrameHolds, Marked
  <2> QED BY <2>3, <2>4
<1>3. PICK r : r = [node[f.n] EXCEPT !.gone = TRUE]
  OBVIOUS
<1>5. r \in NodeRecord /\ r.made = node[f.n].made /\ r.gone /\ r.status = "closing"
  BY <1>2, <1>3 DEF NodeRecord
<1>4. node' = [node EXCEPT ![f.n] = r]
  BY <1>1, <1>3
<1> QED BY <1>1, <1>2, <1>4, <1>5, LifeTop

LEMMA LifeDump ==
    ASSUME TreeInv, Fresh, NEW t \in Callers, CloseDump(t)
    PROVE  LivesOn
<1> PICK f \in FrameRecord :
       /\ f = Top(t) /\ f.pc = "dump_close" /\ f.n \in Nodes
       /\ FrameHolds(f) /\ node[f.n] \in NodeRecord
  BY TopFacts DEF CloseDump
<1>1. Works(f) /\ ~Ends(f) /\ Kind(f.n) = "dump" /\ tree' = tree
  BY DEF Works, Closers, Ends, FrameHolds, Labelled, CloseDump
<1>2. CASE node' = [node EXCEPT ![f.n].gone = TRUE, ![f.n].status = "closed"]
  <2>1. PICK r : r = [node[f.n] EXCEPT !.gone = TRUE, !.status = "closed"]
    OBVIOUS
  <2>2. r \in NodeRecord /\ r.made = node[f.n].made /\ r.gone /\ r.status = "closed"
    BY <2>1 DEF NodeRecord, Statuses
  <2>3. node' = [node EXCEPT ![f.n] = r]
    BY <1>2, <2>1, TreeInvFacts DEF Typed
  <2> QED BY <1>1, <2>2, <2>3, LifeTop
<1>3. CASE node' = [node EXCEPT ![f.n].status = "open"]
  <2>1. PICK r : r = [node[f.n] EXCEPT !.status = "open"]
    OBVIOUS
  <2>2. /\ r \in NodeRecord /\ r.made = node[f.n].made /\ r.gone = node[f.n].gone
        /\ r.status = "open"
    BY <2>1 DEF NodeRecord, Statuses
  <2>3. node' = [node EXCEPT ![f.n] = r]
    BY <1>3, <2>1
  <2> QED BY <1>1, <2>2, <2>3, LifeTop
<1> QED BY <1>2, <1>3 DEF CloseDump

LEMMA LifeLocks ==
    ASSUME TreeInv, Fresh, NEW t \in Callers, LockDump(t)
    PROVE  LivesOn
<1> PICK f \in FrameRecord :
       /\ f = Top(t) /\ f.pc = "lock" /\ f.n \in Nodes
       /\ FrameHolds(f) /\ node[f.n] \in NodeRecord
  BY TopFacts DEF LockDump
<1>1. Kind(f.n) = "dump" /\ Made(f.n) /\ tree' = tree
  BY DEF FrameHolds, Labelled, LockDump
<1>2. CASE node[f.n].status = "open" /\ node' = [node EXCEPT ![f.n].status = "closing"]
  <2>1. /\ \A m \in Nodes \ {f.n} : node'[m] = node[m]
        /\ node'[f.n].made = node[f.n].made /\ node'[f.n].gone = node[f.n].gone
        /\ node'[f.n].status = "closing"
    BY <1>2, TreeInvFacts DEF Typed, NodeRecord
  <2>2. Life(f.n)' = Life(f.n)
    BY <1>1, <1>2, <2>1 DEF Life, Kind
  <2> QED BY <1>1, <2>1, <2>2, OneLife DEF Made, Unaltered
<1>3. CASE node' = node
  BY <1>1, <1>3, LivesStutter DEF Unaltered
<1> QED BY <1>2, <1>3 DEF LockDump

\* What happens to the files, the dispatchers and the recordings ends no life.
LEMMA LifeGoesOn ==
    ASSUME TreeInv, Fresh, NEW t \in Callers,
           \/ CloseAgain(t) \/ StopTask(t) \/ StopFirst(t) \/ ChildClosed(t) \/ Shut(t)
           \/ \E n \in Nodes : StopDump(t, n)
    PROVE  LivesOn
<1>1. node \in [Nodes -> NodeRecord] /\ tree' = tree
  BY TreeInvFacts DEF Typed, CloseAgain, StopTask, StopFirst, ChildClosed, Shut, StopDump
<1>2. CASE CloseAgain(t)
  BY <1>1, <1>2, LivesStutter DEF CloseAgain, Unaltered
<1>3. CASE StopTask(t)
  <2> DEFINE Stops(error) ==
               node' = [node EXCEPT ![Top(t).n].stopped = TRUE, ![Top(t).n].stops = @ + 1,
                                    ![Top(t).n].error = error,
                                    ![Top(t).n].file = IF error THEN None ELSE "kept"]
  <2>1. node' = node \/ \E error \in BOOLEAN : Stops(error)
    BY ONLY <1>3 DEF StopTask
  <2>2. node' = node => \A m \in Nodes : Unaltered(m)
    BY DEF Unaltered
  <2>3. ASSUME NEW error \in BOOLEAN, Stops(error)
        PROVE  \A m \in Nodes : Unaltered(m)
    <3>1. PICK f \in FrameRecord : f = Top(t) /\ f.n \in Nodes /\ node[f.n] \in NodeRecord
      <4> HIDE DEF Stops
      <4> QED BY <1>3, TopFacts DEF StopTask
    <3>2. PICK r : r = [node[f.n] EXCEPT !.stopped = TRUE, !.stops = @ + 1, !.error = error,
                                         !.file = IF error THEN None ELSE "kept"]
      OBVIOUS
    <3>3. r.made = node[f.n].made /\ r.gone = node[f.n].gone /\ r.status = node[f.n].status
      BY <3>1, <3>2 DEF NodeRecord
    <3>4. node' = [node EXCEPT ![f.n] = r]
      BY <1>1, <2>3, <3>1, <3>2
    <3> HIDE DEF Stops
    <3> TAKE m \in Nodes
    <3>5. CASE m = f.n
      BY <1>1, <3>1, <3>3, <3>4, <3>5 DEF Unaltered
    <3>6. CASE m # f.n
      BY <1>1, <3>1, <3>4, <3>6 DEF Unaltered
    <3> QED BY ONLY <3>5, <3>6, SMTT(40)
  <2> HIDE DEF Stops
  <2>4. \A m \in Nodes : Unaltered(m)
    BY ONLY <2>1, <2>2, <2>3
  <2> QED BY ONLY Fresh, <1>1, <2>4, LivesStutter
<1>4. CASE StopFirst(t)
  <2>1. \A m \in Nodes : Unaltered(m)
    BY <1>1, <1>4 DEF StopFirst, Unaltered, NodeRecord
  <2> QED BY <1>1, <2>1, LivesStutter
<1>5. CASE ChildClosed(t)
  <2>1. \A m \in Nodes : Unaltered(m)
    BY <1>1, <1>5 DEF ChildClosed, Unaltered, NodeRecord
  <2> QED BY <1>1, <2>1, LivesStutter
<1>6. CASE Shut(t)
  <2>1. \A m \in Nodes : Unaltered(m)
    BY <1>1, <1>6 DEF Shut, Unaltered, NodeRecord
  <2> QED BY <1>1, <2>1, LivesStutter
<1>7. CASE \E n \in Nodes : StopDump(t, n)
  <2>1. \A m \in Nodes : Unaltered(m)
    BY <1>1, <1>7 DEF StopDump, Unaltered, NodeRecord
  <2> QED BY <1>1, <2>1, LivesStutter
<1> QED BY <1>2, <1>3, <1>4, <1>5, <1>6, <1>7

\* The SDK refuses to delete a file of a child, and close() fails.
LEMMA LifeRaises ==
    ASSUME TreeInv, Fresh, NEW t \in Callers, DeleteRaises(t)
    PROVE  LivesOn
<1> PICK f \in FrameRecord :
       /\ f = Top(t) /\ f.pc = "children" /\ f.n \in Nodes
       /\ FrameHolds(f) /\ Covered(t, Len(stack[t]), f) /\ node[f.n] \in NodeRecord
  BY TopFacts DEF DeleteRaises
<1>1. /\ tree' = tree /\ node[f.child].file = "kept"
      /\ node' = [node EXCEPT ![f.child].file = "refused", ![f.n].status = "close_failed"]
  BY DEF DeleteRaises
<1>2. Made(f.n) /\ node[f.n].status = "closing" /\ Kind(f.n) # "dump"
  BY DEF Works, Closers, Ends, FrameHolds, Labelled, Marked, Containers
<1>3. node \in [Nodes -> NodeRecord]
  BY TreeInvFacts DEF Typed
<1>4. /\ \A m \in Nodes \ {f.n} : Unaltered(m)
      /\ node'[f.n].made = node[f.n].made /\ node'[f.n].gone = node[f.n].gone
      /\ node'[f.n].status = "close_failed"
  <2> DEFINE w == [node EXCEPT ![f.child].file = "refused"]
  <2>1. /\ w = [m \in Nodes |-> w[m]]
        /\ \A m \in Nodes : /\ w[m].made = node[m].made /\ w[m].gone = node[m].gone
                            /\ w[m].status = node[m].status
                            /\ w[m] \in NodeRecord
    <3>1. w = [m \in Nodes |-> w[m]]
      BY <1>3
    <3>2. ASSUME NEW m \in Nodes
          PROVE  /\ w[m].made = node[m].made /\ w[m].gone = node[m].gone
                 /\ w[m].status = node[m].status /\ w[m] \in NodeRecord
      <4>1. w[m] = node[m] \/ w[m] = [node[m] EXCEPT !.file = "refused"]
        BY <1>3
      <4>2. node[m] \in NodeRecord /\ [node[m] EXCEPT !.file = "refused"] \in NodeRecord
        BY <1>3, NodeFields DEF Files
      <4>3. LET r == [node[m] EXCEPT !.file = "refused"]
            IN  r.made = node[m].made /\ r.gone = node[m].gone /\ r.status = node[m].status
        BY <4>2 DEF NodeRecord
      <4> QED BY <4>1, <4>2, <4>3
    <3> QED BY <3>1, <3>2
  <2>2. node' = [w EXCEPT ![f.n].status = "close_failed"]
    BY <1>1
  <2> HIDE DEF w
  <2>3. /\ \A m \in Nodes \ {f.n} : node'[m] = w[m]
        /\ node'[f.n] = [w[f.n] EXCEPT !.status = "close_failed"]
    BY <2>1, <2>2
  <2> QED BY <2>1, <2>3 DEF Unaltered, NodeRecord
<1>5. Life(f.n)' = Life(f.n)
  BY <1>1, <1>2, <1>4 DEF Life, Made, Kind
<1> QED BY <1>1, <1>2, <1>4, <1>5, OneLife DEF Made

\* The native object of n is gone, and the outcome is published.
LEMMA LifeForgets ==
    ASSUME TreeInv, Fresh, NEW t \in Callers, Unregister(t)
    PROVE  LivesOn
<1> PICK f \in FrameRecord :
       /\ f = Top(t) /\ f.pc = "unregister" /\ f.n \in Nodes
       /\ FrameHolds(f) /\ node[f.n] \in NodeRecord
  BY TopFacts DEF Unregister
<1>1. node[f.n].gone
  BY DEF FrameHolds, Marked, Ends
<1>2. tree' = tree /\ node' = Unregistered(f.n)
  BY DEF Unregister
<1>3. \A m \in Nodes : Unaltered(m)
  BY <1>1, <1>2, Forgotten DEF Unaltered, NodesGo
<1> QED BY <1>2, <1>3, LivesStutter

LEMMA LifeSucceeds ==
    ASSUME TreeInv, Fresh, NEW t \in Callers, Succeed(t)
    PROVE  LivesOn
<1> PICK f \in FrameRecord :
       /\ f = Top(t) /\ f.pc = "succeed" /\ f.n \in Nodes
       /\ FrameHolds(f) /\ node[f.n] \in NodeRecord
  BY TopFacts DEF Succeed
<1> PICK n \in Nodes : n = f.n
  OBVIOUS
<1>1. Made(n) /\ node[n].gone /\ node[n].status = "closing"
  BY DEF FrameHolds, Marked, Ends, Works, Closers
<1>2. /\ tree' = tree /\ node \in [Nodes -> NodeRecord]
      /\ node' = [node EXCEPT ![n].status = "closed",
                    ![n].given = @ \/ (node[n].file # None /\ Outermost(Served(t, n)))]
  BY TreeInvFacts DEF Succeed, Typed
<1>3. /\ \A m \in Nodes \ {n} : node'[m] = node[m]
      /\ node'[n].made = node[n].made /\ node'[n].gone = node[n].gone
      /\ node'[n].status = "closed"
  BY <1>2 DEF NodeRecord
<1>4. \A m \in Nodes \ {n} : Unaltered(m)
  BY <1>3 DEF Unaltered
<1>5. Life(n) = "destroyed" /\ Life(n)' = "closed"
  BY <1>1, <1>3 DEF Life, Made
<1> QED BY <1>1, <1>2, <1>3, <1>4, <1>5, OneLife DEF Made

LEMMA LifeSteps ==
    ASSUME TreeInv, Fresh, NEW t \in Callers, Step(t)
    PROVE  LivesOn
<1>1. CASE TimesOut(t)
  BY <1>1, LifeFails DEF TimesOut
<1>2. CASE \E c \in Nodes : CloseChild(t, c)
  <2>1. PICK c \in Nodes : CloseChild(t, c)
    BY <1>2
  <2>2. PICK f \in FrameRecord : f = Top(t) /\ Covered(t, Len(stack[t]), f)
    BY <2>1, TopFacts DEF CloseChild
  <2>3. Made(c) /\ tree' = tree /\ node' = Entered(c)
    BY <2>1, <2>2 DEF CloseChild, Covered, ChildOf
  <2> QED BY <2>3, LifeEnters
<1>3. CASE ChildRaised(t)
  <2>1. At(t, "children") /\ tree' = tree /\ (node' = node \/ Fail(t))
    BY <1>3 DEF ChildRaised
  <2> QED BY <2>1, LifeFails, LivesStutter DEF Unaltered
<1> QED BY <1>1, <1>2, <1>3, LifeGoesOn, LifeForgets, LifeSucceeds, LifeDestroys, LifeLocks, LifeDump,
           LifeRaises
        DEF Step

\* What is created has an open parent.
LEMMA LifeCreates ==
    ASSUME TreeInv, Fresh, NEW t, NEW n \in Nodes, NEW kind, Creates(t, n, kind)
    PROVE  LivesOn
<1>1. /\ tree' = tree /\ ~Made(n) /\ node[Parent(n)].made /\ node[Parent(n)].status = "open"
      /\ node' = [node EXCEPT ![n].made = TRUE, ![Parent(n)].kids = @ \cup {n}]
  BY DEF Creates, Made
<1>2. PICK p \in Nodes : p = Parent(n) /\ Made(p) /\ node[p].status = "open" /\ p # n
  BY <1>1, TreeInvFacts, Shape DEF Registered, Made
<1>3. /\ node \in [Nodes -> NodeRecord] /\ node[n] \in NodeRecord /\ node[p] \in NodeRecord
  BY <1>2, TreeInvFacts DEF Typed
<1>4. /\ node'[n] = [node[n] EXCEPT !.made = TRUE]
      /\ node'[p] = [node[p] EXCEPT !.kids = @ \cup {n}]
      /\ \A m \in Nodes \ {n, p} : node'[m] = node[m]
  BY <1>1, <1>2, <1>3
<1>5. /\ \A m \in Nodes \ {n} : Unaltered(m)
      /\ node'[n].made /\ node'[n].gone = node[n].gone /\ node'[n].status = node[n].status
  BY <1>3, <1>4 DEF Unaltered, NodeRecord
<1>6. node[n].status = "open" /\ ~node[n].gone
  BY <1>1 DEF Fresh
<1>7. Life(n) = "absent" /\ Life(n)' = "open"
  BY <1>1, <1>5, <1>6 DEF Life, Made
\* An object that is gone is being closed, or closed.
<1>8. Life(p) = "open"
  <2>1. ~node[p].gone
    <3> SUFFICES ASSUME node[p].gone PROVE FALSE
      OBVIOUS
    <3>1. Finishing(p)
      BY <1>2, TreeInvFacts DEF GoneExact, Closed
    <3>2. PICK u \in Callers, i \in Nat, f \in FrameRecord :
             Framed(u, i, f) /\ Ends(f) /\ f.n = p
      BY <3>1 DEF Finishing
    <3> QED BY <1>2, <3>2, TreeInvFacts DEF FrameHolds, Marked, Works, Closers, Ends
  <2> QED BY <1>2, <2>1 DEF Life, Made
<1>9. Lives!Becomes(n, "open")
  BY <1>1, <1>5, <1>7, LifeStays, LifeBecomes
<1>10. Lives!Create(n)
  BY <1>2, <1>7, <1>8, <1>9 DEF Lives!Create
<1>11. Fresh'
  BY <1>5 DEF Fresh, Made, Unaltered
<1> QED BY <1>10, <1>11 DEF LivesOn, Lives!Next

LEMMA LifeNext ==
    ASSUME TreeInv, Fresh, [Next]_vars
    PROVE  LivesOn
<1>1. ASSUME NEW u \in Users,
             \/ CreateConnection(u[1], u[2]) \/ OpenCloud(u[1], u[2]) \/ CreateReplay(u[1], u[2])
             \/ StartRecording(u[1], u[2]) \/ StartRawDump(u[1], u[2])
             \/ StopDump(u[1], u[2]) \/ Close(u[1], u[2])
      PROVE  LivesOn
  <2>1. u[1] \in Callers /\ u[2] \in Nodes
    BY TreeAssumption DEF Callers
  <2>2. CASE StopDump(u[1], u[2])
    BY <2>1, <2>2, LifeGoesOn
  <2>3. CASE Close(u[1], u[2])
    BY <2>1, <2>3, LifeEnters DEF Close, Made
  <2>4. CASE \E kind : Creates(u[1], u[2], kind)
    BY <2>1, <2>4, LifeCreates
  <2> QED BY <1>1, <2>2, <2>3, <2>4
          DEF CreateConnection, OpenCloud, CreateReplay, StartRecording, StartRawDump
<1>2. ASSUME NEW n \in Callbackers, CallbackBegins(n) \/ CallbackReturns(n)
      PROVE  LivesOn
  BY <1>2, LivesStutter DEF CallbackBegins, CallbackReturns, Unaltered
<1>3. CASE UNCHANGED vars
  BY <1>3, LivesStutter DEF vars, Unaltered
<1> QED BY <1>1, <1>2, <1>3, LifeSteps DEF Next

LEMMA LifeInit == Init => Fresh /\ Lives!Init
<1> SUFFICES ASSUME Init PROVE Fresh /\ Lives!Init
  OBVIOUS
<1>1. \A n \in Nodes : node[n].made \in BOOLEAN /\ node[n].status = "open" /\ ~node[n].gone
  <2> SUFFICES ASSUME NEW n \in Nodes
               PROVE  node[n].made \in BOOLEAN /\ node[n].status = "open" /\ ~node[n].gone
    OBVIOUS
  <2>1. tree[n].made \in BOOLEAN
    BY TreeAssumption DEF Init
  <2>2. node[n] = [NewNode EXCEPT !.made = tree[n].made,
                                  !.kids = {m \in Nodes : tree[m].made /\ tree[m].parent = n}]
    BY DEF Init
  <2> QED BY <2>1, <2>2 DEF NewNode
<1>2. \A n \in Nodes : Life(n) \in {"absent", "open"}
  BY <1>1 DEF Life
<1>3. \A n \in Nodes : Parent(n) \in Nodes \cup {None}
  BY TreeAssumption DEF Init, Parent
<1> QED BY <1>1, <1>2, <1>3 DEF Fresh, Lives!Init, Lives!None, None

\* Whatever threads and callbacks create, stop and close, and whatever fails: an
\* object is created under an open parent only, one that close() has begun on never
\* comes back to life, its native object goes after those of all below it, and each
\* step ends at most one life.
THEOREM TreesImplementLifetimes == Spec => ImplementsLifetimes
<1>1. Init => TreeInv /\ Fresh /\ Lives!Init
  BY TreeInit, LifeInit
<1>2. TreeInv /\ Fresh /\ [Next]_vars => TreeInv' /\ Fresh' /\ [Lives!Next]_Lives!vars
  BY TreeNext, LifeNext DEF LivesOn
<1> QED BY <1>1, <1>2, PTL DEF Spec, Lives!Spec, ImplementsLifetimes
=============================================================================
