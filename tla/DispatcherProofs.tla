-------------------------- MODULE DispatcherProofs --------------------------
(* Proofs about Dispatcher for every value of its constants.               *)
EXTENDS Dispatcher, SequenceTheorems, FiniteSetTheorems, WellFoundedInduction, TLAPS

\* A nonempty set of naturals has a least element.
LEMMA LeastNatural ==
    ASSUME NEW S \in SUBSET Nat, S # {}
    PROVE  \E x \in S : \A y \in S : x <= y
<1>1. PICK x \in S : \A y \in S : ~(<<y, x>> \in OpToRel(<, Nat))
  BY WFMin, NatLessThanWellFounded
<1>2. \A y \in S : ~(y < x)
  BY <1>1 DEF OpToRel
<1> QED BY <1>2

\* The evicted position is a position of the queue.
LEMMA MinPosition ==
    ASSUME NEW S \in SUBSET Nat, S # {}
    PROVE  Min(S) \in S
BY LeastNatural DEF Min

\* The positions of a kind form a finite set of positive numbers.
LEMMA PositionsFinite ==
    ASSUME NEW q \in Seq(Event), NEW k
    PROVE  /\ Positions(q, k) \in SUBSET (1 .. Len(q))
           /\ IsFiniteSet(Positions(q, k))
           /\ Count(q, k) \in Nat
<1>1. Positions(q, k) \in SUBSET (1 .. Len(q))
  BY DEF Positions
<1>2. IsFiniteSet(1 .. Len(q))
  BY FS_Interval
<1>3. IsFiniteSet(Positions(q, k))
  BY <1>1, <1>2, FS_Subset
<1> QED BY <1>1, <1>3, FS_CardinalityType DEF Count

\* A finite set of naturals has an element with exactly n smaller ones, for
\* every n below its cardinality.
LEMMA NthElement ==
    ASSUME NEW I \in SUBSET Nat, IsFiniteSet(I),
           NEW n \in Nat, n < Cardinality(I)
    PROVE  \E i \in I : Cardinality({x \in I : x < i}) = n
<1> DEFINE Below(i) == {x \in I : x < i}
           Missing  == {m \in Nat : /\ m < Cardinality(I)
                                    /\ \A i \in I : Cardinality(Below(i)) # m}
<1>0. \A x \in I : x \in Nat
  OBVIOUS
<1>1. SUFFICES ASSUME Missing # {} PROVE FALSE
  OBVIOUS
<1>2. PICK m \in Missing : \A y \in Missing : m <= y
  BY <1>1, LeastNatural
<1>3. Cardinality(I) \in Nat
  BY FS_CardinalityType
<1>4. CASE m = 0
  <2>1. I # {}
    BY <1>2, <1>3, <1>4, FS_EmptySet
  <2>2. PICK i \in I : \A y \in I : i <= y
    BY <2>1, LeastNatural
  <2>3. \A y \in I : ~(y < i)
    BY <2>2, <1>0
  <2>4. Below(i) = {}
    BY <2>3
  <2> QED BY <2>4, <1>2, <1>4, FS_EmptySet
<1>5. CASE m # 0
  <2>1. m - 1 \in Nat /\ m - 1 \notin Missing /\ m - 1 < Cardinality(I)
    BY <1>2, <1>3, <1>5
  <2>2. PICK j \in I : Cardinality(Below(j)) = m - 1
    BY <2>1
  <2> DEFINE After == {x \in I : j < x}
  <2>3. IsFiniteSet(Below(j))
    BY FS_Subset, Below(j) \in SUBSET I
  <2>4. /\ IsFiniteSet(Below(j) \cup {j})
        /\ Cardinality(Below(j) \cup {j}) = m
    <3>1. j \notin Below(j)
      BY <1>0
    <3>2. Cardinality(Below(j) \cup {j}) = Cardinality(Below(j)) + 1
      BY <3>1, <2>3, FS_AddElement
    <3>3. IsFiniteSet(Below(j) \cup {j})
      BY <2>3, FS_AddElement
    <3> HIDE DEF Below
    <3> QED BY <3>2, <3>3, <2>2, <1>2
  <2>5. After # {}
    <3>1. SUFFICES ASSUME After = {} PROVE FALSE
      OBVIOUS
    <3>2. \A x \in I : x < j \/ x = j
      BY <3>1, <1>0
    <3>3. I = Below(j) \cup {j}
      BY <3>2
    <3> QED BY <3>3, <2>4, <1>2
  <2>6. PICK i \in After : \A y \in After : i <= y
    BY <2>5, LeastNatural
  <2>7. i \in I /\ \A x \in I : x < i <=> (x < j \/ x = j)
    BY <2>6, <1>0
  <2>8. Below(i) = Below(j) \cup {j}
    BY <2>7
  <2> QED BY <2>4, <2>7, <2>8, <1>2
<1> QED BY <1>4, <1>5

\* What discard() keeps is a queue, and empty if the queue was.
LEMMA OfKindType ==
    ASSUME NEW q \in Seq(Event), NEW k
    PROVE  /\ OfKind(q, k) \in Seq(Event)
           /\ q = <<>> => OfKind(q, k) = <<>>
           /\ Len(OfKind(q, k)) <= Len(q)
<1> DEFINE P == Positions(q, k)
           at(j) == CHOOSE i \in P : Cardinality({x \in P : x < i}) = j - 1
<1>1. P \in SUBSET (1 .. Len(q)) /\ IsFiniteSet(P) /\ Count(q, k) \in Nat
  BY PositionsFinite
<1>2. ASSUME NEW j \in 1 .. Count(q, k) PROVE at(j) \in P
  <2>1. P \in SUBSET Nat /\ j - 1 \in Nat /\ j - 1 < Cardinality(P)
    BY <1>1 DEF Count
  <2> QED BY <2>1, <1>1, NthElement
<1>3. \A j \in 1 .. Count(q, k) : q[at(j)] \in Event
  <2> HIDE DEF at
  <2> QED BY <1>1, <1>2
<1>4. OfKind(q, k) = [j \in 1 .. Count(q, k) |-> q[at(j)]]
  BY DEF OfKind
<1>5. OfKind(q, k) \in Seq(Event) /\ Len(OfKind(q, k)) = Count(q, k)
  <2> HIDE DEF at
  <2> QED BY <1>1, <1>3, <1>4
<1>6. q = <<>> => OfKind(q, k) = <<>>
  <2>1. q = <<>> => P = {}
    BY DEF Positions
  <2>2. q = <<>> => Count(q, k) = 0
    BY <2>1, FS_EmptySet DEF Count
  <2> QED BY <2>2, <1>5
<1>7. Count(q, k) <= Len(q)
  <2>1. IsFiniteSet(1 .. Len(q)) /\ Cardinality(1 .. Len(q)) = Len(q)
    BY Len(q) \in Nat, FS_Interval
  <2> QED BY <2>1, <1>1, FS_Subset DEF Count
<1> QED BY <1>5, <1>6, <1>7

\* Removing a position shortens the queue by one.
LEMMA RemoveAtType ==
    ASSUME NEW q \in Seq(Event), NEW i \in 1 .. Len(q)
    PROVE  /\ RemoveAt(q, i) \in Seq(Event)
           /\ Len(RemoveAt(q, i)) = Len(q) - 1
<1> DEFINE a == SubSeq(q, 1, i - 1)
           b == SubSeq(q, i + 1, Len(q))
<1>1. /\ a \in Seq(Event)
      /\ Len(a) = i - 1
  BY SubSeqProperties
<1>2. /\ b \in Seq(Event)
      /\ Len(b) = Len(q) - i
  BY SubSeqProperties
<1>3. a \o b \in Seq(Event) /\ Len(a \o b) = Len(a) + Len(b)
  BY <1>1, <1>2, ConcatProperties
<1>4. RemoveAt(q, i) = a \o b
  BY DEF RemoveAt
<1> HIDE DEF a, b
<1>5. Len(q) \in Nat
  OBVIOUS
<1>6. Len(a \o b) = Len(q) - 1
  BY <1>1, <1>2, <1>3, <1>5
<1> QED BY <1>3, <1>4, <1>6

\* Overwriting keeps the length, whatever the position.
LEMMA ReplaceAtType ==
    ASSUME NEW q \in Seq(Event), NEW i, NEW e \in Event
    PROVE  /\ ReplaceAt(q, i, e) \in Seq(Event)
           /\ Len(ReplaceAt(q, i, e)) = Len(q)
<1>1. Len(q) \in Nat /\ q \in [1 .. Len(q) -> Event]
  OBVIOUS
<1>2. ReplaceAt(q, i, e) \in [1 .. Len(q) -> Event]
  BY <1>1 DEF ReplaceAt
<1> QED BY <1>1, <1>2, SeqDef

LEMMA RoomType ==
    ASSUME NEW d \in Dispatchers, events[d] \in Seq(Event)
    PROVE  /\ Room(d) \in Seq(Event)
           /\ Len(Room(d)) =
                IF Len(events[d]) >= Capacity /\ Evictable(d) # {}
                  THEN Len(events[d]) - 1 ELSE Len(events[d])
<1>1. Evictable(d) \in SUBSET (1 .. Len(events[d]))
  BY DEF Evictable
<1>2. Evictable(d) # {} => Min(Evictable(d)) \in 1 .. Len(events[d])
  BY <1>1, MinPosition
<1> QED BY <1>2, RemoveAtType DEF Room

-----------------------------------------------------------------------------
(* Type correctness.                                                       *)

LEMMA RegisterTypes == AnyDispatcher \in Dispatchers /\ NoEvent \in Event
<1>1. AnyDispatcher \in Dispatchers
  BY DispatcherAssumption DEF AnyDispatcher
<1> QED BY <1>1 DEF NoEvent, Event, Kinds, LatestKinds, Payloads

\* A thread with a refused task in hand, or in the callback that it made.
Refused(t) == RefusedCallback(t) \/ RefusedReturn(t) \/ RefusedClose(t)

LEMMA RefusedMoves ==
    ASSUME TypeOK, NEW t \in Threads, Refused(t)
    PROVE  /\ UNCHANGED <<dropped, events, executing, frameCount, scheduled, ownerVars,
                          ready, workerVars, ttask, frameVars, dispatched, runs>>
           /\ tpc[t] \in {"idle", "task"} /\ tpc'[t] \in {"idle", "closing"}
           /\ \A u \in Threads \ {t} : tpc'[u] = tpc[u] /\ td'[u] = td[u]
           /\ \A d \in Dispatchers : closed[d] => closed'[d]
<1> USE DEF TypeOK
<1>1. CASE RefusedCallback(t)
  BY <1>1 DEF RefusedCallback, queueVars
<1>2. CASE RefusedReturn(t)
  BY <1>2 DEF RefusedReturn, queueVars, threadVars
<1>3. CASE RefusedClose(t)
  <2>1. PICK d \in Dispatchers : /\ closed' = [closed EXCEPT ![d] = TRUE]
                                 /\ WaitStep(t, d, "closing", CloseBlocked(d), Notify(d))
    BY <1>3 DEF RefusedClose
  <2> QED BY <1>3, <2>1 DEF RefusedClose, WaitStep, taskVars
<1> QED BY <1>1, <1>2, <1>3 DEF Refused

LEMMA TypeInit == Init => TypeOK
BY RegisterTypes DEF Init, TypeOK, NoLoss, Payloads

LEMMA TypePost ==
    ASSUME TypeOK, NEW t \in SdkThreads, Post(t)
    PROVE  TypeOK'
<1> USE DEF TypeOK, Threads
<1>0. PICK d \in Dispatchers : \E e \in Offers(d) :
         PostReplace(d, e) \/ PostDropFrame(d, e) \/ PostAppend(t, d, e)
  BY DEF Post
<1>1. PICK e \in Offers(d) :
         PostReplace(d, e) \/ PostDropFrame(d, e) \/ PostAppend(t, d, e)
  BY <1>0
<1>2. e \in Event
  BY DEF Offers
<1>3. CASE PostReplace(d, e)
  <2>1. events' \in [Dispatchers -> Seq(Event)]
    <3>1. ReplaceAt(events[d], Max(Replaceable(d, e.kind)), e) \in Seq(Event)
      BY <1>2, ReplaceAtType
    <3> QED BY <1>3, <3>1 DEF PostReplace
  <2>2. newest' \in [Dispatchers -> [LatestKinds -> Payloads]]
    BY <1>2, <1>3 DEF PostReplace, Event
  <2> QED BY <2>1, <2>2, <1>3
      DEF PostReplace, ownerVars, workerVars, threadVars, taskVars
<1>4. CASE PostDropFrame(d, e)
  BY <1>4 DEF PostDropFrame, NoLoss, ownerVars, workerVars, threadVars, taskVars
<1>5. CASE PostAppend(t, d, e)
  <2> DEFINE entry == [e EXCEPT !.mark = @ \/ (e.kind = "frame" /\ dropped[d])]
  <2>1. entry \in Event
    BY <1>2 DEF Event
  <2>2. events' \in [Dispatchers -> Seq(Event)]
    <3>1. Append(Room(d), entry) \in Seq(Event)
      BY <2>1, RoomType
    <3> QED BY <1>5, <3>1 DEF PostAppend
  <2>3. newest' \in [Dispatchers -> [LatestKinds -> Payloads]]
    BY <1>2, <1>5 DEF PostAppend, Event
  <2>4. /\ dropped' \in [Dispatchers -> BOOLEAN]
        /\ frameCount' \in [Dispatchers -> Int]
        /\ sinceLoss' \in [Dispatchers -> Nat \cup {NoLoss}]
    <3>1. dropped' \in [Dispatchers -> BOOLEAN]
      BY <1>5 DEF PostAppend
    <3>2. frameCount' \in [Dispatchers -> Int]
      BY <1>5 DEF PostAppend
    <3>3. sinceLoss' \in [Dispatchers -> Nat \cup {NoLoss}]
      BY <1>5 DEF PostAppend, NoLoss
    <3> QED BY <3>1, <3>2, <3>3
  <2>5. /\ scheduled' \in [Dispatchers -> BOOLEAN]
        /\ tpc' \in [Threads -> {"idle", "sched", "ntask", "task", "barrier",
                                 "closing", "del", "fin"}]
        /\ td' \in [Threads -> Dispatchers]
    BY <1>5, RegisterTypes DEF PostAppend, Schedule
  <2> QED BY <2>2, <2>3, <2>4, <2>5, <1>5
      DEF PostAppend, ownerVars, workerVars, taskVars
<1> QED BY <1>1, <1>3, <1>4, <1>5

LEMMA TypeTask ==
    ASSUME TypeOK, NEW t \in Threads, PostNativeTask(t) \/ ResumeTask(t)
    PROVE  TypeOK'
<1> USE DEF TypeOK
<1>1. PICK d \in Dispatchers, k \in Tasks \cup {"none"} :
         TaskStep(t, d, k) /\ dispatched' \subseteq Tasks /\ inside' = inside
  <2>1. CASE PostNativeTask(t)
    BY <2>1 DEF PostNativeTask
  <2>2. CASE ResumeTask(t)
    BY <2>2 DEF ResumeTask
  <2> QED BY <2>1, <2>2
<1>2. CASE TaskReject(t, d, k)
  <2>1. runs' \in [Tasks -> Nat]
    <3>1. CASE k \in Tasks
      BY <1>2, <3>1 DEF TaskReject
    <3>2. CASE k \notin Tasks
      BY <1>2, <3>2, Zenon DEF TaskReject
    <3> QED BY <3>1, <3>2
  <2> QED BY <1>1, <1>2, <2>1, RegisterTypes DEF TaskStep, TaskReject, queueVars,
          ownerVars, workerVars, frameVars
<1>3. CASE TaskWait(t, d, k)
  BY <1>1, <1>3 DEF TaskStep, TaskWait, queueVars, ownerVars, workerVars, frameVars
<1>4. CASE TaskAppend(t, d, k)
  <2> DEFINE entry == [kind |-> "native_task", val |-> k, mark |-> FALSE]
  <2>1. entry \in Event
    BY DEF Event, Kinds, TerminalKinds, Payloads
  <2>2. events' \in [Dispatchers -> Seq(Event)]
    <3>1. Append(events[d], entry) \in Seq(Event)
      BY <2>1
    <3> QED BY <1>4, <3>1 DEF TaskAppend
  <2> QED BY <1>1, <1>4, <2>2, RegisterTypes
      DEF TaskStep, TaskAppend, Schedule, ownerVars, workerVars, frameVars
<1> QED BY <1>1, <1>2, <1>3, <1>4 DEF TaskStep

LEMMA TypeThread ==
    ASSUME TypeOK, NEW t \in Threads,
           PutReady(t) \/ Barrier(t) \/ Close(t) \/ ResumeWait(t)
    PROVE  TypeOK'
<1> USE RegisterTypes DEF TypeOK
<1>1. CASE PutReady(t)
  <2>1. ready' \in Seq(Dispatchers)
    BY <1>1 DEF PutReady
  <2> QED BY <1>1, <2>1 DEF PutReady, queueVars, ownerVars, workerVars, frameVars,
          taskVars
<1>2. CASE Barrier(t)
  BY <1>2 DEF Barrier, WaitStep, queueVars, ownerVars, workerVars, frameVars, taskVars
<1>3. CASE Close(t)
  <2>1. PICK d \in Dispatchers : /\ closed' = [closed EXCEPT ![d] = TRUE]
                                 /\ WaitStep(t, d, "closing", CloseBlocked(d), Notify(d))
    BY <1>3 DEF Close
  <2>2. closed' \in [Dispatchers -> BOOLEAN]
    BY <2>1
  <2>3. /\ tpc' \in [Threads -> {"idle", "sched", "ntask", "task", "barrier", "closing",
                                 "del", "fin"}]
        /\ td' \in [Threads -> Dispatchers]
    BY <2>1 DEF WaitStep
  <2>4. asleep' \subseteq Threads \cup Workers
    BY <2>1 DEF WaitStep, Notify
  <2> QED BY <1>3, <2>2, <2>3, <2>4 DEF Close, ownerVars, workerVars, frameVars, taskVars
<1>4. CASE ResumeWait(t)
  BY <1>4 DEF ResumeWait, WaitStep, queueVars, ownerVars, workerVars, frameVars,
     taskVars
<1> QED BY <1>1, <1>2, <1>3, <1>4

LEMMA TypeFinalizer ==
    ASSUME TypeOK, NEW t \in Threads, Collect(t) \/ Discard(t)
    PROVE  TypeOK'
<1> USE DEF TypeOK
<1>1. CASE Collect(t)
  BY <1>1 DEF Collect, NoLoss, queueVars, workerVars, frameVars, taskVars
<1>2. CASE Discard(t)
  <2>1. events' \in [Dispatchers -> Seq(Event)]
    <3>1. OfKind(events[td[t]], "native_task") \in Seq(Event)
      BY OfKindType
    <3> QED BY <1>2, <3>1 DEF Discard
  <2> QED BY <1>2, <2>1 DEF Discard, Notify, NoLoss, ownerVars, workerVars, taskVars
<1> QED BY <1>1, <1>2

LEMMA TypeRefused ==
    ASSUME TypeOK, NEW t \in Threads, Refused(t)
    PROVE  TypeOK'
<1> USE RegisterTypes DEF TypeOK
<1>1. CASE RefusedCallback(t)
  <2>1. inside' \in [Threads -> SUBSET Dispatchers]
    BY <1>1 DEF RefusedCallback
  <2> QED BY <1>1, <2>1 DEF RefusedCallback, queueVars, ownerVars, workerVars, frameVars
<1>2. CASE RefusedReturn(t)
  BY <1>2 DEF RefusedReturn, queueVars, ownerVars, workerVars, threadVars, frameVars
<1>3. CASE RefusedClose(t)
  BY <1>3 DEF RefusedClose, WaitStep, Notify, ownerVars, workerVars, frameVars, taskVars
<1> QED BY <1>1, <1>2, <1>3 DEF Refused

LEMMA TypeWorker ==
    ASSUME TypeOK, NEW w \in Workers, WorkerStep(w) \/ NestedClose(w)
    PROVE  TypeOK'
<1> USE RegisterTypes DEF TypeOK
<1>1. CASE Take(w)
  <2>1. Head(ready) \in Dispatchers /\ Tail(ready) \in Seq(Dispatchers)
    BY <1>1 DEF Take
  <2> QED BY <1>1, <2>1 DEF Take, queueVars, ownerVars, threadVars, frameVars, taskVars
<1>2. CASE DrainEmpty(w)
  BY <1>2 DEF DrainEmpty, ownerVars, threadVars, frameVars, taskVars
<1>3. CASE DrainPop(w)
  <2>1. /\ events[wd[w]] \in Seq(Event)
        /\ events[wd[w]] # <<>>
    BY <1>3 DEF DrainPop
  <2>2. Head(events[wd[w]]) \in Event /\ Tail(events[wd[w]]) \in Seq(Event)
    BY <2>1
  <2> QED BY <1>3, <2>2 DEF DrainPop, Notify, ownerVars, threadVars, frameVars, taskVars
<1>4. CASE HandlerEnter(w)
  BY <1>4 DEF HandlerEnter, NoLoss, queueVars, ownerVars, threadVars, taskVars
<1>5. CASE HandlerReturn(w)
  BY <1>5 DEF HandlerReturn, Notify, ownerVars, threadVars, frameVars, taskVars
<1>6. CASE Reschedule(w)
  <2>1. ready' \in Seq(Dispatchers)
    BY <1>6 DEF Reschedule
  <2> QED BY <1>6, <2>1 DEF Reschedule, queueVars, ownerVars, threadVars, frameVars,
          taskVars
<1>7. CASE NestedResume(w)
  BY <1>7 DEF NestedResume, NestedWait, ownerVars, threadVars, frameVars, taskVars
<1>8. CASE NestedClose(w)
  BY <1>8 DEF NestedClose, NestedWait, Notify, ownerVars, threadVars, frameVars, taskVars
<1> QED BY <1>1, <1>2, <1>3, <1>4, <1>5, <1>6, <1>7, <1>8 DEF WorkerStep

LEMMA TypeStep == TypeOK /\ [Next]_vars => TypeOK'
<1> SUFFICES ASSUME TypeOK, [Next]_vars PROVE TypeOK'
  OBVIOUS
<1>1. CASE UNCHANGED vars
  BY <1>1 DEF TypeOK, vars, queueVars, ownerVars, workerVars, threadVars, frameVars,
     taskVars
<1>2. ASSUME NEW t \in SdkThreads, SdkStep(t) PROVE TypeOK'
  BY <1>2, TypePost, TypeTask, TypeRefused DEF SdkStep, Refused, Threads
<1>3. ASSUME NEW t \in AppThreads, AppStep(t) PROVE TypeOK'
  BY <1>3, TypeThread, TypeFinalizer DEF AppStep, Threads
<1>4. ASSUME NEW t \in Threads, ThreadContinue(t) PROVE TypeOK'
  BY <1>4, TypeThread, TypeTask, TypeRefused DEF ThreadContinue, Refused
<1>5. ASSUME NEW w \in Workers, WorkerStep(w) \/ NestedClose(w) PROVE TypeOK'
  BY <1>5, TypeWorker
<1> QED BY <1>1, <1>2, <1>3, <1>4, <1>5 DEF Next

\* Every reachable state of the pool has the declared types, for any number of
\* dispatchers, workers and threads and any capacity.
THEOREM TypeCorrect == Spec => []TypeOK
<1> QED BY TypeInit, TypeStep, PTL DEF Spec

-----------------------------------------------------------------------------
(* Serial execution.                                                       *)

\* A step that creates no token keeps tokens unique.
LEMMA TokenKept ==
    ASSUME TokenUnique, ready' = ready,
           \A t \in Threads, d \in Dispatchers : Posting(t, d)' => Posting(t, d),
           \A w \in Workers, d \in Dispatchers : Draining(w, d)' => Draining(w, d)
    PROVE  /\ TokenUnique'
           /\ \A d \in Dispatchers : Token(d)' => Token(d)
<1>1. \A d \in Dispatchers : Queued(d)' => Queued(d)
  BY DEF Queued
<1> QED BY <1>1 DEF TokenUnique, Token

\* Putting d on the ready queue: the token moves from its only holder there.
LEMMA TokenQueued ==
    ASSUME TypeOK, TokenUnique, NEW d \in Dispatchers,
           ready' = Append(ready, d), ~Queued(d),
           \A t \in Threads : ~Posting(t, d)',
           \A w \in Workers : ~Draining(w, d)',
           \A t \in Threads, c \in Dispatchers : Posting(t, c)' => Posting(t, c),
           \A w \in Workers, c \in Dispatchers : Draining(w, c)' => Draining(w, c)
    PROVE  /\ TokenUnique'
           /\ \A c \in Dispatchers \ {d} : Token(c)' => Token(c)
<1>1. ready \in Seq(Dispatchers)
  BY DEF TypeOK
<1>2. /\ DOMAIN ready' = 1 .. Len(ready) + 1
      /\ DOMAIN ready = 1 .. Len(ready)
      /\ Len(ready) \in Nat
      /\ ready'[Len(ready) + 1] = d
      /\ \A i \in 1 .. Len(ready) : ready'[i] = ready[i]
  BY <1>1
<1>3. \A i \in DOMAIN ready : ready[i] # d
  BY DEF Queued
<1>4. \A i, j \in DOMAIN ready' : ready'[i] = ready'[j] => i = j
  BY <1>2, <1>3 DEF TokenUnique
<1>5. \A c \in Dispatchers \ {d} : Queued(c)' => Queued(c)
  BY <1>2 DEF Queued
<1>6. \A c \in Dispatchers : Queued(c)' =>
          /\ \A t \in Threads : ~Posting(t, c)'
          /\ \A w \in Workers : ~Draining(w, c)'
  BY <1>5 DEF TokenUnique
<1>7. TokenUnique'
  BY <1>4, <1>6 DEF TokenUnique
<1> QED BY <1>5, <1>7 DEF Token

\* A poster that finds "scheduled" clear on an open dispatcher takes the token.
LEMMA TokenSchedule ==
    ASSUME TypeOK, TokenUnique, TokenScheduled, ExecutingExact,
           NEW t \in Threads, NEW d \in Dispatchers,
           tpc[t] # "sched", ~closed[d], Schedule(t, d),
           UNCHANGED <<closed, executing, ready, workerVars>>
    PROVE  TokenUnique' /\ TokenScheduled' /\ ExecutingExact'
<1> USE DEF TypeOK
<1>1. \A w \in Workers, c \in Dispatchers :
         /\ Draining(w, c)' <=> Draining(w, c)
         /\ InCallback(w, c)' <=> InCallback(w, c)
  BY DEF Draining, InCallback, workerVars
<1>2. \A c \in Dispatchers : Queued(c)' <=> Queued(c)
  BY DEF Queued
<1>3. \A u \in Threads, c \in Dispatchers :
         Posting(u, c)' => Posting(u, c) \/ (u = t /\ c = d /\ ~scheduled[d])
  BY DEF Schedule, Posting
<1>4. ExecutingExact'
  BY <1>1 DEF ExecutingExact
<1>5. TokenScheduled'
  <2>1. \A c \in Dispatchers \ {d} : Token(c)' => Token(c)
    BY <1>1, <1>2, <1>3 DEF Token
  <2> QED BY <2>1 DEF TokenScheduled, Schedule
<1>6. CASE scheduled[d]
  <2>1. \A u \in Threads, c \in Dispatchers : Posting(u, c)' => Posting(u, c)
    BY <1>3, <1>6
  <2> QED BY <2>1, <1>1, <1>4, <1>5, TokenKept
<1>7. CASE ~scheduled[d]
  <2>1. ~Token(d)
    BY <1>7 DEF TokenScheduled
  <2>2. TokenUnique'
    <3>1. /\ ~Queued(d)
          /\ \A u \in Threads : ~Posting(u, d)
          /\ \A w \in Workers : ~Draining(w, d)
      BY <2>1 DEF Token
    <3>2. \A i, j \in DOMAIN ready' : ready'[i] = ready'[j] => i = j
      BY DEF TokenUnique
    <3>3. \A c \in Dispatchers : \A u, v \in Threads :
             Posting(u, c)' /\ Posting(v, c)' => u = v
      BY <3>1, <1>3 DEF TokenUnique
    <3>4. \A c \in Dispatchers, u \in Threads : Posting(u, c)' =>
             ~Queued(c)' /\ \A w \in Workers : ~Draining(w, c)'
      BY <3>1, <1>1, <1>2, <1>3 DEF TokenUnique
    <3> QED BY <3>2, <3>3, <3>4, <1>1, <1>2 DEF TokenUnique
  <2> QED BY <2>2, <1>4, <1>5
<1> QED BY <1>6, <1>7

\* A step that moves no token and leaves the workers alone.
LEMMA QuietStep ==
    ASSUME DispatchInv, UNCHANGED <<ready, workerVars, executing>>,
           \A t \in Threads, d \in Dispatchers : Posting(t, d)' => Posting(t, d),
           \A d \in Dispatchers :
              scheduled[d] \/ closed[d] => scheduled'[d] \/ closed'[d]
    PROVE  DispatchInv'
<1>1. \A w \in Workers, d \in Dispatchers :
         /\ Draining(w, d)' <=> Draining(w, d)
         /\ InCallback(w, d)' <=> InCallback(w, d)
  BY DEF Draining, InCallback, workerVars
<1>2. TokenUnique' /\ \A d \in Dispatchers : Token(d)' => Token(d)
  BY <1>1, TokenKept DEF DispatchInv
<1>3. TokenScheduled'
  BY <1>2 DEF DispatchInv, TokenScheduled
<1>4. ExecutingExact'
  BY <1>1 DEF DispatchInv, ExecutingExact
<1> QED BY <1>2, <1>3, <1>4 DEF DispatchInv

LEMMA SerialPost ==
    ASSUME TypeOK, DispatchInv, NEW t \in SdkThreads, Post(t)
    PROVE  DispatchInv'
<1>0. PICK d \in Dispatchers : \E e \in Offers(d) :
         PostReplace(d, e) \/ PostDropFrame(d, e) \/ PostAppend(t, d, e)
  BY DEF Post
<1>1. PICK e \in Offers(d) :
         PostReplace(d, e) \/ PostDropFrame(d, e) \/ PostAppend(t, d, e)
  BY <1>0
<1>2. CASE PostReplace(d, e)
  BY <1>2, QuietStep DEF PostReplace, threadVars, Posting
<1>3. CASE PostDropFrame(d, e)
  BY <1>3, QuietStep DEF PostDropFrame, threadVars, Posting
<1>4. CASE PostAppend(t, d, e)
  <2>1. /\ t \in Threads /\ tpc[t] # "sched" /\ ~closed[d] /\ Schedule(t, d)
        /\ UNCHANGED <<closed, executing, ready, workerVars>>
    BY <1>4 DEF Post, PostAppend, Threads
  <2> QED BY <2>1, TokenSchedule DEF DispatchInv
<1> QED BY <1>1, <1>2, <1>3, <1>4

LEMMA SerialTask ==
    ASSUME TypeOK, DispatchInv, NEW t \in Threads, PostNativeTask(t) \/ ResumeTask(t)
    PROVE  DispatchInv'
<1>1. PICK d \in Dispatchers : \E k \in Tasks \cup {"none"} : TaskStep(t, d, k)
  BY DEF PostNativeTask, ResumeTask, TypeOK
<1>2. PICK k \in Tasks \cup {"none"} : TaskStep(t, d, k)
  BY <1>1
<1>3. tpc[t] # "sched"
  BY DEF PostNativeTask, ResumeTask
<1>4. UNCHANGED <<ready, workerVars>>
  BY <1>2 DEF TaskStep
<1>5. CASE TaskReject(t, d, k)
  BY <1>3, <1>4, <1>5, QuietStep DEF TypeOK, TaskReject, queueVars, Posting
<1>6. CASE TaskWait(t, d, k)
  BY <1>3, <1>4, <1>6, QuietStep DEF TypeOK, TaskWait, queueVars, Posting
<1>7. CASE TaskAppend(t, d, k)
  BY <1>3, <1>4, <1>7, TokenSchedule DEF TaskAppend, DispatchInv
<1> QED BY <1>2, <1>5, <1>6, <1>7 DEF TaskStep

LEMMA SerialThread ==
    ASSUME TypeOK, DispatchInv, NEW t \in Threads,
           \/ PutReady(t) \/ Barrier(t) \/ Close(t) \/ ResumeWait(t)
           \/ Collect(t) \/ Discard(t)
    PROVE  DispatchInv'
<1> USE DEF TypeOK
<1>1. CASE PutReady(t)
  <2>0. PICK d \in Dispatchers : d = td[t]
    OBVIOUS
  <2>1. Posting(t, d)
    BY <1>1, <2>0 DEF PutReady, Posting
  <2>2. \A u \in Threads, c \in Dispatchers :
           Posting(u, c)' <=> Posting(u, c) /\ u # t
    BY <1>1 DEF PutReady, Posting
  <2>3. \A w \in Workers, c \in Dispatchers :
           /\ Draining(w, c)' <=> Draining(w, c)
           /\ InCallback(w, c)' <=> InCallback(w, c)
    BY <1>1 DEF PutReady, Draining, InCallback, workerVars
  <2>4. /\ ~Queued(d)
        /\ \A u \in Threads : ~Posting(u, d)'
        /\ \A w \in Workers : ~Draining(w, d)'
    BY <2>1, <2>2, <2>3 DEF DispatchInv, TokenUnique
  <2>5. TokenUnique' /\ \A c \in Dispatchers \ {d} : Token(c)' => Token(c)
    BY <1>1, <2>0, <2>2, <2>3, <2>4, TokenQueued DEF PutReady, DispatchInv
  <2>6. scheduled[d] \/ closed[d]
    BY <2>1 DEF DispatchInv, TokenScheduled, Token
  <2>7. TokenScheduled'
    BY <1>1, <2>5, <2>6 DEF PutReady, queueVars, DispatchInv, TokenScheduled
  <2>8. ExecutingExact'
    BY <1>1, <2>3 DEF PutReady, queueVars, DispatchInv, ExecutingExact
  <2> QED BY <2>5, <2>7, <2>8 DEF DispatchInv
<1>2. CASE Barrier(t)
  BY <1>2, QuietStep DEF Barrier, WaitStep, queueVars, Posting
<1>3. CASE Close(t)
  BY <1>3, QuietStep DEF Close, WaitStep, Posting
<1>4. CASE ResumeWait(t)
  BY <1>4, QuietStep DEF ResumeWait, WaitStep, queueVars, Posting
<1>5. CASE Collect(t)
  BY <1>5, QuietStep DEF Collect, queueVars, Posting
<1>6. CASE Discard(t)
  BY <1>6, QuietStep DEF Discard, Posting
<1> QED BY <1>1, <1>2, <1>3, <1>4, <1>5, <1>6

LEMMA SerialRefused ==
    ASSUME TypeOK, DispatchInv, NEW t \in Threads, Refused(t)
    PROVE  DispatchInv'
<1>1. \A u \in Threads, d \in Dispatchers : Posting(u, d)' => Posting(u, d)
  BY RefusedMoves DEF Posting
<1> QED BY <1>1, RefusedMoves, QuietStep

\* A worker's step that neither takes nor queues a token.
LEMMA WorkerMove ==
    ASSUME TypeOK, DispatchInv, NEW w \in Workers,
           UNCHANGED <<ready, executing, threadVars>>,
           \A d \in Dispatchers : scheduled[d] => scheduled'[d],
           \A d \in Dispatchers : closed[d] => closed'[d],
           \A v \in Workers, d \in Dispatchers :
              /\ Draining(v, d)' <=> Draining(v, d)
              /\ InCallback(v, d)' <=> InCallback(v, d)
    PROVE  DispatchInv'
<1>1. \A t \in Threads, d \in Dispatchers : Posting(t, d)' => Posting(t, d)
  BY DEF Posting, threadVars
<1>2. TokenUnique' /\ \A d \in Dispatchers : Token(d)' => Token(d)
  BY <1>1, TokenKept DEF DispatchInv
<1> QED BY <1>2 DEF DispatchInv, TokenScheduled, ExecutingExact

\* A worker finishes with d: it drops the token or keeps it for Reschedule.
LEMMA WorkerDrop ==
    ASSUME TypeOK, DispatchInv, NEW w \in Workers, NEW d \in Dispatchers,
           Draining(w, d), UNCHANGED <<ready, threadVars, closed>>,
           \A c \in Dispatchers \ {d} : scheduled'[c] = scheduled[c],
           \A c \in Dispatchers \ {d} : executing'[c] = executing[c],
           ~executing'[d],
           Draining(w, d)' => scheduled'[d] \/ closed[d],
           \A v \in Workers, c \in Dispatchers :
              /\ Draining(v, c)' => Draining(v, c)
              /\ v # w => (InCallback(v, c)' <=> InCallback(v, c)),
           \A c \in Dispatchers : ~InCallback(w, c)'
    PROVE  DispatchInv'
<1>1. \A t \in Threads, c \in Dispatchers : Posting(t, c)' => Posting(t, c)
  BY DEF Posting, threadVars
<1>2. TokenUnique' /\ \A c \in Dispatchers : Token(c)' => Token(c)
  BY <1>1, TokenKept DEF DispatchInv
<1>3. /\ ~Queued(d)'
      /\ \A t \in Threads : ~Posting(t, d)'
      /\ \A v \in Workers : Draining(v, d)' => v = w
  BY <1>1 DEF DispatchInv, TokenUnique, Queued
<1>4. Token(d)' => Draining(w, d)'
  BY <1>3 DEF Token
<1>5. TokenScheduled'
  BY <1>2, <1>4 DEF DispatchInv, TokenScheduled
<1>6. \A v \in Workers : ~InCallback(v, d)'
  BY <1>3 DEF InCallback, Draining
<1>7. \A c \in Dispatchers \ {d} : ~InCallback(w, c)
  BY DEF Draining, InCallback
<1>8. ExecutingExact'
  BY <1>6, <1>7 DEF DispatchInv, ExecutingExact
<1> QED BY <1>2, <1>5, <1>8 DEF DispatchInv

LEMMA TailIndex ==
    ASSUME NEW S, NEW s \in Seq(S), s # <<>>
    PROVE  /\ \A i \in DOMAIN Tail(s) : /\ i \in Nat /\ i >= 1
                                        /\ i + 1 \in DOMAIN s
                                        /\ Tail(s)[i] = s[i + 1]
           /\ 1 \in DOMAIN s /\ s[1] = Head(s)
<1>1. Len(s) \in Nat /\ Len(s) # 0 /\ DOMAIN s = 1 .. Len(s)
  BY EmptySeq, LenProperties
<1>2. Len(Tail(s)) = Len(s) - 1 /\ DOMAIN Tail(s) = 1 .. Len(Tail(s))
  BY HeadTailProperties, LenProperties
<1>3. \A i \in 1 .. Len(Tail(s)) : i \in Nat /\ i >= 1 /\ i + 1 \in 1 .. Len(s)
  BY <1>1, <1>2
<1> QED BY <1>1, <1>2, <1>3, HeadTailProperties

LEMMA SerialTake ==
    ASSUME TypeOK, DispatchInv, NEW w \in Workers, Take(w)
    PROVE  DispatchInv'
<1> USE DEF TypeOK
<1>1. PICK d \in Dispatchers : d = Head(ready)
  BY DEF Take
<1>2. /\ \A i \in DOMAIN ready' : /\ i \in Nat /\ i >= 1
                                  /\ i + 1 \in DOMAIN ready
                                  /\ ready'[i] = ready[i + 1]
      /\ 1 \in DOMAIN ready /\ ready[1] = d
  BY <1>1, TailIndex DEF Take
<1>3. \A t \in Threads, c \in Dispatchers : Posting(t, c)' <=> Posting(t, c)
  BY DEF Take, threadVars, Posting
<1>4. \A v \in Workers, c \in Dispatchers :
         /\ Draining(v, c)' <=> Draining(v, c) \/ (v = w /\ c = d)
         /\ InCallback(v, c)' <=> InCallback(v, c)
  BY <1>1 DEF Take, Draining, InCallback
<1>5. \A c \in Dispatchers : Queued(c)' => Queued(c) /\ c # d
  <2> SUFFICES ASSUME NEW c \in Dispatchers, NEW i \in DOMAIN ready', ready'[i] = c
               PROVE  Queued(c) /\ c # d
    BY DEF Queued
  <2>1. i + 1 \in DOMAIN ready /\ ready[i + 1] = c /\ 1 \in DOMAIN ready /\ i + 1 # 1
    BY <1>2
  <2>2. ready[i + 1] # ready[1]
    BY <2>1 DEF DispatchInv, TokenUnique
  <2> QED BY <1>2, <2>1, <2>2 DEF Queued
<1>6. Queued(d)
  BY <1>2 DEF Queued
<1>7. /\ \A t \in Threads : ~Posting(t, d)
      /\ \A v \in Workers : ~Draining(v, d)
  BY <1>6 DEF DispatchInv, TokenUnique
<1>8. \A i, j \in DOMAIN ready' : ready'[i] = ready'[j] => i = j
  <2> SUFFICES ASSUME NEW i \in DOMAIN ready', NEW j \in DOMAIN ready',
                      ready'[i] = ready'[j]
               PROVE  i = j
    OBVIOUS
  <2>1. /\ i + 1 \in DOMAIN ready /\ j + 1 \in DOMAIN ready
        /\ ready[i + 1] = ready[j + 1]
    BY <1>2
  <2>2. i + 1 = j + 1
    BY <2>1 DEF DispatchInv, TokenUnique
  <2> QED BY <1>2, <2>2
<1>9. TokenUnique'
  BY <1>3, <1>4, <1>5, <1>7, <1>8 DEF DispatchInv, TokenUnique
<1>10. TokenScheduled'
  <2>1. \A c \in Dispatchers : Token(c)' => Token(c)
    BY <1>3, <1>4, <1>5, <1>6 DEF Token
  <2> QED BY <2>1 DEF Take, queueVars, DispatchInv, TokenScheduled
<1>11. ExecutingExact'
  BY <1>4 DEF Take, queueVars, DispatchInv, ExecutingExact
<1> QED BY <1>9, <1>10, <1>11 DEF DispatchInv

LEMMA SerialWorker ==
    ASSUME TypeOK, DispatchInv, NEW w \in Workers, WorkerStep(w) \/ NestedClose(w)
    PROVE  DispatchInv'
<1> USE DEF TypeOK
<1>0. PICK d \in Dispatchers : d = wd[w]
  OBVIOUS
<1>1. CASE Take(w)
  BY <1>1, SerialTake
<1>2. CASE DrainEmpty(w)
  <2>1. Draining(w, d) /\ ~InCallback(w, d)
    BY <1>0, <1>2 DEF DrainEmpty, Draining, InCallback
  <2>2. \A v \in Workers, c \in Dispatchers :
           /\ Draining(v, c)' => Draining(v, c) /\ v # w
           /\ v # w => (InCallback(v, c)' <=> InCallback(v, c))
           /\ ~InCallback(w, c)'
    BY <1>0, <1>2 DEF DrainEmpty, Draining, InCallback
  <2>3. ~executing[d]
    <3>1. \A v \in Workers : InCallback(v, d) => v = w
      BY <2>1 DEF DispatchInv, TokenUnique, Draining, InCallback
    <3> QED BY <2>1, <3>1 DEF DispatchInv, ExecutingExact
  <2> QED BY <1>0, <1>2, <2>1, <2>2, <2>3, WorkerDrop DEF DrainEmpty
<1>3. CASE DrainPop(w)
  <2>1. Draining(w, d)
    BY <1>0, <1>3 DEF DrainPop, Draining
  <2>2. \A v \in Workers, c \in Dispatchers :
           /\ Draining(v, c)' <=> Draining(v, c)
           /\ InCallback(v, c)' <=> InCallback(v, c) \/ (v = w /\ c = d)
    BY <1>0, <1>3 DEF DrainPop, Draining, InCallback
  <2>3. \A t \in Threads, c \in Dispatchers : Posting(t, c)' => Posting(t, c)
    BY <1>3 DEF DrainPop, threadVars, Posting
  <2>4. TokenUnique' /\ \A c \in Dispatchers : Token(c)' => Token(c)
    BY <1>3, <2>2, <2>3, TokenKept DEF DrainPop, DispatchInv
  <2>5. TokenScheduled'
    BY <1>3, <2>4 DEF DrainPop, DispatchInv, TokenScheduled
  <2>6. ExecutingExact'
    BY <1>0, <1>3, <2>2 DEF DrainPop, DispatchInv, ExecutingExact
  <2> QED BY <2>4, <2>5, <2>6 DEF DispatchInv
<1>4. CASE HandlerEnter(w)
  <2>1. \A v \in Workers, c \in Dispatchers :
           /\ Draining(v, c)' <=> Draining(v, c)
           /\ InCallback(v, c)' <=> InCallback(v, c)
    BY <1>4 DEF HandlerEnter, Draining, InCallback
  <2> QED BY <1>4, <2>1, WorkerMove DEF HandlerEnter, queueVars
<1>5. CASE HandlerReturn(w)
  <2>1. Draining(w, d)
    BY <1>0, <1>5 DEF HandlerReturn, Draining
  <2>2. \A v \in Workers, c \in Dispatchers :
           /\ Draining(v, c)' => Draining(v, c)
           /\ v # w => (InCallback(v, c)' <=> InCallback(v, c))
           /\ ~InCallback(w, c)'
    BY <1>0, <1>5 DEF HandlerReturn, Draining, InCallback
  <2>3. Draining(w, d)' => scheduled'[d] \/ closed[d]
    <3>1. scheduled[d] \/ closed[d]
      BY <2>1 DEF DispatchInv, TokenScheduled, Token
    <3> QED BY <1>0, <1>5, <3>1 DEF HandlerReturn, Draining
  <2> QED BY <1>0, <1>5, <2>1, <2>2, <2>3, WorkerDrop DEF HandlerReturn
<1>6. CASE Reschedule(w)
  <2>1. Draining(w, d) /\ ~InCallback(w, d)
    BY <1>0, <1>6 DEF Reschedule, Draining, InCallback
  <2>2. \A v \in Workers, c \in Dispatchers :
           /\ Draining(v, c)' <=> Draining(v, c) /\ v # w
           /\ InCallback(v, c)' <=> InCallback(v, c)
    BY <1>0, <1>6 DEF Reschedule, Draining, InCallback
  <2>3. \A t \in Threads, c \in Dispatchers : Posting(t, c)' => Posting(t, c)
    BY <1>6 DEF Reschedule, threadVars, Posting
  <2>4. /\ ~Queued(d)
        /\ \A t \in Threads : ~Posting(t, d)'
        /\ \A v \in Workers : ~Draining(v, d)'
    BY <2>1, <2>2, <2>3 DEF DispatchInv, TokenUnique
  <2>5. TokenUnique' /\ \A c \in Dispatchers \ {d} : Token(c)' => Token(c)
    BY <1>0, <1>6, <2>2, <2>3, <2>4, TokenQueued DEF Reschedule, DispatchInv
  <2>6. scheduled[d] \/ closed[d]
    BY <2>1 DEF DispatchInv, TokenScheduled, Token
  <2>7. TokenScheduled'
    BY <1>6, <2>5, <2>6 DEF Reschedule, queueVars, DispatchInv, TokenScheduled
  <2>8. ExecutingExact'
    BY <1>6, <2>2 DEF Reschedule, queueVars, DispatchInv, ExecutingExact
  <2> QED BY <2>5, <2>7, <2>8 DEF DispatchInv
<1>7. CASE NestedResume(w) \/ NestedClose(w)
  <2>1. \A v \in Workers, c \in Dispatchers :
           /\ Draining(v, c)' <=> Draining(v, c)
           /\ InCallback(v, c)' <=> InCallback(v, c)
    <3>1. /\ wpc[w] \in {"run", "nested"} /\ wpc'[w] \in {"run", "nested"}
          /\ \A v \in Workers \ {w} : wpc'[v] = wpc[v]
          /\ wd' = wd
      <4>1. CASE NestedResume(w)
        BY <4>1 DEF NestedResume, NestedWait
      <4>2. CASE NestedClose(w)
        BY <4>2 DEF NestedClose, NestedWait
      <4> QED BY <1>7, <4>1, <4>2
    <3> QED BY <3>1 DEF Draining, InCallback
  <2>2. /\ UNCHANGED <<ready, executing, scheduled, threadVars>>
        /\ \A c \in Dispatchers : closed[c] => closed'[c]
    <3>1. CASE NestedResume(w)
      BY <3>1 DEF NestedResume, NestedWait
    <3>2. CASE NestedClose(w)
      BY <3>2 DEF NestedClose, NestedWait
    <3> QED BY <1>7, <3>1, <3>2
  <2> QED BY <2>1, <2>2, WorkerMove
<1> QED BY <1>1, <1>2, <1>3, <1>4, <1>5, <1>6, <1>7 DEF WorkerStep

LEMMA SerialInit == Init => DispatchInv
BY DEF Init, DispatchInv, TokenUnique, TokenScheduled, ExecutingExact, Token,
   Queued, Posting, Draining, InCallback

LEMMA SerialStep == TypeOK /\ DispatchInv /\ [Next]_vars => DispatchInv'
<1> SUFFICES ASSUME TypeOK, DispatchInv, [Next]_vars PROVE DispatchInv'
  OBVIOUS
<1>1. CASE UNCHANGED vars
  BY <1>1, QuietStep DEF vars, queueVars, threadVars, Posting
<1>2. ASSUME NEW t \in SdkThreads, SdkStep(t) PROVE DispatchInv'
  BY <1>2, SerialPost, SerialTask, SerialRefused DEF SdkStep, Refused, Threads
<1>3. ASSUME NEW t \in AppThreads, AppStep(t) PROVE DispatchInv'
  BY <1>3, SerialThread DEF AppStep, Threads
<1>4. ASSUME NEW t \in Threads, ThreadContinue(t) PROVE DispatchInv'
  BY <1>4, SerialThread, SerialTask, SerialRefused DEF ThreadContinue, Refused
<1>5. ASSUME NEW w \in Workers, WorkerStep(w) \/ NestedClose(w) PROVE DispatchInv'
  BY <1>5, SerialWorker
<1> QED BY <1>1, <1>2, <1>3, <1>4, <1>5 DEF Next

\* The token invariant holds for any number of workers, posters and closers.
THEOREM DispatchInvariant == Spec => []DispatchInv
<1> QED BY TypeInit, TypeStep, SerialInit, SerialStep, PTL DEF Spec

-----------------------------------------------------------------------------
(* No event is stranded.                                                   *)

\* A step that keeps every token, and keeps "scheduled" in agreement with the
\* queue and "executing", strands nothing.
LEMMA StrandedKept ==
    ASSUME NoStrandedEvents, NEW d \in Dispatchers,
           \A c \in Dispatchers \ {d} : /\ scheduled'[c] = scheduled[c]
                                        /\ executing'[c] = executing[c]
                                        /\ events'[c] = events[c]
                                        /\ Token(c) => Token(c)',
           scheduled'[d] <=> CloseBlocked(d)',
           scheduled'[d] => Token(d)'
    PROVE  NoStrandedEvents'
BY DEF NoStrandedEvents, CloseBlocked

\* Threads other than a poster hold no token.
LEMMA ThreadKeepsTokens ==
    ASSUME TypeOK, NEW t \in Threads, tpc[t] # "sched",
           UNCHANGED <<ready, workerVars>>,
           \A u \in Threads \ {t} : tpc'[u] = tpc[u] /\ td'[u] = td[u]
    PROVE  \A d \in Dispatchers : Token(d) => Token(d)'
<1>1. \A d \in Dispatchers : Queued(d) => Queued(d)'
  BY DEF Queued
<1>2. \A u \in Threads, d \in Dispatchers : Posting(u, d) => Posting(u, d)'
  BY DEF Posting
<1>3. \A w \in Workers, d \in Dispatchers : Draining(w, d) => Draining(w, d)'
  BY DEF Draining, workerVars
<1> QED BY <1>1, <1>2, <1>3 DEF Token

\* Appending to the queue of d and scheduling it.
LEMMA StrandedSchedule ==
    ASSUME TypeOK, NoStrandedEvents, NEW t \in Threads, NEW d \in Dispatchers,
           tpc[t] # "sched", Schedule(t, d), events'[d] # <<>>,
           \A c \in Dispatchers \ {d} : events'[c] = events[c],
           UNCHANGED <<executing, ready, workerVars>>
    PROVE  NoStrandedEvents'
<1> USE DEF TypeOK
<1>1. \A c \in Dispatchers : Token(c) => Token(c)'
  BY ThreadKeepsTokens DEF Schedule
<1>2. ~scheduled[d] => Posting(t, d)'
  BY DEF Schedule, Posting
<1>3. Token(d)'
  BY <1>1, <1>2 DEF NoStrandedEvents, Token
<1>4. scheduled'[d] /\ CloseBlocked(d)'
  BY DEF Schedule, CloseBlocked
<1> QED BY <1>1, <1>3, <1>4, StrandedKept DEF Schedule

LEMMA AppendNonempty ==
    ASSUME NEW S, NEW s \in Seq(S), NEW e \in S
    PROVE  Append(s, e) # <<>>
BY AppendProperties

LEMMA StrandedPost ==
    ASSUME TypeOK, NoStrandedEvents, NEW t \in SdkThreads, Post(t)
    PROVE  NoStrandedEvents'
<1> USE DEF TypeOK
<1>0. PICK d \in Dispatchers : \E e \in Offers(d) :
         PostReplace(d, e) \/ PostDropFrame(d, e) \/ PostAppend(t, d, e)
  BY DEF Post
<1>1. PICK e \in Offers(d) :
         PostReplace(d, e) \/ PostDropFrame(d, e) \/ PostAppend(t, d, e)
  BY <1>0
<1>2. e \in Event /\ t \in Threads /\ tpc[t] # "sched"
  BY DEF Offers, Post, Threads
<1>3. CASE PostReplace(d, e)
  <2>1. \A c \in Dispatchers : Token(c) => Token(c)'
    BY <1>2, <1>3, ThreadKeepsTokens DEF PostReplace, threadVars
  <2>2. events[d] # <<>> <=> events'[d] # <<>>
    <3>1. /\ events[d] \in Seq(Event) /\ events'[d] \in Seq(Event)
          /\ Len(events'[d]) = Len(events[d])
      BY <1>2, <1>3, ReplaceAtType DEF PostReplace
    <3> QED BY <3>1
  <2> QED BY <1>3, <2>1, <2>2 DEF PostReplace, NoStrandedEvents, CloseBlocked
<1>4. CASE PostDropFrame(d, e)
  <2>1. \A c \in Dispatchers : Token(c) => Token(c)'
    BY <1>2, <1>4, ThreadKeepsTokens DEF PostDropFrame, threadVars
  <2> QED BY <1>4, <2>1 DEF PostDropFrame, NoStrandedEvents, CloseBlocked
<1>5. CASE PostAppend(t, d, e)
  <2> DEFINE entry == [e EXCEPT !.mark = @ \/ (e.kind = "frame" /\ dropped[d])]
  <2>1. entry \in Event
    BY <1>2 DEF Event
  <2>2. events' = [events EXCEPT ![d] = Append(Room(d), entry)]
    BY <1>5 DEF PostAppend
  <2>3. events'[d] # <<>> /\ \A c \in Dispatchers \ {d} : events'[c] = events[c]
    <3> HIDE DEF entry
    <3> QED BY <2>1, <2>2, RoomType, AppendNonempty
  <2> QED BY <1>2, <1>5, <2>3, StrandedSchedule DEF PostAppend
<1> QED BY <1>1, <1>3, <1>4, <1>5

LEMMA StrandedTask ==
    ASSUME TypeOK, NoStrandedEvents, NEW t \in Threads,
           PostNativeTask(t) \/ ResumeTask(t)
    PROVE  NoStrandedEvents'
<1> USE DEF TypeOK
<1>1. PICK d \in Dispatchers : \E k \in Tasks \cup {"none"} : TaskStep(t, d, k)
  BY DEF PostNativeTask, ResumeTask
<1>2. PICK k \in Tasks \cup {"none"} : TaskStep(t, d, k)
  BY <1>1
<1>3. tpc[t] # "sched" /\ UNCHANGED <<ready, workerVars>>
  BY <1>2 DEF PostNativeTask, ResumeTask, TaskStep
<1>4. CASE TaskReject(t, d, k) \/ TaskWait(t, d, k)
  <2>1. \A c \in Dispatchers : Token(c) => Token(c)'
    BY <1>3, <1>4, ThreadKeepsTokens DEF TaskReject, TaskWait
  <2> QED BY <1>4, <2>1 DEF TaskReject, TaskWait, queueVars, NoStrandedEvents,
          CloseBlocked
<1>5. CASE TaskAppend(t, d, k)
  <2> DEFINE entry == [kind |-> "native_task", val |-> k, mark |-> FALSE]
  <2>1. entry \in Event
    BY DEF Event, Kinds, TerminalKinds, Payloads
  <2>2. events' = [events EXCEPT ![d] = Append(events[d], entry)]
    BY <1>5 DEF TaskAppend
  <2>3. events'[d] # <<>> /\ \A c \in Dispatchers \ {d} : events'[c] = events[c]
    <3> HIDE DEF entry
    <3> QED BY <2>1, <2>2, AppendNonempty
  <2> QED BY <1>3, <1>5, <2>3, StrandedSchedule DEF TaskAppend
<1> QED BY <1>2, <1>4, <1>5 DEF TaskStep

LEMMA AppendKeepsMembers ==
    ASSUME NEW S, NEW s \in Seq(S), NEW e \in S
    PROVE  /\ \A i \in DOMAIN s : i \in DOMAIN Append(s, e) /\ Append(s, e)[i] = s[i]
           /\ \E i \in DOMAIN Append(s, e) : Append(s, e)[i] = e
<1>1. Len(s) \in Nat /\ DOMAIN s = 1 .. Len(s)
  BY LenProperties
<1>2. /\ DOMAIN Append(s, e) = 1 .. Len(s) + 1
      /\ \A i \in 1 .. Len(s) : Append(s, e)[i] = s[i]
      /\ Append(s, e)[Len(s) + 1] = e
  BY AppendProperties, LenProperties
<1>3. Len(s) + 1 \in DOMAIN Append(s, e)
  BY <1>1, <1>2
<1>4. \A i \in DOMAIN s : i \in DOMAIN Append(s, e)
  BY <1>1, <1>2
<1> QED BY <1>1, <1>2, <1>3, <1>4

LEMMA AppendQueues ==
    ASSUME TypeOK, NEW d \in Dispatchers, ready' = Append(ready, d)
    PROVE  \A c \in Dispatchers : Queued(c) \/ c = d => Queued(c)'
<1>1. ready \in Seq(Dispatchers)
  BY DEF TypeOK
<1>2. PICK r : r = Append(ready, d)
  OBVIOUS
<1>3. /\ \A i \in DOMAIN ready : i \in DOMAIN r /\ r[i] = ready[i]
      /\ \E i \in DOMAIN r : r[i] = d
  BY <1>1, <1>2, AppendKeepsMembers
<1>4. ready' = r
  BY <1>2
<1> QED BY <1>3, <1>4 DEF Queued

LEMMA TailMember ==
    ASSUME NEW S, NEW s \in Seq(S), s # <<>>, NEW i \in DOMAIN s, s[i] # Head(s)
    PROVE  \E j \in DOMAIN Tail(s) : Tail(s)[j] = s[i]
<1>1. Len(s) \in Nat /\ i \in 1 .. Len(s) /\ s[1] = Head(s)
  BY LenProperties
<1>2. Len(Tail(s)) = Len(s) - 1 /\ DOMAIN Tail(s) = 1 .. Len(Tail(s))
  BY HeadTailProperties, LenProperties
<1>3. i # 1
  BY <1>1
<1>4. i - 1 \in 1 .. Len(Tail(s)) /\ (i - 1) + 1 = i
  BY <1>1, <1>2, <1>3
<1>5. Tail(s)[i - 1] = s[i]
  BY <1>4, HeadTailProperties
<1> QED BY <1>2, <1>4, <1>5

LEMMA StrandedThread ==
    ASSUME TypeOK, NoStrandedEvents, NEW t \in Threads,
           \/ PutReady(t) \/ Barrier(t) \/ Close(t) \/ ResumeWait(t)
           \/ Collect(t) \/ Discard(t)
    PROVE  NoStrandedEvents'
<1> USE DEF TypeOK
<1>1. CASE PutReady(t)
  <2>1. \A c \in Dispatchers : Queued(c) \/ c = td[t] => Queued(c)'
    BY <1>1, AppendQueues DEF PutReady
  <2>2. \A u \in Threads, c \in Dispatchers :
           Posting(u, c) => Posting(u, c)' \/ c = td[t]
    BY <1>1 DEF PutReady, Posting
  <2>3. \A w \in Workers, c \in Dispatchers : Draining(w, c) => Draining(w, c)'
    BY <1>1 DEF PutReady, workerVars, Draining
  <2>4. \A c \in Dispatchers : Token(c) => Token(c)'
    BY <2>1, <2>2, <2>3 DEF Token
  <2> QED BY <1>1, <2>4 DEF PutReady, queueVars, NoStrandedEvents, CloseBlocked
<1>2. CASE Barrier(t) \/ Close(t) \/ ResumeWait(t) \/ Collect(t)
  <2>1. \A c \in Dispatchers : Token(c) => Token(c)'
    <3>1. /\ UNCHANGED <<ready, workerVars>>
          /\ tpc[t] # "sched"
          /\ \A u \in Threads \ {t} : tpc'[u] = tpc[u] /\ td'[u] = td[u]
      <4>1. CASE Barrier(t) \/ ResumeWait(t)
        BY <4>1 DEF Barrier, ResumeWait, WaitStep
      <4>2. CASE Close(t)
        BY <4>2 DEF Close, WaitStep
      <4>3. CASE Collect(t)
        BY <4>3 DEF Collect
      <4> QED BY <1>2, <4>1, <4>2, <4>3
    <3> QED BY <3>1, ThreadKeepsTokens
  <2>2. UNCHANGED <<scheduled, executing, events>>
    BY <1>2 DEF Barrier, Close, ResumeWait, Collect, queueVars
  <2> QED BY <2>1, <2>2 DEF NoStrandedEvents, CloseBlocked
<1>3. CASE Discard(t)
  <2>1. \A c \in Dispatchers : Token(c) => Token(c)'
    BY <1>3, ThreadKeepsTokens DEF Discard
  <2>2. PICK d \in Dispatchers : d = td[t]
    OBVIOUS
  <2>3. PICK kept : kept = OfKind(events[d], "native_task")
    OBVIOUS
  <2>4. events[d] = <<>> => kept = <<>>
    BY <2>3, OfKindType
  <2>5. /\ events' = [events EXCEPT ![d] = kept]
        /\ scheduled' = [scheduled EXCEPT ![d] = @ /\ (kept # <<>> \/ executing[d])]
        /\ executing' = executing
    BY <1>3, <2>2, <2>3 DEF Discard
  <2> QED BY <2>1, <2>4, <2>5 DEF NoStrandedEvents, CloseBlocked
<1> QED BY <1>1, <1>2, <1>3

LEMMA StrandedRefused ==
    ASSUME TypeOK, NoStrandedEvents, NEW t \in Threads, Refused(t)
    PROVE  NoStrandedEvents'
<1>1. tpc[t] # "sched"
  BY RefusedMoves
<1>2. \A c \in Dispatchers : Token(c) => Token(c)'
  BY <1>1, RefusedMoves, ThreadKeepsTokens
<1> QED BY <1>2, RefusedMoves DEF NoStrandedEvents, CloseBlocked

\* A worker that stays with its dispatcher keeps every token.
LEMMA WorkerKeepsTokens ==
    ASSUME UNCHANGED <<ready, threadVars>>, NEW D \in SUBSET Dispatchers,
           \A w \in Workers, c \in D : Draining(w, c) => Draining(w, c)'
    PROVE  \A c \in D : Token(c) => Token(c)'
<1>1. \A c \in Dispatchers : Queued(c) => Queued(c)'
  BY DEF Queued
<1>2. \A t \in Threads, c \in Dispatchers : Posting(t, c) => Posting(t, c)'
  BY DEF threadVars, Posting
<1> QED BY <1>1, <1>2 DEF Token

LEMMA StrandedWorker ==
    ASSUME TypeOK, DispatchInv, NoStrandedEvents, NEW w \in Workers,
           WorkerStep(w) \/ NestedClose(w)
    PROVE  NoStrandedEvents'
<1> USE DEF TypeOK
<1>0. PICK d \in Dispatchers : d = wd[w]
  OBVIOUS
<1>1. CASE Take(w)
  <2>1. PICK h \in Dispatchers : h = Head(ready)
    BY <1>1 DEF Take
  <2>2. Draining(w, h)' /\ \A c \in Dispatchers : ~Draining(w, c)
    BY <1>1, <2>1 DEF Take, Draining
  <2>3. \A v \in Workers, c \in Dispatchers : Draining(v, c) => Draining(v, c)'
    BY <1>1 DEF Take, Draining
  <2>4. \A t \in Threads, c \in Dispatchers : Posting(t, c) => Posting(t, c)'
    BY <1>1 DEF Take, threadVars, Posting
  <2>5. \A c \in Dispatchers : Queued(c) => Queued(c)' \/ c = h
    <3> SUFFICES ASSUME NEW c \in Dispatchers, NEW i \in DOMAIN ready,
                        ready[i] = c, c # h
                 PROVE  Queued(c)'
      BY DEF Queued
    <3> QED BY <1>1, <2>1, TailMember DEF Take, Queued
  <2>6. \A c \in Dispatchers : Token(c) => Token(c)'
    BY <2>2, <2>3, <2>4, <2>5 DEF Token
  <2> QED BY <1>1, <2>6 DEF Take, queueVars, NoStrandedEvents, CloseBlocked
<1>2. CASE DrainEmpty(w)
  <2>1. \A v \in Workers, c \in Dispatchers \ {d} : Draining(v, c) => Draining(v, c)'
    BY <1>0, <1>2 DEF DrainEmpty, Draining
  <2>2. \A c \in Dispatchers \ {d} : Token(c) => Token(c)'
    BY <1>2, <2>1, WorkerKeepsTokens DEF DrainEmpty
  <2>3. Draining(w, d) /\ ~InCallback(w, d)
    BY <1>0, <1>2 DEF DrainEmpty, Draining, InCallback
  <2>4. \A v \in Workers : InCallback(v, d) => v = w
    BY <2>3 DEF DispatchInv, TokenUnique, Draining, InCallback
  <2>5. ~executing[d] /\ events[d] = <<>>
    BY <1>0, <1>2, <2>3, <2>4 DEF DispatchInv, ExecutingExact, DrainEmpty
  <2> QED BY <1>0, <1>2, <2>2, <2>5, StrandedKept DEF DrainEmpty, CloseBlocked
<1>3. CASE DrainPop(w)
  <2>1. \A v \in Workers, c \in Dispatchers : Draining(v, c) => Draining(v, c)'
    BY <1>3 DEF DrainPop, Draining
  <2>2. \A c \in Dispatchers : Token(c) => Token(c)'
    BY <1>3, <2>1, WorkerKeepsTokens DEF DrainPop
  <2>3. scheduled[d]
    BY <1>0, <1>3 DEF DrainPop, NoStrandedEvents, CloseBlocked
  <2> QED BY <1>0, <1>3, <2>2, <2>3, StrandedKept
      DEF DrainPop, CloseBlocked, NoStrandedEvents
<1>4. CASE HandlerEnter(w) \/ NestedResume(w) \/ NestedClose(w)
  <2>1. \A v \in Workers, c \in Dispatchers : Draining(v, c) => Draining(v, c)'
    <3>1. /\ wpc[w] # "idle" /\ wpc'[w] # "idle" /\ wd' = wd
          /\ \A v \in Workers \ {w} : wpc'[v] = wpc[v]
      <4>1. CASE HandlerEnter(w)
        BY <4>1 DEF HandlerEnter
      <4>2. CASE NestedResume(w)
        BY <4>2 DEF NestedResume, NestedWait
      <4>3. CASE NestedClose(w)
        BY <4>3 DEF NestedClose, NestedWait
      <4> QED BY <1>4, <4>1, <4>2, <4>3
    <3> QED BY <3>1 DEF Draining
  <2>2. UNCHANGED <<ready, threadVars, scheduled, executing, events>>
    BY <1>4 DEF HandlerEnter, NestedResume, NestedClose, NestedWait, queueVars
  <2>3. \A c \in Dispatchers : Token(c) => Token(c)'
    BY <2>1, <2>2, WorkerKeepsTokens
  <2> QED BY <2>2, <2>3 DEF NoStrandedEvents, CloseBlocked
<1>5. CASE HandlerReturn(w)
  <2>1. \A v \in Workers, c \in Dispatchers \ {d} : Draining(v, c) => Draining(v, c)'
    BY <1>0, <1>5 DEF HandlerReturn, Draining
  <2>2. \A c \in Dispatchers \ {d} : Token(c) => Token(c)'
    BY <1>5, <2>1, WorkerKeepsTokens DEF HandlerReturn
  <2>3. events[d] # <<>> => scheduled[d] /\ Draining(w, d)'
    BY <1>0, <1>5 DEF HandlerReturn, Draining, NoStrandedEvents, CloseBlocked
  <2>4. /\ scheduled'[d] <=> CloseBlocked(d)'
        /\ scheduled'[d] => Token(d)'
    BY <1>0, <1>5, <2>3 DEF HandlerReturn, CloseBlocked, Token
  <2> QED BY <1>0, <1>5, <2>2, <2>4, StrandedKept DEF HandlerReturn
<1>6. CASE Reschedule(w)
  <2>1. \A c \in Dispatchers : Queued(c) \/ c = d => Queued(c)'
    <3>1. ready' = Append(ready, d)
      BY <1>0, <1>6 DEF Reschedule
    <3> QED BY <3>1, AppendQueues
  <2>2. \A v \in Workers, c \in Dispatchers :
           Draining(v, c) => Draining(v, c)' \/ c = d
    BY <1>0, <1>6 DEF Reschedule, Draining
  <2>3. \A t \in Threads, c \in Dispatchers : Posting(t, c) => Posting(t, c)'
    BY <1>6 DEF Reschedule, threadVars, Posting
  <2>4. \A c \in Dispatchers : Token(c) => Token(c)'
    BY <2>1, <2>2, <2>3 DEF Token
  <2> QED BY <1>6, <2>4 DEF Reschedule, queueVars, NoStrandedEvents, CloseBlocked
<1> QED BY <1>1, <1>2, <1>3, <1>4, <1>5, <1>6 DEF WorkerStep

LEMMA StrandedStep ==
    TypeOK /\ DispatchInv /\ NoStrandedEvents /\ [Next]_vars => NoStrandedEvents'
<1> SUFFICES ASSUME TypeOK, DispatchInv, NoStrandedEvents, [Next]_vars
             PROVE  NoStrandedEvents'
  OBVIOUS
<1>1. CASE UNCHANGED vars
  BY <1>1 DEF vars, queueVars, threadVars, workerVars, NoStrandedEvents, CloseBlocked,
     Token, Queued, Posting, Draining
<1>2. ASSUME NEW t \in SdkThreads, SdkStep(t) PROVE NoStrandedEvents'
  BY <1>2, StrandedPost, StrandedTask, StrandedRefused DEF SdkStep, Refused, Threads
<1>3. ASSUME NEW t \in AppThreads, AppStep(t) PROVE NoStrandedEvents'
  BY <1>3, StrandedThread DEF AppStep, Threads
<1>4. ASSUME NEW t \in Threads, ThreadContinue(t) PROVE NoStrandedEvents'
  BY <1>4, StrandedThread, StrandedTask, StrandedRefused DEF ThreadContinue, Refused
<1>5. ASSUME NEW w \in Workers, WorkerStep(w) \/ NestedClose(w)
      PROVE  NoStrandedEvents'
  BY <1>5, StrandedWorker
<1> QED BY <1>1, <1>2, <1>3, <1>4, <1>5 DEF Next

\* An accepted event always has its dispatcher on the way to a worker.
THEOREM EventsAreNotStranded == Spec => []NoStrandedEvents
<1>1. Init => NoStrandedEvents
  BY DEF Init, NoStrandedEvents, CloseBlocked
<1> QED BY <1>1, TypeInit, TypeStep, SerialInit, SerialStep, StrandedStep, PTL DEF Spec

-----------------------------------------------------------------------------
(* No wake-up is lost.                                                     *)

\* Those a step leaves asleep, other than its own actor x, were asleep before
\* it on a dispatcher outside D.
Undisturbed(x, D) ==
    /\ \A t \in (Threads \cap asleep') \ {x} :
          t \in asleep /\ tpc'[t] = tpc[t] /\ td'[t] = td[t] /\ td[t] \notin D
    /\ \A w \in (Workers \cap asleep') \ {x} :
          w \in asleep /\ wpc'[w] = wpc[w] /\ wt'[w] = wt[w] /\ wt[w] \notin D

StillBlocked(D) ==
    \A d \in Dispatchers \ D : /\ CloseBlocked(d) => CloseBlocked(d)'
                               /\ BarrierBlocked(d) => BarrierBlocked(d)'
                               /\ TaskBlocked(d) => TaskBlocked(d)'

ActorBlocked(x) ==
    /\ x \in Threads \cap asleep' => ThreadBlocked(x)'
    /\ x \in Workers \cap asleep' => WorkerBlocked(x)'

LEMMA WakeFrame ==
    ASSUME TypeOK, NoLostWakeup, NEW D, NEW x,
           Undisturbed(x, D), StillBlocked(D), ActorBlocked(x)
    PROVE  NoLostWakeup'
<1> USE DEF Undisturbed, StillBlocked, ActorBlocked
<1>1. ASSUME NEW t \in Threads \cap asleep' PROVE ThreadBlocked(t)'
  <2>1. CASE t = x
    BY <2>1
  <2>2. CASE t # x
    <3>1. t \in asleep /\ tpc'[t] = tpc[t] /\ td'[t] = td[t] /\ td[t] \notin D
      BY <2>2
    <3>2. PICK d \in Dispatchers \ D : d = td[t]
      BY <3>1 DEF TypeOK
    <3>3. ThreadBlocked(t)
      BY <3>1 DEF NoLostWakeup
    <3>4. \/ tpc[t] = "barrier" /\ BarrierBlocked(d)'
          \/ tpc[t] = "closing" /\ CloseBlocked(d)'
          \/ tpc[t] = "ntask" /\ TaskBlocked(d)'
      BY <3>2, <3>3 DEF ThreadBlocked
    <3> QED BY <3>1, <3>2, <3>4 DEF ThreadBlocked, BarrierBlocked, CloseBlocked,
            TaskBlocked
  <2> QED BY <2>1, <2>2
<1>2. ASSUME NEW w \in Workers \cap asleep' PROVE WorkerBlocked(w)'
  <2>1. CASE w = x
    BY <2>1
  <2>2. CASE w # x
    <3>1. w \in asleep /\ wpc'[w] = wpc[w] /\ wt'[w] = wt[w] /\ wt[w] \notin D
      BY <2>2
    <3>2. PICK d \in Dispatchers \ D : d = wt[w]
      BY <3>1 DEF TypeOK
    <3>3. wpc[w] = "nested" /\ CloseBlocked(d)'
      BY <3>1, <3>2 DEF NoLostWakeup, WorkerBlocked
    <3> QED BY <3>1, <3>2, <3>3 DEF WorkerBlocked, CloseBlocked
  <2> QED BY <2>1, <2>2
<1> QED BY <1>1, <1>2 DEF NoLostWakeup

\* After notify_all() nobody sleeps on d.
LEMMA NotifyWakes ==
    ASSUME TypeOK, NoLostWakeup, NEW d \in Dispatchers
    PROVE  /\ \A t \in Threads \cap Notify(d) : td[t] # d
           /\ \A w \in Workers \cap Notify(d) : wt[w] # d
BY ThreadAssumption DEF Notify, WaitingOn, NoLostWakeup, ThreadBlocked, WorkerBlocked

LEMMA WakePost ==
    ASSUME TypeOK, NoLostWakeup, NEW t \in SdkThreads, Post(t)
    PROVE  NoLostWakeup'
<1> USE DEF TypeOK
<1>0. PICK d \in Dispatchers : \E e \in Offers(d) :
         PostReplace(d, e) \/ PostDropFrame(d, e) \/ PostAppend(t, d, e)
  BY DEF Post
<1>1. PICK e \in Offers(d) :
         PostReplace(d, e) \/ PostDropFrame(d, e) \/ PostAppend(t, d, e)
  BY <1>0
<1>2. e \in Event /\ t \in Threads /\ tpc[t] = "idle"
  BY DEF Offers, Post, Threads
<1>3. t \notin asleep
  BY <1>2 DEF NoLostWakeup, ThreadBlocked
<1>4. /\ asleep' = asleep /\ closed' = closed /\ executing' = executing
      /\ wpc' = wpc /\ wt' = wt
      /\ \A u \in Threads \ {t} : tpc'[u] = tpc[u] /\ td'[u] = td[u]
      /\ \A c \in Dispatchers : scheduled[c] => scheduled'[c]
  <2>1. CASE PostReplace(d, e)
    BY <2>1 DEF PostReplace, threadVars, workerVars
  <2>2. CASE PostDropFrame(d, e)
    BY <2>2 DEF PostDropFrame, queueVars, threadVars, workerVars
  <2>3. CASE PostAppend(t, d, e)
    BY <2>3 DEF PostAppend, Schedule, workerVars
  <2> QED BY <1>1, <2>1, <2>2, <2>3
<1>5. \A c \in Dispatchers : /\ events[c] # <<>> => events'[c] # <<>>
                             /\ Len(events'[c]) >= Len(events[c])
  <2>1. CASE PostReplace(d, e)
    <3>1. \A c \in Dispatchers :
             /\ events[c] \in Seq(Event) /\ events'[c] \in Seq(Event)
             /\ Len(events'[c]) = Len(events[c])
      BY <1>2, <2>1, ReplaceAtType DEF PostReplace
    <3> QED BY <3>1
  <2>2. CASE PostDropFrame(d, e)
    BY <2>2 DEF PostDropFrame
  <2>3. CASE PostAppend(t, d, e)
    <3> DEFINE entry == [e EXCEPT !.mark = @ \/ (e.kind = "frame" /\ dropped[d])]
    <3>1. entry \in Event
      BY <1>2 DEF Event
    <3>2. events' = [events EXCEPT ![d] = Append(Room(d), entry)]
      BY <2>3 DEF PostAppend
    <3> HIDE DEF entry
    <3>3. /\ Append(Room(d), entry) \in Seq(Event)
          /\ Len(Append(Room(d), entry)) = Len(Room(d)) + 1
      BY <3>1, RoomType
    <3>4. Len(Room(d)) + 1 >= Len(events[d]) /\ Len(Room(d)) \in Nat
      BY RoomType
    <3>5. Append(Room(d), entry) # <<>>
      BY <3>1, RoomType, AppendNonempty
    <3> QED BY <3>2, <3>3, <3>4, <3>5
  <2> QED BY <1>1, <2>1, <2>2, <2>3
<1>6. \A c \in Dispatchers :
         /\ CloseBlocked(c) => CloseBlocked(c)'
         /\ BarrierBlocked(c) => BarrierBlocked(c)'
         /\ TaskBlocked(c) => TaskBlocked(c)'
  <2>1. \A c \in Dispatchers : Len(events[c]) \in Nat /\ Len(events'[c]) \in Int
    BY TypePost
  <2> QED BY <1>4, <1>5, <2>1, CapacityAssumption
      DEF CloseBlocked, BarrierBlocked, TaskBlocked
<1>7. Undisturbed(t, {}) /\ StillBlocked({}) /\ ActorBlocked(t)
  BY <1>3, <1>4, <1>6 DEF Undisturbed, StillBlocked, ActorBlocked
<1> QED BY <1>7, WakeFrame

\* A predicate reads only its own dispatcher.
LEMMA SameBlocked ==
    ASSUME NEW D, \A d \in Dispatchers \ D :
              /\ events'[d] = events[d] /\ executing'[d] = executing[d]
              /\ scheduled'[d] = scheduled[d] /\ closed'[d] = closed[d]
    PROVE  StillBlocked(D)
BY DEF StillBlocked, CloseBlocked, BarrierBlocked, TaskBlocked

LEMMA WakeTask ==
    ASSUME TypeOK, NoLostWakeup, NEW t \in Threads, PostNativeTask(t) \/ ResumeTask(t)
    PROVE  NoLostWakeup'
<1> USE DEF TypeOK
<1>1. PICK d \in Dispatchers : \E k \in Tasks \cup {"none"} : TaskStep(t, d, k)
  BY DEF PostNativeTask, ResumeTask
<1>2. PICK k \in Tasks \cup {"none"} : TaskStep(t, d, k)
  BY <1>1
<1>3. t \notin asleep /\ t \notin Workers
  BY ThreadAssumption DEF PostNativeTask, ResumeTask, NoLostWakeup, ThreadBlocked
<1>4. /\ asleep' \subseteq asleep \cup {t}
      /\ wpc' = wpc /\ wt' = wt
      /\ \A u \in Threads \ {t} : tpc'[u] = tpc[u] /\ td'[u] = td[u]
  BY <1>2 DEF TaskStep, TaskReject, TaskWait, TaskAppend, Schedule, workerVars
<1>5. Undisturbed(t, {})
  BY <1>3, <1>4 DEF Undisturbed
<1>6. CASE TaskReject(t, d, k)
  <2>1. ActorBlocked(t)
    BY <1>3, <1>6 DEF TaskReject, ActorBlocked
  <2>2. StillBlocked({})
    BY <1>6, SameBlocked DEF TaskReject, queueVars
  <2> QED BY <1>5, <2>1, <2>2, WakeFrame
<1>7. CASE TaskWait(t, d, k)
  <2>1. ActorBlocked(t)
    BY <1>3, <1>7 DEF TaskWait, TaskBlocked, queueVars, ThreadBlocked, ActorBlocked
  <2>2. StillBlocked({})
    BY <1>7, SameBlocked DEF TaskWait, queueVars
  <2> QED BY <1>5, <2>1, <2>2, WakeFrame
<1>8. CASE TaskAppend(t, d, k)
  <2>1. ActorBlocked(t)
    BY <1>3, <1>8 DEF TaskAppend, ActorBlocked
  <2> DEFINE entry == [kind |-> "native_task", val |-> k, mark |-> FALSE]
  <2>2. entry \in Event
    BY DEF Event, Kinds, TerminalKinds, Payloads
  <2>3. events' = [events EXCEPT ![d] = Append(events[d], entry)]
    BY <1>8 DEF TaskAppend
  <2> HIDE DEF entry
  <2>4. events'[d] # <<>> /\ \A c \in Dispatchers \ {d} : events'[c] = events[c]
    BY <2>2, <2>3, AppendNonempty
  <2>5. StillBlocked({})
    <3>1. ~TaskBlocked(d) /\ scheduled'[d]
      BY <1>8 DEF TaskAppend, Schedule
    <3>2. \A c \in Dispatchers \ {d} :
             /\ events'[c] = events[c] /\ executing'[c] = executing[c]
             /\ scheduled'[c] = scheduled[c] /\ closed'[c] = closed[c]
      BY <1>8, <2>4 DEF TaskAppend, Schedule
    <3>3. StillBlocked({d})
      BY <3>2, SameBlocked
    <3> QED BY <2>4, <3>1, <3>3 DEF StillBlocked, CloseBlocked, BarrierBlocked
  <2> QED BY <1>5, <2>1, <2>5, WakeFrame
<1> QED BY <1>2, <1>6, <1>7, <1>8 DEF TaskStep

LEMMA WakeThread ==
    ASSUME TypeOK, NoLostWakeup, NEW t \in Threads,
           \/ PutReady(t) \/ Barrier(t) \/ Close(t) \/ ResumeWait(t)
           \/ Collect(t) \/ Discard(t)
    PROVE  NoLostWakeup'
<1> USE DEF TypeOK
<1>1. t \notin asleep /\ t \notin Workers
  BY ThreadAssumption DEF PutReady, Barrier, Close, ResumeWait, Collect, Discard,
     NoLostWakeup, ThreadBlocked
<1>2. /\ asleep' \subseteq asleep \cup {t}
      /\ wpc' = wpc /\ wt' = wt
      /\ \A u \in Threads \ {t} : tpc'[u] = tpc[u] /\ td'[u] = td[u]
  BY DEF PutReady, Barrier, Close, ResumeWait, Collect, Discard, WaitStep, Notify,
     workerVars
<1>3. CASE PutReady(t) \/ Collect(t)
  <2>1. Undisturbed(t, {})
    BY <1>1, <1>2 DEF Undisturbed
  <2>2. StillBlocked({})
    BY <1>3, SameBlocked DEF PutReady, Collect, queueVars
  <2>3. ActorBlocked(t)
    BY <1>1, <1>3 DEF PutReady, Collect, ActorBlocked
  <2> QED BY <2>1, <2>2, <2>3, WakeFrame
<1>4. CASE Barrier(t) \/ ResumeWait(t)
  <2>1. Undisturbed(t, {})
    BY <1>1, <1>2 DEF Undisturbed
  <2>2. UNCHANGED queueVars
    BY <1>4 DEF Barrier, ResumeWait
  <2>3. StillBlocked({})
    BY <2>2, SameBlocked DEF queueVars
  <2>4. PICK d \in Dispatchers :
           \/ WaitStep(t, d, "barrier", BarrierBlocked(d), asleep)
           \/ WaitStep(t, d, "closing", CloseBlocked(d), asleep)
    BY <1>4 DEF Barrier, ResumeWait
  <2>5. ActorBlocked(t)
    BY <1>1, <2>2, <2>4 DEF WaitStep, BarrierBlocked, CloseBlocked, queueVars,
       ThreadBlocked, ActorBlocked
  <2> QED BY <2>1, <2>3, <2>5, WakeFrame
<1>5. CASE Close(t)
  <2>1. PICK d \in Dispatchers :
           /\ closed' = [closed EXCEPT ![d] = TRUE]
           /\ WaitStep(t, d, "closing", CloseBlocked(d), Notify(d))
    BY <1>5 DEF Close
  <2>2. UNCHANGED <<events, executing, scheduled>>
    BY <1>5 DEF Close
  <2>3. StillBlocked({d})
    BY <2>1, <2>2, SameBlocked
  <2>4. asleep' \subseteq Notify(d) \cup {t}
    BY <2>1 DEF WaitStep
  <2>5. Undisturbed(t, {d})
    BY <1>1, <1>2, <2>4, NotifyWakes DEF Undisturbed
  <2>6. ActorBlocked(t)
    BY <1>1, <2>1, <2>2 DEF WaitStep, CloseBlocked, Notify, ThreadBlocked, ActorBlocked
  <2> QED BY <2>3, <2>5, <2>6, WakeFrame
<1>6. CASE Discard(t)
  <2>1. PICK d \in Dispatchers : d = td[t]
    OBVIOUS
  <2>2. asleep' = Notify(d)
    BY <1>6, <2>1 DEF Discard
  <2>3. StillBlocked({d})
    BY <1>6, <2>1, SameBlocked DEF Discard
  <2>4. Undisturbed(t, {d})
    BY <1>1, <1>2, <2>2, NotifyWakes DEF Undisturbed
  <2>5. ActorBlocked(t)
    BY <1>1, <2>2 DEF Notify, ActorBlocked
  <2> QED BY <2>3, <2>4, <2>5, WakeFrame
<1> QED BY <1>3, <1>4, <1>5, <1>6

LEMMA WakeRefused ==
    ASSUME TypeOK, NoLostWakeup, NEW t \in Threads, Refused(t)
    PROVE  NoLostWakeup'
<1> USE DEF TypeOK
<1>1. t \notin asleep /\ t \notin Workers
  BY RefusedMoves, ThreadAssumption DEF NoLostWakeup, ThreadBlocked
<1>2. /\ wpc' = wpc /\ wt' = wt
      /\ \A u \in Threads \ {t} : tpc'[u] = tpc[u] /\ td'[u] = td[u]
      /\ UNCHANGED <<events, executing, scheduled>>
  BY RefusedMoves DEF workerVars
<1>3. CASE RefusedCallback(t) \/ RefusedReturn(t)
  <2>1. asleep' = asleep /\ closed' = closed
    BY <1>3 DEF RefusedCallback, RefusedReturn, queueVars
  <2>2. Undisturbed(t, {})
    BY <1>1, <1>2, <2>1 DEF Undisturbed
  <2>3. StillBlocked({})
    BY <1>2, <2>1, SameBlocked
  <2>4. ActorBlocked(t)
    BY <1>1, <2>1 DEF ActorBlocked
  <2> QED BY <2>2, <2>3, <2>4, WakeFrame
<1>4. CASE RefusedClose(t)
  <2>1. PICK d \in Dispatchers :
           /\ closed' = [closed EXCEPT ![d] = TRUE]
           /\ WaitStep(t, d, "closing", CloseBlocked(d), Notify(d))
    BY <1>4 DEF RefusedClose
  <2>2. StillBlocked({d})
    BY <1>2, <2>1, SameBlocked
  <2>3. asleep' \subseteq Notify(d) \cup {t}
    BY <2>1 DEF WaitStep
  <2>4. Undisturbed(t, {d})
    <3>1. asleep' \subseteq asleep \cup {t}
      BY <2>3 DEF Notify
    <3> QED BY <1>1, <1>2, <2>3, <3>1, NotifyWakes DEF Undisturbed
  <2>5. ActorBlocked(t)
    BY <1>1, <1>2, <2>1 DEF WaitStep, CloseBlocked, Notify, ThreadBlocked, ActorBlocked
  <2> QED BY <2>2, <2>4, <2>5, WakeFrame
<1> QED BY <1>3, <1>4 DEF Refused

LEMMA WakeWorker ==
    ASSUME TypeOK, DispatchInv, NoStrandedEvents, NoLostWakeup,
           NEW w \in Workers, WorkerStep(w) \/ NestedClose(w)
    PROVE  NoLostWakeup'
<1> USE DEF TypeOK
<1>1. w \notin asleep /\ w \notin Threads
  BY ThreadAssumption DEF WorkerStep, Take, DrainEmpty, DrainPop, HandlerEnter,
     HandlerReturn, Reschedule, NestedResume, NestedClose, NoLostWakeup, WorkerBlocked
<1>2. /\ asleep' \subseteq asleep \cup {w}
      /\ tpc' = tpc /\ td' = td
      /\ \A v \in Workers \ {w} : wpc'[v] = wpc[v] /\ wt'[v] = wt[v]
  <2>1. CASE Take(w) \/ DrainEmpty(w) \/ HandlerEnter(w) \/ Reschedule(w)
    BY <2>1 DEF Take, DrainEmpty, HandlerEnter, Reschedule, threadVars
  <2>2. CASE DrainPop(w) \/ HandlerReturn(w)
    BY <2>2 DEF DrainPop, HandlerReturn, Notify, threadVars
  <2>3. CASE NestedResume(w)
    BY <2>3 DEF NestedResume, NestedWait, threadVars
  <2>4. CASE NestedClose(w)
    BY <2>4 DEF NestedClose, NestedWait, Notify, threadVars
  <2> QED BY <2>1, <2>2, <2>3, <2>4 DEF WorkerStep
<1>3. PICK d \in Dispatchers : d = wd[w]
  OBVIOUS
<1>4. Undisturbed(w, {})
  BY <1>1, <1>2 DEF Undisturbed
<1>5. CASE Take(w) \/ HandlerEnter(w) \/ Reschedule(w)
  <2>1. StillBlocked({})
    BY <1>5, SameBlocked DEF Take, HandlerEnter, Reschedule, queueVars
  <2>2. ActorBlocked(w)
    BY <1>1, <1>5 DEF Take, HandlerEnter, Reschedule, ActorBlocked
  <2> QED BY <1>4, <2>1, <2>2, WakeFrame
<1>6. CASE DrainEmpty(w)
  <2>1. Draining(w, d) /\ ~InCallback(w, d)
    BY <1>3, <1>6 DEF DrainEmpty, Draining, InCallback
  <2>2. \A v \in Workers : ~InCallback(v, d)
    BY <2>1 DEF DispatchInv, TokenUnique, Draining, InCallback
  <2>3. ~scheduled[d]
    BY <1>3, <1>6, <2>2
       DEF DispatchInv, ExecutingExact, NoStrandedEvents, CloseBlocked, DrainEmpty
  <2>4. StillBlocked({})
    BY <1>3, <1>6, <2>3, SameBlocked DEF DrainEmpty
  <2>5. ActorBlocked(w)
    BY <1>1, <1>6 DEF DrainEmpty, ActorBlocked
  <2> QED BY <1>4, <2>4, <2>5, WakeFrame
<1>7. CASE DrainPop(w) \/ HandlerReturn(w)
  <2>1. asleep' = Notify(d)
    BY <1>3, <1>7 DEF DrainPop, HandlerReturn
  <2>2. StillBlocked({d})
    BY <1>3, <1>7, SameBlocked DEF DrainPop, HandlerReturn
  <2>3. Undisturbed(w, {d})
    BY <1>1, <1>2, <2>1, NotifyWakes DEF Undisturbed
  <2>4. ActorBlocked(w)
    BY <1>1, <2>1 DEF Notify, ActorBlocked
  <2> QED BY <2>2, <2>3, <2>4, WakeFrame
<1>8. CASE NestedClose(w)
  <2>1. PICK c \in Dispatchers : /\ closed' = [closed EXCEPT ![c] = TRUE]
                                 /\ NestedWait(w, c, Notify(c))
    BY <1>8 DEF NestedClose
  <2>2. StillBlocked({c})
    BY <2>1, SameBlocked DEF NestedWait
  <2>3. asleep' \subseteq Notify(c) \cup {w}
    BY <2>1 DEF NestedWait
  <2>4. Undisturbed(w, {c})
    BY <1>1, <1>2, <2>3, NotifyWakes DEF Undisturbed
  <2>5. ActorBlocked(w)
    BY <1>1, <2>1 DEF NestedWait, CloseBlocked, Notify, WorkerBlocked, ActorBlocked
  <2> QED BY <2>2, <2>4, <2>5, WakeFrame
<1>9. CASE NestedResume(w)
  <2>1. PICK c \in Dispatchers : c = wt[w] /\ NestedWait(w, c, asleep)
    BY <1>9 DEF NestedResume
  <2>2. UNCHANGED <<closed, events, executing, scheduled>>
    BY <1>9, <2>1 DEF NestedResume, NestedWait
  <2>3. StillBlocked({})
    BY <2>2, SameBlocked
  <2>4. ActorBlocked(w)
    BY <1>1, <2>1, <2>2 DEF NestedWait, CloseBlocked, WorkerBlocked, ActorBlocked
  <2> QED BY <1>4, <2>3, <2>4, WakeFrame
<1> QED BY <1>5, <1>6, <1>7, <1>8, <1>9 DEF WorkerStep

LEMMA WakeStep ==
    TypeOK /\ DispatchInv /\ NoStrandedEvents /\ NoLostWakeup /\ [Next]_vars
      => NoLostWakeup'
<1> SUFFICES ASSUME TypeOK, DispatchInv, NoStrandedEvents, NoLostWakeup, [Next]_vars
             PROVE  NoLostWakeup'
  OBVIOUS
<1>1. CASE UNCHANGED vars
  BY <1>1 DEF vars, queueVars, threadVars, workerVars, NoLostWakeup, ThreadBlocked,
     WorkerBlocked, BarrierBlocked, CloseBlocked, TaskBlocked
<1>2. ASSUME NEW t \in SdkThreads, SdkStep(t) PROVE NoLostWakeup'
  BY <1>2, WakePost, WakeTask, WakeRefused DEF SdkStep, Refused, Threads
<1>3. ASSUME NEW t \in AppThreads, AppStep(t) PROVE NoLostWakeup'
  BY <1>3, WakeThread DEF AppStep, Threads
<1>4. ASSUME NEW t \in Threads, ThreadContinue(t) PROVE NoLostWakeup'
  BY <1>4, WakeThread, WakeTask, WakeRefused DEF ThreadContinue, Refused
<1>5. ASSUME NEW w \in Workers, WorkerStep(w) \/ NestedClose(w) PROVE NoLostWakeup'
  BY <1>5, WakeWorker
<1> QED BY <1>1, <1>2, <1>3, <1>4, <1>5 DEF Next

\* Whoever sleeps in barrier(), close() or post_native_task() still has to.
THEOREM NoWakeupLost == Spec => []NoLostWakeup
<1>1. Init => NoLostWakeup
  BY DEF Init, NoLostWakeup
<1> QED BY <1>1, TypeInit, TypeStep, SerialInit, SerialStep, EventsAreNotStranded,
        WakeStep, PTL DEF Spec

\* Neither an accepted event nor a sleeper is forgotten.
THEOREM NothingIsStranded == Spec => []NothingStranded
BY EventsAreNotStranded, NoWakeupLost, PTL DEF NothingStranded

-----------------------------------------------------------------------------
(* Queues: what an append, a removal and an overwrite do to the events of    *)
(* one kind.                                                                 *)

\* Where a position of a queue without its n-th event was in the full queue.
Shift(n, i) == IF i < n THEN i ELSE i + 1

Deleted(q, r, n) ==
    /\ r \in Seq(Event)
    /\ Len(r) = Len(q) - 1
    /\ \A i \in 1 .. Len(r) : r[i] = q[Shift(n, i)]

LEMMA TailDeletes ==
    ASSUME NEW q \in Seq(Event), q # <<>>
    PROVE  1 \in 1 .. Len(q) /\ Head(q) = q[1] /\ Deleted(q, Tail(q), 1)
<1>1. Len(q) \in Nat /\ Len(q) # 0 /\ DOMAIN q = 1 .. Len(q)
  BY EmptySeq, LenProperties
<1>2. /\ Tail(q) \in Seq(Event) /\ Len(Tail(q)) = Len(q) - 1
      /\ \A i \in 1 .. Len(Tail(q)) : Tail(q)[i] = q[i + 1]
  BY HeadTailProperties
<1>3. \A i \in 1 .. Len(Tail(q)) : Shift(1, i) = i + 1
  BY <1>1, <1>2 DEF Shift
<1> QED BY <1>1, <1>2, <1>3 DEF Deleted

LEMMA RemoveAtDeletes ==
    ASSUME NEW q \in Seq(Event), NEW n \in 1 .. Len(q)
    PROVE  Deleted(q, RemoveAt(q, n), n)
<1> DEFINE a == SubSeq(q, 1, n - 1)
           b == SubSeq(q, n + 1, Len(q))
<1>0. Len(q) \in Nat /\ n \in Nat /\ 1 <= n /\ n <= Len(q)
  OBVIOUS
<1>1. /\ a \in Seq(Event) /\ Len(a) = n - 1
      /\ \A i \in 1 .. n - 1 : a[i] = q[i]
  BY SubSeqProperties
<1>2. /\ b \in Seq(Event) /\ Len(b) = Len(q) - n
      /\ \A i \in 1 .. Len(q) - n : b[i] = q[n + i]
  <2>1. b \in Seq(Event) /\ Len(b) = Len(q) - n
    BY SubSeqProperties
  <2>2. ASSUME NEW i \in 1 .. Len(q) - n PROVE b[i] = q[n + i]
    BY <1>0, <2>1, SubSeqProperties
  <2> QED BY <2>1, <2>2
<1>3. /\ Len(a \o b) = Len(a) + Len(b)
      /\ \A i \in 1 .. Len(a) + Len(b) :
            (a \o b)[i] = IF i <= Len(a) THEN a[i] ELSE b[i - Len(a)]
  BY <1>1, <1>2, ConcatProperties
<1>4. RemoveAt(q, n) = a \o b /\ RemoveAt(q, n) \in Seq(Event)
  BY RemoveAtType DEF RemoveAt
<1> HIDE DEF a, b
<1>5. Len(a \o b) = Len(q) - 1
  BY <1>0, <1>1, <1>2, <1>3
<1>6. ASSUME NEW i \in 1 .. Len(q) - 1 PROVE (a \o b)[i] = q[Shift(n, i)]
  <2>1. CASE i < n
    BY <2>1, <1>0, <1>1, <1>2, <1>3 DEF Shift
  <2>2. CASE ~(i < n)
    <3>1. (a \o b)[i] = b[i - (n - 1)]
      BY <2>2, <1>0, <1>1, <1>2, <1>3
    <3>2. i - (n - 1) \in 1 .. Len(q) - n
      BY <2>2, <1>0
    <3>3. b[i - (n - 1)] = q[n + (i - (n - 1))]
      BY <3>2, <1>2
    <3>4. n + (i - (n - 1)) = i + 1
      BY <1>0
    <3> QED BY <3>1, <3>3, <3>4, <2>2 DEF Shift
  <2> QED BY <2>1, <2>2
<1> QED BY <1>4, <1>5, <1>6 DEF Deleted

\* Renumbering positions keeps their number.
LEMMA ShiftCard ==
    ASSUME NEW n \in Nat, NEW A \in SUBSET Nat, NEW B \in SUBSET Nat, IsFiniteSet(A),
           \A i \in A : Shift(n, i) \in B,
           \A j \in B : \E i \in A : Shift(n, i) = j
    PROVE  IsFiniteSet(B) /\ Cardinality(B) = Cardinality(A)
<1> DEFINE f == [i \in A |-> Shift(n, i)]
<1>1. f \in [A -> B]
  OBVIOUS
<1>2. \A x, y \in A : f[x] = f[y] => x = y
  BY DEF Shift
<1>3. \A y \in B : \E x \in A : f[x] = y
  OBVIOUS
<1>4. f \in Bijection(A, B)
  <2>1. DOMAIN f = A
    OBVIOUS
  <2> HIDE DEF f
  <2> QED BY <1>1, <1>2, <1>3, <2>1 DEF Bijection, Injection, Surjection, IsInjective
<1> QED BY <1>4, FS_Bijection DEF ExistsBijection

LEMMA ShiftPositions ==
    ASSUME NEW q \in Seq(Event), NEW r, NEW n \in 1 .. Len(q), Deleted(q, r, n), NEW k
    PROVE  /\ \A i \in Positions(r, k) :
                 Shift(n, i) \in Positions(q, k) \ {n} /\ r[i] = q[Shift(n, i)]
           /\ \A j \in Positions(q, k) \ {n} :
                 \E i \in Positions(r, k) : Shift(n, i) = j
<1>0. /\ Len(q) \in Nat /\ n \in Nat /\ DOMAIN q = 1 .. Len(q)
      /\ Len(r) = Len(q) - 1 /\ DOMAIN r = 1 .. Len(r)
      /\ \A i \in 1 .. Len(r) : r[i] = q[Shift(n, i)]
  BY LenProperties DEF Deleted
<1>1. ASSUME NEW i \in Positions(r, k)
      PROVE  Shift(n, i) \in Positions(q, k) \ {n} /\ r[i] = q[Shift(n, i)]
  <2>1. i \in 1 .. Len(r) /\ r[i].kind = k /\ r[i] = q[Shift(n, i)]
    BY <1>0 DEF Positions
  <2>2. Shift(n, i) \in 1 .. Len(q) /\ Shift(n, i) # n
    BY <1>0, <2>1 DEF Shift
  <2> QED BY <1>0, <2>1, <2>2 DEF Positions
<1>2. ASSUME NEW j \in Positions(q, k) \ {n}
      PROVE  \E i \in Positions(r, k) : Shift(n, i) = j
  <2>1. j \in 1 .. Len(q) /\ q[j].kind = k /\ j # n
    BY <1>0 DEF Positions
  <2> DEFINE i == IF j < n THEN j ELSE j - 1
  <2>2. i \in 1 .. Len(r) /\ Shift(n, i) = j
    BY <1>0, <2>1 DEF Shift
  <2>3. i \in Positions(r, k)
    <3> HIDE DEF i
    <3> QED BY <1>0, <2>1, <2>2 DEF Positions
  <2> QED BY <2>2, <2>3
<1> QED BY <1>1, <1>2

\* A removal takes one event of its kind away and none of another.
LEMMA CountDeleted ==
    ASSUME NEW q \in Seq(Event), NEW r, NEW n \in 1 .. Len(q), Deleted(q, r, n), NEW k
    PROVE  Count(q, k) = Count(r, k) + IF q[n].kind = k THEN 1 ELSE 0
<1>1. /\ Positions(q, k) \in SUBSET Nat /\ IsFiniteSet(Positions(q, k))
      /\ Positions(r, k) \in SUBSET Nat /\ IsFiniteSet(Positions(r, k))
      /\ Count(r, k) \in Nat
  BY PositionsFinite DEF Deleted
<1>2. Cardinality(Positions(q, k) \ {n}) = Cardinality(Positions(r, k))
  <2> DEFINE A == Positions(r, k)
             B == Positions(q, k) \ {n}
  <2>1. /\ n \in Nat /\ A \in SUBSET Nat /\ B \in SUBSET Nat /\ IsFiniteSet(A)
        /\ \A i \in A : Shift(n, i) \in B
        /\ \A j \in B : \E i \in A : Shift(n, i) = j
    BY <1>1, ShiftPositions
  <2> HIDE DEF A, B
  <2>2. Cardinality(B) = Cardinality(A)
    BY <2>1, ShiftCard
  <2> QED BY <2>2 DEF A, B
<1>3. n \in Positions(q, k) <=> q[n].kind = k
  BY LenProperties DEF Positions
<1>4. /\ Cardinality(Positions(q, k) \ {n}) =
           IF n \in Positions(q, k) THEN Cardinality(Positions(q, k)) - 1
                                    ELSE Cardinality(Positions(q, k))
      /\ Cardinality(Positions(q, k)) \in Nat
  BY <1>1, FS_RemoveElement, FS_CardinalityType
<1> QED BY <1>1, <1>2, <1>3, <1>4 DEF Count

LEMMA AppendedPositions ==
    ASSUME NEW q \in Seq(Event), NEW e \in Event, NEW k
    PROVE  /\ Len(q) \in Nat
           /\ DOMAIN q = 1 .. Len(q)
           /\ DOMAIN Append(q, e) = 1 .. Len(q) + 1
           /\ \A i \in 1 .. Len(q) : Append(q, e)[i] = q[i]
           /\ Append(q, e)[Len(q) + 1] = e
           /\ Positions(Append(q, e), k) =
                Positions(q, k) \cup (IF e.kind = k THEN {Len(q) + 1} ELSE {})
           /\ Count(Append(q, e), k) = Count(q, k) + IF e.kind = k THEN 1 ELSE 0
<1>1. /\ Len(q) \in Nat
      /\ DOMAIN q = 1 .. Len(q)
      /\ DOMAIN Append(q, e) = 1 .. Len(q) + 1
      /\ \A i \in 1 .. Len(q) : Append(q, e)[i] = q[i]
      /\ Append(q, e)[Len(q) + 1] = e
  OBVIOUS
<1>2. Positions(Append(q, e), k) =
        Positions(q, k) \cup (IF e.kind = k THEN {Len(q) + 1} ELSE {})
  BY <1>1 DEF Positions
<1>3. IsFiniteSet(Positions(q, k)) /\ Count(q, k) \in Nat /\ Len(q) + 1 \notin Positions(q, k)
  BY <1>1, PositionsFinite DEF Positions
<1>4. Count(Append(q, e), k) = Count(q, k) + IF e.kind = k THEN 1 ELSE 0
  <2>1. CASE e.kind = k
    <3>1. Positions(Append(q, e), k) = Positions(q, k) \cup {Len(q) + 1}
      BY <1>2, <2>1
    <3>2. Cardinality(Positions(q, k) \cup {Len(q) + 1}) = Cardinality(Positions(q, k)) + 1
      BY <1>3, FS_AddElement
    <3> QED BY <2>1, <3>1, <3>2 DEF Count
  <2>2. CASE e.kind # k
    BY <1>2, <1>3, <2>2 DEF Count
  <2> QED BY <2>1, <2>2
<1> QED BY <1>1, <1>2, <1>4

\* Overwriting an event with one of its kind moves no event.
LEMMA ReplacedPositions ==
    ASSUME NEW q \in Seq(Event), NEW i \in 1 .. Len(q), NEW e \in Event,
           e.kind = q[i].kind
    PROVE  /\ DOMAIN ReplaceAt(q, i, e) = DOMAIN q
           /\ ReplaceAt(q, i, e)[i] = e
           /\ \A j \in DOMAIN q \ {i} : ReplaceAt(q, i, e)[j] = q[j]
           /\ \A k : /\ Positions(ReplaceAt(q, i, e), k) = Positions(q, k)
                     /\ Count(ReplaceAt(q, i, e), k) = Count(q, k)
<1>1. /\ DOMAIN ReplaceAt(q, i, e) = DOMAIN q
      /\ ReplaceAt(q, i, e)[i] = e
      /\ \A j \in DOMAIN q \ {i} : ReplaceAt(q, i, e)[j] = q[j]
  BY DEF ReplaceAt
<1>2. \A k : Positions(ReplaceAt(q, i, e), k) = Positions(q, k)
  BY <1>1 DEF Positions
<1> QED BY <1>1, <1>2 DEF Count

\* A nonempty set of positions has a last one.
LEMMA MaxPosition ==
    ASSUME NEW m \in Nat, NEW S \in SUBSET (1 .. m), S # {}
    PROVE  Max(S) \in S
<1> DEFINE D == {m - i : i \in S}
<1>0. \A i \in S : i \in Nat /\ m - i \in Nat
  OBVIOUS
<1>1. D \in SUBSET Nat /\ D # {}
  BY <1>0
<1>2. \E x \in D : \A y \in D : x <= y
  <2> HIDE DEF D
  <2> QED BY <1>1, LeastNatural
<1>3. PICK i \in S : \A j \in S : m - i <= m - j
  BY <1>2
<1>4. \A j \in S : i >= j
  BY <1>0, <1>3
<1> QED BY <1>4 DEF Max

\* What discard() keeps, event by event.
LEMMA KeptEvents ==
    ASSUME NEW q \in Seq(Event), NEW k
    PROVE  /\ OfKind(q, k) \in Seq(Event)
           /\ DOMAIN OfKind(q, k) = 1 .. Count(q, k)
           /\ Len(OfKind(q, k)) = Count(q, k)
           /\ Count(q, k) \in Nat
           /\ \A j \in 1 .. Count(q, k) : \E p \in Positions(q, k) :
                 /\ OfKind(q, k)[j] = q[p]
                 /\ Cardinality({x \in Positions(q, k) : x < p}) = j - 1
<1> DEFINE P == Positions(q, k)
           at(j) == CHOOSE i \in P : Cardinality({x \in P : x < i}) = j - 1
<1>1. P \in SUBSET (1 .. Len(q)) /\ IsFiniteSet(P) /\ Count(q, k) \in Nat
  BY PositionsFinite
<1>2. ASSUME NEW j \in 1 .. Count(q, k)
      PROVE  at(j) \in P /\ Cardinality({x \in P : x < at(j)}) = j - 1
  <2>1. P \in SUBSET Nat /\ j - 1 \in Nat /\ j - 1 < Cardinality(P)
    BY <1>1 DEF Count
  <2>2. \E i \in P : Cardinality({x \in P : x < i}) = j - 1
    BY <2>1, <1>1, NthElement
  <2> HIDE DEF P
  <2> QED BY <2>2
<1>3. OfKind(q, k) = [j \in 1 .. Count(q, k) |-> q[at(j)]]
  BY DEF OfKind
<1>4. OfKind(q, k) \in Seq(Event) /\ Len(OfKind(q, k)) = Count(q, k)
  <2>1. \A j \in 1 .. Count(q, k) : q[at(j)] \in Event
    <3>1. \A j \in 1 .. Count(q, k) : at(j) \in P
      BY <1>2
    <3> HIDE DEF at
    <3> QED BY <1>1, <3>1
  <2> HIDE DEF at
  <2> QED BY <1>1, <1>3, <2>1
<1>5. ASSUME NEW j \in 1 .. Count(q, k)
      PROVE  \E p \in P : /\ OfKind(q, k)[j] = q[p]
                          /\ Cardinality({x \in P : x < p}) = j - 1
  <2>1. OfKind(q, k)[j] = q[at(j)]
    BY <1>3
  <2> HIDE DEF at
  <2> QED BY <2>1, <1>2
<1> QED BY <1>1, <1>3, <1>4, <1>5

LEMMA KeptElements ==
    ASSUME NEW q \in Seq(Event), NEW k
    PROVE  \A j \in DOMAIN OfKind(q, k) : \E p \in 1 .. Len(q) :
              q[p].kind = k /\ OfKind(q, k)[j] = q[p]
<1> SUFFICES ASSUME NEW j \in DOMAIN OfKind(q, k)
             PROVE  \E p \in 1 .. Len(q) : q[p].kind = k /\ OfKind(q, k)[j] = q[p]
  OBVIOUS
<1>1. j \in 1 .. Count(q, k)
  BY KeptEvents
<1>2. PICK p \in Positions(q, k) : OfKind(q, k)[j] = q[p]
  <2>1. \A i \in 1 .. Count(q, k) : \E p \in Positions(q, k) :
           /\ OfKind(q, k)[i] = q[p]
           /\ Cardinality({x \in Positions(q, k) : x < p}) = i - 1
    BY KeptEvents
  <2> QED BY <1>1, <2>1
<1>3. p \in 1 .. Len(q) /\ q[p].kind = k
  BY PositionsFinite DEF Positions
<1> QED BY <1>2, <1>3

-----------------------------------------------------------------------------
(* What a step may do to the queues.                                         *)

\* A native thread waits only with a task, on a dispatcher that delivers tasks.
TasksPosted ==
    \A t \in Threads : tpc[t] = "ntask" =>
        "native_task" \in Emits[td[t]] /\ ttask[t] \in Tasks

\* A dispatcher queues only what its sinks receive, and only the events of
\* native tasks hold a task.
KindsEmitted ==
    /\ \A d \in Dispatchers : \A i \in DOMAIN events[d] :
          /\ events[d][i].kind \in Emits[d]
          /\ events[d][i].kind = "native_task" <=> events[d][i].val \in Tasks
    /\ \A w \in Workers : wpc[w] = "popped" =>
          (wev[w].kind = "native_task" <=> wev[w].val \in Tasks)

LEMMA PostedStep == TypeOK /\ TasksPosted /\ [Next]_vars => TasksPosted'
<1> SUFFICES ASSUME TypeOK, TasksPosted, [Next]_vars PROVE TasksPosted'
  OBVIOUS
<1> USE DEF TypeOK, TasksPosted
<1>1. CASE UNCHANGED vars
  BY <1>1 DEF vars, threadVars
<1>2. ASSUME NEW t \in SdkThreads, Post(t) PROVE TasksPosted'
  <2>1. PICK d \in Dispatchers : \E e \in Offers(d) :
           PostReplace(d, e) \/ PostDropFrame(d, e) \/ PostAppend(t, d, e)
    BY <1>2 DEF Post
  <2>2. /\ ttask' = ttask
        /\ \A u \in Threads : tpc'[u] = "ntask" => tpc[u] = "ntask" /\ td'[u] = td[u]
    BY <1>2, <2>1 DEF Post, PostReplace, PostDropFrame, PostAppend, Schedule, threadVars
  <2> QED BY <2>2
<1>3. ASSUME NEW t \in Threads, PostNativeTask(t) \/ ResumeTask(t) PROVE TasksPosted'
  <2>1. PICK d \in Dispatchers, k \in Tasks :
           TaskStep(t, d, k) /\ "native_task" \in Emits[d]
    <3>1. CASE PostNativeTask(t)
      BY <3>1 DEF PostNativeTask
    <3>2. CASE ResumeTask(t)
      BY <3>2 DEF ResumeTask
    <3> QED BY <1>3, <3>1, <3>2
  <2>2. /\ \A u \in Threads \ {t} :
              tpc'[u] = tpc[u] /\ td'[u] = td[u] /\ ttask'[u] = ttask[u]
        /\ tpc'[t] = "ntask" => td'[t] = d /\ ttask'[t] = k
    BY <2>1 DEF TaskStep, TaskReject, TaskWait, TaskAppend, Schedule
  <2> QED BY <2>1, <2>2
<1>4. ASSUME NEW t \in Threads,
             \/ PutReady(t) \/ Barrier(t) \/ Close(t) \/ ResumeWait(t)
             \/ Collect(t) \/ Discard(t)
      PROVE  TasksPosted'
  <2>1. /\ ttask' = ttask
        /\ \A u \in Threads : tpc'[u] = "ntask" => tpc[u] = "ntask" /\ td'[u] = td[u]
    BY <1>4 DEF PutReady, Barrier, Close, ResumeWait, Collect, Discard, WaitStep
  <2> QED BY <2>1
<1>5. ASSUME NEW w \in Workers, WorkerStep(w) \/ NestedClose(w) PROVE TasksPosted'
  <2>1. UNCHANGED threadVars
    BY <1>5 DEF WorkerStep, Take, DrainEmpty, DrainPop, HandlerEnter, HandlerReturn,
       Reschedule, NestedResume, NestedClose, NestedWait
  <2> QED BY <2>1 DEF threadVars
<1>6. ASSUME NEW t \in Threads, Refused(t) PROVE TasksPosted'
  <2>1. /\ ttask' = ttask
        /\ \A u \in Threads : tpc'[u] = "ntask" => tpc[u] = "ntask" /\ td'[u] = td[u]
    BY <1>6, RefusedMoves
  <2> QED BY <2>1
<1> QED BY <1>1, <1>2, <1>3, <1>4, <1>5, <1>6
    DEF Next, SdkStep, AppStep, ThreadContinue, Threads, Refused

\* The queues change in five actions only.
LEMMA QueueMoves ==
    ASSUME TypeOK, TasksPosted, [Next]_vars
    PROVE  \/ UNCHANGED <<events, frameCount, newest>>
           \/ \E d \in Dispatchers : \E e \in Offers(d) : PostReplace(d, e)
           \/ \E t \in SdkThreads, d \in Dispatchers : \E e \in Offers(d) :
                 PostAppend(t, d, e)
           \/ \E t \in Threads, d \in Dispatchers, k \in Tasks :
                 "native_task" \in Emits[d] /\ TaskStep(t, d, k) /\ TaskAppend(t, d, k)
           \/ \E t \in AppThreads : Discard(t)
           \/ \E w \in Workers : DrainPop(w)
<1> USE DEF TypeOK, TasksPosted
<1>1. CASE UNCHANGED vars
  BY <1>1 DEF vars, queueVars, frameVars
<1>2. ASSUME NEW t \in SdkThreads, Post(t)
      PROVE  \/ UNCHANGED <<events, frameCount, newest>>
             \/ \E d \in Dispatchers : \E e \in Offers(d) : PostReplace(d, e)
             \/ \E d \in Dispatchers : \E e \in Offers(d) : PostAppend(t, d, e)
  BY <1>2 DEF Post, PostDropFrame
<1>3. ASSUME NEW t \in Threads, PostNativeTask(t) \/ ResumeTask(t)
      PROVE  \/ UNCHANGED <<events, frameCount, newest>>
             \/ \E d \in Dispatchers, k \in Tasks :
                  "native_task" \in Emits[d] /\ TaskStep(t, d, k) /\ TaskAppend(t, d, k)
  <2>1. PICK d \in Dispatchers, k \in Tasks :
           TaskStep(t, d, k) /\ "native_task" \in Emits[d]
    <3>1. CASE PostNativeTask(t)
      BY <3>1 DEF PostNativeTask
    <3>2. CASE ResumeTask(t)
      BY <3>2 DEF ResumeTask
    <3> QED BY <1>3, <3>1, <3>2
  <2>2. TaskAppend(t, d, k) \/ UNCHANGED <<events, frameCount, newest>>
    BY <2>1 DEF TaskStep, TaskReject, TaskWait, queueVars, frameVars
  <2> QED BY <2>1, <2>2
<1>4. ASSUME NEW t \in Threads,
             PutReady(t) \/ Barrier(t) \/ Close(t) \/ ResumeWait(t) \/ Collect(t)
      PROVE  UNCHANGED <<events, frameCount, newest>>
  BY <1>4 DEF PutReady, Barrier, Close, ResumeWait, Collect, queueVars, frameVars
<1>5. ASSUME NEW w \in Workers, WorkerStep(w) \/ NestedClose(w)
      PROVE  DrainPop(w) \/ UNCHANGED <<events, frameCount, newest>>
  BY <1>5 DEF WorkerStep, Take, DrainEmpty, HandlerEnter, HandlerReturn, Reschedule,
     NestedResume, NestedClose, NestedWait, queueVars, frameVars
<1>10. ASSUME NEW t \in Threads, Refused(t)
       PROVE  UNCHANGED <<events, frameCount, newest>>
  BY <1>10, RefusedMoves DEF frameVars
<1>6. CASE \E t \in SdkThreads : SdkStep(t)
  <2>1. PICK t \in SdkThreads : Post(t) \/ PostNativeTask(t) \/ Refused(t)
    BY <1>6 DEF SdkStep, Refused
  <2> QED BY <2>1, <1>2, <1>3, <1>10 DEF Threads
<1>7. CASE \E t \in AppThreads : AppStep(t)
  <2>1. PICK t \in AppThreads : Barrier(t) \/ Close(t) \/ Collect(t) \/ Discard(t)
    BY <1>7 DEF AppStep
  <2> QED BY <2>1, <1>4 DEF Threads
<1>8. CASE \E t \in Threads : ThreadContinue(t)
  <2>1. PICK t \in Threads : ResumeTask(t) \/ PutReady(t) \/ ResumeWait(t) \/ Refused(t)
    BY <1>8 DEF ThreadContinue, Refused
  <2> QED BY <2>1, <1>3, <1>4, <1>10
<1>9. CASE \E w \in Workers : WorkerStep(w) \/ NestedClose(w)
  BY <1>9, <1>5
<1> QED BY <1>1, <1>6, <1>7, <1>8, <1>9 DEF Next

\* Making room evicts the first event that is not terminal, if any.
LEMMA RoomDeletes ==
    ASSUME NEW d \in Dispatchers, events[d] \in Seq(Event)
    PROVE  \/ /\ Room(d) = events[d]
              /\ ~EvictsFrame(d)
              /\ Len(events[d]) >= Capacity => Evictable(d) = {}
           \/ \E n \in 1 .. Len(events[d]) :
                 /\ events[d][n].kind \notin TerminalKinds
                 /\ EvictsFrame(d) <=> events[d][n].kind = "frame"
                 /\ Deleted(events[d], Room(d), n)
<1>1. CASE ~(Len(events[d]) >= Capacity /\ Evictable(d) # {})
  BY <1>1 DEF Room, EvictsFrame
<1>2. CASE Len(events[d]) >= Capacity /\ Evictable(d) # {}
  <2> DEFINE n == Min(Evictable(d))
  <2>1. Evictable(d) \in SUBSET (1 .. Len(events[d]))
    BY DEF Evictable
  <2>2. n \in Evictable(d)
    BY <1>2, <2>1, MinPosition
  <2>3. n \in 1 .. Len(events[d]) /\ events[d][n].kind \notin TerminalKinds
    BY <2>1, <2>2 DEF Evictable
  <2>4. EvictsFrame(d) <=> events[d][n].kind = "frame"
    BY <1>2 DEF EvictsFrame
  <2>5. Room(d) = RemoveAt(events[d], n)
    BY <1>2 DEF Room
  <2> HIDE DEF n
  <2> QED BY <2>3, <2>4, <2>5, RemoveAtDeletes
<1> QED BY <1>1, <1>2

\* The event post() appends.
Entry(d, e) == [e EXCEPT !.mark = @ \/ (e.kind = "frame" /\ dropped[d])]

LEMMA EntryFields ==
    ASSUME TypeOK, NEW d \in Dispatchers, NEW e \in Offers(d)
    PROVE  /\ e \in Event /\ e.kind \in Emits[d] /\ e.kind # "native_task"
           /\ e.val \notin Tasks
           /\ Entry(d, e) \in Event
           /\ Entry(d, e).kind = e.kind /\ Entry(d, e).val = e.val
           /\ e.kind = "frame" /\ dropped[d] => Entry(d, e).mark
<1>1. e \in Event /\ e.kind \in Emits[d] /\ e.kind # "native_task"
  BY DEF Offers
<1>2. e.val \notin Tasks
  BY PayloadAssumption DEF Offers
<1>3. /\ Entry(d, e) \in Event
      /\ Entry(d, e).kind = e.kind /\ Entry(d, e).val = e.val
      /\ Entry(d, e).mark = (e.mark \/ (e.kind = "frame" /\ dropped[d]))
  BY <1>1 DEF Entry, Event, TypeOK
<1> QED BY <1>1, <1>2, <1>3

TaskEvent(k) == [kind |-> "native_task", val |-> k, mark |-> FALSE]

LEMMA TaskEventFields ==
    ASSUME NEW k \in Tasks
    PROVE  TaskEvent(k) \in Event /\ TaskEvent(k).kind = "native_task" /\ TaskEvent(k).val = k
BY DEF TaskEvent, Event, Kinds, TerminalKinds, Payloads

\* The position a newer state event overwrites.
LEMMA ReplacedPosition ==
    ASSUME NEW d \in Dispatchers, events[d] \in Seq(Event), NEW k, Replaceable(d, k) # {}
    PROVE  /\ Max(Replaceable(d, k)) \in 1 .. Len(events[d])
           /\ events[d][Max(Replaceable(d, k))].kind = k
           /\ k \in LatestKinds
<1>1. Replaceable(d, k) \in SUBSET (1 .. Len(events[d])) /\ Len(events[d]) \in Nat
  BY DEF Replaceable
<1>2. Max(Replaceable(d, k)) \in Replaceable(d, k)
  BY <1>1, MaxPosition
<1> QED BY <1>1, <1>2 DEF Replaceable

-----------------------------------------------------------------------------
(* Kinds.                                                                    *)

Proper(d, e) == e.kind \in Emits[d] /\ (e.kind = "native_task" <=> e.val \in Tasks)

\* The events of a step's queues are those of the queues before it, in which
\* one event may be new.
LEMMA KindsQueued ==
    ASSUME TypeOK, TasksPosted, KindsEmitted, [Next]_vars
    PROVE  \A d \in Dispatchers : \A i \in DOMAIN events'[d] : Proper(d, events'[d][i])
<1>0. /\ events \in [Dispatchers -> Seq(Event)]
      /\ \A d \in Dispatchers : DOMAIN events[d] = 1 .. Len(events[d])
      /\ \A d \in Dispatchers : \A i \in DOMAIN events[d] : Proper(d, events[d][i])
  BY DEF TypeOK, KindsEmitted, Proper
<1>1. CASE UNCHANGED <<events, frameCount, newest>>
  BY <1>0, <1>1
<1>2. ASSUME NEW d \in Dispatchers, NEW e \in Offers(d), PostReplace(d, e)
      PROVE  \A c \in Dispatchers : \A i \in DOMAIN events'[c] : Proper(c, events'[c][i])
  <2> DEFINE n == Max(Replaceable(d, e.kind))
  <2>1. n \in 1 .. Len(events[d]) /\ events[d][n].kind = e.kind
    BY <1>0, <1>2, ReplacedPosition DEF PostReplace
  <2>2. events' = [events EXCEPT ![d] = ReplaceAt(events[d], n, e)]
    BY <1>2 DEF PostReplace
  <2>3. Proper(d, e) /\ e \in Event
    BY EntryFields DEF Proper
  <2> HIDE DEF n
  <2>4. \A i \in DOMAIN events'[d] : Proper(d, events'[d][i])
    <3>1. events'[d] = ReplaceAt(events[d], n, e) /\ events[d] \in Seq(Event)
      BY <1>0, <2>2
    <3>2. /\ DOMAIN ReplaceAt(events[d], n, e) = DOMAIN events[d]
          /\ ReplaceAt(events[d], n, e)[n] = e
          /\ \A j \in DOMAIN events[d] \ {n} : ReplaceAt(events[d], n, e)[j] = events[d][j]
      BY <2>1, <2>3, <3>1, ReplacedPositions
    <3> QED BY <1>0, <2>3, <3>1, <3>2
  <2> QED BY <1>0, <2>2, <2>4
<1>3. ASSUME NEW t \in SdkThreads, NEW d \in Dispatchers, NEW e \in Offers(d),
             PostAppend(t, d, e)
      PROVE  \A c \in Dispatchers : \A i \in DOMAIN events'[c] : Proper(c, events'[c][i])
  <2>1. events' = [events EXCEPT ![d] = Append(Room(d), Entry(d, e))]
    BY <1>3 DEF PostAppend, Entry
  <2>2. Proper(d, Entry(d, e)) /\ Entry(d, e) \in Event
    BY EntryFields DEF Proper
  <2>3. Room(d) \in Seq(Event)
    BY <1>0, RoomType
  <2>4. \A i \in 1 .. Len(Room(d)) : Proper(d, Room(d)[i])
    <3>1. CASE Room(d) = events[d]
      BY <1>0, <3>1
    <3>2. ASSUME NEW n \in 1 .. Len(events[d]), Deleted(events[d], Room(d), n)
          PROVE  \A i \in 1 .. Len(Room(d)) : Proper(d, Room(d)[i])
      <4>1. \A i \in 1 .. Len(Room(d)) :
               Shift(n, i) \in 1 .. Len(events[d]) /\ Room(d)[i] = events[d][Shift(n, i)]
        BY <1>0, <3>2, Len(events[d]) \in Nat DEF Deleted, Shift
      <4> QED BY <4>1, <1>0
    <3> QED BY <1>0, <3>1, <3>2, RoomDeletes
  <2>5. \A i \in DOMAIN events'[d] : Proper(d, events'[d][i])
    <3>1. events'[d] = Append(Room(d), Entry(d, e))
      BY <1>0, <2>1
    <3>2. /\ Len(Room(d)) \in Nat
          /\ DOMAIN Append(Room(d), Entry(d, e)) = 1 .. Len(Room(d)) + 1
          /\ \A i \in 1 .. Len(Room(d)) : Append(Room(d), Entry(d, e))[i] = Room(d)[i]
          /\ Append(Room(d), Entry(d, e))[Len(Room(d)) + 1] = Entry(d, e)
      BY <2>2, <2>3, AppendedPositions
    <3> QED BY <2>2, <2>4, <3>1, <3>2
  <2> QED BY <1>0, <2>1, <2>5
<1>4. ASSUME NEW t \in Threads, NEW d \in Dispatchers, NEW k \in Tasks,
             "native_task" \in Emits[d], TaskAppend(t, d, k)
      PROVE  \A c \in Dispatchers : \A i \in DOMAIN events'[c] : Proper(c, events'[c][i])
  <2>1. events' = [events EXCEPT ![d] = Append(events[d], TaskEvent(k))]
    BY <1>4 DEF TaskAppend, TaskEvent
  <2>2. Proper(d, TaskEvent(k)) /\ TaskEvent(k) \in Event
    BY <1>4, TaskEventFields DEF Proper
  <2>3. \A i \in DOMAIN events'[d] : Proper(d, events'[d][i])
    BY <1>0, <2>1, <2>2, AppendedPositions
  <2> QED BY <1>0, <2>1, <2>3
<1>5. ASSUME NEW t \in AppThreads, Discard(t)
      PROVE  \A c \in Dispatchers : \A i \in DOMAIN events'[c] : Proper(c, events'[c][i])
  <2>1. PICK d \in Dispatchers : d = td[t]
    BY DEF TypeOK, Threads
  <2>2. events' = [events EXCEPT ![d] = OfKind(events[d], "native_task")]
    BY <1>5, <2>1 DEF Discard
  <2>3. \A i \in DOMAIN events'[d] : Proper(d, events'[d][i])
    <3>1. events[d] \in Seq(Event) /\ events'[d] = OfKind(events[d], "native_task")
      BY <1>0, <2>2
    <3>2. \A i \in DOMAIN events'[d] : \E p \in 1 .. Len(events[d]) : events'[d][i] = events[d][p]
      BY <3>1, KeptElements
    <3> QED BY <1>0, <3>1, <3>2
  <2> QED BY <1>0, <2>2, <2>3
<1>6. ASSUME NEW w \in Workers, DrainPop(w)
      PROVE  \A c \in Dispatchers : \A i \in DOMAIN events'[c] : Proper(c, events'[c][i])
  <2>1. PICK d \in Dispatchers : d = wd[w]
    BY DEF TypeOK
  <2>2. events' = [events EXCEPT ![d] = Tail(events[d])] /\ events[d] # <<>>
    BY <1>6, <2>1 DEF DrainPop
  <2>3. Deleted(events[d], Tail(events[d]), 1)
    BY <1>0, <2>2, TailDeletes
  <2>4. \A i \in 1 .. Len(Tail(events[d])) :
           Shift(1, i) \in 1 .. Len(events[d]) /\ Tail(events[d])[i] = events[d][Shift(1, i)]
    BY <1>0, <2>3, Len(events[d]) \in Nat DEF Deleted, Shift
  <2>5. DOMAIN Tail(events[d]) = 1 .. Len(Tail(events[d]))
    BY <2>3, LenProperties DEF Deleted
  <2>6. \A i \in DOMAIN events'[d] : Proper(d, events'[d][i])
    BY <1>0, <2>2, <2>4, <2>5
  <2> QED BY <1>0, <2>2, <2>6
<1> QED BY <1>1, <1>2, <1>3, <1>4, <1>5, <1>6, QueueMoves

\* A nested close() changes no queue and no event in hand.
LEMMA NestedMoves ==
    ASSUME TypeOK, NEW w \in Workers, NestedResume(w) \/ NestedClose(w)
    PROVE  /\ UNCHANGED <<dropped, events, executing, frameCount, scheduled, ownerVars,
                          ready, wd, wev, threadVars, frameVars, taskVars>>
           /\ \A v \in Workers \ {w} : wpc'[v] = wpc[v]
           /\ wpc[w] # "popped" /\ wpc'[w] # "popped"
<1>1. wpc[w] # "popped" /\ \E d, base : NestedWait(w, d, base)
  <2>1. CASE NestedResume(w)
    BY <2>1 DEF NestedResume
  <2>2. CASE NestedClose(w)
    BY <2>2 DEF NestedClose
  <2> QED BY <2>1, <2>2
<1>2. PICK d, base : NestedWait(w, d, base)
  BY <1>1
<1>3. wpc' = [wpc EXCEPT ![w] = IF CloseBlocked(d) THEN "nested" ELSE "run"]
  BY <1>2 DEF NestedWait
<1>4. UNCHANGED <<dropped, events, executing, frameCount, scheduled, ownerVars,
                  ready, wd, wev, threadVars, frameVars, taskVars>>
  BY <1>2 DEF NestedWait
<1>5. \A v \in Workers \ {w} : wpc'[v] = wpc[v]
  BY <1>3 DEF TypeOK
<1>6. wpc'[w] # "popped"
  BY <1>3 DEF TypeOK
<1> QED BY <1>1, <1>4, <1>5, <1>6

LEMMA KindsStep ==
    TypeOK /\ TasksPosted /\ KindsEmitted /\ [Next]_vars => KindsEmitted'
<1> SUFFICES ASSUME TypeOK, TasksPosted, KindsEmitted, [Next]_vars PROVE KindsEmitted'
  OBVIOUS
<1> USE DEF TypeOK
<1>1. ASSUME NEW w \in Workers, DrainPop(w)
      PROVE  \A v \in Workers : wpc'[v] = "popped" =>
                (wev'[v].kind = "native_task" <=> wev'[v].val \in Tasks)
  <2>1. PICK d \in Dispatchers : d = wd[w]
    OBVIOUS
  <2>2. events[d] # <<>> /\ wev' = [wev EXCEPT ![w] = Head(events[d])]
    BY <1>1, <2>1 DEF DrainPop
  <2>3. Head(events[d]) = events[d][1] /\ 1 \in DOMAIN events[d]
    BY <2>2, TailDeletes
  <2>4. wev'[w].kind = "native_task" <=> wev'[w].val \in Tasks
    BY <2>2, <2>3 DEF KindsEmitted
  <2> QED BY <1>1, <2>2, <2>4 DEF DrainPop, KindsEmitted
<1>2. (\E w \in Workers : DrainPop(w))
        \/ \A v \in Workers : wpc'[v] = "popped" => wpc[v] = "popped" /\ wev'[v] = wev[v]
  <2>1. CASE UNCHANGED vars
    BY <2>1 DEF vars, workerVars
  <2>2. ASSUME NEW t \in SdkThreads, Post(t) PROVE UNCHANGED workerVars
    BY <2>2 DEF Post, PostReplace, PostDropFrame, PostAppend
  <2>3. ASSUME NEW t \in Threads, PostNativeTask(t) \/ ResumeTask(t)
        PROVE  UNCHANGED workerVars
    BY <2>3 DEF PostNativeTask, ResumeTask, TaskStep
  <2>4. ASSUME NEW t \in Threads,
               \/ PutReady(t) \/ Barrier(t) \/ Close(t) \/ ResumeWait(t)
               \/ Collect(t) \/ Discard(t)
        PROVE  UNCHANGED workerVars
    BY <2>4 DEF PutReady, Barrier, Close, ResumeWait, Collect, Discard
  <2>6. ASSUME NEW t \in Threads, Refused(t) PROVE UNCHANGED workerVars
    BY <2>6, RefusedMoves
  <2>5. ASSUME NEW w \in Workers, WorkerStep(w) \/ NestedClose(w), ~DrainPop(w)
        PROVE  \A v \in Workers : wpc'[v] = "popped" => wpc[v] = "popped" /\ wev'[v] = wev[v]
    <3>1. /\ \A v \in Workers \ {w} : wpc'[v] = wpc[v] /\ wev'[v] = wev[v]
          /\ wpc'[w] # "popped"
      <4>1. CASE Take(w) \/ DrainEmpty(w) \/ HandlerEnter(w) \/ Reschedule(w)
        BY <4>1 DEF Take, DrainEmpty, HandlerEnter, Reschedule
      <4>2. CASE HandlerReturn(w)
        BY <4>2 DEF HandlerReturn
      <4>3. CASE NestedResume(w) \/ NestedClose(w)
        BY <4>3, NestedMoves
      <4> QED BY <2>5, <4>1, <4>2, <4>3 DEF WorkerStep
    <3> QED BY <3>1
  <2> QED BY <2>1, <2>2, <2>3, <2>4, <2>5, <2>6
      DEF Next, SdkStep, AppStep, ThreadContinue, Threads, workerVars, Refused
<1>3. \A v \in Workers : wpc'[v] = "popped" =>
         (wev'[v].kind = "native_task" <=> wev'[v].val \in Tasks)
  BY <1>1, <1>2 DEF KindsEmitted
<1> QED BY <1>3, KindsQueued DEF KindsEmitted, Proper

-----------------------------------------------------------------------------
(* The bounds of the queues and of _frame_count.                             *)

Bounded(d) ==
    /\ Len(events[d]) <= Capacity
    /\ frameCount[d] = Count(events[d], "frame")
    /\ frameCount[d] <= FrameCapacity[d]

\* An event is appended to a queue that has room for it: where every event is
\* terminal, all are of the one terminal kind of the dispatcher and so is the
\* new one, if it is terminal.
LEMMA RoomLeft ==
    ASSUME TypeOK, KindsEmitted, NEW d \in Dispatchers, NEW e \in Offers(d),
           Len(events[d]) <= Capacity, ~Rejected(d, e)
    PROVE  /\ Len(Room(d)) \in Nat /\ Len(Room(d)) + 1 <= Capacity
           /\ Len(events[d]) >= Capacity => Evictable(d) # {}
<1>1. events[d] \in Seq(Event) /\ Len(events[d]) \in Nat /\ DOMAIN events[d] = 1 .. Len(events[d])
  BY DEF TypeOK
<1>2. ASSUME Len(events[d]) >= Capacity, Evictable(d) = {} PROVE FALSE
  <2>1. 1 \in DOMAIN events[d] /\ events[d][1].kind \in TerminalKinds
    BY <1>1, <1>2, CapacityAssumption DEF Evictable
  <2>2. events[d][1].kind \in Emits[d] /\ e.kind \in Emits[d]
    BY <2>1, EntryFields DEF KindsEmitted
  <2>3. e.kind \in TerminalKinds => events[d][1].kind = e.kind
    BY <2>1, <2>2, EmitsAssumption
  <2> QED BY <1>2, <2>1, <2>3 DEF Rejected
<1>3. /\ Room(d) \in Seq(Event)
      /\ Len(Room(d)) = IF Len(events[d]) >= Capacity /\ Evictable(d) # {}
                          THEN Len(events[d]) - 1 ELSE Len(events[d])
  BY <1>1, RoomType
<1>4. Len(Room(d)) \in Nat
  BY <1>3
<1> QED BY <1>1, <1>2, <1>3, <1>4, CapacityAssumption

LEMMA BoundsStep ==
    TypeOK /\ TasksPosted /\ KindsEmitted /\ QueueBounds /\ [Next]_vars => QueueBounds'
<1> SUFFICES ASSUME TypeOK, TasksPosted, KindsEmitted, QueueBounds, [Next]_vars
             PROVE  QueueBounds'
  OBVIOUS
<1>0. /\ events \in [Dispatchers -> Seq(Event)] /\ frameCount \in [Dispatchers -> Int]
      /\ FrameCapacity \in [Dispatchers -> Nat \ {0}] /\ Capacity \in Nat \ {0}
      /\ \A d \in Dispatchers : Bounded(d) /\ Len(events[d]) \in Nat
  BY CapacityAssumption DEF TypeOK, QueueBounds, Bounded
<1>1. CASE UNCHANGED <<events, frameCount, newest>>
  BY <1>1 DEF QueueBounds
<1>2. ASSUME NEW d \in Dispatchers, NEW e \in Offers(d), PostReplace(d, e)
      PROVE  Bounded(d)' /\ \A c \in Dispatchers \ {d} : Bounded(c)'
  <2> DEFINE n == Max(Replaceable(d, e.kind))
  <2>1. n \in 1 .. Len(events[d]) /\ events[d][n].kind = e.kind /\ e \in Event
    BY <1>0, <1>2, ReplacedPosition, EntryFields DEF PostReplace
  <2>2. events' = [events EXCEPT ![d] = ReplaceAt(events[d], n, e)] /\ frameCount' = frameCount
    BY <1>2 DEF PostReplace
  <2> HIDE DEF n
  <2>3. events'[d] = ReplaceAt(events[d], n, e) /\ events[d] \in Seq(Event)
    BY <1>0, <2>2
  <2>4. /\ Count(ReplaceAt(events[d], n, e), "frame") = Count(events[d], "frame")
        /\ Len(ReplaceAt(events[d], n, e)) = Len(events[d])
    BY <2>1, <2>3, ReplacedPositions, ReplaceAtType
  <2> QED BY <1>0, <2>2, <2>3, <2>4 DEF Bounded
<1>3. ASSUME NEW t \in SdkThreads, NEW d \in Dispatchers, NEW e \in Offers(d),
             PostAppend(t, d, e)
      PROVE  Bounded(d)' /\ \A c \in Dispatchers \ {d} : Bounded(c)'
  <2> DEFINE q == events[d]
             r == Room(d)
             y == Entry(d, e)
  <2>1. /\ events' = [events EXCEPT ![d] = Append(r, y)]
        /\ frameCount' = [frameCount EXCEPT ![d] =
                            IF e.kind = "frame" THEN @ + 1
                            ELSE IF EvictsFrame(d) THEN @ - 1 ELSE @]
        /\ e.kind = "frame" => ~FrameRefused(d)
        /\ ~Rejected(d, e)
    BY <1>3 DEF PostAppend, Entry
  <2>2. y \in Event /\ y.kind = e.kind /\ r \in Seq(Event) /\ q \in Seq(Event)
    BY <1>0, EntryFields, RoomType
  <2>3. Len(r) \in Nat /\ Len(r) + 1 <= Capacity
    BY <1>0, <2>1, RoomLeft DEF Bounded
  <2>4. Count(r, "frame") = Count(q, "frame") - IF EvictsFrame(d) THEN 1 ELSE 0
    <3>1. CASE r = q /\ ~EvictsFrame(d)
      BY <2>2, <3>1, PositionsFinite
    <3>2. ASSUME NEW n \in 1 .. Len(q), EvictsFrame(d) <=> q[n].kind = "frame",
                 Deleted(q, r, n)
          PROVE  Count(r, "frame") = Count(q, "frame") - IF EvictsFrame(d) THEN 1 ELSE 0
      <4>1. Count(q, "frame") = Count(r, "frame") + IF q[n].kind = "frame" THEN 1 ELSE 0
        BY <2>2, <3>2, CountDeleted
      <4>2. Count(q, "frame") \in Nat /\ Count(r, "frame") \in Nat
        BY <2>2, PositionsFinite
      <4> QED BY <3>2, <4>1, <4>2
    <3> QED BY <1>0, <3>1, <3>2, RoomDeletes
  <2>5. e.kind = "frame" => ~EvictsFrame(d) /\ frameCount[d] < FrameCapacity[d]
    BY <1>0, <2>1 DEF FrameRefused, EvictsFrame
  <2>6. Len(Append(r, y)) = Len(r) + 1
    BY <2>2
  <2>7. Count(Append(r, y), "frame") = Count(r, "frame") + IF e.kind = "frame" THEN 1 ELSE 0
    BY <2>2, AppendedPositions
  <2>8. Count(q, "frame") \in Nat /\ Bounded(d)
    BY <1>0, <2>2, PositionsFinite
  <2> HIDE DEF q, r, y
  <2>9. events'[d] = Append(r, y) /\ \A c \in Dispatchers \ {d} : events'[c] = events[c]
    BY <1>0, <2>1
  <2>10. frameCount'[d] = Count(Append(r, y), "frame") /\ frameCount'[d] <= FrameCapacity[d]
    BY <1>0, <2>1, <2>4, <2>5, <2>7, <2>8 DEF Bounded, q
  <2> QED BY <1>0, <2>1, <2>3, <2>6, <2>9, <2>10 DEF Bounded
<1>4. ASSUME NEW t \in Threads, NEW d \in Dispatchers, NEW k \in Tasks, TaskAppend(t, d, k)
      PROVE  Bounded(d)' /\ \A c \in Dispatchers \ {d} : Bounded(c)'
  <2>1. /\ events' = [events EXCEPT ![d] = Append(events[d], TaskEvent(k))]
        /\ frameCount' = frameCount /\ ~(Len(events[d]) >= Capacity)
    BY <1>4 DEF TaskAppend, TaskEvent, TaskBlocked
  <2>2. events'[d] = Append(events[d], TaskEvent(k)) /\ events[d] \in Seq(Event)
    BY <1>0, <2>1
  <2>3. TaskEvent(k) \in Event /\ TaskEvent(k).kind = "native_task"
    BY TaskEventFields
  <2>4. /\ Len(Append(events[d], TaskEvent(k))) = Len(events[d]) + 1
        /\ Count(Append(events[d], TaskEvent(k)), "frame") = Count(events[d], "frame")
        /\ Count(events[d], "frame") \in Nat
    BY <2>2, <2>3, AppendedPositions, PositionsFinite
  <2> QED BY <1>0, <2>1, <2>2, <2>4 DEF Bounded
<1>5. ASSUME NEW t \in AppThreads, Discard(t)
      PROVE  \A c \in Dispatchers : Bounded(c)'
  <2>1. PICK d \in Dispatchers : d = td[t]
    BY DEF TypeOK, Threads
  <2>2. /\ events' = [events EXCEPT ![d] = OfKind(events[d], "native_task")]
        /\ frameCount' = [frameCount EXCEPT ![d] = 0]
    BY <1>5, <2>1 DEF Discard
  <2>3. events'[d] = OfKind(events[d], "native_task") /\ events[d] \in Seq(Event)
    BY <1>0, <2>2
  <2>4. Count(OfKind(events[d], "native_task"), "frame") = 0
    <3>1. Positions(OfKind(events[d], "native_task"), "frame") = {}
      BY <2>3, KeptElements DEF Positions
    <3> QED BY <3>1, FS_EmptySet DEF Count
  <2>5. /\ OfKind(events[d], "native_task") \in Seq(Event)
        /\ Len(OfKind(events[d], "native_task")) <= Len(events[d])
    BY <2>3, OfKindType
  <2> QED BY <1>0, <2>2, <2>3, <2>4, <2>5 DEF Bounded
<1>6. ASSUME NEW w \in Workers, DrainPop(w)
      PROVE  \A c \in Dispatchers : Bounded(c)'
  <2>1. PICK d \in Dispatchers : d = wd[w]
    BY DEF TypeOK
  <2> DEFINE q == events[d]
             r == Tail(q)
  <2>2. /\ events' = [events EXCEPT ![d] = r] /\ q # <<>>
        /\ frameCount' = [frameCount EXCEPT ![d] =
                            IF Head(q).kind = "frame" THEN @ - 1 ELSE @]
    BY <1>6, <2>1 DEF DrainPop
  <2>3. /\ q \in Seq(Event) /\ Deleted(q, r, 1) /\ Head(q) = q[1] /\ 1 \in 1 .. Len(q)
    BY <1>0, <2>2, TailDeletes
  <2>4. /\ Count(q, "frame") = Count(r, "frame") + IF q[1].kind = "frame" THEN 1 ELSE 0
        /\ Count(q, "frame") \in Nat /\ Count(r, "frame") \in Nat
    <3>1. Count(q, "frame") = Count(r, "frame") + IF q[1].kind = "frame" THEN 1 ELSE 0
      BY <2>3, CountDeleted
    <3>2. r \in Seq(Event)
      BY <2>3 DEF Deleted
    <3> QED BY <2>3, <3>1, <3>2, PositionsFinite
  <2>5. Len(r) = Len(q) - 1 /\ Bounded(d)
    BY <1>0, <2>3 DEF Deleted
  <2> HIDE DEF r
  <2>6. events'[d] = r /\ \A c \in Dispatchers \ {d} : events'[c] = events[c]
    BY <1>0, <2>2
  <2> QED BY <1>0, <2>2, <2>3, <2>4, <2>5, <2>6 DEF Bounded
<1> QED BY <1>1, <1>2, <1>3, <1>4, <1>5, <1>6, QueueMoves DEF QueueBounds, Bounded

LEMMA QueueInit == Init => TasksPosted /\ KindsEmitted /\ QueueBounds
<1> SUFFICES ASSUME Init PROVE TasksPosted /\ KindsEmitted /\ QueueBounds
  OBVIOUS
<1>1. TasksPosted /\ KindsEmitted
  BY DEF Init, TasksPosted, KindsEmitted
<1>2. Count(<<>>, "frame") = 0
  <2>1. Positions(<<>>, "frame") = {}
    BY DEF Positions
  <2> QED BY <2>1, FS_EmptySet DEF Count
<1>3. \A d \in Dispatchers : events[d] = <<>> /\ frameCount[d] = 0 /\ Len(events[d]) = 0
  BY DEF Init
<1>4. QueueBounds
  BY <1>2, <1>3, CapacityAssumption DEF QueueBounds
<1> QED BY <1>1, <1>4

\* The queues stay within their capacity, and _frame_count is exact, for any
\* capacities and any interleaving of posters, workers and finalizers.
THEOREM QueuesAreBounded == Spec => []QueueBounds
<1> QED BY TypeInit, TypeStep, QueueInit, PostedStep, KindsStep, BoundsStep, PTL DEF Spec

-----------------------------------------------------------------------------
(* The pending state is the newest.                                          *)

\* Queue q holds at most one event of a latest kind, with its latest payload.
UpToDate(q, latest) ==
    \A i, j \in DOMAIN q :
        /\ q[i].kind \in LatestKinds => q[i].val = latest[q[i].kind]
        /\ q[i].kind \in LatestKinds /\ q[i].kind = q[j].kind => i = j

Newest(d) == UpToDate(events[d], newest[d])

\* A queue without one of its events is as new as it was.
LEMMA NewestDeleted ==
    ASSUME NEW q \in Seq(Event), NEW r, NEW n \in 1 .. Len(q), Deleted(q, r, n), NEW latest,
           UpToDate(q, latest)
    PROVE  UpToDate(r, latest)
<1>1. /\ Len(q) \in Nat /\ n \in Nat /\ DOMAIN q = 1 .. Len(q)
      /\ Len(r) = Len(q) - 1 /\ DOMAIN r = 1 .. Len(r)
      /\ \A i \in 1 .. Len(r) : r[i] = q[Shift(n, i)]
  BY LenProperties DEF Deleted
<1>2. \A i \in DOMAIN r : i \in Nat /\ Shift(n, i) \in DOMAIN q /\ r[i] = q[Shift(n, i)]
  BY <1>1 DEF Shift
<1>3. \A i, j \in DOMAIN r : Shift(n, i) = Shift(n, j) => i = j
  BY <1>1, <1>2 DEF Shift
<1> QED BY <1>2, <1>3 DEF UpToDate

\* A step that changes one queue leaves the others as new as they were.
LEMMA OthersNewest ==
    ASSUME NEW d \in Dispatchers, \A c \in Dispatchers : Newest(c), Newest(d)',
           \A c \in Dispatchers \ {d} : events'[c] = events[c] /\ newest'[c] = newest[c]
    PROVE  \A c \in Dispatchers : Newest(c)'
BY DEF Newest

LEMMA NewestStep ==
    TypeOK /\ TasksPosted /\ PendingStateIsNewest /\ [Next]_vars => PendingStateIsNewest'
<1> SUFFICES ASSUME TypeOK, TasksPosted, PendingStateIsNewest, [Next]_vars
             PROVE  PendingStateIsNewest'
  OBVIOUS
<1>0. /\ events \in [Dispatchers -> Seq(Event)]
      /\ newest \in [Dispatchers -> [LatestKinds -> Payloads]]
      /\ \A d \in Dispatchers : Newest(d) /\ DOMAIN events[d] = 1 .. Len(events[d])
  BY DEF TypeOK, PendingStateIsNewest, Newest, UpToDate
<1>1. CASE UNCHANGED <<events, frameCount, newest>>
  BY <1>1 DEF PendingStateIsNewest
<1>2. ASSUME NEW d \in Dispatchers, NEW e \in Offers(d), PostReplace(d, e)
      PROVE  \A c \in Dispatchers : Newest(c)'
  <2> DEFINE n == Max(Replaceable(d, e.kind))
  <2>1. /\ n \in 1 .. Len(events[d]) /\ events[d][n].kind = e.kind /\ e \in Event
        /\ e.kind \in LatestKinds
    BY <1>0, <1>2, ReplacedPosition, EntryFields DEF PostReplace
  <2>2. /\ events' = [events EXCEPT ![d] = ReplaceAt(events[d], n, e)]
        /\ newest' = [newest EXCEPT ![d][e.kind] = e.val]
    BY <1>2 DEF PostReplace
  <2> HIDE DEF n
  <2>3. /\ events'[d] = ReplaceAt(events[d], n, e) /\ events[d] \in Seq(Event)
        /\ \A c \in Dispatchers \ {d} : events'[c] = events[c] /\ newest'[c] = newest[c]
        /\ newest'[d][e.kind] = e.val
        /\ \A k \in LatestKinds \ {e.kind} : newest'[d][k] = newest[d][k]
    BY <1>0, <2>1, <2>2
  <2>4. /\ DOMAIN events'[d] = DOMAIN events[d]
        /\ events'[d][n] = e
        /\ \A j \in DOMAIN events[d] \ {n} : events'[d][j] = events[d][j]
    BY <2>1, <2>3, ReplacedPositions
  <2>5. ASSUME NEW i \in DOMAIN events[d], NEW j \in DOMAIN events[d]
        PROVE  /\ events'[d][i].kind \in LatestKinds =>
                     events'[d][i].val = newest'[d][events'[d][i].kind]
               /\ events'[d][i].kind \in LatestKinds /\ events'[d][i].kind = events'[d][j].kind
                     => i = j
    <3>1. events'[d][i].kind = events[d][i].kind /\ events'[d][j].kind = events[d][j].kind
      BY <2>1, <2>4
    <3>2. /\ events[d][i].kind \in LatestKinds =>
                     events[d][i].val = newest[d][events[d][i].kind]
          /\ events[d][i].kind \in LatestKinds /\ events[d][i].kind = events[d][j].kind
                     => i = j
          /\ events[d][i].kind = e.kind => i = n
      BY <1>0, <2>1 DEF Newest, UpToDate
    <3>3. CASE i = n
      BY <2>1, <2>3, <2>4, <3>1, <3>2, <3>3
    <3>4. CASE i # n
      BY <2>3, <2>4, <3>1, <3>2, <3>4
    <3> QED BY <3>3, <3>4
  <2>6. Newest(d)'
    BY <2>4, <2>5 DEF Newest, UpToDate
  <2> QED BY <1>0, <2>3, <2>6, OthersNewest
<1>3. ASSUME NEW t \in SdkThreads, NEW d \in Dispatchers, NEW e \in Offers(d),
             PostAppend(t, d, e)
      PROVE  \A c \in Dispatchers : Newest(c)'
  <2> DEFINE q == events[d]
             r == Room(d)
             y == Entry(d, e)
  <2>1. /\ events' = [events EXCEPT ![d] = Append(r, y)]
        /\ newest' = [newest EXCEPT ![d] =
                        [k \in LatestKinds |-> IF k = e.kind THEN e.val ELSE @[k]]]
        /\ Replaceable(d, e.kind) = {}
    BY <1>3 DEF PostAppend, Entry
  <2>2. y \in Event /\ y.kind = e.kind /\ y.val = e.val /\ r \in Seq(Event) /\ q \in Seq(Event)
    BY <1>0, EntryFields, RoomType
  <2>3. /\ UpToDate(r, newest[d])
        /\ \A i \in DOMAIN r : \E x \in DOMAIN q : r[i] = q[x]
    <3>1. CASE r = q
      BY <1>0, <3>1 DEF Newest
    <3>2. ASSUME NEW n \in 1 .. Len(q), Deleted(q, r, n)
          PROVE  /\ UpToDate(r, newest[d])
                 /\ \A i \in DOMAIN r : \E x \in DOMAIN q : r[i] = q[x]
      <4>1. UpToDate(q, newest[d])
        BY <1>0 DEF Newest
      <4>2. UpToDate(r, newest[d])
        BY <2>2, <3>2, <4>1, NewestDeleted
      <4>3. \A i \in 1 .. Len(r) : Shift(n, i) \in 1 .. Len(q) /\ r[i] = q[Shift(n, i)]
        BY <2>2, <3>2 DEF Deleted, Shift
      <4> QED BY <2>2, <4>2, <4>3
    <3> QED BY <1>0, <3>1, <3>2, RoomDeletes
  <2>4. \A i \in DOMAIN r : e.kind \in LatestKinds => r[i].kind # e.kind
    BY <2>1, <2>3 DEF Replaceable
  <2>5. /\ Len(r) \in Nat /\ DOMAIN r = 1 .. Len(r)
        /\ DOMAIN Append(r, y) = 1 .. Len(r) + 1
        /\ \A i \in 1 .. Len(r) : Append(r, y)[i] = r[i]
        /\ Append(r, y)[Len(r) + 1] = y
    BY <2>2, AppendedPositions
  <2> HIDE DEF r, y
  <2>6. /\ events'[d] = Append(r, y)
        /\ \A c \in Dispatchers \ {d} : events'[c] = events[c] /\ newest'[c] = newest[c]
        /\ e.kind \in LatestKinds => newest'[d][e.kind] = e.val
        /\ \A k \in LatestKinds \ {e.kind} : newest'[d][k] = newest[d][k]
    BY <1>0, <2>1
  <2>7. ASSUME NEW i \in 1 .. Len(r) + 1, NEW j \in 1 .. Len(r) + 1
        PROVE  /\ events'[d][i].kind \in LatestKinds =>
                     events'[d][i].val = newest'[d][events'[d][i].kind]
               /\ events'[d][i].kind \in LatestKinds /\ events'[d][i].kind = events'[d][j].kind
                     => i = j
    <3>1. \A x \in 1 .. Len(r) + 1 : x \in 1 .. Len(r) \/ x = Len(r) + 1
      BY <2>5
    <3>2. CASE i \in 1 .. Len(r)
      <4>1. events'[d][i] = r[i]
        BY <2>5, <2>6, <3>2
      <4>2. r[i].kind \in LatestKinds => r[i].val = newest[d][r[i].kind] /\ r[i].kind # e.kind
        BY <2>3, <2>4, <2>5, <3>2 DEF UpToDate
      <4>3. CASE j \in 1 .. Len(r)
        BY <2>3, <2>5, <2>6, <3>2, <4>1, <4>2, <4>3 DEF UpToDate
      <4>4. CASE j = Len(r) + 1
        BY <2>2, <2>5, <2>6, <4>1, <4>2, <4>4
      <4> QED BY <3>1, <4>3, <4>4
    <3>3. CASE i = Len(r) + 1
      <4>1. events'[d][i] = y
        BY <2>5, <2>6, <3>3
      <4>2. CASE j \in 1 .. Len(r)
        BY <2>2, <2>4, <2>5, <2>6, <4>1, <4>2
      <4>3. CASE j = Len(r) + 1
        BY <2>2, <2>6, <3>3, <4>1, <4>3
      <4> QED BY <3>1, <4>2, <4>3
    <3> QED BY <3>1, <3>2, <3>3
  <2>8. Newest(d)'
    BY <2>5, <2>6, <2>7 DEF Newest, UpToDate
  <2> QED BY <1>0, <2>6, <2>8, OthersNewest
<1>4. ASSUME NEW t \in Threads, NEW d \in Dispatchers, NEW k \in Tasks,
             TaskStep(t, d, k), TaskAppend(t, d, k)
      PROVE  \A c \in Dispatchers : Newest(c)'
  <2>1. /\ events' = [events EXCEPT ![d] = Append(events[d], TaskEvent(k))]
        /\ newest' = newest
    BY <1>4 DEF TaskStep, TaskAppend, TaskEvent, frameVars
  <2>2. /\ events'[d] = Append(events[d], TaskEvent(k)) /\ events[d] \in Seq(Event)
        /\ \A c \in Dispatchers \ {d} : events'[c] = events[c]
    BY <1>0, <2>1
  <2>3. TaskEvent(k) \in Event /\ TaskEvent(k).kind \notin LatestKinds
    BY TaskEventFields DEF LatestKinds
  <2>4. /\ DOMAIN events'[d] = 1 .. Len(events[d]) + 1 /\ Len(events[d]) \in Nat
        /\ \A i \in 1 .. Len(events[d]) : events'[d][i] = events[d][i]
        /\ events'[d][Len(events[d]) + 1] = TaskEvent(k)
    BY <2>2, <2>3, AppendedPositions
  <2>5. \A i \in DOMAIN events'[d] : events'[d][i].kind \in LatestKinds =>
           i \in DOMAIN events[d] /\ events'[d][i] = events[d][i]
    BY <1>0, <2>3, <2>4
  <2>6. Newest(d)'
    BY <1>0, <2>1, <2>5 DEF Newest, UpToDate
  <2> QED BY <1>0, <2>1, <2>2, <2>6, OthersNewest
<1>5. ASSUME NEW t \in AppThreads, Discard(t)
      PROVE  \A c \in Dispatchers : Newest(c)'
  <2>1. PICK d \in Dispatchers : d = td[t]
    BY DEF TypeOK, Threads
  <2>2. /\ events' = [events EXCEPT ![d] = OfKind(events[d], "native_task")]
        /\ newest' = newest
    BY <1>5, <2>1 DEF Discard
  <2>3. /\ events'[d] = OfKind(events[d], "native_task") /\ events[d] \in Seq(Event)
        /\ \A c \in Dispatchers \ {d} : events'[c] = events[c]
    BY <1>0, <2>2
  <2>4. \A i \in DOMAIN events'[d] : events'[d][i].kind \notin LatestKinds
    BY <2>3, KeptElements DEF LatestKinds
  <2>5. Newest(d)'
    BY <2>4 DEF Newest, UpToDate
  <2> QED BY <1>0, <2>2, <2>3, <2>5, OthersNewest
<1>6. ASSUME NEW w \in Workers, DrainPop(w)
      PROVE  \A c \in Dispatchers : Newest(c)'
  <2>1. PICK d \in Dispatchers : d = wd[w]
    BY DEF TypeOK
  <2>2. events' = [events EXCEPT ![d] = Tail(events[d])] /\ events[d] # <<>> /\ newest' = newest
    BY <1>6, <2>1 DEF DrainPop, frameVars
  <2>3. /\ events[d] \in Seq(Event) /\ Deleted(events[d], Tail(events[d]), 1)
        /\ 1 \in 1 .. Len(events[d])
        /\ events'[d] = Tail(events[d])
        /\ \A c \in Dispatchers \ {d} : events'[c] = events[c]
    BY <1>0, <2>2, TailDeletes
  <2>4. UpToDate(events[d], newest[d])
    BY <1>0 DEF Newest
  <2>5. Newest(d)'
    BY <2>2, <2>3, <2>4, NewestDeleted DEF Newest
  <2> QED BY <1>0, <2>2, <2>3, <2>5, OthersNewest
<1>7. (\A d \in Dispatchers : Newest(d)') => PendingStateIsNewest'
  BY DEF PendingStateIsNewest, Newest, UpToDate
<1>8. UNCHANGED <<events, frameCount, newest>> \/ \A d \in Dispatchers : Newest(d)'
  BY <1>2, <1>3, <1>4, <1>5, <1>6, QueueMoves
<1> QED BY <1>1, <1>7, <1>8

\* A state that waits for its callback is the newest the sink accepted.
THEOREM NewestStatePends == Spec => []PendingStateIsNewest
<1>1. Init => PendingStateIsNewest
  BY DEF Init, PendingStateIsNewest
<1> QED BY <1>1, TypeInit, TypeStep, QueueInit, PostedStep, NewestStep, PTL DEF Spec

-----------------------------------------------------------------------------
(* Every native task is in one place until it has run.                       *)

\* Where a task is: with a thread that posts it, with a worker, in a queue.
PostedBy(k) == {t \in Threads : tpc[t] = "ntask" /\ ttask[t] = k}
TakenBy(k)  == {w \in Workers : wpc[w] = "popped" /\ wev[w].val = k}
QueuedAt(k) == UNION {{<<d, i>> : i \in {j \in DOMAIN events[d] :
                         events[d][j].val = k}} : d \in Dispatchers}

Unheld(k) == PostedBy(k) = {} /\ TakenBy(k) = {} /\ QueuedAt(k) = {}
HeldOnce(k) ==
    \/ TakenBy(k) = {} /\ QueuedAt(k) = {} /\ \E t \in Threads : PostedBy(k) = {t}
    \/ PostedBy(k) = {} /\ QueuedAt(k) = {} /\ \E w \in Workers : TakenBy(k) = {w}
    \/ PostedBy(k) = {} /\ TakenBy(k) = {} /\ \E x \in QueuedAt(k) : QueuedAt(k) = {x}

TaskPlaced(k) ==
    IF k \in dispatched THEN \/ Unheld(k) /\ runs[k] = 1
                             \/ HeldOnce(k) /\ runs[k] = 0
                        ELSE Unheld(k) /\ runs[k] = 0
TaskInv == \A k \in Tasks : TaskPlaced(k)

InQueue(q, k) == {i \in DOMAIN q : q[i].val = k}

\* Queue r holds task k as often as q does, if that is at most once.
Carries(q, r, k) ==
    /\ InQueue(q, k) = {} => InQueue(r, k) = {}
    /\ \A i : InQueue(q, k) = {i} => \E j : InQueue(r, k) = {j}

SameQueued(k) ==
    /\ QueuedAt(k) = {} => QueuedAt(k)' = {}
    /\ \A x : QueuedAt(k) = {x} => \E y : QueuedAt(k)' = {y}

LEMMA QueuedPlaces ==
    ASSUME NEW k
    PROVE  /\ \A d \in Dispatchers : \A i \in InQueue(events[d], k) : <<d, i>> \in QueuedAt(k)
           /\ \A x \in QueuedAt(k) : \E d \in Dispatchers :
                 \E i \in InQueue(events[d], k) : x = <<d, i>>
BY DEF QueuedAt, InQueue

LEMMA QueuedPlacesAfter ==
    ASSUME NEW k
    PROVE  /\ \A d \in Dispatchers : \A i \in InQueue(events'[d], k) : <<d, i>> \in QueuedAt(k)'
           /\ \A x \in QueuedAt(k)' : \E d \in Dispatchers :
                 \E i \in InQueue(events'[d], k) : x = <<d, i>>
BY DEF QueuedAt, InQueue

\* A step that carries the task over in the one queue it changes.
LEMMA QueueCarries ==
    ASSUME NEW k, NEW d \in Dispatchers, Carries(events[d], events'[d], k),
           \A c \in Dispatchers \ {d} : events'[c] = events[c]
    PROVE  SameQueued(k)
<1>1. CASE QueuedAt(k) = {}
  <2>1. \A c \in Dispatchers : InQueue(events[c], k) = {}
    BY <1>1, QueuedPlaces
  <2>2. \A c \in Dispatchers : InQueue(events'[c], k) = {}
    BY <2>1 DEF Carries
  <2>3. QueuedAt(k)' = {}
    BY <2>2, QueuedPlacesAfter
  <2> QED BY <1>1, <2>3 DEF SameQueued
<1>2. ASSUME NEW x, QueuedAt(k) = {x} PROVE \E y : QueuedAt(k)' = {y}
  <2>1. PICK c \in Dispatchers : \E i \in InQueue(events[c], k) : x = <<c, i>>
    BY <1>2, QueuedPlaces
  <2>2. PICK i \in InQueue(events[c], k) : x = <<c, i>>
    BY <2>1
  <2>3. /\ InQueue(events[c], k) = {i}
        /\ \A b \in Dispatchers \ {c} : InQueue(events[b], k) = {}
    <3>1. \A b \in Dispatchers : \A j \in InQueue(events[b], k) : <<b, j>> = <<c, i>>
      BY <1>2, <2>2, QueuedPlaces
    <3> QED BY <2>2, <3>1
  <2>4. \E j : InQueue(events'[c], k) = {j}
    BY <2>3 DEF Carries
  <2>5. \A b \in Dispatchers \ {c} : InQueue(events'[b], k) = {}
    BY <2>3 DEF Carries
  <2>6. PICK j : InQueue(events'[c], k) = {j}
    BY <2>4
  <2>7. \A y \in QueuedAt(k)' : y = <<c, j>>
    BY <2>5, <2>6, QueuedPlacesAfter
  <2>8. <<c, j>> \in QueuedAt(k)'
    BY <2>6, QueuedPlacesAfter
  <2>9. QueuedAt(k)' = {<<c, j>>}
    BY <2>7, <2>8
  <2> QED BY <2>9
<1> QED BY <1>1, <1>2 DEF SameQueued

LEMMA CarriesTransitive ==
    ASSUME NEW q, NEW r, NEW s, NEW k, Carries(q, r, k), Carries(r, s, k)
    PROVE  Carries(q, s, k)
BY DEF Carries

LEMMA DeletedCarries ==
    ASSUME NEW q \in Seq(Event), NEW r, NEW n \in 1 .. Len(q), Deleted(q, r, n), NEW k,
           q[n].val # k
    PROVE  Carries(q, r, k)
<1>1. /\ Len(q) \in Nat /\ n \in Nat /\ DOMAIN q = 1 .. Len(q)
      /\ Len(r) = Len(q) - 1 /\ DOMAIN r = 1 .. Len(r)
      /\ \A i \in 1 .. Len(r) : r[i] = q[Shift(n, i)]
  BY LenProperties DEF Deleted
<1>2. \A i \in InQueue(r, k) : i \in Nat /\ Shift(n, i) \in InQueue(q, k)
  BY <1>1 DEF InQueue, Shift
<1>3. ASSUME NEW j \in InQueue(q, k)
      PROVE  \E i \in InQueue(r, k) : Shift(n, i) = j
  <2>1. j \in 1 .. Len(q) /\ q[j].val = k /\ j # n
    BY <1>1 DEF InQueue
  <2> DEFINE i == IF j < n THEN j ELSE j - 1
  <2>2. i \in 1 .. Len(r) /\ Shift(n, i) = j
    BY <1>1, <2>1 DEF Shift
  <2> HIDE DEF i
  <2>3. i \in InQueue(r, k)
    BY <1>1, <2>1, <2>2 DEF InQueue
  <2> QED BY <2>2, <2>3
<1>4. \A a, b \in InQueue(r, k) : Shift(n, a) = Shift(n, b) => a = b
  BY <1>1, <1>2 DEF Shift
<1>5. InQueue(q, k) = {} => InQueue(r, k) = {}
  BY <1>2
<1>6. ASSUME NEW j, InQueue(q, k) = {j} PROVE \E i : InQueue(r, k) = {i}
  <2>1. PICK i \in InQueue(r, k) : Shift(n, i) = j
    BY <1>3, <1>6
  <2>2. \A a \in InQueue(r, k) : a = i
    BY <1>2, <1>4, <1>6, <2>1
  <2>3. InQueue(r, k) = {i}
    BY <2>1, <2>2
  <2> QED BY <2>3
<1> QED BY <1>5, <1>6 DEF Carries

\* Of a task that was first in the queue, and in it once, nothing is left.
LEMMA FirstTaken ==
    ASSUME NEW q \in Seq(Event), NEW r, 1 \in 1 .. Len(q), Deleted(q, r, 1), NEW k,
           InQueue(q, k) = {1}
    PROVE  InQueue(r, k) = {}
<1>1. /\ Len(q) \in Nat /\ DOMAIN q = 1 .. Len(q)
      /\ Len(r) = Len(q) - 1 /\ DOMAIN r = 1 .. Len(r)
      /\ \A i \in 1 .. Len(r) : r[i] = q[Shift(1, i)]
  BY LenProperties DEF Deleted
<1>2. \A i \in InQueue(r, k) : i \in 1 .. Len(r) /\ Shift(1, i) = i + 1 /\ q[i + 1].val = k
  BY <1>1 DEF InQueue, Shift
<1>3. \A i \in InQueue(r, k) : i + 1 \in InQueue(q, k) /\ i + 1 # 1
  BY <1>1, <1>2 DEF InQueue
<1> QED BY <1>3

LEMMA AppendCarries ==
    ASSUME NEW q \in Seq(Event), NEW e \in Event, NEW k, e.val # k
    PROVE  Carries(q, Append(q, e), k)
<1>1. InQueue(Append(q, e), k) = InQueue(q, k)
  BY AppendedPositions DEF InQueue
<1> QED BY <1>1 DEF Carries

LEMMA ReplaceCarries ==
    ASSUME NEW q \in Seq(Event), NEW n \in 1 .. Len(q), NEW e \in Event,
           e.kind = q[n].kind, NEW k, e.val # k, q[n].val # k
    PROVE  Carries(q, ReplaceAt(q, n, e), k)
<1>1. /\ DOMAIN ReplaceAt(q, n, e) = DOMAIN q
      /\ ReplaceAt(q, n, e)[n] = e
      /\ \A j \in DOMAIN q \ {n} : ReplaceAt(q, n, e)[j] = q[j]
  BY ReplacedPositions
<1>2. InQueue(ReplaceAt(q, n, e), k) = InQueue(q, k)
  BY <1>1 DEF InQueue
<1> QED BY <1>2 DEF Carries

\* Positions of a finite set with as many smaller ones are the same.
LEMMA RankInjective ==
    ASSUME NEW P \in SUBSET Nat, IsFiniteSet(P), NEW a \in P, NEW b \in P,
           Cardinality({x \in P : x < a}) = Cardinality({x \in P : x < b})
    PROVE  a = b
<1>1. ASSUME NEW u \in P, NEW v \in P, u < v
      PROVE  Cardinality({x \in P : x < u}) # Cardinality({x \in P : x < v})
  <2> DEFINE A == {x \in P : x < u}
             B == {x \in P : x < v}
  <2>1. A \subseteq B /\ A # B /\ B \subseteq P
    <3>1. u \in B /\ u \notin A
      BY <1>1
    <3>2. \A x \in A : x \in B
      BY <1>1
    <3> QED BY <3>1, <3>2
  <2>2. IsFiniteSet(B)
    BY <2>1, FS_Subset
  <2> HIDE DEF A, B
  <2>3. Cardinality(A) # Cardinality(B)
    BY <2>1, <2>2, FS_Subset
  <2> QED BY <2>3 DEF A, B
<1> QED BY <1>1

\* The rank of a position is smaller than the number of positions.
LEMMA RankBound ==
    ASSUME NEW P \in SUBSET Nat, IsFiniteSet(P), NEW a \in P
    PROVE  /\ Cardinality({x \in P : x < a}) \in Nat
           /\ Cardinality({x \in P : x < a}) < Cardinality(P)
<1> DEFINE A == {x \in P : x < a}
<1>1. A \subseteq P /\ A # P
  <2>1. a \notin A
    OBVIOUS
  <2> QED BY <2>1
<1>2. IsFiniteSet(A)
  BY <1>1, FS_Subset
<1> HIDE DEF A
<1>3. Cardinality(A) \in Nat /\ Cardinality(P) \in Nat /\ Cardinality(A) < Cardinality(P)
  <2>1. Cardinality(A) \in Nat /\ Cardinality(P) \in Nat
    BY <1>2, FS_CardinalityType
  <2>2. Cardinality(A) <= Cardinality(P) /\ Cardinality(A) # Cardinality(P)
    BY <1>1, FS_Subset
  <2> QED BY <2>1, <2>2
<1> QED BY <1>3 DEF A

\* discard() keeps every task, once.
LEMMA KeptCarries ==
    ASSUME NEW q \in Seq(Event), NEW k,
           \A i \in InQueue(q, k) : q[i].kind = "native_task"
    PROVE  Carries(q, OfKind(q, "native_task"), k)
<1> DEFINE P == Positions(q, "native_task")
           r == OfKind(q, "native_task")
           Below(p) == {x \in P : x < p}
<1>1. /\ P \in SUBSET Nat /\ IsFiniteSet(P) /\ DOMAIN q = 1 .. Len(q)
      /\ Cardinality(P) \in Nat /\ Cardinality(P) = Count(q, "native_task")
  BY PositionsFinite, LenProperties DEF Count
<1>2. /\ DOMAIN r = 1 .. Cardinality(P)
      /\ \A j \in 1 .. Cardinality(P) : \E p \in P :
            r[j] = q[p] /\ Cardinality(Below(p)) = j - 1
  BY KeptEvents, <1>1
<1>3. InQueue(q, k) \subseteq P
  BY DEF InQueue, Positions
<1> HIDE DEF P, r
<1>4. ASSUME NEW p \in P
      PROVE  \E j \in 1 .. Cardinality(P) : r[j] = q[p] /\ Cardinality(Below(p)) = j - 1
  <2> DEFINE j == Cardinality(Below(p)) + 1
  <2>1. j \in 1 .. Cardinality(P) /\ Cardinality(Below(p)) = j - 1
    BY <1>1, RankBound
  <2>2. PICK o \in P : r[j] = q[o] /\ Cardinality(Below(o)) = j - 1
    BY <1>2, <2>1
  <2>3. o = p
    BY <1>1, <2>1, <2>2, RankInjective
  <2> QED BY <2>1, <2>2, <2>3
<1>5. \A i \in InQueue(r, k) : \E p \in InQueue(q, k) :
         i \in 1 .. Cardinality(P) /\ Cardinality(Below(p)) = i - 1
  <2> SUFFICES ASSUME NEW i \in InQueue(r, k)
               PROVE  \E p \in InQueue(q, k) :
                         i \in 1 .. Cardinality(P) /\ Cardinality(Below(p)) = i - 1
    OBVIOUS
  <2>1. i \in 1 .. Cardinality(P) /\ r[i].val = k
    BY <1>2 DEF InQueue
  <2>2. PICK p \in P : r[i] = q[p] /\ Cardinality(Below(p)) = i - 1
    BY <1>2, <2>1
  <2>3. p \in InQueue(q, k)
    BY <2>1, <2>2 DEF InQueue, P, Positions
  <2> QED BY <2>1, <2>2, <2>3
<1>6. InQueue(q, k) = {} => InQueue(r, k) = {}
  BY <1>5
<1>7. ASSUME NEW p, InQueue(q, k) = {p} PROVE \E j : InQueue(r, k) = {j}
  <2>1. p \in P /\ q[p].val = k
    BY <1>3, <1>7 DEF InQueue
  <2>2. PICK j \in 1 .. Cardinality(P) : r[j] = q[p] /\ Cardinality(Below(p)) = j - 1
    BY <1>4, <2>1
  <2>3. j \in InQueue(r, k)
    BY <1>2, <2>1, <2>2 DEF InQueue
  <2>4. \A i \in InQueue(r, k) : i \in 1 .. Cardinality(P) /\ Cardinality(Below(p)) = i - 1
    BY <1>5, <1>7
  <2>5. \A i \in InQueue(r, k) : i = j
    <3> HIDE DEF Below
    <3> QED BY <1>1, <2>2, <2>4
  <2>6. InQueue(r, k) = {j}
    BY <2>3, <2>5
  <2> QED BY <2>6
<1>8. Carries(q, r, k)
  BY <1>6, <1>7 DEF Carries
<1> QED BY <1>8 DEF r

\* A task nothing happens to stays placed.
LEMMA PlaceKept ==
    ASSUME NEW k, TaskPlaced(k), PostedBy(k)' = PostedBy(k), TakenBy(k)' = TakenBy(k),
           SameQueued(k), runs'[k] = runs[k], k \in dispatched' <=> k \in dispatched
    PROVE  TaskPlaced(k)'
<1>1. Unheld(k) => Unheld(k)'
  BY DEF Unheld, SameQueued
<1>2. HeldOnce(k) => HeldOnce(k)'
  <2>1. CASE TakenBy(k) = {} /\ QueuedAt(k) = {} /\ \E t \in Threads : PostedBy(k) = {t}
    BY <2>1 DEF HeldOnce, SameQueued
  <2>2. CASE PostedBy(k) = {} /\ QueuedAt(k) = {} /\ \E w \in Workers : TakenBy(k) = {w}
    BY <2>2 DEF HeldOnce, SameQueued
  <2>3. CASE PostedBy(k) = {} /\ TakenBy(k) = {} /\ \E x \in QueuedAt(k) : QueuedAt(k) = {x}
    BY <2>3 DEF HeldOnce, SameQueued
  <2> QED BY <2>1, <2>2, <2>3 DEF HeldOnce
<1> QED BY <1>1, <1>2 DEF TaskPlaced

LEMMA AppendedInQueue ==
    ASSUME NEW q \in Seq(Event), NEW y \in Event, NEW k, y.val = k, InQueue(q, k) = {}
    PROVE  InQueue(Append(q, y), k) = {Len(q) + 1}
<1>1. /\ Len(q) \in Nat /\ DOMAIN q = 1 .. Len(q)
      /\ DOMAIN Append(q, y) = 1 .. Len(q) + 1
      /\ \A i \in 1 .. Len(q) : Append(q, y)[i] = q[i]
      /\ Append(q, y)[Len(q) + 1] = y
  BY AppendedPositions
<1>2. \A i \in 1 .. Len(q) : q[i].val # k
  BY <1>1 DEF InQueue
<1>3. \A i \in 1 .. Len(q) + 1 : i \in 1 .. Len(q) \/ i = Len(q) + 1
  BY <1>1
<1>4. Len(q) + 1 \in 1 .. Len(q) + 1
  BY <1>1
<1>5. \A i \in 1 .. Len(q) + 1 : Append(q, y)[i].val = k <=> i = Len(q) + 1
  BY <1>1, <1>2, <1>3
<1> QED BY <1>1, <1>4, <1>5 DEF InQueue

\* A step that concerns another task changes neither who posts this one ...
LEMMA OthersPost ==
    ASSUME NEW k, NEW t \in Threads, t \notin PostedBy(k), t \notin PostedBy(k)',
           \A u \in Threads \ {t} : tpc'[u] = tpc[u] /\ ttask'[u] = ttask[u]
    PROVE  PostedBy(k)' = PostedBy(k)
<1>1. \A u \in Threads :
         tpc'[u] = "ntask" /\ ttask'[u] = k <=> tpc[u] = "ntask" /\ ttask[u] = k
  BY DEF PostedBy
<1> QED BY <1>1 DEF PostedBy

\* ... nor who has taken it.
LEMMA OthersTake ==
    ASSUME NEW k, NEW w \in Workers, w \notin TakenBy(k), w \notin TakenBy(k)',
           \A v \in Workers \ {w} : wpc'[v] = wpc[v] /\ wev'[v] = wev[v]
    PROVE  TakenBy(k)' = TakenBy(k)
<1>1. \A v \in Workers :
         wpc'[v] = "popped" /\ wev'[v].val = k <=> wpc[v] = "popped" /\ wev[v].val = k
  BY DEF TakenBy
<1> QED BY <1>1 DEF TakenBy

LEMMA QueuesUnchanged ==
    ASSUME NEW k, events' = events
    PROVE  SameQueued(k)
BY DEF SameQueued, QueuedAt

LEMMA PostersUnchanged ==
    ASSUME NEW k, ttask' = ttask,
           \A u \in Threads : tpc'[u] = "ntask" <=> tpc[u] = "ntask"
    PROVE  PostedBy(k)' = PostedBy(k)
BY DEF PostedBy

LEMMA WorkersUnchanged ==
    ASSUME NEW k, UNCHANGED workerVars
    PROVE  TakenBy(k)' = TakenBy(k)
BY DEF TakenBy, workerVars

\* post(): the events it brings, replaces or evicts are not tasks.
LEMMA PlacedPost ==
    ASSUME TypeOK, KindsEmitted, TaskInv, NEW t \in SdkThreads, Post(t)
    PROVE  TaskInv'
<1>0. events \in [Dispatchers -> Seq(Event)] /\ t \in Threads
  BY DEF TypeOK, Threads
<1>1. PICK d \in Dispatchers : \E e \in Offers(d) :
         PostReplace(d, e) \/ PostDropFrame(d, e) \/ PostAppend(t, d, e)
  BY DEF Post
<1>2. PICK e \in Offers(d) :
         PostReplace(d, e) \/ PostDropFrame(d, e) \/ PostAppend(t, d, e)
  BY <1>1
<1>3. /\ UNCHANGED <<workerVars, taskVars, ttask>>
      /\ \A u \in Threads : tpc'[u] = "ntask" <=> tpc[u] = "ntask"
  <2>1. tpc[t] = "idle"
    BY DEF Post
  <2>2. CASE PostReplace(d, e) \/ PostDropFrame(d, e)
    BY <2>2 DEF PostReplace, PostDropFrame, threadVars
  <2>3. CASE PostAppend(t, d, e)
    BY <2>1, <2>3 DEF PostAppend, Schedule, TypeOK
  <2> QED BY <1>2, <2>2, <2>3
<1>4. /\ e \in Event /\ Entry(d, e) \in Event /\ e.kind # "native_task"
      /\ \A k \in Tasks : e.val # k /\ Entry(d, e).val # k
      /\ \A i \in DOMAIN events[d] : events[d][i].kind # "native_task" =>
            events[d][i].val \notin Tasks
  BY EntryFields DEF KindsEmitted
<1>5. ASSUME NEW k \in Tasks PROVE SameQueued(k)
  <2>1. CASE PostReplace(d, e)
    <3> DEFINE n == Max(Replaceable(d, e.kind))
    <3>1. n \in 1 .. Len(events[d]) /\ events[d][n].kind = e.kind
      BY <1>0, <2>1, ReplacedPosition DEF PostReplace
    <3>2. events' = [events EXCEPT ![d] = ReplaceAt(events[d], n, e)]
      BY <2>1 DEF PostReplace
    <3> HIDE DEF n
    <3>3. events[d][n].val # k /\ e.val # k
      BY <1>0, <1>4, <3>1, LenProperties
    <3>4. Carries(events[d], ReplaceAt(events[d], n, e), k)
      BY <1>0, <1>4, <3>1, <3>3, ReplaceCarries
    <3> QED BY <1>0, <3>2, <3>4, QueueCarries
  <2>2. CASE PostDropFrame(d, e)
    BY <2>2, QueuesUnchanged DEF PostDropFrame
  <2>3. CASE PostAppend(t, d, e)
    <3>1. events' = [events EXCEPT ![d] = Append(Room(d), Entry(d, e))]
      BY <2>3 DEF PostAppend, Entry
    <3>2. Room(d) \in Seq(Event)
      BY <1>0, RoomType
    <3>3. Carries(events[d], Room(d), k)
      <4>1. CASE Room(d) = events[d]
        BY <4>1 DEF Carries
      <4>2. ASSUME NEW n \in 1 .. Len(events[d]), Deleted(events[d], Room(d), n),
                   events[d][n].kind \notin TerminalKinds
            PROVE  Carries(events[d], Room(d), k)
        <5>1. events[d][n].val # k
          BY <1>0, <1>4, <4>2, LenProperties DEF TerminalKinds
        <5> QED BY <1>0, <4>2, <5>1, DeletedCarries
      <4> QED BY <1>0, <4>1, <4>2, RoomDeletes
    <3>4. Carries(Room(d), Append(Room(d), Entry(d, e)), k)
      BY <1>4, <3>2, AppendCarries
    <3>5. Carries(events[d], Append(Room(d), Entry(d, e)), k)
      BY <3>3, <3>4, CarriesTransitive
    <3> QED BY <1>0, <3>1, <3>5, QueueCarries
  <2> QED BY <1>2, <2>1, <2>2, <2>3
<1>6. ASSUME NEW k \in Tasks PROVE TaskPlaced(k)'
  <2>1. PostedBy(k)' = PostedBy(k) /\ TakenBy(k)' = TakenBy(k)
    BY <1>3, PostersUnchanged, WorkersUnchanged
  <2>2. runs'[k] = runs[k] /\ (k \in dispatched' <=> k \in dispatched) /\ TaskPlaced(k)
    BY <1>3 DEF taskVars, TaskInv
  <2> QED BY <1>5, <2>1, <2>2, PlaceKept
<1> QED BY <1>6 DEF TaskInv

\* A sink that is called with a new task, or with one it had to wait for.
LEMMA PlacedTask ==
    ASSUME TypeOK, TasksPosted, KindsEmitted, TaskInv, NEW t \in Threads,
           PostNativeTask(t) \/ ResumeTask(t)
    PROVE  TaskInv'
<1> USE DEF TypeOK
<1>1. PICK d \in Dispatchers, k \in Tasks :
         /\ TaskStep(t, d, k)
         /\ dispatched' = dispatched \cup {k}
         /\ runs[k] = 0 /\ TakenBy(k) = {} /\ QueuedAt(k) = {}
         /\ PostedBy(k) = {} \/ PostedBy(k) = {t}
         /\ \A c \in Tasks \ {k} : t \notin PostedBy(c)
  <2>1. CASE PostNativeTask(t)
    <3>1. PICK d \in Dispatchers, k \in Tasks \ dispatched :
             TaskStep(t, d, k) /\ dispatched' = dispatched \cup {k} /\ tpc[t] = "idle"
      BY <2>1 DEF PostNativeTask
    <3>2. TaskPlaced(k) /\ k \notin dispatched
      BY <3>1 DEF TaskInv
    <3>3. runs[k] = 0 /\ TakenBy(k) = {} /\ QueuedAt(k) = {} /\ PostedBy(k) = {}
      BY <3>2 DEF TaskPlaced, Unheld
    <3>4. \A c : t \notin PostedBy(c)
      BY <3>1 DEF PostedBy
    <3> QED BY <3>1, <3>3, <3>4
  <2>2. CASE ResumeTask(t)
    <3>1. /\ td[t] \in Dispatchers /\ ttask[t] \in Tasks /\ tpc[t] = "ntask"
          /\ TaskStep(t, td[t], ttask[t]) /\ dispatched' = dispatched
      BY <2>2 DEF ResumeTask, TasksPosted
    <3>2. TaskPlaced(ttask[t]) /\ t \in PostedBy(ttask[t])
      BY <3>1 DEF TaskInv, PostedBy
    <3>3. ttask[t] \in dispatched /\ HeldOnce(ttask[t]) /\ runs[ttask[t]] = 0
      BY <3>2 DEF TaskPlaced, Unheld
    <3>4. /\ TakenBy(ttask[t]) = {} /\ QueuedAt(ttask[t]) = {}
          /\ PostedBy(ttask[t]) = {t}
      BY <3>2, <3>3 DEF HeldOnce
    <3>5. \A c \in Tasks \ {ttask[t]} : t \notin PostedBy(c)
      BY DEF PostedBy
    <3>6. dispatched' = dispatched \cup {ttask[t]}
      BY <3>1, <3>3
    <3> QED BY <3>1, <3>3, <3>4, <3>5, <3>6
  <2> QED BY <2>1, <2>2
<1>2. /\ UNCHANGED workerVars /\ TakenBy(k)' = {}
      /\ \A u \in Threads \ {t} : tpc'[u] = tpc[u] /\ ttask'[u] = ttask[u]
      /\ \A c \in Tasks \ {k} : runs'[c] = runs[c]
  <2>1. UNCHANGED workerVars
    BY <1>1 DEF TaskStep
  <2>2. /\ \A u \in Threads \ {t} : tpc'[u] = tpc[u] /\ ttask'[u] = ttask[u]
        /\ \A c \in Tasks \ {k} : runs'[c] = runs[c]
    BY <1>1 DEF TaskStep, TaskReject, TaskWait, TaskAppend, Schedule
  <2> QED BY <1>1, <2>1, <2>2, WorkersUnchanged
<1>3. \A c : \A u \in Threads \ {t} : u \in PostedBy(c)' <=> u \in PostedBy(c)
  BY <1>2 DEF PostedBy
<1>4. PostedBy(k)' = {} \/ PostedBy(k)' = {t}
  <2>1. PostedBy(k)' \subseteq Threads
    BY DEF PostedBy
  <2>2. \A u \in PostedBy(k)' : u = t
    BY <1>1, <1>3, <2>1
  <2> QED BY <2>2
<1>5. TaskPlaced(k)'
  <2>1. k \in dispatched'
    BY <1>1
  <2>2. CASE TaskReject(t, d, k)
    <3>1. events' = events /\ runs'[k] = 1 /\ tpc'[t] # "ntask"
      BY <1>1, <2>2 DEF TaskReject, queueVars
    <3>2. PostedBy(k)' = {} /\ QueuedAt(k)' = {}
      <4>1. t \notin PostedBy(k)'
        BY <3>1 DEF PostedBy
      <4>2. SameQueued(k)
        BY <3>1, QueuesUnchanged
      <4> QED BY <1>1, <1>4, <4>1, <4>2 DEF SameQueued
    <3> QED BY <1>2, <2>1, <3>1, <3>2 DEF TaskPlaced, Unheld
  <2>3. CASE TaskWait(t, d, k)
    <3>1. events' = events /\ runs'[k] = 0 /\ tpc'[t] = "ntask" /\ ttask'[t] = k
      BY <1>1, <2>3 DEF TaskWait, queueVars
    <3>2. PostedBy(k)' = {t} /\ QueuedAt(k)' = {}
      <4>1. t \in PostedBy(k)'
        BY <3>1 DEF PostedBy
      <4>2. SameQueued(k)
        BY <3>1, QueuesUnchanged
      <4> QED BY <1>1, <1>4, <4>1, <4>2 DEF SameQueued
    <3> QED BY <1>2, <2>1, <3>1, <3>2 DEF TaskPlaced, HeldOnce
  <2>4. CASE TaskAppend(t, d, k)
    <3>1. /\ events' = [events EXCEPT ![d] = Append(events[d], TaskEvent(k))]
          /\ runs'[k] = 0 /\ tpc'[t] # "ntask"
      BY <1>1, <2>4 DEF TaskAppend, TaskEvent, Schedule
    <3>2. t \notin PostedBy(k)'
      BY <3>1 DEF PostedBy
    <3>3. PostedBy(k)' = {}
      BY <1>4, <3>2
    <3>4. \A c \in Dispatchers : InQueue(events[c], k) = {}
      BY <1>1, QueuedPlaces
    <3>5. events'[d] = Append(events[d], TaskEvent(k)) /\ events[d] \in Seq(Event)
      BY <3>1
    <3>6. InQueue(events'[d], k) = {Len(events[d]) + 1}
      <4>1. InQueue(events[d], k) = {} /\ TaskEvent(k) \in Event /\ TaskEvent(k).val = k
        BY <3>4, TaskEventFields
      <4>2. InQueue(Append(events[d], TaskEvent(k)), k) = {Len(events[d]) + 1}
        BY <3>5, <4>1, AppendedInQueue
      <4> QED BY <3>5, <4>2
    <3>7. \A c \in Dispatchers \ {d} : InQueue(events'[c], k) = {}
      BY <3>1, <3>4
    <3>8. QueuedAt(k)' = {<<d, Len(events[d]) + 1>>}
      <4>1. \A x \in QueuedAt(k)' : x = <<d, Len(events[d]) + 1>>
        BY <3>6, <3>7, QueuedPlacesAfter
      <4>2. <<d, Len(events[d]) + 1>> \in QueuedAt(k)'
        BY <3>6, QueuedPlacesAfter
      <4> QED BY <4>1, <4>2
    <3> QED BY <1>2, <2>1, <3>1, <3>3, <3>8 DEF TaskPlaced, HeldOnce
  <2> QED BY <1>1, <2>2, <2>3, <2>4 DEF TaskStep
<1>6. ASSUME NEW c \in Tasks \ {k} PROVE TaskPlaced(c)'
  <2>1. PostedBy(c)' = PostedBy(c)
    <3>1. t \notin PostedBy(c)'
      BY <1>1 DEF TaskStep, TaskReject, TaskWait, TaskAppend, Schedule, PostedBy
    <3>2. t \notin PostedBy(c)
      BY <1>1
    <3> QED BY <1>2, <3>1, <3>2, OthersPost
  <2>2. TakenBy(c)' = TakenBy(c)
    BY <1>2, WorkersUnchanged
  <2>3. SameQueued(c)
    <3>1. CASE events' = events
      BY <3>1, QueuesUnchanged
    <3>2. CASE TaskAppend(t, d, k)
      <4>1. events' = [events EXCEPT ![d] = Append(events[d], TaskEvent(k))]
        BY <3>2 DEF TaskAppend, TaskEvent
      <4>2. Carries(events[d], Append(events[d], TaskEvent(k)), c)
        BY TaskEventFields, AppendCarries
      <4> QED BY <4>1, <4>2, QueueCarries
    <3> QED BY <1>1, <3>1, <3>2 DEF TaskStep, TaskReject, TaskWait, queueVars
  <2>4. /\ runs'[c] = runs[c] /\ (c \in dispatched' <=> c \in dispatched)
        /\ TaskPlaced(c)
    BY <1>1, <1>2 DEF TaskInv
  <2> QED BY <2>1, <2>2, <2>3, <2>4, PlaceKept
<1> QED BY <1>5, <1>6 DEF TaskInv

LEMMA PlacedThread ==
    ASSUME TypeOK, KindsEmitted, TaskInv, NEW t \in Threads,
           \/ PutReady(t) \/ Barrier(t) \/ Close(t) \/ ResumeWait(t)
           \/ Collect(t) \/ Discard(t)
    PROVE  TaskInv'
<1> USE DEF TypeOK
<1>1. /\ UNCHANGED <<workerVars, taskVars, ttask>>
      /\ \A u \in Threads : tpc'[u] = "ntask" <=> tpc[u] = "ntask"
  <2>1. CASE PutReady(t)
    BY <2>1 DEF PutReady
  <2>2. CASE Barrier(t)
    BY <2>2 DEF Barrier, WaitStep
  <2>3. CASE Close(t)
    BY <2>3 DEF Close, WaitStep
  <2>4. CASE ResumeWait(t)
    BY <2>4 DEF ResumeWait, WaitStep
  <2>5. CASE Collect(t) \/ Discard(t)
    BY <2>5 DEF Collect, Discard
  <2> QED BY <2>1, <2>2, <2>3, <2>4, <2>5
<1>2. ASSUME NEW k \in Tasks PROVE SameQueued(k)
  <2>1. CASE Discard(t)
    <3>1. PICK d \in Dispatchers : d = td[t]
      OBVIOUS
    <3>2. events' = [events EXCEPT ![d] = OfKind(events[d], "native_task")]
      BY <2>1, <3>1 DEF Discard
    <3>3. \A i \in InQueue(events[d], k) : events[d][i].kind = "native_task"
      BY DEF KindsEmitted, InQueue
    <3>4. Carries(events[d], OfKind(events[d], "native_task"), k)
      BY <3>3, KeptCarries
    <3> QED BY <3>2, <3>4, QueueCarries
  <2>2. CASE ~Discard(t)
    <3>1. events' = events
      BY <2>2 DEF PutReady, Barrier, Close, ResumeWait, Collect, queueVars
    <3> QED BY <3>1, QueuesUnchanged
  <2> QED BY <2>1, <2>2
<1>3. ASSUME NEW k \in Tasks PROVE TaskPlaced(k)'
  <2>1. PostedBy(k)' = PostedBy(k) /\ TakenBy(k)' = TakenBy(k)
    BY <1>1, PostersUnchanged, WorkersUnchanged
  <2>2. runs'[k] = runs[k] /\ (k \in dispatched' <=> k \in dispatched) /\ TaskPlaced(k)
    BY <1>1 DEF taskVars, TaskInv
  <2> QED BY <1>2, <2>1, <2>2, PlaceKept
<1> QED BY <1>3 DEF TaskInv

\* A task that was refused has run already.
LEMMA PlacedRefused ==
    ASSUME TypeOK, TaskInv, NEW t \in Threads, Refused(t)
    PROVE  TaskInv'
<1>1. /\ UNCHANGED <<events, workerVars, dispatched, runs, ttask>>
      /\ \A u \in Threads : tpc'[u] = "ntask" <=> tpc[u] = "ntask"
  BY RefusedMoves
<1>2. ASSUME NEW k \in Tasks PROVE TaskPlaced(k)'
  <2>1. PostedBy(k)' = PostedBy(k) /\ TakenBy(k)' = TakenBy(k) /\ SameQueued(k)
    BY <1>1, PostersUnchanged, WorkersUnchanged, QueuesUnchanged
  <2>2. runs'[k] = runs[k] /\ (k \in dispatched' <=> k \in dispatched) /\ TaskPlaced(k)
    BY <1>1 DEF TaskInv
  <2> QED BY <2>1, <2>2, PlaceKept
<1> QED BY <1>2 DEF TaskInv

\* A worker takes the first event of a queue.
LEMMA PlacedPop ==
    ASSUME TypeOK, TaskInv, NEW w \in Workers, DrainPop(w)
    PROVE  TaskInv'
<1> USE DEF TypeOK
<1>1. PICK d \in Dispatchers : d = wd[w]
  OBVIOUS
<1>2. PICK q : q = events[d]
  OBVIOUS
<1>3. /\ events' = [events EXCEPT ![d] = Tail(q)] /\ q # <<>> /\ wpc[w] = "got"
      /\ wev' = [wev EXCEPT ![w] = Head(q)] /\ wpc' = [wpc EXCEPT ![w] = "popped"]
      /\ UNCHANGED <<threadVars, taskVars>>
  BY <1>1, <1>2 DEF DrainPop
<1>4. /\ q \in Seq(Event) /\ 1 \in 1 .. Len(q) /\ Head(q) = q[1] /\ Deleted(q, Tail(q), 1)
      /\ 1 \in DOMAIN q
  BY <1>2, <1>3, TailDeletes, LenProperties
<1>5. /\ events'[d] = Tail(q) /\ \A c \in Dispatchers \ {d} : events'[c] = events[c]
      /\ wpc'[w] = "popped" /\ wev'[w] = q[1]
      /\ \A v \in Workers \ {w} : wpc'[v] = wpc[v] /\ wev'[v] = wev[v]
  BY <1>3, <1>4
<1>6. ASSUME NEW k \in Tasks PROVE TaskPlaced(k)'
  <2>1. PostedBy(k)' = PostedBy(k)
    BY <1>3, PostersUnchanged DEF threadVars
  <2>2. /\ runs'[k] = runs[k] /\ (k \in dispatched' <=> k \in dispatched)
        /\ TaskPlaced(k)
    BY <1>3 DEF taskVars, TaskInv
  <2>3. w \notin TakenBy(k)
    BY <1>3 DEF TakenBy
  <2>4. CASE q[1].val # k
    <3>1. TakenBy(k)' = TakenBy(k)
      <4>1. w \notin TakenBy(k)'
        BY <1>5, <2>4 DEF TakenBy
      <4> QED BY <1>5, <2>3, <4>1, OthersTake
    <3>2. SameQueued(k)
      <4>1. Carries(q, Tail(q), k)
        BY <1>4, <2>4, DeletedCarries
      <4> QED BY <1>2, <1>5, <4>1, QueueCarries
    <3> QED BY <2>1, <2>2, <3>1, <3>2, PlaceKept
  <2>5. CASE q[1].val = k
    <3>1. 1 \in InQueue(q, k) /\ <<d, 1>> \in QueuedAt(k)
      <4>1. 1 \in InQueue(q, k)
        BY <1>4, <2>5 DEF InQueue
      <4> QED BY <1>2, <4>1, QueuedPlaces
    <3>2. /\ k \in dispatched /\ runs[k] = 0 /\ PostedBy(k) = {} /\ TakenBy(k) = {}
          /\ \E x \in QueuedAt(k) : QueuedAt(k) = {x}
      BY <2>2, <3>1 DEF TaskPlaced, Unheld, HeldOnce
    <3>3. QueuedAt(k) = {<<d, 1>>}
      BY <3>1, <3>2
    <3>4. /\ \A c \in Dispatchers : \A i \in InQueue(events[c], k) : <<c, i>> = <<d, 1>>
      BY <3>3, QueuedPlaces
    <3>5. /\ InQueue(q, k) = {1}
          /\ \A c \in Dispatchers \ {d} : InQueue(events[c], k) = {}
      BY <1>2, <3>1, <3>4
    <3>6. InQueue(Tail(q), k) = {}
      BY <1>4, <3>5, FirstTaken
    <3>7. QueuedAt(k)' = {}
      <4>1. \A c \in Dispatchers : InQueue(events'[c], k) = {}
        BY <1>5, <3>5, <3>6
      <4> QED BY <4>1, QueuedPlacesAfter
    <3>8. TakenBy(k)' = {w}
      <4>1. w \in TakenBy(k)'
        BY <1>5, <2>5 DEF TakenBy
      <4>2. \A v \in TakenBy(k)' : v = w
        BY <1>5, <3>2 DEF TakenBy
      <4> QED BY <4>1, <4>2
    <3> QED BY <2>1, <2>2, <3>2, <3>7, <3>8 DEF TaskPlaced, HeldOnce
  <2> QED BY <2>4, <2>5
<1> QED BY <1>6 DEF TaskInv

\* A worker runs the task it took.
LEMMA PlacedEnter ==
    ASSUME TypeOK, KindsEmitted, TaskInv, NEW w \in Workers, HandlerEnter(w)
    PROVE  TaskInv'
<1> USE DEF TypeOK
<1>1. /\ wpc[w] = "popped" /\ wpc' = [wpc EXCEPT ![w] = "run"] /\ wev' = wev
      /\ UNCHANGED <<queueVars, threadVars, dispatched>>
      /\ wev[w].kind = "native_task" <=> wev[w].val \in Tasks
      /\ \A k \in Tasks : runs'[k] =
            IF wev[w].kind = "native_task" /\ wev[w].val = k THEN runs[k] + 1 ELSE runs[k]
  BY DEF HandlerEnter, KindsEmitted
<1>2. ASSUME NEW k \in Tasks PROVE TaskPlaced(k)'
  <2>1. PostedBy(k)' = PostedBy(k) /\ SameQueued(k)
    BY <1>1, PostersUnchanged, QueuesUnchanged DEF threadVars, queueVars
  <2>2. TaskPlaced(k) /\ (k \in dispatched' <=> k \in dispatched)
    BY <1>1 DEF TaskInv
  <2>3. TakenBy(k)' = TakenBy(k) \ {w}
    BY <1>1 DEF TakenBy
  <2>4. CASE wev[w].val # k
    <3>1. w \notin TakenBy(k)
      BY <2>4 DEF TakenBy
    <3>2. TakenBy(k)' = TakenBy(k)
      BY <2>3, <3>1
    <3> QED BY <1>1, <2>1, <2>2, <2>4, <3>2, PlaceKept
  <2>5. CASE wev[w].val = k
    <3>1. w \in TakenBy(k)
      BY <1>1, <2>5 DEF TakenBy
    <3>2. /\ k \in dispatched /\ runs[k] = 0 /\ PostedBy(k) = {} /\ QueuedAt(k) = {}
          /\ \E v : TakenBy(k) = {v}
      BY <2>2, <3>1 DEF TaskPlaced, Unheld, HeldOnce
    <3>3. TakenBy(k)' = {}
      BY <2>3, <3>1, <3>2
    <3>4. runs'[k] = 1
      BY <1>1, <2>5, <3>2
    <3> QED BY <2>1, <2>2, <3>2, <3>3, <3>4 DEF TaskPlaced, Unheld, SameQueued
  <2> QED BY <2>4, <2>5
<1> QED BY <1>2 DEF TaskInv

\* No other step of a worker touches a task in hand.
LEMMA PlacedWorker ==
    ASSUME TypeOK, KindsEmitted, TaskInv, NEW w \in Workers,
           WorkerStep(w) \/ NestedClose(w)
    PROVE  TaskInv'
<1> USE DEF TypeOK
<1>1. CASE DrainPop(w)
  BY <1>1, PlacedPop
<1>2. CASE HandlerEnter(w)
  BY <1>2, PlacedEnter
<1>3. CASE \/ Take(w) \/ DrainEmpty(w) \/ HandlerReturn(w) \/ Reschedule(w)
           \/ NestedResume(w) \/ NestedClose(w)
  <2>1. /\ UNCHANGED <<events, tpc, ttask, dispatched, runs>>
        /\ \A v \in Workers \ {w} : wpc'[v] = wpc[v] /\ wev'[v] = wev[v]
        /\ wpc'[w] # "popped" /\ (wpc[w] = "popped" => wev[w].val \notin Tasks)
    <3>1. CASE Take(w)
      BY <3>1 DEF Take, queueVars, threadVars, taskVars
    <3>2. CASE DrainEmpty(w)
      BY <3>2 DEF DrainEmpty, threadVars, taskVars
    <3>3. CASE HandlerReturn(w)
      <4>1. wpc[w] = "popped" => wev[w].val \notin Tasks
        BY <3>3 DEF HandlerReturn, KindsEmitted
      <4> QED BY <3>3, <4>1 DEF HandlerReturn, threadVars, taskVars
    <3>4. CASE Reschedule(w)
      BY <3>4 DEF Reschedule, queueVars, threadVars, taskVars
    <3>5. CASE NestedResume(w) \/ NestedClose(w)
      BY <3>5, NestedMoves DEF threadVars, taskVars
    <3> QED BY <1>3, <3>1, <3>2, <3>3, <3>4, <3>5
  <2>2. ASSUME NEW k \in Tasks PROVE TaskPlaced(k)'
    <3>1. PostedBy(k)' = PostedBy(k) /\ SameQueued(k)
      BY <2>1, PostersUnchanged, QueuesUnchanged
    <3>2. w \notin TakenBy(k) /\ w \notin TakenBy(k)'
      BY <2>1 DEF TakenBy
    <3>3. TakenBy(k)' = TakenBy(k)
      BY <2>1, <3>2, OthersTake
    <3>4. /\ runs'[k] = runs[k] /\ (k \in dispatched' <=> k \in dispatched)
          /\ TaskPlaced(k)
      BY <2>1 DEF TaskInv
    <3> QED BY <3>1, <3>3, <3>4, PlaceKept
  <2> QED BY <2>2 DEF TaskInv
<1> QED BY <1>1, <1>2, <1>3 DEF WorkerStep

LEMMA PlacedStep ==
    TypeOK /\ TasksPosted /\ KindsEmitted /\ TaskInv /\ [Next]_vars => TaskInv'
<1> SUFFICES ASSUME TypeOK, TasksPosted, KindsEmitted, TaskInv, [Next]_vars
             PROVE  TaskInv'
  OBVIOUS
<1>1. CASE UNCHANGED vars
  <2>1. ASSUME NEW k \in Tasks PROVE TaskPlaced(k)'
    <3>1. /\ PostedBy(k)' = PostedBy(k) /\ TakenBy(k)' = TakenBy(k) /\ SameQueued(k)
      BY <1>1, PostersUnchanged, WorkersUnchanged, QueuesUnchanged
         DEF vars, threadVars, queueVars
    <3>2. /\ runs'[k] = runs[k] /\ (k \in dispatched' <=> k \in dispatched)
          /\ TaskPlaced(k)
      BY <1>1 DEF TaskInv, vars, taskVars
    <3> QED BY <3>1, <3>2, PlaceKept
  <2> QED BY <2>1 DEF TaskInv
<1>2. CASE \E t \in SdkThreads : SdkStep(t)
  BY <1>2, PlacedPost, PlacedTask, PlacedRefused DEF SdkStep, Refused, Threads
<1>3. CASE \E t \in AppThreads : AppStep(t)
  BY <1>3, PlacedThread DEF AppStep, Threads
<1>4. CASE \E t \in Threads : ThreadContinue(t)
  BY <1>4, PlacedTask, PlacedThread, PlacedRefused DEF ThreadContinue, Refused
<1>5. CASE \E w \in Workers : WorkerStep(w) \/ NestedClose(w)
  BY <1>5, PlacedWorker
<1> QED BY <1>1, <1>2, <1>3, <1>4, <1>5 DEF Next

LEMMA PlacedInit == Init => TaskInv
<1> SUFFICES ASSUME Init, NEW k \in Tasks PROVE TaskPlaced(k)
  BY DEF TaskInv
<1>1. PostedBy(k) = {} /\ TakenBy(k) = {}
  BY DEF Init, PostedBy, TakenBy
<1>2. QueuedAt(k) = {}
  <2>1. \A d \in Dispatchers : InQueue(events[d], k) = {}
    BY DEF Init, InQueue
  <2> QED BY <2>1, QueuedPlaces
<1> QED BY <1>1, <1>2 DEF Init, TaskPlaced, Unheld

LEMMA PlacedOnce == TaskInv => TaskRunsOnce
<1> SUFFICES ASSUME TaskInv, NEW k \in Tasks
             PROVE  IF k \in dispatched THEN TaskCopies(k) ELSE runs[k] = 0
  BY DEF TaskRunsOnce
<1>1. TaskPlaced(k)
  BY DEF TaskInv
<1>2. TaskCopies(k) <=>
        Cardinality(PostedBy(k)) + Cardinality(TakenBy(k)) + Cardinality(QueuedAt(k))
          + runs[k] = 1
  BY DEF TaskCopies, PostedBy, TakenBy, QueuedAt
<1>3. \A S : (S = {} => Cardinality(S) = 0) /\ ((\E x : S = {x}) => Cardinality(S) = 1)
  BY FS_EmptySet, FS_Singleton
<1>4. CASE k \notin dispatched
  BY <1>1, <1>4 DEF TaskPlaced
<1>5. CASE Unheld(k) /\ runs[k] = 1
  BY <1>2, <1>3, <1>5, <1>1 DEF Unheld, TaskPlaced
<1>6. CASE HeldOnce(k) /\ runs[k] = 0 /\ k \in dispatched
  <2>1. CASE TakenBy(k) = {} /\ QueuedAt(k) = {} /\ \E t \in Threads : PostedBy(k) = {t}
    BY <1>2, <1>3, <1>6, <2>1
  <2>2. CASE PostedBy(k) = {} /\ QueuedAt(k) = {} /\ \E w \in Workers : TakenBy(k) = {w}
    BY <1>2, <1>3, <1>6, <2>2
  <2>3. CASE PostedBy(k) = {} /\ TakenBy(k) = {} /\ \E x \in QueuedAt(k) : QueuedAt(k) = {x}
    BY <1>2, <1>3, <1>6, <2>3
  <2> QED BY <1>6, <2>1, <2>2, <2>3 DEF HeldOnce
<1> QED BY <1>1, <1>4, <1>5, <1>6 DEF TaskPlaced

\* Every native task is run once, on the thread that brought it or on a worker.
THEOREM TasksRunOnce == Spec => []TaskRunsOnce
<1> QED BY TypeInit, TypeStep, QueueInit, PostedStep, KindsStep, PlacedInit, PlacedStep,
           PlacedOnce, PTL DEF Spec

-----------------------------------------------------------------------------
(* A loss of frames is announced.                                            *)

\* How many frames are queued from position p on.
After(q, p) == Cardinality({x \in Positions(q, "frame") : x >= p})

\* The frame that n - 1 frames follow carries the mark.
MarkedAt(q, n) == \A p \in Positions(q, "frame") : After(q, p) = n => q[p].mark

\* A frame in the hands of a worker that has not entered the handler.
InHand(d)     == IF Held(d) = {} THEN 0 ELSE 1
HeldMarked(d) == \A w \in Held(d) : wev[w].mark

\* The frame accepted first after an unreported loss is queued, or a worker
\* holds it; it is followed by the frames accepted since.
LossAt(d) ==
    /\ ~alive[d] => sinceLoss[d] = NoLoss
    /\ sinceLoss[d] = 0 => dropped[d]
    /\ sinceLoss[d] <= Count(events[d], "frame") + InHand(d)
    /\ MarkedAt(events[d], sinceLoss[d])
    /\ sinceLoss[d] = Count(events[d], "frame") + 1 => HeldMarked(d)

LossInv == \A d \in Dispatchers : LossAt(d)

LEMMA AfterBound ==
    ASSUME NEW q \in Seq(Event), NEW p \in Positions(q, "frame")
    PROVE  /\ After(q, p) \in Nat \ {0}
           /\ After(q, p) <= Count(q, "frame")
           /\ After(q, p) = Count(q, "frame")
                              - Cardinality({x \in Positions(q, "frame") : x < p})
<1> DEFINE P == Positions(q, "frame")
           A == {x \in P : x >= p}
           B == {x \in P : x < p}
<1>1. P \in SUBSET Nat /\ IsFiniteSet(P) /\ p \in P
  BY PositionsFinite
<1>2. B \subseteq P /\ A = P \ B /\ P \cap B = B /\ p \in A
  BY <1>1
<1> HIDE DEF A, B, P
<1>3. IsFiniteSet(A) /\ IsFiniteSet(B) /\ Cardinality(A) = Cardinality(P) - Cardinality(B)
  BY <1>1, <1>2, FS_Difference, FS_Subset
<1>4. Cardinality(A) \in Nat /\ Cardinality(B) \in Nat /\ Cardinality(P) \in Nat
  BY <1>1, <1>3, FS_CardinalityType
<1>5. Cardinality(A) # 0
  BY <1>2, <1>3, FS_EmptySet
<1>6. Cardinality(A) <= Cardinality(P)
  BY <1>3, <1>4
<1> QED BY <1>3, <1>4, <1>5, <1>6 DEF A, B, P, After, Count

\* A removal in front of a frame, or of no frame, leaves what follows it.
LEMMA AfterDeleted ==
    ASSUME NEW q \in Seq(Event), NEW r, NEW n \in 1 .. Len(q), Deleted(q, r, n),
           NEW p \in Positions(r, "frame"), q[n].kind # "frame" \/ n < Shift(n, p)
    PROVE  After(r, p) = After(q, Shift(n, p))
<1> DEFINE A == {x \in Positions(r, "frame") : x >= p}
           B == {x \in Positions(q, "frame") : x >= Shift(n, p)}
<1>1. /\ Positions(r, "frame") \in SUBSET Nat /\ IsFiniteSet(Positions(r, "frame"))
      /\ Positions(q, "frame") \in SUBSET Nat /\ n \in Nat /\ p \in Nat
  BY PositionsFinite DEF Deleted
<1>2. /\ \A i \in Positions(r, "frame") : Shift(n, i) \in Positions(q, "frame")
      /\ \A j \in Positions(q, "frame") \ {n} :
            \E i \in Positions(r, "frame") : Shift(n, i) = j
  BY ShiftPositions
<1>3. \A i \in Positions(r, "frame") : i >= p <=> Shift(n, i) >= Shift(n, p)
  BY <1>1 DEF Shift
<1>4. n \notin B
  <2>1. n \in Positions(q, "frame") => q[n].kind = "frame"
    BY DEF Positions
  <2>2. n < Shift(n, p) => ~(n >= Shift(n, p))
    BY <1>1 DEF Shift
  <2> QED BY <2>1, <2>2
<1>5. /\ A \in SUBSET Nat /\ B \in SUBSET Nat
      /\ \A i \in A : Shift(n, i) \in B
      /\ \A j \in B : \E i \in A : Shift(n, i) = j
  BY <1>1, <1>2, <1>3, <1>4
<1>6. IsFiniteSet(A)
  BY <1>1, FS_Subset
<1> HIDE DEF A, B
<1>7. Cardinality(B) = Cardinality(A)
  BY <1>1, <1>5, <1>6, ShiftCard
<1> QED BY <1>7 DEF A, B, After

LEMMA MarkedDeleted ==
    ASSUME NEW q \in Seq(Event), NEW r, NEW n \in 1 .. Len(q), Deleted(q, r, n),
           q[n].kind # "frame" \/ n = 1, NEW s, MarkedAt(q, s)
    PROVE  MarkedAt(r, s)
<1> SUFFICES ASSUME NEW p \in Positions(r, "frame"), After(r, p) = s PROVE r[p].mark
  BY DEF MarkedAt
<1>1. Shift(n, p) \in Positions(q, "frame") /\ r[p] = q[Shift(n, p)]
  BY ShiftPositions
<1>2. n = 1 => n < Shift(n, p)
  <2>1. p \in 1 .. Len(r) /\ Len(r) \in Nat
    BY PositionsFinite DEF Deleted
  <2> QED BY <2>1 DEF Shift
<1>3. After(r, p) = After(q, Shift(n, p))
  BY <1>2, AfterDeleted
<1> QED BY <1>1, <1>3 DEF MarkedAt

LEMMA AfterAppended ==
    ASSUME NEW q \in Seq(Event), NEW e \in Event
    PROVE  /\ \A p \in Positions(q, "frame") :
                 After(Append(q, e), p) = After(q, p) + IF e.kind = "frame" THEN 1 ELSE 0
           /\ e.kind = "frame" => After(Append(q, e), Len(q) + 1) = 1
<1> DEFINE P == Positions(q, "frame")
<1>1. /\ Len(q) \in Nat /\ P \in SUBSET (1 .. Len(q)) /\ IsFiniteSet(P)
      /\ Positions(Append(q, e), "frame") =
            P \cup (IF e.kind = "frame" THEN {Len(q) + 1} ELSE {})
  BY PositionsFinite, AppendedPositions
<1> HIDE DEF P
<1>2. ASSUME NEW p \in P
      PROVE  After(Append(q, e), p) = After(q, p) + IF e.kind = "frame" THEN 1 ELSE 0
  <2> DEFINE A == {x \in P : x >= p}
             B == {x \in Positions(Append(q, e), "frame") : x >= p}
  <2>1. B = A \cup (IF e.kind = "frame" THEN {Len(q) + 1} ELSE {}) /\ Len(q) + 1 \notin A
    BY <1>1
  <2>2. IsFiniteSet(A)
    BY <1>1, FS_Subset
  <2>3. Cardinality(A) \in Nat
    BY <2>2, FS_CardinalityType
  <2> HIDE DEF A, B
  <2>4. Cardinality(B) = Cardinality(A) + IF e.kind = "frame" THEN 1 ELSE 0
    <3>1. CASE e.kind = "frame"
      BY <2>1, <2>2, <3>1, FS_AddElement
    <3>2. CASE e.kind # "frame"
      BY <2>1, <2>3, <3>2
    <3> QED BY <3>1, <3>2
  <2> QED BY <2>4 DEF After, A, B, P
<1>3. ASSUME e.kind = "frame" PROVE After(Append(q, e), Len(q) + 1) = 1
  <2>1. {x \in Positions(Append(q, e), "frame") : x >= Len(q) + 1} = {Len(q) + 1}
    <3>1. Positions(Append(q, e), "frame") = P \cup {Len(q) + 1}
      BY <1>1, <1>3
    <3>2. \A x \in P : ~(x >= Len(q) + 1)
      BY <1>1
    <3>3. Len(q) + 1 >= Len(q) + 1
      BY <1>1
    <3> QED BY <3>1, <3>2, <3>3
  <2> QED BY <2>1, FS_Singleton DEF After
<1> QED BY <1>2, <1>3 DEF P

\* Where the frame followed by n - 1 others is marked, so is, once one more
\* frame is accepted, the one followed by n.
LEMMA MarkedAppended ==
    ASSUME NEW q \in Seq(Event), NEW e \in Event, e.kind = "frame", NEW n \in Nat,
           MarkedAt(q, n), n = 0 => e.mark
    PROVE  MarkedAt(Append(q, e), n + 1)
<1> SUFFICES ASSUME NEW p \in Positions(Append(q, e), "frame"),
                    After(Append(q, e), p) = n + 1
             PROVE  Append(q, e)[p].mark
  BY DEF MarkedAt
<1>1. /\ p \in Positions(q, "frame") \/ p = Len(q) + 1
      /\ Append(q, e)[Len(q) + 1] = e
      /\ Positions(q, "frame") \in SUBSET (1 .. Len(q))
      /\ \A i \in 1 .. Len(q) : Append(q, e)[i] = q[i]
  BY AppendedPositions, PositionsFinite
<1>2. CASE p \in Positions(q, "frame")
  <2>1. After(Append(q, e), p) = After(q, p) + 1 /\ After(q, p) \in Nat
    BY <1>2, AfterAppended, AfterBound
  <2>2. After(q, p) = n
    BY <2>1
  <2> QED BY <1>1, <1>2, <2>2 DEF MarkedAt
<1>3. CASE p = Len(q) + 1
  <2>1. n = 0
    BY <1>3, AfterAppended
  <2> QED BY <1>1, <1>3, <2>1
<1> QED BY <1>1, <1>2, <1>3

LEMMA MarkedAppendedOther ==
    ASSUME NEW q \in Seq(Event), NEW e \in Event, e.kind # "frame", NEW n, MarkedAt(q, n)
    PROVE  MarkedAt(Append(q, e), n)
<1>1. /\ Positions(Append(q, e), "frame") = Positions(q, "frame")
      /\ Positions(q, "frame") \in SUBSET (1 .. Len(q))
      /\ \A i \in 1 .. Len(q) : Append(q, e)[i] = q[i]
  <2>1. Positions(Append(q, e), "frame") =
           Positions(q, "frame") \cup (IF e.kind = "frame" THEN {Len(q) + 1} ELSE {})
    BY AppendedPositions
  <2>2. Positions(q, "frame") \in SUBSET (1 .. Len(q))
    BY PositionsFinite
  <2>3. \A i \in 1 .. Len(q) : Append(q, e)[i] = q[i]
    BY AppendedPositions
  <2>4. Positions(Append(q, e), "frame") = Positions(q, "frame")
    BY <2>1
  <2> QED BY <2>2, <2>3, <2>4
<1>2. \A p : After(Append(q, e), p) = After(q, p)
  BY <1>1 DEF After
<1> QED BY <1>1, <1>2 DEF MarkedAt

LEMMA MarkedReplaced ==
    ASSUME NEW q \in Seq(Event), NEW i \in 1 .. Len(q), NEW e \in Event,
           e.kind = q[i].kind, e.kind # "frame", NEW n, MarkedAt(q, n)
    PROVE  MarkedAt(ReplaceAt(q, i, e), n)
<1>1. /\ Positions(ReplaceAt(q, i, e), "frame") = Positions(q, "frame")
      /\ \A j \in DOMAIN q \ {i} : ReplaceAt(q, i, e)[j] = q[j]
  BY ReplacedPositions
<1>2. \A p : After(ReplaceAt(q, i, e), p) = After(q, p)
  BY <1>1 DEF After
<1>3. \A p \in Positions(q, "frame") : p \in DOMAIN q \ {i}
  BY DEF Positions
<1> QED BY <1>1, <1>2, <1>3 DEF MarkedAt

\* No frame is followed by fewer than no other.
LEMMA NothingMarked ==
    ASSUME NEW q \in Seq(Event), NEW n \in {0, NoLoss}
    PROVE  MarkedAt(q, n)
<1>1. ASSUME NEW p \in Positions(q, "frame") PROVE After(q, p) # n
  <2>1. After(q, p) \in Nat \ {0}
    BY AfterBound
  <2> QED BY <2>1 DEF NoLoss
<1> QED BY <1>1 DEF MarkedAt

SameHeld(d) == InHand(d)' = InHand(d) /\ (HeldMarked(d)' <=> HeldMarked(d))

LEMMA InHandType == \A d : InHand(d) \in {0, 1} /\ InHand(d)' \in {0, 1}
BY DEF InHand

\* A step that concerns neither the frames of d nor their loss.
LEMMA LossKept ==
    ASSUME NEW d, LossAt(d), SameHeld(d),
           events'[d] = events[d], dropped'[d] = dropped[d],
           sinceLoss'[d] = sinceLoss[d], alive'[d] = alive[d]
    PROVE  LossAt(d)'
BY DEF LossAt, SameHeld

LEMMA HeldSame ==
    ASSUME NEW d, Held(d)' = Held(d), \A w \in Held(d) : wev'[w] = wev[w]
    PROVE  SameHeld(d)
<1>1. InHand(d)' = InHand(d)
  BY DEF InHand
<1>2. HeldMarked(d)' <=> HeldMarked(d)
  BY DEF HeldMarked
<1> QED BY <1>1, <1>2 DEF SameHeld

LEMMA HeldKept ==
    ASSUME UNCHANGED workerVars
    PROVE  \A d : SameHeld(d)
BY DEF SameHeld, InHand, HeldMarked, Held, workerVars

\* After a loss nobody reports, there is nothing to announce.
LEMMA LossForgotten ==
    ASSUME NEW d, events'[d] \in Seq(Event), sinceLoss'[d] = NoLoss
    PROVE  LossAt(d)'
<1>1. Count(events'[d], "frame") \in Nat /\ MarkedAt(events'[d], NoLoss)
  BY PositionsFinite, NothingMarked
<1> QED BY <1>1, InHandType DEF LossAt, NoLoss

\* A frame lost just now is remembered.
LEMMA LossRemembered ==
    ASSUME NEW d, events'[d] \in Seq(Event), sinceLoss'[d] = 0, dropped'[d], alive'[d]
    PROVE  LossAt(d)'
<1>1. Count(events'[d], "frame") \in Nat /\ MarkedAt(events'[d], 0)
  BY PositionsFinite, NothingMarked
<1> QED BY <1>1, InHandType DEF LossAt, NoLoss

LEMMA LossPost ==
    ASSUME TypeOK, TypeOK', LossInv, NEW t \in SdkThreads, Post(t)
    PROVE  LossInv'
<1> USE DEF TypeOK
<1>1. PICK d \in Dispatchers : \E e \in Offers(d) :
         PostReplace(d, e) \/ PostDropFrame(d, e) \/ PostAppend(t, d, e)
  BY DEF Post
<1>2. PICK e \in Offers(d) :
         PostReplace(d, e) \/ PostDropFrame(d, e) \/ PostAppend(t, d, e)
  BY <1>1
<1>3. /\ e \in Event /\ Entry(d, e) \in Event /\ Entry(d, e).kind = e.kind
      /\ e.kind = "frame" /\ dropped[d] => Entry(d, e).mark
  BY EntryFields
<1>4. /\ \A c \in Dispatchers : SameHeld(c)
      /\ alive' = alive
  <2>1. UNCHANGED <<workerVars, alive>>
    BY <1>2 DEF PostReplace, PostDropFrame, PostAppend, ownerVars
  <2> QED BY <2>1, HeldKept
<1>5. ASSUME NEW c \in Dispatchers \ {d} PROVE LossAt(c)'
  <2>1. events'[c] = events[c] /\ dropped'[c] = dropped[c] /\ sinceLoss'[c] = sinceLoss[c]
    <3>1. CASE PostReplace(d, e)
      BY <3>1 DEF PostReplace
    <3>2. CASE PostDropFrame(d, e)
      BY <3>2 DEF PostDropFrame
    <3>3. CASE PostAppend(t, d, e)
      BY <3>3 DEF PostAppend
    <3> QED BY <1>2, <3>1, <3>2, <3>3
  <2> QED BY <1>4, <2>1, LossKept DEF LossInv
<1>6. LossAt(d)'
  <2> DEFINE q == events[d]
             s == sinceLoss[d]
  <2>0. /\ q \in Seq(Event) /\ s \in Nat \cup {NoLoss} /\ events'[d] \in Seq(Event)
        /\ LossAt(d) /\ Count(q, "frame") \in Nat /\ InHand(d) \in {0, 1}
    BY PositionsFinite, InHandType DEF LossInv
  <2>1. CASE PostReplace(d, e)
    <3> DEFINE n == Max(Replaceable(d, e.kind))
    <3>1. n \in 1 .. Len(q) /\ q[n].kind = e.kind /\ e.kind \in LatestKinds
      BY <2>1, ReplacedPosition DEF PostReplace
    <3>2. /\ events' = [events EXCEPT ![d] = ReplaceAt(events[d], n, e)]
          /\ dropped' = dropped /\ sinceLoss' = sinceLoss
      BY <2>1 DEF PostReplace
    <3> HIDE DEF n
    <3>3. events'[d] = ReplaceAt(q, n, e) /\ e.kind # "frame"
      BY <3>1, <3>2 DEF LatestKinds
    <3>4. MarkedAt(events'[d], s)
      BY <1>3, <2>0, <3>1, <3>3, MarkedReplaced DEF LossAt
    <3>5. Count(events'[d], "frame") = Count(q, "frame")
      <4>1. Count(ReplaceAt(q, n, e), "frame") = Count(q, "frame")
        BY <1>3, <2>0, <3>1, ReplacedPositions
      <4> QED BY <3>3, <4>1
    <3> QED BY <1>4, <2>0, <3>2, <3>4, <3>5 DEF LossAt, SameHeld
  <2>2. CASE PostDropFrame(d, e)
    <3>1. /\ dropped'[d] /\ sinceLoss'[d] = IF alive[d] THEN 0 ELSE NoLoss
      BY <2>2 DEF PostDropFrame
    <3> QED BY <1>4, <2>0, <3>1, LossForgotten, LossRemembered
  <2>3. CASE PostAppend(t, d, e) /\ e.kind = "frame"
    <3>1. /\ events' = [events EXCEPT ![d] = Append(Room(d), Entry(d, e))]
          /\ sinceLoss'[d] = IF s = NoLoss THEN NoLoss ELSE s + 1
          /\ ~FrameRefused(d)
      BY <2>3 DEF PostAppend, Entry
    <3>2. events'[d] = Append(q, Entry(d, e))
      BY <3>1 DEF FrameRefused, Room
    <3>3. CASE s = NoLoss
      BY <2>0, <3>1, <3>3, LossForgotten
    <3>4. CASE s # NoLoss
      <4>1. s \in Nat /\ sinceLoss'[d] = s + 1
        BY <2>0, <3>1, <3>4
      <4>2. MarkedAt(events'[d], s + 1)
        BY <1>3, <2>0, <2>3, <3>2, <4>1, MarkedAppended DEF LossAt
      <4>3. Count(events'[d], "frame") = Count(q, "frame") + 1
        BY <1>3, <2>0, <2>3, <3>2, AppendedPositions
      <4>4. s + 1 # 0 /\ s + 1 # NoLoss
        BY <4>1 DEF NoLoss
      <4>5. /\ s <= Count(q, "frame") + InHand(d)
            /\ s = Count(q, "frame") + 1 => HeldMarked(d)
            /\ alive[d]
        BY <2>0, <3>4 DEF LossAt
      <4>6. /\ s + 1 <= Count(events'[d], "frame") + InHand(d)'
            /\ s + 1 = Count(events'[d], "frame") + 1 => HeldMarked(d)'
        BY <1>4, <2>0, <4>1, <4>3, <4>5 DEF SameHeld
      <4> QED BY <1>4, <4>1, <4>2, <4>4, <4>5, <4>6 DEF LossAt, SameHeld
    <3> QED BY <3>3, <3>4
  <2>4. CASE PostAppend(t, d, e) /\ e.kind # "frame"
    <3>1. /\ events' = [events EXCEPT ![d] = Append(Room(d), Entry(d, e))]
          /\ dropped'[d] = (dropped[d] \/ EvictsFrame(d))
          /\ sinceLoss'[d] = IF EvictsFrame(d) /\ alive[d] THEN 0 ELSE s
      BY <2>4 DEF PostAppend, Entry
    <3>2. events'[d] = Append(Room(d), Entry(d, e)) /\ Room(d) \in Seq(Event)
      BY <3>1, RoomType
    <3>3. CASE EvictsFrame(d)
      <4>1. CASE alive[d]
        BY <1>4, <2>0, <3>1, <3>3, <4>1, LossRemembered
      <4>2. CASE ~alive[d]
        BY <1>4, <2>0, <3>1, <3>3, <4>2, LossForgotten DEF LossAt
      <4> QED BY <4>1, <4>2
    <3>4. CASE ~EvictsFrame(d)
      <4>1. MarkedAt(Room(d), s) /\ Count(Room(d), "frame") = Count(q, "frame")
        <5>1. CASE Room(d) = q
          BY <2>0, <5>1 DEF LossAt
        <5>2. ASSUME NEW n \in 1 .. Len(q), Deleted(q, Room(d), n),
                     EvictsFrame(d) <=> q[n].kind = "frame"
              PROVE  MarkedAt(Room(d), s) /\ Count(Room(d), "frame") = Count(q, "frame")
          <6>1. q[n].kind # "frame"
            BY <3>4, <5>2
          <6>2. MarkedAt(Room(d), s)
            BY <2>0, <5>2, <6>1, MarkedDeleted DEF LossAt
          <6>3. /\ Count(q, "frame") = Count(Room(d), "frame")
                     + IF q[n].kind = "frame" THEN 1 ELSE 0
                /\ Count(Room(d), "frame") \in Nat
            BY <2>0, <3>2, <5>2, CountDeleted, PositionsFinite
          <6> QED BY <6>1, <6>2, <6>3
        <5> QED BY <2>0, <5>1, <5>2, RoomDeletes
      <4>2. MarkedAt(events'[d], s)
        BY <1>3, <2>4, <3>2, <4>1, MarkedAppendedOther
      <4>3. Count(events'[d], "frame") = Count(q, "frame")
        <5>1. Count(Append(Room(d), Entry(d, e)), "frame") = Count(Room(d), "frame") + 0
          BY <1>3, <2>4, <3>2, AppendedPositions
        <5> QED BY <2>0, <3>2, <4>1, <5>1
      <4>4. sinceLoss'[d] = s /\ dropped'[d] = dropped[d]
        BY <3>1, <3>4
      <4> QED BY <1>4, <2>0, <4>2, <4>3, <4>4 DEF LossAt, SameHeld
    <3> QED BY <3>3, <3>4
  <2> QED BY <1>2, <2>1, <2>2, <2>3, <2>4
<1> QED BY <1>5, <1>6 DEF LossInv

LEMMA LossRefused ==
    ASSUME TypeOK, TypeOK', LossInv, NEW t \in Threads, Refused(t)
    PROVE  LossInv'
<1>1. UNCHANGED <<events, dropped, sinceLoss, alive, workerVars>>
  BY RefusedMoves DEF frameVars, ownerVars
<1>2. \A c \in Dispatchers : SameHeld(c)
  BY <1>1, HeldKept
<1> QED BY <1>1, <1>2, LossKept DEF LossInv

LEMMA LossThread ==
    ASSUME TypeOK, TypeOK', TasksPosted, LossInv, NEW t \in Threads,
           \/ PostNativeTask(t) \/ ResumeTask(t) \/ PutReady(t) \/ Barrier(t) \/ Close(t)
           \/ ResumeWait(t) \/ Collect(t) \/ Discard(t)
    PROVE  LossInv'
<1> USE DEF TypeOK
<1>1. \A c \in Dispatchers : SameHeld(c)
  <2>1. UNCHANGED workerVars
    BY DEF PostNativeTask, ResumeTask, TaskStep, PutReady, Barrier, Close, ResumeWait,
       Collect, Discard
  <2> QED BY <2>1, HeldKept
<1>2. CASE PostNativeTask(t) \/ ResumeTask(t)
  <2>1. PICK d \in Dispatchers, k \in Tasks : TaskStep(t, d, k)
    <3>1. CASE PostNativeTask(t)
      BY <3>1 DEF PostNativeTask
    <3>2. CASE ResumeTask(t)
      BY <3>2 DEF ResumeTask, TasksPosted
    <3> QED BY <1>2, <3>1, <3>2
  <2>2. /\ UNCHANGED <<dropped, sinceLoss, alive>>
        /\ \/ events' = events
           \/ events' = [events EXCEPT ![d] = Append(events[d], TaskEvent(k))]
    BY <2>1 DEF TaskStep, TaskReject, TaskWait, TaskAppend, TaskEvent, queueVars, frameVars,
       ownerVars
  <2>3. CASE events' = events
    BY <1>1, <2>2, <2>3, LossKept DEF LossInv
  <2>4. CASE events' = [events EXCEPT ![d] = Append(events[d], TaskEvent(k))]
    <3>1. \A c \in Dispatchers \ {d} : LossAt(c)'
      BY <1>1, <2>2, <2>4, LossKept DEF LossInv
    <3>2. events'[d] = Append(events[d], TaskEvent(k)) /\ LossAt(d)
      BY <2>4 DEF LossInv
    <3>3. TaskEvent(k) \in Event /\ TaskEvent(k).kind # "frame"
      BY TaskEventFields
    <3>4. MarkedAt(events'[d], sinceLoss[d])
      BY <3>2, <3>3, MarkedAppendedOther DEF LossAt
    <3>5. Count(events'[d], "frame") = Count(events[d], "frame")
      <4>1. Count(Append(events[d], TaskEvent(k)), "frame") = Count(events[d], "frame") + 0
        BY <3>3, AppendedPositions
      <4>2. Count(events[d], "frame") \in Nat
        BY PositionsFinite
      <4> QED BY <3>2, <4>1, <4>2
    <3>6. LossAt(d)'
      BY <1>1, <2>2, <3>2, <3>4, <3>5 DEF LossAt, SameHeld
    <3> QED BY <3>1, <3>6 DEF LossInv
  <2> QED BY <2>2, <2>3, <2>4
<1>3. CASE PutReady(t) \/ Barrier(t) \/ Close(t) \/ ResumeWait(t)
  <2>1. UNCHANGED <<events, dropped, sinceLoss, alive>>
    BY <1>3 DEF PutReady, Barrier, Close, ResumeWait, queueVars, frameVars, ownerVars
  <2> QED BY <1>1, <2>1, LossKept DEF LossInv
<1>4. CASE Collect(t)
  <2>1. PICK d \in Dispatchers, b \in BOOLEAN :
           /\ UNCHANGED <<events, dropped>>
           /\ alive' = [alive EXCEPT ![d] = b]
           /\ sinceLoss' = [sinceLoss EXCEPT ![d] = IF b THEN sinceLoss[d] ELSE NoLoss]
    BY <1>4 DEF Collect, queueVars
  <2>2. \A c \in Dispatchers \ {d} : LossAt(c)'
    BY <1>1, <2>1, LossKept DEF LossInv
  <2>3. LossAt(d)'
    <3>1. CASE sinceLoss'[d] = NoLoss
      BY <3>1, LossForgotten
    <3>2. CASE sinceLoss'[d] # NoLoss
      <4>1. alive'[d] /\ sinceLoss'[d] = sinceLoss[d]
        BY <2>1, <3>2
      <4> QED BY <1>1, <2>1, <4>1 DEF LossInv, LossAt, SameHeld
    <3> QED BY <3>1, <3>2
  <2> QED BY <2>2, <2>3 DEF LossInv
<1>5. CASE Discard(t)
  <2>1. PICK d \in Dispatchers : d = td[t]
    OBVIOUS
  <2>2. /\ sinceLoss' = [sinceLoss EXCEPT ![d] = NoLoss]
        /\ UNCHANGED <<dropped, alive>>
        /\ \A c \in Dispatchers \ {d} : events'[c] = events[c]
    BY <1>5, <2>1 DEF Discard, ownerVars
  <2>3. \A c \in Dispatchers \ {d} : LossAt(c)'
    BY <1>1, <2>2, LossKept DEF LossInv
  <2>4. LossAt(d)'
    BY <2>2, LossForgotten
  <2> QED BY <2>3, <2>4 DEF LossInv
<1> QED BY <1>2, <1>3, <1>4, <1>5

\* One worker at a time has an event of d, and none that is about to take one.
LEMMA HeldUnique ==
    ASSUME DispatchInv, NEW d \in Dispatchers
    PROVE  /\ \A v, w \in Held(d) : v = w
           /\ \A w \in Workers : wd[w] = d /\ wpc[w] = "got" => Held(d) = {}
<1>1. \A v \in Held(d) : v \in Workers /\ Draining(v, d) /\ wpc[v] = "popped"
  BY DEF Held, Draining
<1>2. \A v, w \in Workers : Draining(v, d) /\ Draining(w, d) => v = w
  BY DEF DispatchInv, TokenUnique
<1>3. \A w \in Workers : wd[w] = d /\ wpc[w] = "got" => Draining(w, d)
  BY DEF Draining
<1> QED BY <1>1, <1>2, <1>3

LEMMA LossPop ==
    ASSUME TypeOK, TypeOK', DispatchInv, LossInv, NEW w \in Workers, DrainPop(w)
    PROVE  LossInv'
<1> USE DEF TypeOK
<1>1. PICK d \in Dispatchers : d = wd[w]
  OBVIOUS
<1>2. PICK q : q = events[d]
  OBVIOUS
<1>3. PICK s : s = sinceLoss[d]
  OBVIOUS
<1>4. /\ events' = [events EXCEPT ![d] = Tail(q)] /\ q # <<>> /\ wpc[w] = "got"
      /\ wev' = [wev EXCEPT ![w] = Head(q)] /\ wpc' = [wpc EXCEPT ![w] = "popped"]
      /\ wd' = wd /\ UNCHANGED <<dropped, sinceLoss, alive>>
  BY <1>1, <1>2 DEF DrainPop, ownerVars, frameVars
<1>5. /\ q \in Seq(Event) /\ 1 \in 1 .. Len(q) /\ Head(q) = q[1] /\ Deleted(q, Tail(q), 1)
      /\ 1 \in DOMAIN q
  BY <1>2, <1>4, TailDeletes, LenProperties
<1>6. Held(d) = {} /\ LossAt(d)
  BY <1>1, <1>4, HeldUnique DEF LossInv
<1>7. ASSUME NEW c \in Dispatchers \ {d} PROVE LossAt(c)'
  <2>1. Held(c)' = Held(c) /\ \A v \in Held(c) : wev'[v] = wev[v]
    <3>1. wd'[w] = d /\ wd[w] = d
      BY <1>1, <1>4
    <3>2. \A v \in Workers \ {w} : wpc'[v] = wpc[v] /\ wev'[v] = wev[v] /\ wd'[v] = wd[v]
      BY <1>4
    <3>3. \A v \in Workers :
             /\ wpc'[v] = "popped" /\ wd'[v] = c /\ wev'[v].kind = "frame"
             <=> wpc[v] = "popped" /\ wd[v] = c /\ wev[v].kind = "frame"
      BY <3>1, <3>2
    <3>4. Held(c)' = Held(c)
      BY <3>3 DEF Held
    <3> QED BY <3>1, <3>2, <3>4 DEF Held
  <2>2. SameHeld(c)
    BY <2>1, HeldSame
  <2> QED BY <1>4, <2>2, LossKept DEF LossInv
<1>8. LossAt(d)'
  <2>1. /\ Count(q, "frame") = Count(Tail(q), "frame") + IF q[1].kind = "frame" THEN 1 ELSE 0
        /\ Count(q, "frame") \in Nat /\ Count(Tail(q), "frame") \in Nat
        /\ s \in Int
    <3>1. Tail(q) \in Seq(Event)
      BY <1>5 DEF Deleted
    <3>2. Count(q, "frame") = Count(Tail(q), "frame") + IF q[1].kind = "frame" THEN 1 ELSE 0
      <4>1. q \in Seq(Event) /\ 1 \in 1 .. Len(q) /\ Deleted(q, Tail(q), 1)
        BY <1>5
      <4> HIDE DEF TypeOK
      <4> QED BY <4>1, CountDeleted
    <3>3. Count(q, "frame") \in Nat /\ Count(Tail(q), "frame") \in Nat
      BY <1>5, <3>1, PositionsFinite
    <3>4. s \in Int
      BY <1>3 DEF NoLoss
    <3> QED BY <3>2, <3>3, <3>4
  <2>2. MarkedAt(q, s) /\ s <= Count(q, "frame") + 0
    BY <1>2, <1>3, <1>6 DEF LossAt, InHand
  <2>3. MarkedAt(Tail(q), s)
    BY <1>5, <2>2, MarkedDeleted
  <2>4. /\ events'[d] = Tail(q) /\ sinceLoss'[d] = s /\ dropped'[d] = dropped[d]
        /\ alive'[d] = alive[d] /\ wev'[w] = q[1]
        /\ \A v \in Workers \ {w} : wpc'[v] = wpc[v] /\ wev'[v] = wev[v]
    BY <1>3, <1>4, <1>5
  <2>5. CASE q[1].kind # "frame"
    <3>1. \A v \in Workers : v \notin Held(d)'
      <4>1. w \notin Held(d)'
        BY <2>4, <2>5 DEF Held
      <4>2. \A v \in Workers \ {w} : v \in Held(d)' => v \in Held(d)
        BY <1>4, <2>4 DEF Held
      <4> QED BY <1>6, <4>1, <4>2
    <3>2. InHand(d)' = 0
      BY <3>1 DEF InHand, Held
    <3>3. s <= Count(Tail(q), "frame") + 0 /\ s # Count(Tail(q), "frame") + 1
      <4>1. Count(q, "frame") = Count(Tail(q), "frame")
        BY <2>1, <2>5
      <4> QED BY <2>1, <2>2, <4>1
    <3> QED BY <1>3, <1>6, <2>3, <2>4, <3>2, <3>3 DEF LossAt
  <2>6. CASE q[1].kind = "frame"
    <3>1. w \in Held(d)' /\ \A v \in Held(d)' : v = w
      <4>1. w \in Held(d)'
        BY <1>1, <1>4, <2>4, <2>6 DEF Held
      <4>2. \A v \in Workers \ {w} : v \in Held(d)' => v \in Held(d)
        BY <1>4, <2>4 DEF Held
      <4>3. Held(d)' \subseteq Workers
        BY DEF Held
      <4> QED BY <1>6, <4>1, <4>2, <4>3
    <3>2. InHand(d)' = 1
      BY <3>1 DEF InHand
    <3>3. s <= Count(Tail(q), "frame") + 1
      BY <2>1, <2>2, <2>6 DEF NoLoss
    <3>4. ASSUME s = Count(Tail(q), "frame") + 1 PROVE HeldMarked(d)'
      <4>1. s = Count(q, "frame")
        BY <2>1, <2>6, <3>4
      <4>2. 1 \in Positions(q, "frame") /\ Positions(q, "frame") \in SUBSET (1 .. Len(q))
        BY <1>5, <2>6, PositionsFinite DEF Positions
      <4>3. {x \in Positions(q, "frame") : x >= 1} = Positions(q, "frame")
        <5>1. \A x \in 1 .. Len(q) : x >= 1
          BY <1>5
        <5> QED BY <4>2, <5>1
      <4>4. After(q, 1) = s
        BY <4>1, <4>3 DEF After, Count
      <4>5. wev'[w].mark
        BY <2>2, <2>4, <4>2, <4>4 DEF MarkedAt
      <4> QED BY <3>1, <4>5 DEF HeldMarked
    <3> QED BY <1>3, <1>6, <2>3, <2>4, <3>2, <3>3, <3>4 DEF LossAt
  <2> QED BY <2>5, <2>6
<1> QED BY <1>7, <1>8 DEF LossInv

LEMMA LossEnter ==
    ASSUME TypeOK, TypeOK', DispatchInv, LossInv, NEW w \in Workers, HandlerEnter(w)
    PROVE  LossInv'
<1> USE DEF TypeOK
<1>1. PICK d \in Dispatchers : d = wd[w]
  OBVIOUS
<1>2. /\ wpc[w] = "popped" /\ wpc' = [wpc EXCEPT ![w] = "run"]
      /\ UNCHANGED <<events, dropped, alive, wd, wev>>
      /\ sinceLoss' = [sinceLoss EXCEPT ![d] =
             IF wev[w].kind = "frame" /\ sinceLoss[d] > Count(events[d], "frame")
               THEN NoLoss ELSE sinceLoss[d]]
  BY <1>1 DEF HandlerEnter, queueVars, ownerVars
<1>3. ASSUME NEW c \in Dispatchers \ {d} PROVE LossAt(c)'
  <2>1. Held(c)' = Held(c)
    BY <1>1, <1>2 DEF Held
  <2>2. SameHeld(c)
    BY <1>2, <2>1, HeldSame
  <2> QED BY <1>2, <2>2, LossKept DEF LossInv
<1>4. LossAt(d)'
  <2>1. LossAt(d) /\ Count(events[d], "frame") \in Nat /\ sinceLoss[d] \in Int
    <3>1. LossAt(d) /\ Count(events[d], "frame") \in Nat
      BY PositionsFinite DEF LossInv
    <3>2. sinceLoss[d] \in Int
      BY DEF NoLoss
    <3> QED BY <3>1, <3>2
  <2>2. CASE wev[w].kind # "frame"
    <3>1. Held(d)' = Held(d)
      BY <1>2, <2>2 DEF Held
    <3>2. SameHeld(d)
      BY <1>2, <3>1, HeldSame
    <3> QED BY <1>2, <2>1, <2>2, <3>2, LossKept
  <2>3. CASE wev[w].kind = "frame" /\ sinceLoss[d] > Count(events[d], "frame")
    BY <1>2, <2>3, LossForgotten
  <2>4. CASE wev[w].kind = "frame" /\ ~(sinceLoss[d] > Count(events[d], "frame"))
    <3>1. /\ sinceLoss'[d] = sinceLoss[d]
          /\ sinceLoss[d] <= Count(events[d], "frame")
          /\ sinceLoss[d] # Count(events[d], "frame") + 1
      <4>1. sinceLoss'[d] = sinceLoss[d]
        BY <1>2, <2>4
      <4> HIDE DEF TypeOK
      <4> QED BY <2>1, <2>4, <4>1
    <3>2. sinceLoss[d] <= Count(events[d], "frame") + InHand(d)'
      <4>1. InHand(d)' \in {0, 1}
        BY InHandType
      <4>2. \A i \in {0, 1} : sinceLoss[d] <= Count(events[d], "frame") + i
        <5> HIDE DEF TypeOK
        <5>1. \A a \in Int, b \in Nat, i \in {0, 1} : a <= b => a <= b + i
          BY SMT
        <5> QED BY <2>1, <3>1, <5>1
      <4> QED BY <4>1, <4>2
    <3> QED BY <1>2, <2>1, <3>1, <3>2 DEF LossAt
  <2> QED BY <2>2, <2>3, <2>4
<1> QED BY <1>3, <1>4 DEF LossInv

LEMMA LossWorker ==
    ASSUME TypeOK, TypeOK', DispatchInv, LossInv, NEW w \in Workers,
           WorkerStep(w) \/ NestedClose(w)
    PROVE  LossInv'
<1> USE DEF TypeOK
<1>1. CASE DrainPop(w)
  BY <1>1, LossPop
<1>2. CASE HandlerEnter(w)
  BY <1>2, LossEnter
<1>3. CASE \/ Take(w) \/ DrainEmpty(w) \/ HandlerReturn(w) \/ Reschedule(w)
           \/ NestedResume(w) \/ NestedClose(w)
  <2>1. /\ UNCHANGED <<events, dropped, sinceLoss, alive>>
        /\ \A v \in Workers \ {w} : wpc'[v] = wpc[v] /\ wev'[v] = wev[v] /\ wd'[v] = wd[v]
        /\ wpc'[w] # "popped"
        /\ wpc[w] = "popped" => wev[w].kind # "native_task" /\ ~alive[wd[w]]
    <3>1. CASE Take(w)
      BY <3>1 DEF Take, queueVars, ownerVars, frameVars
    <3>2. CASE DrainEmpty(w)
      BY <3>2 DEF DrainEmpty, ownerVars, frameVars
    <3>3. CASE HandlerReturn(w)
      BY <3>3 DEF HandlerReturn, ownerVars, frameVars
    <3>4. CASE Reschedule(w)
      BY <3>4 DEF Reschedule, queueVars, ownerVars, frameVars
    <3>5. CASE NestedResume(w) \/ NestedClose(w)
      BY <3>5, NestedMoves DEF ownerVars, frameVars
    <3> QED BY <1>3, <3>1, <3>2, <3>3, <3>4, <3>5
  <2>2. ASSUME NEW d \in Dispatchers PROVE LossAt(d)'
    <3>1. CASE ~alive[d]
      <4>1. sinceLoss'[d] = NoLoss
        BY <2>1, <3>1 DEF LossInv, LossAt
      <4> QED BY <4>1, LossForgotten
    <3>2. CASE alive[d]
      <4>1. w \notin Held(d) /\ w \notin Held(d)'
        BY <2>1, <3>2 DEF Held
      <4>2. \A v \in Workers \ {w} : v \in Held(d)' <=> v \in Held(d)
        BY <2>1 DEF Held
      <4>3. Held(d)' = Held(d)
        <5>1. \A v \in Workers :
                 /\ wpc'[v] = "popped" /\ wd'[v] = d /\ wev'[v].kind = "frame"
                 <=> wpc[v] = "popped" /\ wd[v] = d /\ wev[v].kind = "frame"
          BY <4>1, <4>2 DEF Held
        <5> QED BY <5>1 DEF Held
      <4>4. \A v \in Held(d) : wev'[v] = wev[v]
        BY <2>1, <4>1 DEF Held
      <4>5. SameHeld(d)
        BY <4>3, <4>4, HeldSame
      <4> QED BY <2>1, <4>5, LossKept DEF LossInv
    <3> QED BY <3>1, <3>2
  <2> QED BY <2>2 DEF LossInv
<1> QED BY <1>1, <1>2, <1>3 DEF WorkerStep

LEMMA LossStep ==
    TypeOK /\ TypeOK' /\ DispatchInv /\ TasksPosted /\ LossInv /\ [Next]_vars => LossInv'
<1> SUFFICES ASSUME TypeOK, TypeOK', DispatchInv, TasksPosted, LossInv, [Next]_vars
             PROVE  LossInv'
  OBVIOUS
<1>1. CASE UNCHANGED vars
  <2>1. ASSUME NEW d \in Dispatchers PROVE LossAt(d)'
    <3>1. SameHeld(d) /\ UNCHANGED <<events, dropped, sinceLoss, alive>>
      BY <1>1, HeldKept DEF vars, queueVars, ownerVars, frameVars
    <3> QED BY <3>1, LossKept DEF LossInv
  <2> QED BY <2>1 DEF LossInv
<1>2. CASE \E t \in SdkThreads : SdkStep(t)
  BY <1>2, LossPost, LossThread, LossRefused DEF SdkStep, Refused, Threads
<1>3. CASE \E t \in AppThreads : AppStep(t)
  BY <1>3, LossThread DEF AppStep, Threads
<1>4. CASE \E t \in Threads : ThreadContinue(t)
  BY <1>4, LossThread, LossRefused DEF ThreadContinue, Refused
<1>5. CASE \E w \in Workers : WorkerStep(w) \/ NestedClose(w)
  BY <1>5, LossWorker
<1> QED BY <1>1, <1>2, <1>3, <1>4, <1>5 DEF Next

LEMMA LossInit == Init => LossInv
<1> SUFFICES ASSUME Init, NEW d \in Dispatchers PROVE LossAt(d)
  BY DEF LossInv
<1>1. Positions(events[d], "frame") = {}
  BY DEF Init, Positions
<1>2. Count(events[d], "frame") = 0
  BY <1>1, FS_EmptySet DEF Count
<1>3. sinceLoss[d] = -1 /\ InHand(d) \in {0, 1}
  BY InHandType DEF Init, NoLoss
<1> QED BY <1>1, <1>2, <1>3 DEF LossAt, MarkedAt, NoLoss

\* The frame the invariant points at is the one the property points at: the
\* frames of the queue, behind the one in hand.
LEMMA LossShows == TypeOK /\ DispatchInv /\ LossInv => LossIsAnnounced
<1> SUFFICES ASSUME TypeOK, DispatchInv, LossInv, NEW d \in Dispatchers
             PROVE  LET frames == (IF Held(d) = {} THEN <<>>
                                     ELSE <<wev[CHOOSE w \in Held(d) : TRUE]>>)
                                  \o OfKind(events[d], "frame")
                    IN  /\ sinceLoss[d] = 0 => dropped[d]
                        /\ sinceLoss[d] > 0 =>
                              frames[Len(frames) - sinceLoss[d] + 1].mark
  BY DEF LossIsAnnounced
<1> DEFINE q == events[d]
           s == sinceLoss[d]
           k == OfKind(q, "frame")
           n == Count(q, "frame")
           h == IF Held(d) = {} THEN <<>> ELSE <<wev[CHOOSE w \in Held(d) : TRUE]>>
           frames == h \o k
<1>0. q \in Seq(Event) /\ s \in Nat \cup {NoLoss} /\ LossAt(d)
  BY DEF TypeOK, LossInv
<1>1. /\ k \in Seq(Event) /\ Len(k) = n /\ n \in Nat
      /\ \A j \in 1 .. n : \E p \in Positions(q, "frame") :
            /\ k[j] = q[p]
            /\ Cardinality({x \in Positions(q, "frame") : x < p}) = j - 1
  BY <1>0, KeptEvents
<1>2. /\ h \in Seq(Event) /\ Len(h) = InHand(d)
      /\ Held(d) # {} /\ HeldMarked(d) => h[1].mark
  <2>1. CASE Held(d) = {}
    BY <2>1 DEF InHand
  <2>2. CASE Held(d) # {}
    <3>1. PICK v \in Held(d) : v = CHOOSE w \in Held(d) : TRUE
      BY <2>2
    <3>2. wev[v] \in Event /\ h = <<wev[v]>>
      BY <2>2, <3>1 DEF TypeOK, Held
    <3> HIDE DEF h
    <3> QED BY <2>2, <3>1, <3>2 DEF InHand, HeldMarked
  <2> QED BY <2>1, <2>2
<1>3. /\ s = 0 => dropped[d]
      /\ s <= n + InHand(d)
      /\ MarkedAt(q, s)
      /\ s = n + 1 => HeldMarked(d)
      /\ InHand(d) \in {0, 1} /\ (InHand(d) = 1 => Held(d) # {})
  BY <1>0, InHandType DEF LossAt, InHand
<1> HIDE DEF q, s, k, n, h
<1>4. /\ Len(frames) = InHand(d) + n
      /\ \A j \in 1 .. InHand(d) + n :
            frames[j] = IF j <= InHand(d) THEN h[j] ELSE k[j - InHand(d)]
  <2>1. /\ Len(h \o k) = Len(h) + Len(k)
        /\ \A j \in 1 .. Len(h) + Len(k) :
              (h \o k)[j] = IF j <= Len(h) THEN h[j] ELSE k[j - Len(h)]
    BY <1>1, <1>2, ConcatProperties
  <2> QED BY <1>1, <1>2, <2>1
<1> HIDE DEF frames
<1>5. ASSUME s > 0 PROVE frames[Len(frames) - s + 1].mark
  <2>0. s \in Nat
    BY <1>0, <1>5 DEF NoLoss
  <2>1. CASE s <= n
    <3>1. n - s + 1 \in 1 .. n /\ Len(frames) - s + 1 \in 1 .. InHand(d) + n
      BY <1>1, <1>3, <1>4, <1>5, <2>0, <2>1
    <3>2. frames[Len(frames) - s + 1] = k[n - s + 1]
      BY <1>1, <1>3, <1>4, <2>0, <2>1, <3>1
    <3>3. PICK p \in Positions(q, "frame") :
             /\ k[n - s + 1] = q[p]
             /\ Cardinality({x \in Positions(q, "frame") : x < p}) = (n - s + 1) - 1
      BY <1>1, <3>1
    <3>4. After(q, p) = n - ((n - s + 1) - 1)
      BY <1>0, <3>3, AfterBound DEF n
    <3>5. After(q, p) = s
      BY <1>1, <2>0, <3>4
    <3> QED BY <1>3, <3>2, <3>3, <3>5 DEF MarkedAt
  <2>2. CASE s > n
    <3>1. s = n + 1 /\ InHand(d) = 1
      BY <1>1, <1>3, <2>0, <2>2
    <3>2. Len(frames) - s + 1 = 1 /\ frames[1] = h[1]
      BY <1>1, <1>4, <2>0, <3>1
    <3> QED BY <1>2, <1>3, <3>1, <3>2
  <2> QED BY <1>1, <2>0, <2>1, <2>2
<1> QED BY <1>3, <1>5 DEF frames, h, k, q, s

\* A loss of frames reaches the application: the next frame is marked.
THEOREM LossesAreAnnounced == Spec => []LossIsAnnounced
<1> QED BY TypeInit, TypeStep, SerialInit, SerialStep, QueueInit, PostedStep, LossInit,
           LossStep, LossShows, PTL DEF Spec

-----------------------------------------------------------------------------
(* close() has the last word.                                               *)

\* A caller waits for the end of d only once d is closed.
ClosersShut ==
    /\ \A t \in Threads : tpc[t] \in {"fin", "closing"} => closed[td[t]]
    /\ \A w \in Workers : wpc[w] = "nested" => closed[wt[w]]

\* What a step does to a dispatcher and to its closers.
CloseMoves(d) ==
    /\ closed[d] => closed'[d]
    /\ closed[d] /\ ~CloseBlocked(d) => ~CloseBlocked(d)'
    /\ closed[d] # closed'[d] => ~CloseBlocked(d)' \/ ClosersOf(d)' # {}
    /\ ClosersOf(d) \ ClosersOf(d)' # {} => closed'[d] /\ ~CloseBlocked(d)'

\* No thread enters or leaves a close().
LEMMA CloseAlone ==
    ASSUME TypeOK, ClosersShut, UNCHANGED <<closed, workerVars>>, NEW t \in Threads,
           tpc[t] \notin {"del", "fin", "closing"},
           tpc'[t] \notin {"fin", "closing"},
           \A u \in Threads \ {t} : tpc'[u] = tpc[u] /\ td'[u] = td[u],
           \A d \in Dispatchers : closed[d] /\ ~CloseBlocked(d) => ~CloseBlocked(d)'
    PROVE  ClosersShut' /\ \A d \in Dispatchers : CloseMoves(d)
<1>1. \A d \in Dispatchers : ClosersOf(d) \subseteq ClosersOf(d)'
  BY DEF ClosersOf, workerVars
<1>2. ClosersShut'
  BY DEF ClosersShut, workerVars
<1> QED BY <1>1, <1>2 DEF CloseMoves

LEMMA ClosePost ==
    ASSUME TypeOK, ClosersShut, NEW t \in Threads, Post(t)
    PROVE  ClosersShut' /\ \A c \in Dispatchers : CloseMoves(c)
<1> USE DEF TypeOK
<1>1. PICK d \in Dispatchers : \E e \in Offers(d) :
         PostReplace(d, e) \/ PostDropFrame(d, e) \/ PostAppend(t, d, e)
  BY DEF Post
<1>2. PICK e \in Offers(d) :
         PostReplace(d, e) \/ PostDropFrame(d, e) \/ PostAppend(t, d, e)
  BY <1>1
<1>3. /\ UNCHANGED <<closed, executing, workerVars>> /\ ~closed[d]
      /\ \A c \in Dispatchers \ {d} : events'[c] = events[c]
  BY <1>2 DEF PostReplace, PostDropFrame, PostAppend
<1>4. /\ tpc[t] = "idle" /\ tpc'[t] \in {"idle", "sched"}
      /\ \A u \in Threads \ {t} : tpc'[u] = tpc[u] /\ td'[u] = td[u]
  BY <1>2 DEF Post, PostReplace, PostDropFrame, PostAppend, Schedule, threadVars
<1>5. \A c \in Dispatchers : closed[c] /\ ~CloseBlocked(c) => ~CloseBlocked(c)'
  BY <1>3 DEF CloseBlocked
<1> QED BY <1>3, <1>4, <1>5, CloseAlone

LEMMA CloseTask ==
    ASSUME TypeOK, ClosersShut, NEW t \in Threads, PostNativeTask(t) \/ ResumeTask(t)
    PROVE  ClosersShut' /\ \A c \in Dispatchers : CloseMoves(c)
<1> USE DEF TypeOK
<1>1. PICK d \in Dispatchers, k \in Tasks \cup {"none"} :
         TaskStep(t, d, k) /\ tpc[t] \in {"idle", "ntask"}
  BY DEF PostNativeTask, ResumeTask
<1>2. /\ UNCHANGED <<closed, executing, workerVars>>
      /\ events'[d] = events[d] \/ ~closed[d]
      /\ \A c \in Dispatchers \ {d} : events'[c] = events[c]
  BY <1>1 DEF TaskStep, TaskReject, TaskWait, TaskAppend, queueVars
<1>3. /\ tpc[t] \notin {"del", "fin", "closing"} /\ tpc'[t] \notin {"fin", "closing"}
      /\ \A u \in Threads \ {t} : tpc'[u] = tpc[u] /\ td'[u] = td[u]
  BY <1>1 DEF TaskStep, TaskReject, TaskWait, TaskAppend, Schedule
<1>4. \A c \in Dispatchers : closed[c] /\ ~CloseBlocked(c) => ~CloseBlocked(c)'
  BY <1>2 DEF CloseBlocked
<1> QED BY <1>2, <1>3, <1>4, CloseAlone

LEMMA CloseThread ==
    ASSUME TypeOK, ClosersShut, NEW t \in Threads,
           PutReady(t) \/ Barrier(t) \/ ResumeWait(t) \/ Close(t) \/ Collect(t) \/ Discard(t)
    PROVE  ClosersShut' /\ \A c \in Dispatchers : CloseMoves(c)
<1> USE DEF TypeOK
<1>1. CASE PutReady(t) \/ Barrier(t) \/ Collect(t) \/ (ResumeWait(t) /\ tpc[t] = "barrier")
  <2>1. /\ UNCHANGED <<closed, executing, events, workerVars>>
        /\ tpc[t] \notin {"del", "fin", "closing"} /\ tpc'[t] \notin {"fin", "closing"}
        /\ \A u \in Threads \ {t} : tpc'[u] = tpc[u] /\ td'[u] = td[u]
    <3>1. CASE PutReady(t)
      BY <3>1 DEF PutReady, queueVars
    <3>2. CASE Barrier(t)
      BY <3>2 DEF Barrier, WaitStep, queueVars
    <3>3. CASE Collect(t)
      BY <3>3 DEF Collect, queueVars
    <3>4. CASE ResumeWait(t) /\ tpc[t] = "barrier"
      BY <3>4 DEF ResumeWait, WaitStep, queueVars
    <3> QED BY <1>1, <3>1, <3>2, <3>3, <3>4
  <2> QED BY <2>1, CloseAlone DEF CloseBlocked
\* The end of the wait: whoever leaves has seen nothing queued or handled.
<1>2. CASE ResumeWait(t) /\ tpc[t] = "closing"
  <2>1. PICK d \in Dispatchers : d = td[t] /\ closed[d]
    BY <1>2 DEF ClosersShut
  <2>2. /\ UNCHANGED <<closed, executing, events, workerVars>>
        /\ \A u \in Threads \ {t} : tpc'[u] = tpc[u] /\ td'[u] = td[u]
        /\ CloseBlocked(d) => tpc'[t] = "closing" /\ td'[t] = d
        /\ ~CloseBlocked(d) => tpc'[t] = "idle"
    BY <1>2, <2>1 DEF ResumeWait, WaitStep, queueVars
  <2>3. ClosersShut'
    BY <2>1, <2>2 DEF ClosersShut, workerVars
  <2>4. \A c \in Dispatchers : CloseBlocked(c)' <=> CloseBlocked(c)
    BY <2>2 DEF CloseBlocked
  <2>5. \A c \in Dispatchers \ {d} : ClosersOf(c) \subseteq ClosersOf(c)'
    BY <2>1, <2>2 DEF ClosersOf, workerVars
  <2>6. CloseBlocked(d) => ClosersOf(d) \subseteq ClosersOf(d)'
    BY <2>1, <2>2 DEF ClosersOf, workerVars
  <2> QED BY <2>1, <2>2, <2>3, <2>4, <2>5, <2>6 DEF CloseMoves
<1>3. CASE Close(t)
  <2>1. PICK d \in Dispatchers :
           /\ \/ tpc[t] = "idle" /\ owned[d]
              \/ tpc[t] \in {"del", "fin"} /\ td[t] = d
           /\ closed' = [closed EXCEPT ![d] = TRUE]
           /\ WaitStep(t, d, "closing", CloseBlocked(d), Notify(d))
    BY <1>3 DEF Close
  <2>2. /\ UNCHANGED <<executing, events, workerVars>> /\ closed'[d]
        /\ \A c \in Dispatchers \ {d} : closed'[c] = closed[c]
        /\ \A u \in Threads \ {t} : tpc'[u] = tpc[u] /\ td'[u] = td[u]
        /\ CloseBlocked(d) => tpc'[t] = "closing" /\ td'[t] = d
        /\ ~CloseBlocked(d) => tpc'[t] = "idle"
    BY <1>3, <2>1 DEF Close, WaitStep
  <2>3. ClosersShut'
    <3>1. \A c \in Dispatchers : closed[c] => closed'[c]
      BY <2>2
    <3>2. \A w \in Workers : wpc'[w] = "nested" => closed'[wt'[w]]
      BY <2>2, <3>1 DEF ClosersShut, workerVars
    <3>3. \A u \in Threads \ {t} : tpc'[u] \in {"fin", "closing"} => closed'[td'[u]]
      BY <2>2, <3>1 DEF ClosersShut
    <3>4. tpc'[t] \in {"fin", "closing"} => closed'[td'[t]]
      BY <2>2
    <3> QED BY <3>2, <3>3, <3>4 DEF ClosersShut
  <2>4. \A c \in Dispatchers : CloseBlocked(c)' <=> CloseBlocked(c)
    BY <2>2 DEF CloseBlocked
  <2>5. \A c \in Dispatchers \ {d} : ClosersOf(c) \subseteq ClosersOf(c)'
    BY <2>1, <2>2 DEF ClosersOf, workerVars
  <2>6. CloseBlocked(d) => ClosersOf(d) \subseteq ClosersOf(d)' /\ t \in ClosersOf(d)'
    BY <2>1, <2>2 DEF ClosersOf, workerVars
  <2> QED BY <2>2, <2>3, <2>4, <2>5, <2>6 DEF CloseMoves
<1>4. CASE Discard(t)
  <2>1. PICK d \in Dispatchers : d = td[t]
    OBVIOUS
  <2>2. /\ UNCHANGED <<executing, workerVars, td>> /\ closed'[d] /\ tpc'[t] = "fin"
        /\ events'[d] = OfKind(events[d], "native_task")
        /\ \A c \in Dispatchers \ {d} : closed'[c] = closed[c] /\ events'[c] = events[c]
        /\ \A u \in Threads \ {t} : tpc'[u] = tpc[u]
    BY <1>4, <2>1 DEF Discard
  <2>3. ClosersShut'
    BY <2>1, <2>2 DEF ClosersShut, workerVars
  <2>4. events[d] = <<>> => events'[d] = <<>>
    <3>1. OfKind(<<>>, "native_task") \in Seq(Event) /\ Len(OfKind(<<>>, "native_task")) = 0
      <4>1. Positions(<<>>, "native_task") = {}
        BY DEF Positions
      <4>2. Count(<<>>, "native_task") = 0
        BY <4>1, FS_EmptySet DEF Count
      <4> QED BY <4>2, OfKindType, EmptySeq DEF OfKind
    <3> QED BY <2>2, <3>1, EmptySeq
  <2>5. \A c \in Dispatchers : ~CloseBlocked(c) => ~CloseBlocked(c)'
    BY <2>2, <2>4 DEF CloseBlocked
  <2>6. \A c \in Dispatchers : ClosersOf(c) \subseteq ClosersOf(c)'
    BY <2>1, <2>2 DEF ClosersOf, workerVars
  <2>7. t \in ClosersOf(d)'
    BY <2>1, <2>2 DEF ClosersOf
  <2> QED BY <2>2, <2>3, <2>5, <2>6, <2>7 DEF CloseMoves
<1> QED BY <1>1, <1>2, <1>3, <1>4 DEF ResumeWait

LEMMA CloseRefused ==
    ASSUME TypeOK, ClosersShut, NEW t \in Threads, Refused(t)
    PROVE  ClosersShut' /\ \A c \in Dispatchers : CloseMoves(c)
<1> USE DEF TypeOK
<1>1. /\ UNCHANGED <<executing, events, workerVars>>
      /\ tpc[t] \notin {"del", "fin", "closing"}
      /\ \A u \in Threads \ {t} : tpc'[u] = tpc[u] /\ td'[u] = td[u]
  BY RefusedMoves
<1>2. CASE RefusedCallback(t) \/ RefusedReturn(t)
  <2>1. closed' = closed /\ tpc'[t] \notin {"fin", "closing"}
    BY <1>2 DEF RefusedCallback, RefusedReturn, queueVars, threadVars
  <2> QED BY <1>1, <2>1, CloseAlone DEF CloseBlocked
<1>3. CASE RefusedClose(t)
  <2>1. PICK d \in Dispatchers :
           /\ closed' = [closed EXCEPT ![d] = TRUE]
           /\ WaitStep(t, d, "closing", CloseBlocked(d), Notify(d))
    BY <1>3 DEF RefusedClose
  <2>2. /\ closed'[d] /\ \A c \in Dispatchers \ {d} : closed'[c] = closed[c]
        /\ CloseBlocked(d) => tpc'[t] = "closing" /\ td'[t] = d
        /\ ~CloseBlocked(d) => tpc'[t] = "idle"
    BY <2>1 DEF WaitStep
  <2>3. ClosersShut'
    <3>1. \A c \in Dispatchers : closed[c] => closed'[c]
      BY <2>2
    <3>2. \A w \in Workers : wpc'[w] = "nested" => closed'[wt'[w]]
      BY <1>1, <3>1 DEF ClosersShut, workerVars
    <3>3. \A u \in Threads \ {t} : tpc'[u] \in {"fin", "closing"} => closed'[td'[u]]
      BY <1>1, <3>1 DEF ClosersShut
    <3>4. tpc'[t] \in {"fin", "closing"} => closed'[td'[t]]
      BY <2>2
    <3> QED BY <3>2, <3>3, <3>4 DEF ClosersShut
  <2>4. \A c \in Dispatchers : CloseBlocked(c)' <=> CloseBlocked(c)
    BY <1>1 DEF CloseBlocked
  <2>5. \A c \in Dispatchers : ClosersOf(c) \subseteq ClosersOf(c)'
    BY <1>1 DEF ClosersOf, workerVars
  <2>6. CloseBlocked(d) => t \in ClosersOf(d)'
    BY <2>2 DEF ClosersOf
  <2> QED BY <2>2, <2>3, <2>4, <2>5, <2>6 DEF CloseMoves
<1> QED BY <1>2, <1>3 DEF Refused

LEMMA CloseWorker ==
    ASSUME TypeOK, ClosersShut, NEW w \in Workers, WorkerStep(w) \/ NestedClose(w)
    PROVE  ClosersShut' /\ \A c \in Dispatchers : CloseMoves(c)
<1> USE DEF TypeOK
\* What is handled comes from a queue that was not empty.
<1>1. CASE \/ Take(w) \/ DrainEmpty(w) \/ DrainPop(w) \/ HandlerEnter(w)
           \/ HandlerReturn(w) \/ Reschedule(w)
  <2>1. /\ UNCHANGED <<closed, threadVars, wt>> /\ wpc[w] # "nested" /\ wpc'[w] # "nested"
        /\ \A v \in Workers \ {w} : wpc'[v] = wpc[v]
        /\ \A c \in Dispatchers : ~CloseBlocked(c) => ~CloseBlocked(c)'
    <3>1. CASE Take(w) \/ DrainEmpty(w) \/ HandlerEnter(w) \/ Reschedule(w)
      BY <3>1 DEF Take, DrainEmpty, HandlerEnter, Reschedule, queueVars, CloseBlocked
    <3>2. CASE DrainPop(w)
      BY <3>2 DEF DrainPop, CloseBlocked
    <3>3. CASE HandlerReturn(w)
      BY <3>3 DEF HandlerReturn, CloseBlocked
    <3> QED BY <1>1, <3>1, <3>2, <3>3
  <2>2. ClosersShut'
    BY <2>1 DEF ClosersShut, threadVars
  <2>3. \A c \in Dispatchers : ClosersOf(c) \subseteq ClosersOf(c)'
    BY <2>1 DEF ClosersOf, threadVars
  <2> QED BY <2>1, <2>2, <2>3 DEF CloseMoves
<1>2. CASE NestedResume(w) \/ NestedClose(w)
  <2>1. PICK d \in Dispatchers :
           /\ wpc[w] = "nested" => wt[w] = d
           /\ closed' = [closed EXCEPT ![d] = TRUE]
           /\ \E base : NestedWait(w, d, base)
    <3>1. CASE NestedResume(w)
      BY <3>1 DEF NestedResume, ClosersShut
    <3>2. CASE NestedClose(w)
      BY <3>2 DEF NestedClose
    <3> QED BY <1>2, <3>1, <3>2
  <2>2. PICK base : NestedWait(w, d, base)
    BY <2>1
  <2>3. /\ UNCHANGED <<executing, events, threadVars>> /\ closed'[d]
        /\ \A c \in Dispatchers \ {d} : closed'[c] = closed[c]
        /\ \A v \in Workers \ {w} : wpc'[v] = wpc[v] /\ wt'[v] = wt[v]
        /\ CloseBlocked(d) => wpc'[w] = "nested" /\ wt'[w] = d
        /\ ~CloseBlocked(d) => wpc'[w] = "run"
    BY <2>1, <2>2 DEF NestedWait
  <2>4. ClosersShut'
    <3>1. \A c \in Dispatchers : closed[c] => closed'[c]
      BY <2>3
    <3>2. \A t \in Threads : tpc'[t] \in {"fin", "closing"} => closed'[td'[t]]
      BY <2>3, <3>1 DEF ClosersShut, threadVars
    <3>3. \A v \in Workers \ {w} : wpc'[v] = "nested" => closed'[wt'[v]]
      BY <2>3, <3>1 DEF ClosersShut
    <3>4. wpc'[w] = "nested" => closed'[wt'[w]]
      BY <2>3
    <3> QED BY <3>2, <3>3, <3>4 DEF ClosersShut
  <2>5. \A c \in Dispatchers : CloseBlocked(c)' <=> CloseBlocked(c)
    BY <2>3 DEF CloseBlocked
  <2>6. \A c \in Dispatchers \ {d} : ClosersOf(c) \subseteq ClosersOf(c)'
    BY <2>1, <2>3 DEF ClosersOf, threadVars
  <2>7. CloseBlocked(d) => ClosersOf(d) \subseteq ClosersOf(d)' /\ w \in ClosersOf(d)'
    BY <2>1, <2>3 DEF ClosersOf, threadVars
  <2> QED BY <2>3, <2>4, <2>5, <2>6, <2>7 DEF CloseMoves
<1> QED BY <1>1, <1>2 DEF WorkerStep

LEMMA CloseStep ==
    ASSUME TypeOK, ClosersShut, [Next]_vars
    PROVE  ClosersShut' /\ \A c \in Dispatchers : CloseMoves(c)
<1>1. CASE UNCHANGED vars
  BY <1>1 DEF vars, queueVars, workerVars, threadVars, ClosersShut, CloseMoves, ClosersOf,
     CloseBlocked
<1>2. ASSUME NEW t \in SdkThreads, SdkStep(t)
      PROVE  ClosersShut' /\ \A c \in Dispatchers : CloseMoves(c)
  BY <1>2, ClosePost, CloseTask, CloseRefused DEF SdkStep, Refused, Threads
<1>3. ASSUME NEW t \in AppThreads, AppStep(t)
      PROVE  ClosersShut' /\ \A c \in Dispatchers : CloseMoves(c)
  BY <1>3, CloseThread DEF AppStep, Threads
<1>4. ASSUME NEW t \in Threads, ThreadContinue(t)
      PROVE  ClosersShut' /\ \A c \in Dispatchers : CloseMoves(c)
  BY <1>4, CloseThread, CloseTask, CloseRefused DEF ThreadContinue, Refused
<1>5. ASSUME NEW w \in Workers, WorkerStep(w) \/ NestedClose(w)
      PROVE  ClosersShut' /\ \A c \in Dispatchers : CloseMoves(c)
  BY <1>5, CloseWorker
<1> QED BY <1>1, <1>2, <1>3, <1>4, <1>5 DEF Next

\* _executing is the unlocked section, so that what close() waits for is what runs.
LEMMA QuietIs ==
    ASSUME DispatchInv, NEW d \in Dispatchers
    PROVE  Quiet(d) <=> closed[d] /\ ~CloseBlocked(d)
BY DEF DispatchInv, ExecutingExact, Quiet, CloseBlocked

LEMMA QuietAfter ==
    ASSUME DispatchInv', NEW d \in Dispatchers
    PROVE  Quiet(d)' <=> closed'[d] /\ ~CloseBlocked(d)'
BY DEF DispatchInv, ExecutingExact, Quiet, CloseBlocked

LEMMA QuietStaysQuiet ==
    ASSUME TypeOK, TypeOK', DispatchInv, DispatchInv', ClosersShut, [Next]_vars,
           NEW d \in Dispatchers
    PROVE  /\ Quiet(d) => Quiet(d)'
           /\ closed[d] # closed[d]' => Quiet(d)' \/ ClosersOf(d)' # {}
           /\ ClosersOf(d) \ ClosersOf(d)' # {} => Quiet(d)'
<1>1. CloseMoves(d)
  BY CloseStep
<1>2. closed[d] \in BOOLEAN /\ closed'[d] \in BOOLEAN
  BY DEF TypeOK
<1> QED BY <1>1, <1>2, QuietIs, QuietAfter DEF CloseMoves

\* Once a close() of a dispatcher has returned, in a thread, in a finalizer or in
\* the callback of another object, the pool runs no callback of it and never will,
\* for any number of workers, closers and posters.  (A task refused afterwards runs
\* its callback outside the pool: CloseAwaitsCallbacks, which does not hold.)
THEOREM ClosedIsQuiet == Spec => PoolQuietAfterClose
<1>1. Init => ClosersShut
  BY DEF Init, ClosersShut
<1>2. TypeOK /\ ClosersShut /\ [Next]_vars => ClosersShut'
  BY CloseStep
<1>3. TypeOK /\ TypeOK' /\ DispatchInv /\ DispatchInv' /\ ClosersShut /\ [Next]_vars =>
      [\A d \in Dispatchers :
          /\ Quiet(d) => Quiet(d)'
          /\ closed[d] # closed[d]' => Quiet(d)' \/ ClosersOf(d)' # {}
          /\ ClosersOf(d) \ ClosersOf(d)' # {} => Quiet(d)']_vars
  BY QuietStaysQuiet
<1> QED BY <1>1, <1>2, <1>3, TypeInit, TypeStep, SerialInit, SerialStep, PTL
        DEF Spec, PoolQuietAfterClose

\* A thread with a refused task in hand, and a callback that it runs itself, belong
\* to a dispatcher that is closed.
RefusedShut ==
    /\ \A t \in Threads : tpc[t] = "task" => closed[td[t]]
    /\ \A t \in Threads : \A d \in inside[t] : closed[d]

\* A step that lets no thread have a task, or be inside a callback.
LEMMA RefusedKept ==
    ASSUME TypeOK, RefusedShut, inside' = inside,
           \A c \in Dispatchers : closed[c] => closed'[c],
           \A u \in Threads : tpc'[u] = "task" => tpc[u] = "task" /\ td'[u] = td[u]
    PROVE  RefusedShut'
BY DEF TypeOK, RefusedShut

LEMMA RefusedTask ==
    ASSUME TypeOK, RefusedShut, NEW t \in Threads, PostNativeTask(t) \/ ResumeTask(t),
           \A c \in Dispatchers : closed[c] => closed'[c]
    PROVE  RefusedShut'
<1>1. PICK d \in Dispatchers, k \in Tasks \cup {"none"} : TaskStep(t, d, k)
  BY DEF PostNativeTask, ResumeTask, TypeOK
<1>2. inside' = inside
  BY DEF PostNativeTask, ResumeTask
<1>3. /\ \A u \in Threads \ {t} : tpc'[u] = tpc[u] /\ td'[u] = td[u]
      /\ tpc'[t] = "task" => td'[t] = d /\ closed[d]
  <2>1. CASE TaskReject(t, d, k)
    BY <2>1 DEF TaskReject, TypeOK
  <2>2. CASE TaskWait(t, d, k)
    BY <2>2 DEF TaskWait, TypeOK
  <2>3. CASE TaskAppend(t, d, k)
    BY <2>3 DEF TaskAppend, Schedule, TypeOK
  <2> QED BY <1>1, <2>1, <2>2, <2>3 DEF TaskStep
<1>4. \A u \in Threads \ {t} : tpc'[u] = "task" => closed'[td'[u]]
  BY <1>3 DEF TypeOK, RefusedShut
<1>5. tpc'[t] = "task" => closed'[td'[t]]
  BY <1>1, <1>3
<1>6. \A u \in Threads : \A c \in inside'[u] : closed'[c]
  BY <1>2 DEF TypeOK, RefusedShut
<1> QED BY <1>4, <1>5, <1>6 DEF RefusedShut

LEMMA RefusedMoved ==
    ASSUME TypeOK, RefusedShut, NEW t \in Threads, Refused(t),
           \A c \in Dispatchers : closed[c] => closed'[c]
    PROVE  RefusedShut'
<1>1. /\ tpc'[t] # "task"
      /\ \A u \in Threads \ {t} : tpc'[u] = tpc[u] /\ td'[u] = td[u]
  BY RefusedMoves
<1>2. \A u \in Threads : \A d \in inside'[u] : closed[d]
  <2>1. CASE RefusedCallback(t)
    BY <2>1 DEF RefusedCallback, TypeOK, RefusedShut
  <2>2. CASE RefusedReturn(t)
    BY <2>2 DEF RefusedReturn, TypeOK, RefusedShut
  <2>3. CASE RefusedClose(t)
    BY <2>3 DEF RefusedClose, taskVars, RefusedShut
  <2> QED BY <2>1, <2>2, <2>3 DEF Refused
<1>3. \A u \in Threads : inside'[u] \subseteq Dispatchers
  <2>1. CASE RefusedCallback(t)
    BY <2>1 DEF RefusedCallback, TypeOK
  <2>2. CASE RefusedReturn(t)
    BY <2>2 DEF RefusedReturn, TypeOK
  <2>3. CASE RefusedClose(t)
    BY <2>3 DEF RefusedClose, taskVars, TypeOK
  <2> QED BY <2>1, <2>2, <2>3 DEF Refused
<1> QED BY <1>1, <1>2, <1>3 DEF TypeOK, RefusedShut

\* The other calls and the workers leave inside alone and take no task in hand.
LEMMA RefusedOthers ==
    ASSUME TypeOK, RefusedShut, \A c \in Dispatchers : closed[c] => closed'[c],
           \/ \E t \in Threads : \/ Post(t) \/ PutReady(t) \/ Barrier(t) \/ Close(t)
                                \/ ResumeWait(t) \/ Collect(t) \/ Discard(t)
           \/ \E w \in Workers : WorkerStep(w) \/ NestedClose(w)
    PROVE  RefusedShut'
<1>1. ASSUME NEW t \in Threads, Post(t) PROVE RefusedShut'
  <2>1. PICK d \in Dispatchers, e \in Event :
           PostReplace(d, e) \/ PostDropFrame(d, e) \/ PostAppend(t, d, e)
    BY <1>1 DEF Post, Offers
  <2>2. CASE PostReplace(d, e)
    BY <2>2, RefusedKept DEF PostReplace, threadVars, taskVars
  <2>3. CASE PostDropFrame(d, e)
    BY <2>3, RefusedKept DEF PostDropFrame, threadVars, taskVars
  <2>4. CASE PostAppend(t, d, e)
    <3>1. inside' = inside
      BY <2>4 DEF PostAppend, taskVars
    <3>2. \A u \in Threads : tpc'[u] = "task" => tpc[u] = "task" /\ td'[u] = td[u]
      BY <2>4 DEF PostAppend, Schedule, TypeOK
    <3> QED BY <3>1, <3>2, RefusedKept
  <2> QED BY <2>1, <2>2, <2>3, <2>4
<1>2. ASSUME NEW t \in Threads,
             \/ PutReady(t) \/ Barrier(t) \/ Close(t) \/ ResumeWait(t)
             \/ Collect(t) \/ Discard(t)
      PROVE  RefusedShut'
  <2>1. inside' = inside
    BY <1>2 DEF PutReady, Barrier, Close, ResumeWait, Collect, Discard, taskVars
  <2>2. \A u \in Threads : tpc'[u] = "task" => tpc[u] = "task" /\ td'[u] = td[u]
    <3>1. CASE PutReady(t) \/ Collect(t) \/ Discard(t)
      BY <3>1 DEF PutReady, Collect, Discard, TypeOK
    <3>2. CASE Barrier(t) \/ Close(t) \/ ResumeWait(t)
      BY <3>2 DEF Barrier, Close, ResumeWait, WaitStep, TypeOK
    <3> QED BY <1>2, <3>1, <3>2
  <2> QED BY <2>1, <2>2, RefusedKept
<1>3. ASSUME NEW w \in Workers, WorkerStep(w) \/ NestedClose(w) PROVE RefusedShut'
  <2>1. UNCHANGED <<inside, threadVars>>
    <3>1. CASE Take(w) \/ DrainEmpty(w) \/ DrainPop(w) \/ HandlerEnter(w)
      BY <3>1 DEF Take, DrainEmpty, DrainPop, HandlerEnter, taskVars
    <3>2. CASE HandlerReturn(w) \/ Reschedule(w) \/ NestedResume(w) \/ NestedClose(w)
      BY <3>2 DEF HandlerReturn, Reschedule, NestedResume, NestedClose, NestedWait,
         taskVars
    <3> QED BY <1>3, <3>1, <3>2 DEF WorkerStep
  <2> QED BY <2>1, RefusedKept DEF threadVars
<1> QED BY <1>1, <1>2, <1>3

LEMMA RefusedStep ==
    ASSUME TypeOK, RefusedShut, ClosersShut, [Next]_vars
    PROVE  RefusedShut'
<1>0. \A c \in Dispatchers : closed[c] => closed'[c]
  BY CloseStep DEF CloseMoves
<1>1. CASE UNCHANGED vars
  BY <1>1, <1>0, RefusedKept DEF vars, threadVars, taskVars
<1>2. ASSUME NEW t \in SdkThreads, SdkStep(t) PROVE RefusedShut'
  BY <1>0, <1>2, RefusedOthers, RefusedTask, RefusedMoved DEF SdkStep, Refused, Threads
<1>3. ASSUME NEW t \in AppThreads, AppStep(t) PROVE RefusedShut'
  BY <1>0, <1>3, RefusedOthers DEF AppStep, Threads
<1>4. ASSUME NEW t \in Threads, ThreadContinue(t) PROVE RefusedShut'
  BY <1>0, <1>4, RefusedOthers, RefusedTask, RefusedMoved DEF ThreadContinue, Refused
<1>5. ASSUME NEW w \in Workers, WorkerStep(w) \/ NestedClose(w) PROVE RefusedShut'
  BY <1>0, <1>5, RefusedOthers
<1> QED BY <1>1, <1>2, <1>3, <1>4, <1>5 DEF Next

\* Callbacks of one object never overlap in the pool (two workers inside
\* _drain_one for the same dispatcher are one), and a thread of the SDK is inside a
\* callback only for a dispatcher that is closed: the callbacks of an object are
\* serial until its Dispatcher is closed.
THEOREM CallbacksAreSerial == Spec => []SerialCallbacks
<1>1. DispatchInv /\ RefusedShut => SerialCallbacks
  <2>1. DispatchInv => \A v, w \in Workers, d \in Dispatchers :
                          InCallback(v, d) /\ InCallback(w, d) => v = w
    BY DEF DispatchInv, TokenUnique, InCallback, Draining
  <2> QED BY <2>1 DEF RefusedShut, SerialCallbacks
<1>2. Init => ClosersShut /\ RefusedShut
  BY DEF Init, ClosersShut, RefusedShut
<1>3. TypeOK /\ ClosersShut /\ [Next]_vars => ClosersShut'
  BY CloseStep
<1>4. TypeOK /\ RefusedShut /\ ClosersShut /\ [Next]_vars => RefusedShut'
  BY RefusedStep
<1> QED BY <1>1, <1>2, <1>3, <1>4, TypeInit, TypeStep, SerialInit, SerialStep, PTL
        DEF Spec
=============================================================================
