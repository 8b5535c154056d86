----------------------- MODULE CloseCoordinatorProofs -----------------------
(* Proofs about CloseCoordinator: its inductive invariant, and that it      *)
(* implements CloseOnce, for any number of threads, errors and generations. *)
EXTENDS CloseCoordinator, FiniteSetTheorems, TLAPS

IInv == TypeOK /\ CoordInv

USE DEF Electable, Last, NotifyAll

LEMMA WaitersFinite ==
    ASSUME TypeOK, NEW g
    PROVE  IsFiniteSet(WaitersOf(g)) /\ Cardinality(WaitersOf(g)) \in Nat
<1>1. WaitersOf(g) \subseteq Threads
  BY DEF WaitersOf
<1> QED BY <1>1, ThreadsAssumption, FS_Subset, FS_CardinalityType

\* A registered waiter is counted.
LEMMA WaiterCounted ==
    ASSUME IInv, NEW t \in Threads, caller[t] = "waiting"
    PROVE  /\ gen[t] \in Generations /\ gen[t] \in 1 .. generation
           /\ waiters[gen[t]] > 0 /\ waiters[gen[t]] \in Nat
           /\ status # "closing" \/ gen[t] # generation => outcomes[gen[t]] # Absent
           /\ t \in asleep <=> outcomes[gen[t]] = Absent
<1>1. /\ gen[t] \in Generations /\ gen[t] \in 1 .. generation
      /\ t \in WaitersOf(gen[t])
  BY GenerationAssumption DEF IInv, TypeOK, Generations, CoordInv, WaiterServed, WaitersOf
<1>2. Cardinality(WaitersOf(gen[t])) # 0
  BY <1>1, WaitersFinite, FS_EmptySet DEF IInv
<1>3. waiters[gen[t]] = Cardinality(WaitersOf(gen[t])) /\ waiters[gen[t]] \in Nat
  BY <1>1 DEF IInv, CoordInv, OutcomesKept, TypeOK
<1> QED BY <1>1, <1>2, <1>3 DEF IInv, CoordInv, WaiterServed, NoLostWakeup

LEMMA InitInv == Init => IInv
<1> SUFFICES ASSUME Init PROVE IInv
  OBVIOUS
<1>1. TypeOK
  BY GenerationAssumption DEF Init, TypeOK, Generations
<1>2. \A g \in Generations : WaitersOf(g) = {}
  BY DEF Init, WaitersOf
<1>3. OutcomesKept
  BY <1>2, FS_EmptySet DEF Init, OutcomesKept
<1> QED BY <1>1, <1>3 DEF Init, IInv, CoordInv, OneTeardown, WaiterServed, NoLostWakeup

LEMMA StepTeardown ==
    ASSUME IInv, NEW t \in Threads, BeginTeardown(t)
    PROVE  IInv'
<1> USE DEF IInv
<1>1. TypeOK'
  BY GenerationAssumption DEF BeginTeardown, TypeOK, Generations
<1>2. \A u \in Threads : caller[u] # "teardown"
  BY DEF BeginTeardown, CoordInv, OneTeardown
<1>3. OneTeardown'
  BY <1>2 DEF BeginTeardown, TypeOK, OneTeardown
<1>4. \A g \in Generations : WaitersOf(g)' = WaitersOf(g)
  BY DEF BeginTeardown, TypeOK, WaitersOf
<1>5. OutcomesKept'
  BY <1>4 DEF BeginTeardown, CoordInv, OutcomesKept
<1>6. WaiterServed'
  <2> SUFFICES ASSUME NEW u \in Threads, caller'[u] = "waiting"
               PROVE  /\ gen'[u] \in 1 .. generation'
                      /\ outcomes'[gen'[u]] # Absent
                      /\ ~(status' = "closing" /\ gen'[u] = generation')
    BY DEF WaiterServed
  <2>1. u # t /\ caller[u] = "waiting" /\ gen'[u] = gen[u]
    BY DEF BeginTeardown, TypeOK
  <2>2. gen[u] \in 1 .. generation /\ outcomes[gen[u]] # Absent
    BY <2>1, WaiterCounted DEF BeginTeardown
  <2> QED BY <2>1, <2>2 DEF BeginTeardown, TypeOK
<1>7. NoLostWakeup'
  BY DEF BeginTeardown, CoordInv, NoLostWakeup, TypeOK
<1> QED BY <1>1, <1>3, <1>5, <1>6, <1>7 DEF CoordInv

LEMMA StepWait ==
    ASSUME IInv, NEW t \in Threads, BeginWait(t)
    PROVE  IInv'
<1> USE DEF IInv
<1>0. PICK g \in Generations : g = generation
  BY GenerationAssumption DEF BeginWait, CoordInv, OneTeardown, TypeOK, Generations
<1>1. TypeOK'
  BY <1>0 DEF BeginWait, TypeOK
<1>2. OneTeardown'
  BY DEF BeginWait, TypeOK, CoordInv, OneTeardown
<1>3. OutcomesKept'
  <2>1. WaitersOf(g)' = WaitersOf(g) \cup {t} /\ t \notin WaitersOf(g)
    BY <1>0 DEF BeginWait, TypeOK, WaitersOf
  <2>2. \A h \in Generations \ {g} : WaitersOf(h)' = WaitersOf(h)
    BY <1>0 DEF BeginWait, TypeOK, WaitersOf
  <2>3. Cardinality(WaitersOf(g)') = Cardinality(WaitersOf(g)) + 1
    BY <2>1, WaitersFinite, FS_AddElement
  <2> QED BY <1>0, <2>2, <2>3 DEF BeginWait, TypeOK, CoordInv, OutcomesKept
<1>4. outcomes[g] = Absent
  <2> SUFFICES ASSUME outcomes[g] # Absent PROVE FALSE
    OBVIOUS
  <2>1. Cardinality(WaitersOf(g)) # 0
    BY DEF CoordInv, OutcomesKept, TypeOK
  <2>2. PICK u \in Threads : caller[u] = "waiting" /\ gen[u] = g
    BY <2>1, FS_EmptySet DEF WaitersOf
  <2> QED BY <1>0, <2>2 DEF BeginWait, CoordInv, WaiterServed
<1>5. WaiterServed'
  <2>1. g \in 1 .. generation
    BY <1>0, GenerationAssumption DEF Generations, TypeOK
  <2> QED BY <1>0, <1>4, <2>1 DEF BeginWait, TypeOK, CoordInv, WaiterServed
<1>6. NoLostWakeup'
  BY <1>0, <1>4 DEF BeginWait, TypeOK, CoordInv, NoLostWakeup
<1> QED BY <1>1, <1>2, <1>3, <1>5, <1>6 DEF CoordInv

LEMMA StepLeave ==
    ASSUME IInv, NEW t \in Threads, caller[t] = "waiting",
           NEW verdict \in Verdicts \cup {"interrupted"}, Leave(t, verdict)
    PROVE  IInv'
<1> USE DEF IInv
<1>0. PICK g \in Generations : g = gen[t] /\ waiters[g] > 0
  BY WaiterCounted
<1>1. TypeOK'
  BY <1>0, GenerationAssumption DEF Leave, TypeOK
<1>2. OneTeardown'
  BY DEF Leave, TypeOK, CoordInv, OneTeardown
<1>3. /\ WaitersOf(g)' = WaitersOf(g) \ {t} /\ t \in WaitersOf(g)
      /\ \A h \in Generations \ {g} : WaitersOf(h)' = WaitersOf(h)
  BY <1>0 DEF Leave, TypeOK, WaitersOf
<1>4. Cardinality(WaitersOf(g)') = Cardinality(WaitersOf(g)) - 1
  BY <1>3, WaitersFinite, FS_RemoveElement
<1>5. OutcomesKept'
  BY <1>0, <1>3, <1>4 DEF Leave, TypeOK, CoordInv, OutcomesKept
<1>6. ASSUME NEW u \in Threads, caller'[u] = "waiting"
      PROVE  /\ u # t /\ caller[u] = "waiting" /\ gen'[u] = gen[u]
             /\ outcomes'[gen[u]] = outcomes[gen[u]]
  <2>1. u # t /\ caller[u] = "waiting" /\ gen'[u] = gen[u]
    BY <1>6 DEF Leave, TypeOK
  <2>2. gen[u] \in Generations
    BY <2>1, WaiterCounted
  <2>3. CASE gen[u] = g
    <3>1. u \in WaitersOf(g)'
      BY <1>3, <2>1, <2>3 DEF WaitersOf
    <3>2. Cardinality(WaitersOf(g)') # 0
      BY <1>1, <3>1, WaitersFinite, FS_EmptySet, FS_Subset, FS_RemoveElement, <1>3
    <3>3. waiters[g] # 1
      BY <1>4, <3>2 DEF CoordInv, OutcomesKept
    <3> QED BY <1>0, <2>1, <2>3, <3>3 DEF Leave, TypeOK
  <2>4. CASE gen[u] # g
    BY <1>0, <2>1, <2>2, <2>4 DEF Leave, TypeOK
  <2> QED BY <2>1, <2>3, <2>4
<1>7. WaiterServed'
  <2>1. status' = status /\ generation' = generation
    BY DEF Leave
  <2> QED BY <1>6, <2>1 DEF CoordInv, WaiterServed
<1>8. NoLostWakeup'
  <2>1. asleep' = asleep \ {t} /\ \A u \in Threads \ {t} : caller'[u] = caller[u]
    BY DEF Leave, TypeOK
  <2> QED BY <1>6, <2>1 DEF TypeOK, CoordInv, NoLostWakeup
<1> QED BY <1>1, <1>2, <1>5, <1>7, <1>8 DEF CoordInv

LEMMA StepPublish ==
    ASSUME IInv, NEW t \in Threads, NEW verdict \in Verdicts, Publish(t, verdict),
           status' \in {"close_failed", "closed"}
    PROVE  IInv'
<1> USE DEF IInv
<1>0. PICK g \in 0 .. MaxGeneration : g = gen[t] /\ g = generation
  BY DEF Publish, CoordInv, OneTeardown, TypeOK
<1>1. TypeOK'
  <2>1. outcomes' \in [Generations -> Verdicts \cup {Absent}]
    BY DEF Publish, TypeOK
  <2>2. /\ caller' \in [Threads -> {"idle", "waiting", "teardown"}]
        /\ gen' \in [Threads -> 0 .. MaxGeneration]
        /\ result' \in [Threads -> Verdicts \cup {"none", "interrupted"}]
    BY GenerationAssumption DEF Publish, TypeOK
  <2> QED BY <2>1, <2>2 DEF Publish, TypeOK
<1>2. OneTeardown'
  BY DEF Publish, TypeOK, CoordInv, OneTeardown
<1>3. \A h \in Generations : WaitersOf(h)' = WaitersOf(h)
  BY DEF Publish, TypeOK, WaitersOf
<1>4. OutcomesKept'
  BY <1>0, <1>3 DEF Publish, TypeOK, CoordInv, OutcomesKept
<1>5. verdict # Absent
  BY ErrorsAssumption DEF Verdicts, Absent
<1>6. ASSUME NEW u \in Threads, caller'[u] = "waiting"
      PROVE  /\ u # t /\ caller[u] = "waiting" /\ gen'[u] = gen[u]
             /\ gen[u] \in 1 .. generation
             /\ outcomes'[gen[u]] # Absent
  <2>1. u # t /\ caller[u] = "waiting" /\ gen'[u] = gen[u]
    BY <1>6 DEF Publish, TypeOK
  <2>2. gen[u] \in Generations /\ gen[u] \in 1 .. generation /\ waiters[gen[u]] > 0
    BY <2>1, WaiterCounted
  <2>3. CASE gen[u] = g
    BY <1>0, <1>5, <2>1, <2>2, <2>3 DEF Publish, TypeOK
  <2>4. CASE gen[u] # g
    <3>1. outcomes[gen[u]] # Absent
      BY <1>0, <2>1, <2>4, WaiterCounted
    <3> QED BY <1>0, <2>1, <2>2, <2>4, <3>1 DEF Publish, TypeOK
  <2> QED BY <2>1, <2>2, <2>3, <2>4
<1>7. WaiterServed' /\ NoLostWakeup'
  <2>1. asleep' = {} /\ generation' = generation
    BY DEF Publish
  <2> QED BY <1>6, <2>1 DEF WaiterServed, NoLostWakeup
<1> QED BY <1>1, <1>2, <1>4, <1>7 DEF CoordInv

LEMMA StepInv == IInv /\ [Next]_vars => IInv'
<1> SUFFICES ASSUME IInv, [Next]_vars PROVE IInv'
  OBVIOUS
<1>1. CASE UNCHANGED vars
  BY <1>1 DEF vars, IInv, TypeOK, CoordInv, OneTeardown, OutcomesKept, WaiterServed,
     NoLostWakeup, WaitersOf
<1>2. ASSUME NEW t \in Threads, Begin(t) PROVE IInv'
  <2>1. CASE BeginClosed(t)
    <3>1. TypeOK'
      BY <2>1 DEF BeginClosed, coordVars, IInv, TypeOK, Verdicts
    <3> QED BY <2>1, <3>1 DEF BeginClosed, coordVars, IInv, CoordInv, OneTeardown,
            OutcomesKept, WaiterServed, NoLostWakeup, WaitersOf
  <2> QED BY <1>2, <2>1, StepTeardown, StepWait DEF Begin
<1>3. ASSUME NEW t \in Threads, Wake(t) \/ Interrupt(t) PROVE IInv'
  <2>1. caller[t] = "waiting" /\ gen[t] \in Generations
    BY <1>3, WaiterCounted DEF Wake, Interrupt
  <2>2. \E verdict \in Verdicts \cup {"interrupted"} : Leave(t, verdict)
    BY <1>3, <2>1 DEF Wake, Interrupt, IInv, TypeOK
  <2> QED BY <2>1, <2>2, StepLeave
<1>4. ASSUME NEW t \in Threads, Finish(t) PROVE IInv'
  <2>1. PICK verdict \in Verdicts : Publish(t, verdict)
    BY <1>4 DEF Finish, Fail, Succeed, Verdicts
  <2>2. status' \in {"close_failed", "closed"}
    BY <1>4 DEF Finish, Fail, Succeed
  <2> QED BY <2>1, <2>2, StepPublish
<1> QED BY <1>1, <1>2, <1>3, <1>4 DEF Next

\* _CloseCoordinator keeps its invariant: one teardown at a time, an outcome
\* for every waiter of a finished generation and for nobody else, no waiter
\* asleep once its outcome is stored.
THEOREM CoordinatorInvariant == Spec => [](TypeOK /\ CoordInv)
<1>1. Spec => []IInv
  BY InitInv, StepInv, PTL DEF Spec
<1> QED BY <1>1, PTL DEF IInv

\* At most one thread is between begin() and fail() or succeed(), for any number
\* of callers and retries.
THEOREM TeardownIsExclusive == Spec => []OneTeardown
<1>1. CoordInv => OneTeardown BY DEF CoordInv
<1> QED BY <1>1, CoordinatorInvariant, PTL

\* _waiters is exact and _outcomes holds nothing that no waiter still needs.
THEOREM OutcomesDoNotLeak == Spec => []OutcomesKept
<1>1. CoordInv => OutcomesKept BY DEF CoordInv
<1> QED BY <1>1, CoordinatorInvariant, PTL

\* A waiter sleeps only while the outcome of its own generation is missing.
THEOREM WaitersAreWoken == Spec => []NoLostWakeup
<1>1. CoordInv => NoLostWakeup BY DEF CoordInv
<1> QED BY <1>1, CoordinatorInvariant, PTL

-----------------------------------------------------------------------------
(* The refinement of CloseOnce.                                            *)

\* The refinement mapping, by name.
Leader == {t \in Threads : caller[t] = "teardown"}
Joined == {t \in Threads : caller[t] = "waiting" /\ outcomes[gen[t]] = Absent}
Owed   == [t \in Threads |-> IF caller[t] = "waiting" /\ outcomes[gen[t]] # Absent
                               THEN outcomes[gen[t]] ELSE "none"]

\* An outcome is never the value that stands for "nothing owed".
LEMMA OwedSome ==
    ASSUME IInv, NEW t \in Threads
    PROVE  Owed[t] # "none" <=> caller[t] = "waiting" /\ outcomes[gen[t]] # Absent
<1>1. ASSUME caller[t] = "waiting" PROVE outcomes[gen[t]] # "none"
  <2>1. outcomes[gen[t]] \in Verdicts \cup {Absent}
    BY <1>1, WaiterCounted DEF IInv, TypeOK
  <2> QED BY <2>1, ErrorsAssumption DEF Verdicts, Absent
<1> QED BY <1>1 DEF Owed

LEMMA IdleIsFree ==
    ASSUME IInv, NEW t \in Threads, caller[t] = "idle"
    PROVE  t \notin Leader /\ t \notin Joined /\ Owed[t] = "none"
BY DEF Leader, Joined, Owed

\* WaiterCounted, of the state after a step.
LEMMA StillCounted ==
    ASSUME IInv', NEW t \in Threads, NEW g \in Generations,
           caller'[t] = "waiting", gen'[t] = g
    PROVE  waiters'[g] > 0
<1>1. t \in WaitersOf(g)' /\ WaitersOf(g)' \subseteq Threads
  BY DEF WaitersOf
<1>2. Cardinality(WaitersOf(g)') # 0 /\ Cardinality(WaitersOf(g)') \in Nat
  BY <1>1, ThreadsAssumption, FS_Subset, FS_EmptySet, FS_CardinalityType
<1> QED BY <1>2 DEF IInv, CoordInv, OutcomesKept

\* Other waiters keep what they are owed when one of them leaves.
LEMMA LeaveKeeps ==
    ASSUME IInv, IInv', NEW t \in Threads, NEW verdict, caller[t] = "waiting",
           Leave(t, verdict)
    PROVE  /\ Leader' = Leader
           /\ Joined' = Joined \ {t}
           /\ Owed' = [Owed EXCEPT ![t] = "none"]
<1> USE DEF IInv
<1>1. \A u \in Threads \ {t} : caller'[u] = caller[u] /\ gen'[u] = gen[u]
  BY DEF Leave, TypeOK
<1>2. caller'[t] = "idle"
  BY DEF Leave, TypeOK
<1>3. ASSUME NEW u \in Threads \ {t}, caller[u] = "waiting"
      PROVE  outcomes'[gen[u]] = outcomes[gen[u]]
  <2>1. gen[u] \in Generations /\ gen[t] \in Generations
    BY <1>3, WaiterCounted
  <2>2. CASE gen[u] = gen[t]
    <3>1. waiters'[gen[u]] > 0
      <4>1. caller'[u] = "waiting" /\ gen'[u] = gen[u]
        BY <1>1, <1>3
      <4> QED BY <2>1, <4>1, StillCounted
    <3>2. waiters[gen[t]] # 1
      BY <2>1, <2>2, <3>1 DEF Leave, TypeOK
    <3> QED BY <2>1, <2>2, <3>2 DEF Leave, TypeOK
  <2> QED BY <2>1, <2>2 DEF Leave, TypeOK
<1>4. Leader' = Leader /\ Joined' = Joined \ {t}
  BY <1>1, <1>2, <1>3 DEF Leader, Joined
<1>5. ASSUME NEW u \in Threads
      PROVE  Owed'[u] = IF u = t THEN "none" ELSE Owed[u]
  BY <1>1, <1>2, <1>3 DEF Owed
<1>6. Owed' = [Owed EXCEPT ![t] = "none"]
  BY <1>5 DEF Owed
<1> QED BY <1>4, <1>6

\* The verdict of the running attempt becomes due for everyone who joined it.
LEMMA PublishDelivers ==
    ASSUME IInv, IInv', NEW t \in Threads, NEW verdict \in Verdicts,
           Publish(t, verdict)
    PROVE  /\ Leader = {t} /\ Leader' = {} /\ Joined' = {}
           /\ Owed' = [u \in Threads |-> IF u \in Joined THEN verdict ELSE Owed[u]]
<1> USE DEF IInv
<1>1. Leader = {t} /\ Leader' = {}
  BY DEF Publish, TypeOK, CoordInv, OneTeardown, Leader
<1>2. /\ caller[t] = "teardown" /\ caller'[t] = "idle"
      /\ \A u \in Threads \ {t} : caller'[u] = caller[u] /\ gen'[u] = gen[u]
  BY DEF Publish, TypeOK
<1>3. verdict # Absent
  BY ErrorsAssumption DEF Verdicts, Absent
<1>4. status = "closing" /\ gen[t] = generation
  BY DEF Publish, CoordInv, OneTeardown
<1>5. ASSUME NEW u \in Threads, caller[u] = "waiting"
      PROVE  /\ outcomes[gen[u]] = Absent => outcomes'[gen[u]] = verdict
             /\ outcomes[gen[u]] # Absent => outcomes'[gen[u]] = outcomes[gen[u]]
  <2>1. gen[u] \in Generations /\ waiters[gen[u]] > 0
    BY <1>5, WaiterCounted
  <2>2. outcomes[gen[u]] = Absent <=> gen[u] = gen[t]
    BY <1>4, <1>5 DEF CoordInv, WaiterServed
  <2> QED BY <2>1, <2>2 DEF Publish, TypeOK
<1>6. Joined' = {}
  BY <1>2, <1>3, <1>5 DEF Joined
<1>7. ASSUME NEW u \in Threads
      PROVE  Owed'[u] = IF u \in Joined THEN verdict ELSE Owed[u]
  BY <1>2, <1>3, <1>5 DEF Owed, Joined
<1>8. Owed' = [u \in Threads |-> IF u \in Joined THEN verdict ELSE Owed[u]]
  BY <1>7 DEF Owed
<1> QED BY <1>1, <1>6, <1>8

LEMMA RefineInit == Init => ClosePromise!Init
<1> SUFFICES ASSUME Init PROVE ClosePromise!Init
  OBVIOUS
<1>1. Leader = {} /\ Joined = {} /\ Owed = [t \in Threads |-> "none"]
  BY DEF Init, Leader, Joined, Owed
<1> QED BY <1>1 DEF Init, ClosePromise!Init, ClosePromise!None, Leader, Joined, Owed

LEMMA RefineBegin ==
    ASSUME IInv, IInv', NEW t \in Threads, Begin(t)
    PROVE  ClosePromise!Next
<1> USE DEF IInv
<1>1. ClosePromise!Free(t)
  <2>1. caller[t] = "idle"
    BY DEF Begin, BeginTeardown, BeginWait, BeginClosed
  <2> QED BY <2>1, IdleIsFree DEF ClosePromise!Free, ClosePromise!None, Leader,
          Joined, Owed
<1>2. CASE BeginTeardown(t)
  <2>1. Leader' = {t}
    BY <1>2 DEF BeginTeardown, TypeOK, CoordInv, OneTeardown, Leader
  <2>2. Joined' = Joined /\ Owed' = Owed
    BY <1>2 DEF BeginTeardown, TypeOK, Joined, Owed
  <2> QED BY <1>1, <1>2, <2>1, <2>2 DEF ClosePromise!Next, ClosePromise!Start,
          BeginTeardown, Leader, Joined, Owed
<1>3. CASE BeginWait(t)
  <2>1. /\ caller'[t] = "waiting" /\ t \in asleep' /\ outcomes' = outcomes
        /\ \A u \in Threads \ {t} : caller'[u] = caller[u] /\ gen'[u] = gen[u]
    BY <1>3 DEF BeginWait, TypeOK
  <2>2. outcomes'[gen'[t]] = Absent
    BY <2>1 DEF CoordInv, NoLostWakeup
  <2>3. Joined' = Joined \cup {t}
    BY <2>1, <2>2 DEF Joined
  <2>4. Leader' = Leader
    BY <1>3, <2>1 DEF BeginWait, Leader
  <2>5. Owed' = Owed
    BY <1>3, <2>1, <2>2 DEF BeginWait, Owed
  <2> QED BY <1>1, <1>3, <2>3, <2>4, <2>5 DEF ClosePromise!Next, ClosePromise!Join,
          BeginWait, Leader, Joined, Owed
<1>4. CASE BeginClosed(t)
  <2>1. Leader' = Leader /\ Joined' = Joined /\ Owed' = Owed
    BY <1>4 DEF BeginClosed, coordVars, Leader, Joined, Owed
  <2> QED BY <1>1, <1>4, <2>1 DEF ClosePromise!Next, ClosePromise!AlreadyClosed,
          BeginClosed, coordVars, Leader, Joined, Owed
<1> QED BY <1>2, <1>3, <1>4 DEF Begin

LEMMA RefineLeave ==
    ASSUME IInv, IInv', NEW t \in Threads, Wake(t) \/ Interrupt(t)
    PROVE  ClosePromise!Next
<1>1. caller[t] = "waiting"
  BY DEF Wake, Interrupt
<1>2. CASE Wake(t)
  <2>1. Leave(t, outcomes[gen[t]]) /\ outcomes[gen[t]] # Absent
    BY <1>2 DEF Wake
  <2>2. Leader' = Leader /\ Joined' = Joined /\ Owed' = [Owed EXCEPT ![t] = "none"]
    BY <1>1, <2>1, LeaveKeeps DEF Joined
  <2>3. Owed[t] # "none" /\ Owed[t] = outcomes[gen[t]]
    BY <1>1, <2>1, OwedSome DEF Owed
  <2>4. result' = [result EXCEPT ![t] = Owed[t]] /\ status' = status
    BY <2>1, <2>3 DEF Leave
  <2> QED BY <2>2, <2>3, <2>4 DEF ClosePromise!Next, ClosePromise!Return,
          ClosePromise!None, Leader, Joined, Owed
<1>3. CASE Interrupt(t)
  <2>1. Leave(t, "interrupted")
    BY <1>3 DEF Interrupt
  <2>2. /\ Leader' = Leader /\ Joined' = Joined \ {t}
        /\ Owed' = [Owed EXCEPT ![t] = "none"]
    BY <1>1, <2>1, LeaveKeeps
  <2>3. t \in Joined \/ Owed[t] # "none"
    BY <1>1, OwedSome DEF Joined
  <2>4. result' = [result EXCEPT ![t] = "interrupted"] /\ status' = status
    BY <2>1 DEF Leave
  <2> QED BY <2>2, <2>3, <2>4 DEF ClosePromise!Next, ClosePromise!Abandon,
          ClosePromise!None, Leader, Joined, Owed
<1> QED BY <1>2, <1>3

LEMMA RefineFinish ==
    ASSUME IInv, IInv', NEW t \in Threads, Finish(t)
    PROVE  ClosePromise!Next
<1>1. PICK verdict \in Verdicts :
         /\ Publish(t, verdict)
         /\ status' = "closed" \/ (verdict # "ok" /\ status' = "close_failed")
  BY ErrorsAssumption DEF Finish, Fail, Succeed, Verdicts
<1>2. /\ Leader = {t} /\ Leader' = {} /\ Joined' = {}
      /\ Owed' = [u \in Threads |-> IF u \in Joined THEN verdict ELSE Owed[u]]
  BY <1>1, PublishDelivers
<1>3. result' = [result EXCEPT ![t] = verdict]
  BY <1>1 DEF Publish
<1> QED BY <1>1, <1>2, <1>3 DEF ClosePromise!Next, ClosePromise!End, Leader, Joined, Owed

\* _CloseCoordinator implements CloseOnce: close() tears down at most once at a
\* time, and everyone who joins an attempt receives the verdict of that attempt.
THEOREM CoordinatorImplementsCloseOnce == Spec => ImplementsCloseOnce
<1>1. IInv /\ IInv' /\ [Next]_vars => [ClosePromise!Next]_ClosePromise!vars
  <2> SUFFICES ASSUME IInv, IInv', [Next]_vars
               PROVE  [ClosePromise!Next]_ClosePromise!vars
    OBVIOUS
  <2>1. CASE UNCHANGED vars
    BY <2>1 DEF vars, ClosePromise!vars
  <2>2. CASE Next
    BY <2>2, RefineBegin, RefineLeave, RefineFinish DEF Next
  <2> QED BY <2>1, <2>2
<1>2. Spec => []IInv
  BY InitInv, StepInv, PTL DEF Spec
<1> QED BY <1>1, <1>2, RefineInit, PTL DEF Spec, ClosePromise!Spec, ImplementsCloseOnce
=============================================================================
