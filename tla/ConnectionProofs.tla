-------------------------- MODULE ConnectionProofs --------------------------
(* Proofs about Connection, for any number of threads, attempts and close    *)
(* generations.  The coordinator of close() is not proved about again: the   *)
(* Connection is shown to implement CloseCoordinator, whose theorems then    *)
(* hold of it, and the invariant of connect() and close() rests on them.     *)
EXTENDS Connection, TLAPS

CP == INSTANCE CloseCoordinatorProofs WITH Interruptible <- {}

\* The assumptions of CloseCoordinator hold of the way Connection uses it.
LEMMA Coordinated ==
    CP!ThreadsAssumption /\ CP!ErrorsAssumption /\ CP!GenerationAssumption
<1>1. CP!IsFiniteSet(Threads)
  BY ConnectionAssumption DEF IsFiniteSet, CP!IsFiniteSet
<1> QED BY <1>1, ConnectionAssumption
        DEF CP!ThreadsAssumption, CP!ErrorsAssumption, CP!GenerationAssumption, Errors

\* A critical section of the coordinator, as close() uses it.
CloseStepOf(t) ==
    \/ CP!BeginTeardown(t) \/ CP!BeginWait(t) \/ CP!Wake(t)
    \/ CP!Fail(t, "error") \/ \E v \in CP!Verdicts : CP!Succeed(t, v)

\* A close() that fails publishes its error.
LEMMA Raises ==
    ASSUME NEW t \in Threads, Raise(t)
    PROVE  CloseStepOf(t) \/ UNCHANGED closeVars
BY DEF Raise, CloseStepOf, Close!Fail, CP!Fail, Close!Publish, CP!Publish, Close!NotifyAll,
       CP!NotifyAll

\* Every step of the Connection is a step of its coordinator or leaves it alone.
LEMMA CloseSteps ==
    ASSUME [Next]_vars
    PROVE  (\E t \in Threads : CloseStepOf(t)) \/ UNCHANGED closeVars
<1>1. ASSUME NEW t \in Threads, Call(t)
      PROVE  CloseStepOf(t) \/ UNCHANGED closeVars
  <2>1. Close!BeginTeardown(t) => CP!BeginTeardown(t)
    BY DEF Close!BeginTeardown, CP!BeginTeardown, Close!Electable, CP!Electable
  <2>2. Close!BeginWait(t) => CP!BeginWait(t)
    BY DEF Close!BeginWait, CP!BeginWait
  <2> QED BY <1>1, <2>1, <2>2
          DEF Call, BeginConnect, Disconnect, CloseBegin, CloseJoin, CloseStepOf
<1>2. ASSUME NEW t \in Threads, ConnectStep(t) \/ DisconnectStep(t) \/ InterruptConnect(t)
      PROVE  UNCHANGED closeVars
  BY <1>2 DEF ConnectStep, NativeConnect, NativeConnectFails, Withdraw, Withdrawn, AwaitDone,
       Timeout, SettleFailed, Settle, SettleInUse, FinishBarrier, FinishConnect, DisconnectStep,
       DisconnectWait, DisconnectNative, DisconnectRaises, DisconnectBarrier, DisconnectSet,
       InterruptConnect
<1>3. ASSUME NEW t \in Threads, CancelStep(t)
      PROVE  CloseStepOf(t) \/ UNCHANGED closeVars
  BY <1>3, Raises DEF CancelStep, CancelNotNeeded, CancelClaim, CancelJoin, CancelNothing,
       CancelManaged, CancelEnded, CancelDisconnect, CancelBarrier, CancelEnd, CancelFails
<1>4. ASSUME NEW t \in Threads, CloseStep(t)
      PROVE  CloseStepOf(t) \/ UNCHANGED closeVars
  <2>1. Close!Wake(t) => CP!Wake(t)
    BY DEF Close!Wake, CP!Wake, Close!Leave, CP!Leave, Close!Last, CP!Last, Close!Absent, CP!Absent
  <2>2. ASSUME NEW v \in Close!Verdicts, Close!Succeed(t, v)
        PROVE  CP!Succeed(t, v) /\ v \in CP!Verdicts
    BY <2>2 DEF Close!Succeed, CP!Succeed, Close!Publish, CP!Publish, Close!NotifyAll,
           CP!NotifyAll, Close!Verdicts, CP!Verdicts
  <2> QED BY <1>4, <2>1, <2>2, Raises
          DEF CloseStep, CloseJoined, CloseWait, CloseChildren, CloseDrain, CloseDisconnect,
              CloseRelease, CloseEnd, CloseStepOf
<1>5. Handle \/ ManagedComplete \/ LinkUp \/ LinkLost \/ UNCHANGED vars => UNCHANGED closeVars
  BY DEF Handle, HandlePop, HandleAttempt, HandleState, ManagedComplete, LinkUp, LinkLost, vars
<1> QED BY <1>1, <1>2, <1>3, <1>4, <1>5 DEF Next, Continue

\* connect(), disconnect() and close() use the coordinator as its contract says:
\* their behaviours are behaviours of CloseCoordinator.
THEOREM CloseIsCoordinated == Spec => CP!Spec
<1>1. Init => CP!Init
  BY DEF Init, Close!Init, CP!Init, Close!Generations, CP!Generations, Close!Absent, CP!Absent
<1>2. [Next]_vars => [CP!Next]_(CP!vars)
  <2>1. ASSUME NEW t \in Threads, CloseStepOf(t) PROVE CP!Next
    BY <2>1 DEF CloseStepOf, CP!Next, CP!Begin, CP!Finish, Errors
  <2> QED BY <2>1, CloseSteps DEF CP!vars, closeVars
<1> QED BY <1>1, <1>2, PTL DEF Spec, CP!Spec

\* So the inductive invariant of the coordinator holds in every state.
LEMMA CoordInvariant == Spec => []CP!IInv
<1>1. CP!TypeOK /\ CP!CoordInv => CP!IInv
  BY DEF CP!IInv
<1>2. CP!Spec => [](CP!TypeOK /\ CP!CoordInv)
  BY CP!CoordinatorInvariant, Coordinated
<1> QED BY <1>1, <1>2, CloseIsCoordinated, PTL

\* Whoever joins a close() of a Connection gets the verdict of that very attempt,
\* wherever in its teardown it failed.
THEOREM ConnectionImplementsCloseOnce == Spec => CP!ImplementsCloseOnce
<1>1. CP!Spec => CP!ImplementsCloseOnce
  BY CP!CoordinatorImplementsCloseOnce, Coordinated
<1> QED BY <1>1, CloseIsCoordinated, PTL
-----------------------------------------------------------------------------
(* The inductive invariant.                                                *)

ConnectPcs    == {"start", "await", "refused", "settle", "finbarrier", "finish"}
CancelAt      == {"cstart", "cdone", "cbarrier", "cend"}
CancelPcs     == {"cancel", "cjoin"} \cup CancelAt
DisconnectPcs == {"dwait", "dnative", "dbarrier", "dset"}
PastWait      == {"kchildren", "kdrain", "kdisconnect", "krelease", "kend"}
Labels        == {"idle", "withdrawn", "joined", "kwait"} \cup ConnectPcs \cup CancelPcs
                   \cup DisconnectPcs \cup PastWait
Returns       == {"idle", "settle", "dwait", "kwait"}
Events        == {None, "CONNECTING", "CONNECTED", "DISCONNECTED"}

\* The thread is between _begin_connect and the end of its attempt.
InConnect(t) == pc[t] \in ConnectPcs \/ (pc[t] \in CancelPcs /\ ret[t] = "settle")

\* close() waits for the attempt it found, which it may have to cancel.
CloseWaits(t) == pc[t] = "kwait" \/ (pc[t] \in CancelPcs /\ ret[t] = "kwait")

\* The thread runs the teardown.
InClose(t) == CloseWaits(t) \/ pc[t] \in PastWait

AttTypes ==
    /\ att = [a \in Attempts |-> att[a]]
    /\ \A a \in Attempts : /\ DOMAIN att[a] = DOMAIN NewAttempt
                           /\ att[a].terminal \in {None, "ok", "failed"}

Fields ==
    /\ mode \in Modes /\ faults \in FaultSets /\ state \in States
    /\ disconnected \in BOOLEAN /\ shut \in BOOLEAN /\ released \in BOOLEAN
    /\ attempts \in 0 .. MaxAttempts /\ active \in 0 .. attempts
    /\ pending \in Events /\ handling \in Events
    /\ link \in {"down", "connecting", "up"}
    /\ pc \in [Threads -> Labels] /\ ret \in [Threads -> Returns]
    /\ cur \in [Threads -> 0 .. MaxAttempts]
    /\ \A t \in Threads : cur[t] <= attempts

\* An attempt that has not begun is not finished.
Unbegun == \A a \in Attempts : a > attempts => ~att[a].finished

\* connect(): the attempt of a thread inside it is the active one.
Connects(t) ==
    InConnect(t) => cur[t] # 0 /\ active = cur[t] /\ ~att[cur[t]].finished

\* An attempt that was withdrawn is not the active one.
Withdraws(t) == pc[t] = "withdrawn" => cur[t] # 0 /\ active # cur[t]

\* _cancel_connect returns to its caller, and has claimed what it cancels.
Cancels(t) ==
    /\ pc[t] \in CancelPcs => cur[t] # 0 /\ ret[t] # "idle"
    /\ pc[t] \in CancelAt => att[cur[t]].cancelling

\* The roles of the coordinator are those of the threads, and close() goes on
\* with the attempt it found, or with none.
Closes(t) ==
    /\ (caller[t] = "teardown") <=> InClose(t)
    /\ (caller[t] = "waiting") <=> (pc[t] = "joined")
    /\ CloseWaits(t) => cur[t] # 0 /\ active \in {0, cur[t]}

\* How far close() has come.
Progress(t) ==
    /\ pc[t] \in PastWait \ {"kchildren"} => shut
    /\ pc[t] \in {"kdisconnect", "krelease", "kend"} => Drained
    /\ pc[t] = "kend" => released

ThreadHolds(t) == Connects(t) /\ Withdraws(t) /\ Cancels(t) /\ Closes(t) /\ Progress(t)

OneConnect == \A t, u \in Threads : InConnect(t) /\ InConnect(u) => t = u

\* No connect() is under way once close() has waited for the one it found.
ConnectsOver ==
    (shut \/ released \/ \E t \in Threads : pc[t] \in PastWait) =>
        \A u \in Threads : ~InConnect(u)

\* A destroyed handle has a closed and drained Dispatcher; neither comes back.
Released == /\ released => shut /\ Drained
            /\ shut => status # "open"

ConnInv ==
    /\ AttTypes /\ Fields /\ Unbegun
    /\ \A t \in Threads : ThreadHolds(t)
    /\ OneConnect /\ ConnectsOver /\ Released /\ CancelledOnce
    /\ status = "closed" => released
USE DEF ConnectPcs, CancelAt, CancelPcs, DisconnectPcs, PastWait

-----------------------------------------------------------------------------
(* What a step of a thread may do to the others.                           *)

Alone(t) == \A u \in Threads \ {t} :
    pc'[u] = pc[u] /\ cur'[u] = cur[u] /\ ret'[u] = ret[u] /\ caller'[u] = caller[u]

\* Nothing is taken back.
Keeps ==
    /\ \A a \in Attempts : att[a].cancelling => att'[a].cancelling
    /\ shut => shut' /\ (Drained => Drained')
    /\ released => released'
    /\ status # "open" => status' # "open"

\* Whose attempt may end, and when the active attempt changes.
Finishes(t) == \A a \in Attempts :
    att'[a].finished => att[a].finished \/ (a = cur[t] /\ (InConnect(t) \/ pc[t] = "withdrawn"))

Activates(t) ==
    \/ active' = active
    \/ active' = 0 /\ InConnect(t)
    \/ active' = attempts + 1 /\ active = 0 /\ status = "open"

\* How the thread gets where it is.
Enters(t) ==
    /\ InConnect(t)' => InConnect(t) \/ (active = 0 /\ status = "open")
    /\ pc'[t] \in CancelAt => /\ cur'[t] = cur[t]
                              /\ pc[t] \in CancelAt \/ ~att[cur[t]].cancelling
    /\ pc'[t] \in PastWait => pc[t] \in PastWait \/ \A u \in Threads : ~InConnect(u)
    /\ shut' => shut \/ pc[t] = "kchildren"
    /\ released' => released \/ pc[t] = "krelease"
    /\ status' = "closed" => status = "closed" \/ pc[t] = "kend"

Moves(t) ==
    /\ AttTypes' /\ Fields' /\ attempts <= attempts'
    /\ Alone(t) /\ Keeps /\ Finishes(t) /\ Activates(t) /\ Enters(t) /\ ThreadHolds(t)'

\* A thread that runs the teardown does so alone, with the status "closing".
LEMMA Elected ==
    ASSUME CP!IInv, NEW t \in Threads, caller[t] = "teardown"
    PROVE  status = "closing"
BY DEF CP!IInv, CP!CoordInv, CP!OneTeardown

LEMMA TypedCaller ==
    ASSUME CP!IInv
    PROVE  caller \in [Threads -> {"idle", "waiting", "teardown"}]
BY DEF CP!IInv, CP!TypeOK

\* What holds of a thread that takes no part in a step goes on holding.
LEMMA Bystander ==
    ASSUME ConnInv, CP!IInv, NEW t \in Threads, Moves(t), NEW u \in Threads \ {t}
    PROVE  ThreadHolds(u)'
<1>1. /\ pc'[u] = pc[u] /\ cur'[u] = cur[u] /\ ret'[u] = ret[u] /\ caller'[u] = caller[u]
      /\ cur[u] <= attempts /\ cur[u] \in 0 .. MaxAttempts
      /\ attempts \in Nat /\ active \in Nat /\ ThreadHolds(u) /\ Keeps
  BY ConnectionAssumption DEF ConnInv, Fields, Moves, Alone
<1>2. /\ InConnect(u)' <=> InConnect(u)
      /\ CloseWaits(u)' <=> CloseWaits(u)
      /\ InClose(u)' <=> InClose(u)
  BY <1>1 DEF InConnect, CloseWaits, InClose
<1>3. InConnect(u) => ~InConnect(t) /\ active # 0
  BY <1>1 DEF ConnInv, OneConnect, ThreadHolds, Connects
<1>4. cur[u] # 0 => cur[u] \in Attempts
  BY <1>1, ConnectionAssumption DEF Attempts
<1>5. Connects(u)'
  <2> SUFFICES ASSUME InConnect(u) PROVE cur[u] # 0 /\ active' = cur[u] /\ ~att'[cur[u]].finished
    BY <1>1, <1>2 DEF Connects
  <2>1. cur[u] # 0 /\ active = cur[u] /\ ~att[cur[u]].finished
    BY <1>1 DEF ThreadHolds, Connects
  <2>2. active' = active
    BY <1>3 DEF Moves, Activates
  <2>3. pc[t] = "withdrawn" => active # cur[t]
    BY DEF ConnInv, ThreadHolds, Withdraws
  <2>4. ~att'[cur[u]].finished
    BY <1>3, <1>4, <2>1, <2>3 DEF Moves, Finishes
  <2> QED BY <2>1, <2>2, <2>4
<1>6. Withdraws(u)'
  BY <1>1 DEF Withdraws, ThreadHolds, Moves, Activates
<1>7. Cancels(u)'
  BY <1>1, <1>4 DEF Cancels, ThreadHolds, Keeps
<1>8. Closes(u)'
  <2>1. CloseWaits(u) => status # "open"
    BY <1>1, Elected DEF InClose, ThreadHolds, Closes
  <2>2. CloseWaits(u) => cur[u] # 0 /\ active' \in {0, cur[u]}
    BY <1>1, <2>1 DEF Moves, Activates, ThreadHolds, Closes
  <2> QED BY <1>1, <1>2, <2>2 DEF Closes, ThreadHolds
<1>9. Progress(u)'
  BY <1>1 DEF Progress, ThreadHolds, Keeps
<1> QED BY <1>5, <1>6, <1>7, <1>8, <1>9 DEF ThreadHolds

\* So a step of one thread that moves alone keeps the invariant.
LEMMA Moved ==
    ASSUME ConnInv, CP!IInv, NEW t \in Threads, Moves(t)
    PROVE  ConnInv'
<1>1. \A u \in Threads : ThreadHolds(u) /\ ThreadHolds(u)'
  BY Bystander DEF Moves, ConnInv
<1>2. \A u \in Threads \ {t} :
        /\ pc'[u] = pc[u] /\ cur'[u] = cur[u]
        /\ InConnect(u)' <=> InConnect(u)
  BY DEF Moves, Alone, InConnect
<1>3. \A u \in Threads : InConnect(u) => active # 0
  BY <1>1 DEF ThreadHolds, Connects
<1>4. \A u \in Threads : pc[u] \in PastWait => status # "open"
  BY <1>1, Elected DEF ThreadHolds, Closes, InClose
<1>5. Enters(t) /\ Keeps /\ Finishes(t) /\ Activates(t)
  BY DEF Moves
<1>6. Unbegun'
  <2> SUFFICES ASSUME NEW a \in Attempts, a > attempts', att'[a].finished PROVE FALSE
    BY DEF Unbegun
  <2>1. attempts \in Nat /\ attempts' \in Nat /\ a \in Nat /\ cur[t] \in Nat /\ cur[t] <= attempts
        /\ attempts <= attempts'
    BY ConnectionAssumption DEF Moves, ConnInv, Fields, Attempts
  <2>2. ~att[a].finished
    BY <2>1 DEF ConnInv, Unbegun
  <2> QED BY <1>5, <2>1, <2>2 DEF Finishes
<1>7. OneConnect'
  BY <1>2, <1>3, <1>5 DEF OneConnect, ConnInv, Enters
<1>8. ConnectsOver'
  <2> SUFFICES ASSUME NEW u \in Threads, InConnect(u)'
               PROVE  ~shut' /\ ~released' /\ \A v \in Threads : pc'[v] \notin PastWait
    BY DEF ConnectsOver
  <2>1. CASE InConnect(u)
    <3>1. ~shut /\ ~released /\ \A v \in Threads : pc[v] \notin PastWait
      BY <2>1 DEF ConnInv, ConnectsOver
    <3> QED BY <1>2, <1>5, <2>1, <3>1 DEF Enters
  <2>2. CASE ~InConnect(u)
    <3>1. u = t /\ status = "open" /\ active = 0
      BY <1>2, <1>5, <2>2 DEF Enters
    <3>2. ~shut /\ ~released /\ \A v \in Threads : pc[v] \notin PastWait
      BY <1>4, <3>1 DEF ConnInv, Released
    <3>3. pc'[t] \notin PastWait
      BY <3>1 DEF InConnect
    <3> QED BY <1>2, <1>5, <3>1, <3>2, <3>3 DEF Enters
  <2> QED BY <2>1, <2>2
<1>9. Released'
  BY <1>1, <1>4, <1>5 DEF Released, ConnInv, Enters, Keeps, ThreadHolds, Progress
<1>10. CancelledOnce'
  <2> SUFFICES ASSUME NEW u \in Threads, NEW v \in Threads, u # v,
                      pc'[u] \in CancelAt, pc'[v] \in CancelAt, cur'[u] = cur'[v]
               PROVE  FALSE
    BY DEF CancelledOnce
  <2>1. ~(pc[u] \in CancelAt /\ pc[v] \in CancelAt /\ cur[u] = cur[v])
    BY DEF ConnInv, CancelledOnce
  <2>2. cur'[u] = cur[u] /\ cur'[v] = cur[v]
    BY <1>2, <1>5 DEF Enters
  <2>3. \A w \in Threads : pc[w] \in CancelAt => att[cur[w]].cancelling
    BY <1>1 DEF ThreadHolds, Cancels
  <2>4. CASE u # t /\ v # t
    BY <1>2, <2>1, <2>2, <2>4
  <2>5. CASE u = t \/ v = t
    <3>1. PICK w \in {u, v} : w # t /\ pc[w] \in CancelAt /\ cur[t] = cur[w] /\ {u, v} = {t, w}
      BY <1>2, <2>2, <2>5
    <3>2. att[cur[t]].cancelling
      BY <2>3, <3>1
    <3>3. pc[t] \in CancelAt
      BY <1>5, <2>5, <3>2 DEF Enters
    <3> QED BY <2>1, <3>1, <3>3
  <2> QED BY <2>4, <2>5
<1>11. status' = "closed" => released'
  BY <1>1, <1>5 DEF ConnInv, Enters, Keeps, ThreadHolds, Progress
<1> QED BY <1>1, <1>6, <1>7, <1>8, <1>9, <1>10, <1>11 DEF ConnInv, Moves
-----------------------------------------------------------------------------
(* The records of the attempts.                                            *)

\* Update sets the fields it is given and keeps the others; no field is ever
\* taken back by one of the updates of the code.
AttKept(a) ==
    /\ att'[a].cancelling = att[a].cancelling
    /\ att'[a].finished = att[a].finished

LEMMA UpdateIs ==
    ASSUME AttTypes, NEW a, NEW r, NEW b \in Attempts, NEW f \in DOMAIN NewAttempt
    PROVE  /\ DOMAIN Update(a, r) = Attempts
           /\ DOMAIN Update(a, r)[b] = DOMAIN NewAttempt
           /\ b # a \/ f \notin DOMAIN r => Update(a, r)[b][f] = att[b][f]
           /\ b = a /\ f \in DOMAIN r => Update(a, r)[b][f] = r[f]
<1>1. DOMAIN att = Attempts
  BY DEF AttTypes
<1>2. DOMAIN att[b] = DOMAIN NewAttempt
  BY DEF AttTypes
<1> QED BY <1>1, <1>2 DEF Update

LEMMA Updated ==
    ASSUME AttTypes, NEW a, NEW r, att' = Update(a, r),
           "terminal" \in DOMAIN r => r["terminal"] \in {None, "ok", "failed"}
    PROVE  /\ AttTypes'
           /\ \A b \in Attempts :
                /\ b # a => AttKept(b)
                /\ "finished" \notin DOMAIN r => att'[b].finished = att[b].finished
                /\ "cancelling" \notin DOMAIN r => att'[b].cancelling = att[b].cancelling
                /\ b = a /\ "cancelling" \in DOMAIN r => att'[b].cancelling = r["cancelling"]
<1>1. {"terminal", "finished", "cancelling"} \subseteq DOMAIN NewAttempt
  BY DEF NewAttempt
<1>2. ASSUME NEW b \in Attempts
      PROVE  DOMAIN att'[b] = DOMAIN NewAttempt /\ att'[b].terminal \in {None, "ok", "failed"}
  <2>1. att[b].terminal \in {None, "ok", "failed"}
    BY DEF AttTypes
  <2>2. DOMAIN att'[b] = DOMAIN NewAttempt
    BY <1>1, UpdateIs
  <2>3. att'[b]["terminal"] \in {None, "ok", "failed"}
    BY <1>1, <2>1, UpdateIs
  <2> QED BY <2>2, <2>3
<1>3. att' = [b \in Attempts |-> att'[b]]
  BY DEF Update, AttTypes
<1>4. AttTypes'
  BY <1>2, <1>3 DEF AttTypes
<1>5. ASSUME NEW b \in Attempts
      PROVE  /\ b # a => AttKept(b)
             /\ "finished" \notin DOMAIN r => att'[b].finished = att[b].finished
             /\ "cancelling" \notin DOMAIN r => att'[b].cancelling = att[b].cancelling
             /\ b = a /\ "cancelling" \in DOMAIN r => att'[b].cancelling = r["cancelling"]
  BY <1>1, UpdateIs DEF AttKept
<1> QED BY <1>4, <1>5
\* _begin_connect starts the next attempt when none is active.
LEMMA StepBegin ==
    ASSUME ConnInv, CP!IInv, NEW t \in Threads, BeginConnect(t)
    PROVE  Moves(t)
<1>1. /\ AttTypes /\ Fields /\ Unbegun /\ ThreadHolds(t)
      /\ caller \in [Threads -> {"idle", "waiting", "teardown"}]
      /\ MaxAttempts \in Nat /\ attempts \in 0 .. MaxAttempts /\ active \in 0 .. attempts
  BY TypedCaller, ConnectionAssumption DEF ConnInv, Fields
<1>2. AttTypes' /\ \A a \in Attempts : AttKept(a)
  BY <1>1 DEF BeginConnect, attemptVars, AttTypes, AttKept
<1>3. /\ pc[t] = "idle" /\ status = "open" /\ active = 0
      /\ pc'[t] = "start" /\ cur'[t] = attempts + 1
      /\ ret'[t] = ret[t] /\ caller'[t] = caller[t]
      /\ active' = attempts + 1 /\ cur'[t] \in Attempts
  BY <1>1, ConnectionAssumption DEF BeginConnect, Goto, Fields, closeVars, attemptVars,
         Attempts
<1>4. Alone(t)
  BY <1>1 DEF BeginConnect, Goto, Alone, Fields, closeVars
<1>5. attempts' \in 0 .. MaxAttempts /\ attempts <= attempts' /\ active' \in 0 .. attempts'
  BY <1>1, <1>3 DEF BeginConnect, attemptVars
<1>6. Fields'
  <2>1. pc' \in [Threads -> Labels] /\ ret' \in [Threads -> Returns]
    BY <1>1, <1>3 DEF BeginConnect, Goto, Fields, Labels, Returns
  <2>2. cur' \in [Threads -> 0 .. MaxAttempts]
    BY <1>1, <1>3, <1>5 DEF BeginConnect, Goto, Fields
  <2>3. \A u \in Threads : cur'[u] <= attempts'
    BY <1>1, <1>3, <1>4, <1>5 DEF Alone, Fields
  <2> QED BY <1>1, <1>5, <2>1, <2>2, <2>3 DEF BeginConnect, Fields, setup, queueVars,
                nativeVars, States, Events
<1>7. Keeps
  BY <1>2 DEF BeginConnect, Goto, Keeps, AttKept, closeVars, queueVars, nativeVars, Drained
<1>8. Finishes(t) /\ Activates(t)
  BY <1>2, <1>3 DEF BeginConnect, Finishes, Activates, AttKept, InConnect
<1>9. Enters(t)
  BY <1>1, <1>3 DEF BeginConnect, Goto, Enters, InConnect, ThreadHolds, Cancels, closeVars,
         nativeVars, queueVars
<1>10. ThreadHolds(t)'
  BY <1>1, <1>2, <1>3 DEF ThreadHolds, Connects, Withdraws, Cancels, Closes, Progress,
         InClose, CloseWaits, InConnect, AttKept, Unbegun, Attempts, Fields
<1> QED BY <1>2, <1>4, <1>5, <1>6, <1>7, <1>8, <1>9, <1>10 DEF Moves

\* The native call starts the attempt, or refuses it.
LEMMA StepStarted ==
    ASSUME ConnInv, CP!IInv, NEW t \in Threads, NativeConnect(t)
    PROVE  Moves(t)
<1>1. /\ AttTypes /\ Fields /\ Unbegun /\ ThreadHolds(t)
      /\ caller \in [Threads -> {"idle", "waiting", "teardown"}]
      /\ MaxAttempts \in Nat /\ attempts \in 0 .. MaxAttempts /\ active \in 0 .. attempts
  BY TypedCaller, ConnectionAssumption DEF ConnInv, Fields
<1>2. /\ AttTypes' /\ \A a \in Attempts : a # cur[t] => AttKept(a)
      /\ \A a \in Attempts : AttKept(a)
  <2>1. DOMAIN [started |-> TRUE, handle |-> mode = "access_key"] = {"started", "handle"}
    OBVIOUS
  <2>2. att' = Update(cur[t], [started |-> TRUE, handle |-> mode = "access_key"])
    BY DEF NativeConnect
  <2> DEFINE r == [started |-> TRUE, handle |-> mode = "access_key"]
  <2>3. "terminal" \notin DOMAIN r /\ "finished" \notin DOMAIN r /\ "cancelling" \notin DOMAIN r
    BY <2>1
  <2> HIDE DEF r
  <2>4. AttTypes' /\ \A b \in Attempts : /\ att'[b].finished = att[b].finished
                                         /\ att'[b].cancelling = att[b].cancelling
    BY <1>1, <2>2, <2>3, Updated DEF r
  <2> QED BY <2>4 DEF AttKept
<1>3. /\ pc[t] = "start" /\ pc'[t] = "await"
      /\ cur'[t] = cur[t] /\ ret'[t] = ret[t] /\ caller'[t] = caller[t]
      /\ active' = active
  BY <1>1, ConnectionAssumption DEF NativeConnect, Goto, Posted, Fields, closeVars,
         attemptVars, Attempts
<1>4. Alone(t)
  BY <1>1 DEF NativeConnect, Goto, Posted, Alone, Fields, closeVars
<1>5. attempts' \in 0 .. MaxAttempts /\ attempts <= attempts' /\ active' \in 0 .. attempts'
  BY <1>1, <1>3 DEF NativeConnect, attemptVars
<1>6. Fields'
  BY <1>1, <1>3, <1>4, <1>5 DEF NativeConnect, Goto, Posted, Fields, Alone, setup, queueVars,
         nativeVars, Labels, Returns, States, Events, Attempts
<1>7. Keeps
  BY <1>2 DEF NativeConnect, Goto, Posted, Keeps, AttKept, closeVars, queueVars, nativeVars,
         Drained
<1>8. Finishes(t) /\ Activates(t)
  BY <1>2, <1>3 DEF NativeConnect, Finishes, Activates, AttKept, InConnect
<1>9. Enters(t)
  BY <1>1, <1>3 DEF NativeConnect, Goto, Posted, Enters, InConnect, ThreadHolds, Cancels,
         closeVars, nativeVars, queueVars
<1>10. ThreadHolds(t)'
  BY <1>1, <1>2, <1>3 DEF ThreadHolds, Connects, Withdraws, Cancels, Closes, Progress,
         InClose, CloseWaits, InConnect, AttKept, Unbegun, Attempts, Fields
<1> QED BY <1>2, <1>4, <1>5, <1>6, <1>7, <1>8, <1>9, <1>10 DEF Moves

LEMMA StepRefused ==
    ASSUME ConnInv, CP!IInv, NEW t \in Threads, NativeConnectFails(t)
    PROVE  Moves(t)
<1>1. /\ AttTypes /\ Fields /\ Unbegun /\ ThreadHolds(t)
      /\ caller \in [Threads -> {"idle", "waiting", "teardown"}]
      /\ MaxAttempts \in Nat /\ attempts \in 0 .. MaxAttempts /\ active \in 0 .. attempts
  BY TypedCaller, ConnectionAssumption DEF ConnInv, Fields
<1>2. /\ AttTypes' /\ \A a \in Attempts : a # cur[t] => AttKept(a)
      /\ \A a \in Attempts : AttKept(a)
  <2>1. DOMAIN [started |-> TRUE] = {"started"}
    OBVIOUS
  <2>2. att' = Update(cur[t], [started |-> TRUE])
    BY DEF NativeConnectFails
  <2> QED BY <1>1, <2>1, <2>2, Updated DEF AttKept
<1>3. /\ pc[t] = "start" /\ pc'[t] = "refused"
      /\ cur'[t] = cur[t] /\ ret'[t] = ret[t] /\ caller'[t] = caller[t]
      /\ active' = active
  BY <1>1, ConnectionAssumption DEF NativeConnectFails, Goto, Fields, closeVars, attemptVars,
         Attempts
<1>4. Alone(t)
  BY <1>1 DEF NativeConnectFails, Goto, Alone, Fields, closeVars
<1>5. attempts' \in 0 .. MaxAttempts /\ attempts <= attempts' /\ active' \in 0 .. attempts'
  BY <1>1, <1>3 DEF NativeConnectFails, attemptVars
<1>6. Fields'
  BY <1>1, <1>3, <1>4, <1>5 DEF NativeConnectFails, Goto, Fields, Alone, setup, queueVars,
         nativeVars, Labels, Returns, States, Events, Attempts
<1>7. Keeps
  BY <1>2 DEF NativeConnectFails, Goto, Keeps, AttKept, closeVars, queueVars, nativeVars,
         Drained
<1>8. Finishes(t) /\ Activates(t)
  BY <1>2, <1>3 DEF NativeConnectFails, Finishes, Activates, AttKept, InConnect
<1>9. Enters(t)
  BY <1>1, <1>3 DEF NativeConnectFails, Goto, Enters, InConnect, ThreadHolds, Cancels,
         closeVars, nativeVars, queueVars
<1>10. ThreadHolds(t)'
  BY <1>1, <1>2, <1>3 DEF ThreadHolds, Connects, Withdraws, Cancels, Closes, Progress,
         InClose, CloseWaits, InConnect, AttKept, Unbegun, Attempts, Fields
<1> QED BY <1>2, <1>4, <1>5, <1>6, <1>7, <1>8, <1>9, <1>10 DEF Moves

LEMMA StepWithdraw ==
    ASSUME ConnInv, CP!IInv, NEW t \in Threads, Withdraw(t)
    PROVE  Moves(t)
<1>1. /\ AttTypes /\ Fields /\ Unbegun /\ ThreadHolds(t)
      /\ caller \in [Threads -> {"idle", "waiting", "teardown"}]
      /\ MaxAttempts \in Nat /\ attempts \in 0 .. MaxAttempts /\ active \in 0 .. attempts
  BY TypedCaller, ConnectionAssumption DEF ConnInv, Fields
<1>2. AttTypes' /\ \A a \in Attempts : AttKept(a)
  BY <1>1 DEF Withdraw, attemptVars, AttTypes, AttKept
<1>3. /\ pc[t] = "refused" /\ pc'[t] = "withdrawn"
      /\ cur'[t] = cur[t] /\ ret'[t] = ret[t] /\ caller'[t] = caller[t]
      /\ cur[t] = active /\ cur[t] # 0 /\ active' = 0
  BY <1>1, ConnectionAssumption DEF Withdraw, Goto, ThreadHolds, Connects, InConnect, Fields,
         closeVars, attemptVars, Attempts
<1>4. Alone(t)
  BY <1>1 DEF Withdraw, Goto, Alone, Fields, closeVars
<1>5. attempts' \in 0 .. MaxAttempts /\ attempts <= attempts' /\ active' \in 0 .. attempts'
  BY <1>1, <1>3 DEF Withdraw, attemptVars
<1>6. Fields'
  BY <1>1, <1>3, <1>4, <1>5 DEF Withdraw, Goto, Fields, Alone, setup, queueVars, nativeVars,
         Labels, Returns, States, Events, Attempts
<1>7. Keeps
  BY <1>2 DEF Withdraw, Goto, Keeps, AttKept, closeVars, queueVars, nativeVars, Drained
<1>8. Finishes(t) /\ Activates(t)
  BY <1>2, <1>3 DEF Withdraw, Finishes, Activates, AttKept, InConnect
<1>9. Enters(t)
  BY <1>1, <1>3 DEF Withdraw, Goto, ThreadHolds, Connects, InConnect, Enters, Cancels,
         closeVars, nativeVars, queueVars
<1>10. ThreadHolds(t)'
  BY <1>1, <1>2, <1>3 DEF ThreadHolds, Connects, Withdraws, Cancels, Closes, Progress,
         InClose, CloseWaits, InConnect, AttKept, Unbegun, Attempts, Fields
<1> QED BY <1>2, <1>4, <1>5, <1>6, <1>7, <1>8, <1>9, <1>10 DEF Moves

\* connect() goes on without a change of its attempt.
LEMMA StepConnectGoes ==
    ASSUME ConnInv, CP!IInv, NEW t \in Threads,
           AwaitDone(t) \/ Timeout(t) \/ Settle(t) \/ FinishBarrier(t)
    PROVE  Moves(t)
<1>1. /\ AttTypes /\ Fields /\ Unbegun /\ ThreadHolds(t)
      /\ caller \in [Threads -> {"idle", "waiting", "teardown"}]
      /\ MaxAttempts \in Nat /\ attempts \in 0 .. MaxAttempts /\ active \in 0 .. attempts
  BY TypedCaller, ConnectionAssumption DEF ConnInv, Fields
<1>2. AttTypes' /\ \A a \in Attempts : AttKept(a)
  BY <1>1 DEF AwaitDone, Timeout, Settle, FinishBarrier, attemptVars, AttTypes, AttKept
<1>3. /\ InConnect(t)
      /\ pc'[t] \in {"settle", "cancel", "finbarrier", "finish"}
      /\ pc'[t] = "cancel" => ret'[t] = "settle"
      /\ cur'[t] = cur[t] /\ caller'[t] = caller[t]
      /\ active' = active
  BY <1>1, ConnectionAssumption DEF AwaitDone, Timeout, Settle, FinishBarrier, Goto,
         InConnect, Fields, closeVars, attemptVars, Attempts
<1>4. Alone(t)
  BY <1>1 DEF AwaitDone, Timeout, Settle, FinishBarrier, Goto, Alone, Fields, closeVars
<1>5. attempts' \in 0 .. MaxAttempts /\ attempts <= attempts' /\ active' \in 0 .. attempts'
  BY <1>1, <1>3 DEF AwaitDone, Timeout, Settle, FinishBarrier, attemptVars
<1>6. Fields'
  BY <1>1, <1>3, <1>4, <1>5 DEF AwaitDone, Timeout, Settle, FinishBarrier, Goto, Fields,
         Alone, setup, queueVars, nativeVars, Labels, Returns, States, Events, Attempts
<1>7. Keeps
  BY <1>2 DEF AwaitDone, Timeout, Settle, FinishBarrier, Goto, Keeps, AttKept, closeVars,
         queueVars, nativeVars, Drained
<1>8. Finishes(t) /\ Activates(t)
  BY <1>2, <1>3 DEF AwaitDone, Timeout, Settle, FinishBarrier, Finishes, Activates, AttKept,
         InConnect
<1>9. Enters(t)
  BY <1>1, <1>3 DEF AwaitDone, Timeout, Settle, FinishBarrier, Goto, InConnect, Enters,
         ThreadHolds, Cancels, closeVars, nativeVars, queueVars
<1>10. ThreadHolds(t)'
  BY <1>1, <1>2, <1>3 DEF ThreadHolds, Connects, Withdraws, Cancels, Closes, Progress,
         InClose, CloseWaits, InConnect, AttKept, Unbegun, Attempts, Fields
<1> QED BY <1>2, <1>4, <1>5, <1>6, <1>7, <1>8, <1>9, <1>10 DEF Moves

\* A KeyboardInterrupt leaves the attempt active.
LEMMA StepConnectRaises ==
    ASSUME ConnInv, CP!IInv, NEW t \in Threads, InterruptConnect(t)
    PROVE  Moves(t)
<1>1. /\ AttTypes /\ Fields /\ Unbegun /\ ThreadHolds(t)
      /\ caller \in [Threads -> {"idle", "waiting", "teardown"}]
      /\ MaxAttempts \in Nat /\ attempts \in 0 .. MaxAttempts /\ active \in 0 .. attempts
  BY TypedCaller, ConnectionAssumption DEF ConnInv, Fields
<1>2. AttTypes' /\ \A a \in Attempts : AttKept(a)
  BY <1>1 DEF InterruptConnect, attemptVars, AttTypes, AttKept
<1>3. /\ pc[t] = "await"
      /\ pc'[t] = "idle"
      /\ cur'[t] = 0
      /\ ret'[t] = "idle"
      /\ caller'[t] = caller[t]
      /\ active' = active
  BY <1>1, ConnectionAssumption DEF InterruptConnect, Goto, Leave, Fields, closeVars,
         attemptVars, Attempts
<1>4. Alone(t)
  BY <1>1 DEF InterruptConnect, Goto, Leave, Alone, Fields, closeVars
<1>5. attempts' \in 0 .. MaxAttempts /\ attempts <= attempts' /\ active' \in 0 .. attempts'
  BY <1>1, <1>3 DEF InterruptConnect, attemptVars
<1>6. Fields'
  BY <1>1, <1>3, <1>4, <1>5 DEF InterruptConnect, Goto, Leave, Fields, Alone, setup,
         queueVars, nativeVars, Labels, Returns, States, Events, Attempts
<1>7. Keeps
  BY <1>2 DEF InterruptConnect, Goto, Leave, Keeps, AttKept, closeVars, queueVars, nativeVars,
         Drained
<1>8. Finishes(t) /\ Activates(t)
  BY <1>2, <1>3 DEF InterruptConnect, Finishes, Activates, AttKept, InConnect
<1>9. Enters(t)
  BY <1>1, <1>3 DEF InterruptConnect, Goto, Leave, Enters, InConnect, ThreadHolds, Cancels,
         closeVars, nativeVars, queueVars
<1>10. ThreadHolds(t)'
  BY <1>1, <1>2, <1>3 DEF ThreadHolds, Connects, Withdraws, Cancels, Closes, Progress,
         InClose, CloseWaits, InConnect, AttKept, Unbegun, Attempts, Fields
<1> QED BY <1>2, <1>4, <1>5, <1>6, <1>7, <1>8, <1>9, <1>10 DEF Moves

\* The attempt is over: it failed, stays in use, or was withdrawn.
LEMMA StepAttemptEnds ==
    ASSUME ConnInv, CP!IInv, NEW t \in Threads, Withdrawn(t) \/ SettleFailed(t) \/ SettleInUse(t)
    PROVE  Moves(t)
<1>1. /\ AttTypes /\ Fields /\ Unbegun /\ ThreadHolds(t)
      /\ caller \in [Threads -> {"idle", "waiting", "teardown"}]
      /\ MaxAttempts \in Nat /\ attempts \in 0 .. MaxAttempts /\ active \in 0 .. attempts
  BY TypedCaller, ConnectionAssumption DEF ConnInv, Fields
<1>2. /\ AttTypes' /\ \A a \in Attempts : a # cur[t] => AttKept(a)
      /\ \A a \in Attempts : att'[a].cancelling = att[a].cancelling
  <2>1. DOMAIN [finished |-> TRUE] = {"finished"}
    OBVIOUS
  <2>2. att' = Update(cur[t], [finished |-> TRUE])
    BY DEF Withdrawn, SettleFailed, SettleInUse
  <2> QED BY <1>1, <2>1, <2>2, Updated DEF AttKept
<1>3. /\ pc[t] \in {"withdrawn", "settle"}
      /\ pc'[t] = "idle"
      /\ cur'[t] = 0
      /\ ret'[t] = "idle"
      /\ caller'[t] = caller[t]
      /\ active' = active
  BY <1>1, ConnectionAssumption DEF Withdrawn, SettleFailed, SettleInUse, Goto, Leave, Fields,
         closeVars, attemptVars, Attempts
<1>4. Alone(t)
  BY <1>1 DEF Withdrawn, SettleFailed, SettleInUse, Goto, Leave, Alone, Fields, closeVars
<1>5. attempts' \in 0 .. MaxAttempts /\ attempts <= attempts' /\ active' \in 0 .. attempts'
  BY <1>1, <1>3 DEF Withdrawn, SettleFailed, SettleInUse, attemptVars
<1>6. Fields'
  BY <1>1, <1>3, <1>4, <1>5 DEF Withdrawn, SettleFailed, SettleInUse, Goto, Leave, Fields,
         Alone, setup, queueVars, nativeVars, Labels, Returns, States, Events, Attempts
<1>7. Keeps
  BY <1>2 DEF Withdrawn, SettleFailed, SettleInUse, Goto, Leave, Keeps, AttKept, closeVars,
         queueVars, nativeVars, Drained
<1>8. Finishes(t) /\ Activates(t)
  BY <1>2, <1>3 DEF Withdrawn, SettleFailed, SettleInUse, Finishes, Activates, AttKept,
         InConnect
<1>9. Enters(t)
  BY <1>1, <1>3 DEF Withdrawn, SettleFailed, SettleInUse, Goto, Leave, Enters, InConnect,
         ThreadHolds, Cancels, closeVars, nativeVars, queueVars
<1>10. ThreadHolds(t)'
  BY <1>1, <1>2, <1>3 DEF ThreadHolds, Connects, Withdraws, Cancels, Closes, Progress,
         InClose, CloseWaits, InConnect, AttKept, Unbegun, Attempts, Fields
<1> QED BY <1>2, <1>4, <1>5, <1>6, <1>7, <1>8, <1>9, <1>10 DEF Moves

LEMMA StepFinishConnect ==
    ASSUME ConnInv, CP!IInv, NEW t \in Threads, FinishConnect(t)
    PROVE  Moves(t)
<1>1. /\ AttTypes /\ Fields /\ Unbegun /\ ThreadHolds(t)
      /\ caller \in [Threads -> {"idle", "waiting", "teardown"}]
      /\ MaxAttempts \in Nat /\ attempts \in 0 .. MaxAttempts /\ active \in 0 .. attempts
  BY TypedCaller, ConnectionAssumption DEF ConnInv, Fields
<1>2. /\ AttTypes' /\ \A a \in Attempts : a # cur[t] => AttKept(a)
      /\ \A a \in Attempts : att'[a].cancelling = att[a].cancelling
  <2>1. DOMAIN [finished |-> TRUE] = {"finished"}
    OBVIOUS
  <2>2. att' = Update(cur[t], [finished |-> TRUE])
    BY DEF FinishConnect
  <2> QED BY <1>1, <2>1, <2>2, Updated DEF AttKept
<1>3. /\ pc[t] = "finish"
      /\ pc'[t] = "idle"
      /\ cur'[t] = 0
      /\ ret'[t] = "idle"
      /\ caller'[t] = caller[t]
      /\ cur[t] = active /\ active' = 0
  BY <1>1, ConnectionAssumption DEF FinishConnect, Goto, Leave, ThreadHolds, Connects,
         InConnect, Fields, closeVars, attemptVars, Attempts
<1>4. Alone(t)
  BY <1>1 DEF FinishConnect, Goto, Leave, Alone, Fields, closeVars
<1>5. attempts' \in 0 .. MaxAttempts /\ attempts <= attempts' /\ active' \in 0 .. attempts'
  BY <1>1, <1>3 DEF FinishConnect, attemptVars
<1>6. Fields'
  BY <1>1, <1>3, <1>4, <1>5 DEF FinishConnect, Goto, Leave, Fields, Alone, setup, queueVars,
         nativeVars, Labels, Returns, States, Events, Attempts
<1>7. Keeps
  BY <1>2 DEF FinishConnect, Goto, Leave, Keeps, AttKept, closeVars, queueVars, nativeVars,
         Drained
<1>8. Finishes(t) /\ Activates(t)
  BY <1>2, <1>3 DEF FinishConnect, Finishes, Activates, AttKept, InConnect
<1>9. Enters(t)
  BY <1>1, <1>3 DEF FinishConnect, Goto, Leave, ThreadHolds, Connects, InConnect, Enters,
         Cancels, closeVars, nativeVars, queueVars
<1>10. ThreadHolds(t)'
  BY <1>1, <1>2, <1>3 DEF ThreadHolds, Connects, Withdraws, Cancels, Closes, Progress,
         InClose, CloseWaits, InConnect, AttKept, Unbegun, Attempts, Fields
<1> QED BY <1>2, <1>4, <1>5, <1>6, <1>7, <1>8, <1>9, <1>10 DEF Moves

LEMMA StepCancelReturns ==
    ASSUME ConnInv, CP!IInv, NEW t \in Threads, CancelNotNeeded(t)
    PROVE  Moves(t)
<1>1. /\ AttTypes /\ Fields /\ Unbegun /\ ThreadHolds(t)
      /\ caller \in [Threads -> {"idle", "waiting", "teardown"}]
      /\ MaxAttempts \in Nat /\ attempts \in 0 .. MaxAttempts /\ active \in 0 .. attempts
  BY TypedCaller, ConnectionAssumption DEF ConnInv, Fields
<1>2. AttTypes' /\ \A a \in Attempts : AttKept(a)
  BY <1>1 DEF CancelNotNeeded, attemptVars, AttTypes, AttKept
<1>3. /\ pc[t] = "cancel" /\ pc'[t] = ret[t]
      /\ ret[t] \in {"settle", "dwait", "kwait"}
      /\ cur'[t] = cur[t] /\ ret'[t] = ret[t] /\ caller'[t] = caller[t]
      /\ active' = active
  BY <1>1, ConnectionAssumption DEF CancelNotNeeded, Goto, ThreadHolds, Cancels, Returns,
         Fields, closeVars, attemptVars, Attempts
<1>4. Alone(t)
  BY <1>1 DEF CancelNotNeeded, Goto, Alone, Fields, closeVars
<1>5. attempts' \in 0 .. MaxAttempts /\ attempts <= attempts' /\ active' \in 0 .. attempts'
  BY <1>1, <1>3 DEF CancelNotNeeded, attemptVars
<1>6. Fields'
  <2>1. pc' \in [Threads -> Labels] /\ ret' \in [Threads -> Returns]
    BY <1>1, <1>3 DEF CancelNotNeeded, Goto, Returns, Fields, Labels
  <2>2. cur' \in [Threads -> 0 .. MaxAttempts]
    BY <1>1, <1>3, <1>5 DEF CancelNotNeeded, Goto, Returns, Fields
  <2>3. \A u \in Threads : cur'[u] <= attempts'
    BY <1>1, <1>3, <1>4, <1>5 DEF Alone, Fields
  <2> QED BY <1>1, <1>5, <2>1, <2>2, <2>3 DEF CancelNotNeeded, Fields, setup, queueVars,
                nativeVars, States, Events
<1>7. Keeps
  BY <1>2 DEF CancelNotNeeded, Goto, Keeps, AttKept, closeVars, queueVars, nativeVars, Drained
<1>8. Finishes(t) /\ Activates(t)
  BY <1>2, <1>3 DEF CancelNotNeeded, Finishes, Activates, AttKept, InConnect
<1>9. Enters(t)
  BY <1>1, <1>3 DEF CancelNotNeeded, Goto, ThreadHolds, Cancels, Returns, Enters, InConnect,
         closeVars, nativeVars, queueVars
<1>10. ThreadHolds(t)'
  BY <1>1, <1>2, <1>3 DEF ThreadHolds, Connects, Withdraws, Cancels, Closes, Progress,
         InClose, CloseWaits, InConnect, AttKept, Unbegun, Attempts, Fields
<1> QED BY <1>2, <1>4, <1>5, <1>6, <1>7, <1>8, <1>9, <1>10 DEF Moves

\* Whoever finds the attempt unclaimed cancels it.
LEMMA StepCancelClaim ==
    ASSUME ConnInv, CP!IInv, NEW t \in Threads, CancelClaim(t)
    PROVE  Moves(t)
<1>1. /\ AttTypes /\ Fields /\ Unbegun /\ ThreadHolds(t)
      /\ caller \in [Threads -> {"idle", "waiting", "teardown"}]
      /\ MaxAttempts \in Nat /\ attempts \in 0 .. MaxAttempts /\ active \in 0 .. attempts
  BY TypedCaller, ConnectionAssumption DEF ConnInv, Fields
<1>2. /\ AttTypes' /\ \A a \in Attempts : a # cur[t] => AttKept(a)
      /\ \A a \in Attempts : att'[a].finished = att[a].finished
      /\ \A a \in Attempts : att[a].cancelling \/ a = cur[t] => att'[a].cancelling
  <2>1. DOMAIN [cancelling |-> TRUE] = {"cancelling"}
    OBVIOUS
  <2>2. att' = Update(cur[t], [cancelling |-> TRUE])
    BY DEF CancelClaim
  <2> QED BY <1>1, <2>1, <2>2, Updated DEF AttKept
<1>3. /\ pc[t] = "cancel" /\ pc'[t] \in {"cjoin", "cstart"}
      /\ pc'[t] = "cstart" => ~att[cur[t]].cancelling
      /\ cur'[t] = cur[t] /\ ret'[t] = ret[t] /\ caller'[t] = caller[t]
      /\ active' = active
  BY <1>1, ConnectionAssumption DEF CancelClaim, Goto, Fields, closeVars, attemptVars,
         Attempts
<1>4. Alone(t)
  BY <1>1 DEF CancelClaim, Goto, Alone, Fields, closeVars
<1>5. attempts' \in 0 .. MaxAttempts /\ attempts <= attempts' /\ active' \in 0 .. attempts'
  BY <1>1, <1>3 DEF CancelClaim, attemptVars
<1>6. Fields'
  BY <1>1, <1>3, <1>4, <1>5 DEF CancelClaim, Goto, Fields, Alone, setup, queueVars,
         nativeVars, Labels, Returns, States, Events, Attempts
<1>7. Keeps
  BY <1>2 DEF CancelClaim, Goto, Keeps, AttKept, closeVars, queueVars, nativeVars, Drained
<1>8. Finishes(t) /\ Activates(t)
  BY <1>2, <1>3 DEF CancelClaim, Finishes, Activates, AttKept, InConnect
<1>9. Enters(t)
  BY <1>1, <1>3 DEF CancelClaim, Goto, Enters, InConnect, ThreadHolds, Cancels, closeVars,
         nativeVars, queueVars
<1>10. ThreadHolds(t)'
  BY <1>1, <1>2, <1>3 DEF ThreadHolds, Connects, Withdraws, Cancels, Closes, Progress,
         InClose, CloseWaits, InConnect, AttKept, Unbegun, Attempts, Fields
<1> QED BY <1>2, <1>4, <1>5, <1>6, <1>7, <1>8, <1>9, <1>10 DEF Moves

LEMMA StepCancelEnds ==
    ASSUME ConnInv, CP!IInv, NEW t \in Threads, CancelNothing(t) \/ CancelEnd(t)
    PROVE  Moves(t)
<1>1. /\ AttTypes /\ Fields /\ Unbegun /\ ThreadHolds(t)
      /\ caller \in [Threads -> {"idle", "waiting", "teardown"}]
      /\ MaxAttempts \in Nat /\ attempts \in 0 .. MaxAttempts /\ active \in 0 .. attempts
  BY TypedCaller, ConnectionAssumption DEF ConnInv, Fields
<1>2. /\ AttTypes' /\ \A a \in Attempts : a # cur[t] => AttKept(a)
      /\ \A a \in Attempts : AttKept(a)
  <2>1. DOMAIN [cancelFinished |-> TRUE] = {"cancelFinished"}
    OBVIOUS
  <2>2. att' = Update(cur[t], [cancelFinished |-> TRUE])
    BY DEF CancelNothing, CancelEnd
  <2> QED BY <1>1, <2>1, <2>2, Updated DEF AttKept
<1>3. /\ pc[t] \in {"cstart", "cend"} /\ pc'[t] = ret[t]
      /\ ret[t] \in {"settle", "dwait", "kwait"}
      /\ cur'[t] = cur[t] /\ ret'[t] = ret[t] /\ caller'[t] = caller[t]
      /\ active' = active
  BY <1>1, ConnectionAssumption DEF CancelNothing, CancelEnd, Goto, ThreadHolds, Cancels,
         Returns, Fields, closeVars, attemptVars, Attempts
<1>4. Alone(t)
  BY <1>1 DEF CancelNothing, CancelEnd, Goto, Alone, Fields, closeVars
<1>5. attempts' \in 0 .. MaxAttempts /\ attempts <= attempts' /\ active' \in 0 .. attempts'
  BY <1>1, <1>3 DEF CancelNothing, CancelEnd, attemptVars
<1>6. Fields'
  <2>1. pc' \in [Threads -> Labels] /\ ret' \in [Threads -> Returns]
    BY <1>1, <1>3 DEF CancelNothing, CancelEnd, Goto, Returns, Fields, Labels
  <2>2. cur' \in [Threads -> 0 .. MaxAttempts]
    BY <1>1, <1>3, <1>5 DEF CancelNothing, CancelEnd, Goto, Returns, Fields
  <2>3. \A u \in Threads : cur'[u] <= attempts'
    BY <1>1, <1>3, <1>4, <1>5 DEF Alone, Fields
  <2>4. /\ UNCHANGED <<setup, state, queueVars, nativeVars>>
        /\ disconnected' \in BOOLEAN
    BY <1>1 DEF CancelNothing, CancelEnd, Fields
  <2> QED BY <1>1, <1>5, <2>1, <2>2, <2>3, <2>4 DEF Fields, setup, queueVars, nativeVars
<1>7. Keeps
  BY <1>2 DEF CancelNothing, CancelEnd, Goto, Keeps, AttKept, closeVars, queueVars,
         nativeVars, Drained
<1>8. Finishes(t) /\ Activates(t)
  BY <1>2, <1>3 DEF CancelNothing, CancelEnd, Finishes, Activates, AttKept, InConnect
<1>9. Enters(t)
  BY <1>1, <1>3 DEF CancelNothing, CancelEnd, Goto, ThreadHolds, Cancels, Returns, Enters,
         InConnect, closeVars, nativeVars, queueVars
<1>10. ThreadHolds(t)'
  BY <1>1, <1>2, <1>3 DEF ThreadHolds, Connects, Withdraws, Cancels, Closes, Progress,
         InClose, CloseWaits, InConnect, AttKept, Unbegun, Attempts, Fields
<1> QED BY <1>2, <1>4, <1>5, <1>6, <1>7, <1>8, <1>9, <1>10 DEF Moves

LEMMA StepCancelManaged ==
    ASSUME ConnInv, CP!IInv, NEW t \in Threads, CancelManaged(t)
    PROVE  Moves(t)
<1>1. /\ AttTypes /\ Fields /\ Unbegun /\ ThreadHolds(t)
      /\ caller \in [Threads -> {"idle", "waiting", "teardown"}]
      /\ MaxAttempts \in Nat /\ attempts \in 0 .. MaxAttempts /\ active \in 0 .. attempts
  BY TypedCaller, ConnectionAssumption DEF ConnInv, Fields
<1>2. /\ AttTypes' /\ \A a \in Attempts : a # cur[t] => AttKept(a)
      /\ \A a \in Attempts : AttKept(a)
  <2>1. DOMAIN [cancelAsked |-> TRUE] = {"cancelAsked"}
    OBVIOUS
  <2>2. att' = Update(cur[t], [cancelAsked |-> TRUE])
    BY DEF CancelManaged
  <2> QED BY <1>1, <2>1, <2>2, Updated DEF AttKept
<1>3. /\ pc[t] = "cstart" /\ pc'[t] = "cdone"
      /\ cur'[t] = cur[t] /\ ret'[t] = ret[t] /\ caller'[t] = caller[t]
      /\ active' = active
  BY <1>1, ConnectionAssumption DEF CancelManaged, Goto, Fields, closeVars, attemptVars,
         Attempts
<1>4. Alone(t)
  BY <1>1 DEF CancelManaged, Goto, Alone, Fields, closeVars
<1>5. attempts' \in 0 .. MaxAttempts /\ attempts <= attempts' /\ active' \in 0 .. attempts'
  BY <1>1, <1>3 DEF CancelManaged, attemptVars
<1>6. Fields'
  BY <1>1, <1>3, <1>4, <1>5 DEF CancelManaged, Goto, Fields, Alone, setup, queueVars,
         nativeVars, Labels, Returns, States, Events, Attempts
<1>7. Keeps
  BY <1>2 DEF CancelManaged, Goto, Keeps, AttKept, closeVars, queueVars, nativeVars, Drained
<1>8. Finishes(t) /\ Activates(t)
  BY <1>2, <1>3 DEF CancelManaged, Finishes, Activates, AttKept, InConnect
<1>9. Enters(t)
  BY <1>1, <1>3 DEF CancelManaged, Goto, Enters, InConnect, ThreadHolds, Cancels, closeVars,
         nativeVars, queueVars
<1>10. ThreadHolds(t)'
  BY <1>1, <1>2, <1>3 DEF ThreadHolds, Connects, Withdraws, Cancels, Closes, Progress,
         InClose, CloseWaits, InConnect, AttKept, Unbegun, Attempts, Fields
<1> QED BY <1>2, <1>4, <1>5, <1>6, <1>7, <1>8, <1>9, <1>10 DEF Moves

LEMMA StepCancelGoes ==
    ASSUME ConnInv, CP!IInv, NEW t \in Threads, CancelEnded(t) \/ CancelDisconnect(t)
    PROVE  Moves(t)
<1>1. /\ AttTypes /\ Fields /\ Unbegun /\ ThreadHolds(t)
      /\ caller \in [Threads -> {"idle", "waiting", "teardown"}]
      /\ MaxAttempts \in Nat /\ attempts \in 0 .. MaxAttempts /\ active \in 0 .. attempts
  BY TypedCaller, ConnectionAssumption DEF ConnInv, Fields
<1>2. AttTypes' /\ \A a \in Attempts : AttKept(a)
  BY <1>1 DEF CancelEnded, CancelDisconnect, NativeDisconnect, attemptVars, AttTypes, AttKept
<1>3. /\ pc[t] \in {"cstart", "cdone"} /\ pc'[t] \in {"cbarrier", "cend"}
      /\ cur'[t] = cur[t] /\ ret'[t] = ret[t] /\ caller'[t] = caller[t]
      /\ active' = active
  BY <1>1, ConnectionAssumption DEF CancelEnded, CancelDisconnect, Goto, CancelDisconnects,
         NativeDisconnect, Posted, Fields, closeVars, attemptVars, Attempts
<1>4. Alone(t)
  BY <1>1 DEF CancelEnded, CancelDisconnect, Goto, CancelDisconnects, NativeDisconnect,
         Posted, Alone, Fields, closeVars
<1>5. attempts' \in 0 .. MaxAttempts /\ attempts <= attempts' /\ active' \in 0 .. attempts'
  BY <1>1, <1>3 DEF CancelEnded, CancelDisconnect, attemptVars
<1>6. Fields'
  BY <1>1, <1>3, <1>4, <1>5 DEF CancelEnded, CancelDisconnect, Goto, CancelDisconnects,
         NativeDisconnect, Posted, Fields, Alone, setup, queueVars, nativeVars, Labels,
         Returns, States, Events, Attempts
<1>7. Keeps
  BY <1>2 DEF CancelEnded, CancelDisconnect, Goto, CancelDisconnects, NativeDisconnect,
         Posted, Keeps, AttKept, closeVars, queueVars, nativeVars, Drained
<1>8. Finishes(t) /\ Activates(t)
  BY <1>2, <1>3 DEF CancelEnded, CancelDisconnect, Finishes, Activates, AttKept, InConnect
<1>9. Enters(t)
  BY <1>1, <1>3 DEF CancelEnded, CancelDisconnect, Goto, CancelDisconnects, NativeDisconnect,
         Posted, Enters, InConnect, ThreadHolds, Cancels, closeVars, nativeVars, queueVars
<1>10. ThreadHolds(t)'
  BY <1>1, <1>2, <1>3 DEF ThreadHolds, Connects, Withdraws, Cancels, Closes, Progress,
         InClose, CloseWaits, InConnect, AttKept, Unbegun, Attempts, Fields
<1> QED BY <1>2, <1>4, <1>5, <1>6, <1>7, <1>8, <1>9, <1>10 DEF Moves

LEMMA StepDisconnect ==
    ASSUME ConnInv, CP!IInv, NEW t \in Threads, Disconnect(t)
    PROVE  Moves(t)
<1>1. /\ AttTypes /\ Fields /\ Unbegun /\ ThreadHolds(t)
      /\ caller \in [Threads -> {"idle", "waiting", "teardown"}]
      /\ MaxAttempts \in Nat /\ attempts \in 0 .. MaxAttempts /\ active \in 0 .. attempts
  BY TypedCaller, ConnectionAssumption DEF ConnInv, Fields
<1>2. AttTypes' /\ \A a \in Attempts : AttKept(a)
  BY <1>1 DEF Disconnect, attemptVars, AttTypes, AttKept
<1>3. /\ pc[t] = "idle"
      /\ cur'[t] = active /\ caller'[t] = caller[t]
      /\ active' = active
      /\ \/ active # 0 /\ pc'[t] = "cancel" /\ ret'[t] = "dwait"
         \/ pc'[t] = "dnative" /\ ret'[t] = ret[t]
  BY <1>1, ConnectionAssumption DEF Disconnect, Goto, Fields, closeVars, attemptVars, Attempts
<1>4. Alone(t)
  BY <1>1 DEF Disconnect, Goto, Alone, Fields, closeVars
<1>5. attempts' \in 0 .. MaxAttempts /\ attempts <= attempts' /\ active' \in 0 .. attempts'
  BY <1>1, <1>3 DEF Disconnect, attemptVars
<1>6. Fields'
  BY <1>1, <1>3, <1>4, <1>5 DEF Disconnect, Goto, Fields, Alone, setup, queueVars, nativeVars,
         Labels, Returns, States, Events, Attempts
<1>7. Keeps
  BY <1>2 DEF Disconnect, Goto, Keeps, AttKept, closeVars, queueVars, nativeVars, Drained
<1>8. Finishes(t) /\ Activates(t)
  BY <1>2, <1>3 DEF Disconnect, Finishes, Activates, AttKept, InConnect
<1>9. Enters(t)
  BY <1>1, <1>3 DEF Disconnect, Goto, Enters, InConnect, ThreadHolds, Cancels, closeVars,
         nativeVars, queueVars
<1>10. ThreadHolds(t)'
  BY <1>1, <1>2, <1>3 DEF ThreadHolds, Connects, Withdraws, Cancels, Closes, Progress,
         InClose, CloseWaits, InConnect, AttKept, Unbegun, Attempts, Fields
<1> QED BY <1>2, <1>4, <1>5, <1>6, <1>7, <1>8, <1>9, <1>10 DEF Moves

LEMMA StepDisconnectGoes ==
    ASSUME ConnInv, CP!IInv, NEW t \in Threads,
           DisconnectWait(t) \/ DisconnectNative(t) \/ DisconnectBarrier(t)
    PROVE  Moves(t)
<1>1. /\ AttTypes /\ Fields /\ Unbegun /\ ThreadHolds(t)
      /\ caller \in [Threads -> {"idle", "waiting", "teardown"}]
      /\ MaxAttempts \in Nat /\ attempts \in 0 .. MaxAttempts /\ active \in 0 .. attempts
  BY TypedCaller, ConnectionAssumption DEF ConnInv, Fields
<1>2. AttTypes' /\ \A a \in Attempts : AttKept(a)
  BY <1>1 DEF DisconnectWait, DisconnectNative, DisconnectBarrier, NativeDisconnect,
         attemptVars, AttTypes, AttKept
<1>3. /\ pc[t] \in DisconnectPcs /\ pc'[t] \in DisconnectPcs
      /\ cur'[t] = cur[t] /\ ret'[t] = ret[t] /\ caller'[t] = caller[t]
      /\ active' = active
  BY <1>1, ConnectionAssumption DEF DisconnectWait, DisconnectNative, DisconnectBarrier, Goto,
         NativeDisconnect, Posted, Fields, closeVars, attemptVars, Attempts
<1>4. Alone(t)
  BY <1>1 DEF DisconnectWait, DisconnectNative, DisconnectBarrier, Goto, NativeDisconnect,
         Posted, Alone, Fields, closeVars
<1>5. attempts' \in 0 .. MaxAttempts /\ attempts <= attempts' /\ active' \in 0 .. attempts'
  BY <1>1, <1>3 DEF DisconnectWait, DisconnectNative, DisconnectBarrier, attemptVars
<1>6. Fields'
  BY <1>1, <1>3, <1>4, <1>5 DEF DisconnectWait, DisconnectNative, DisconnectBarrier, Goto,
         NativeDisconnect, Posted, Fields, Alone, setup, queueVars, nativeVars, Labels,
         Returns, States, Events, Attempts
<1>7. Keeps
  BY <1>2 DEF DisconnectWait, DisconnectNative, DisconnectBarrier, Goto, NativeDisconnect,
         Posted, Keeps, AttKept, closeVars, queueVars, nativeVars, Drained
<1>8. Finishes(t) /\ Activates(t)
  BY <1>2, <1>3 DEF DisconnectWait, DisconnectNative, DisconnectBarrier, Finishes, Activates,
         AttKept, InConnect
<1>9. Enters(t)
  BY <1>1, <1>3 DEF DisconnectWait, DisconnectNative, DisconnectBarrier, Goto,
         NativeDisconnect, Posted, Enters, InConnect, ThreadHolds, Cancels, closeVars,
         nativeVars, queueVars
<1>10. ThreadHolds(t)'
  BY <1>1, <1>2, <1>3 DEF ThreadHolds, Connects, Withdraws, Cancels, Closes, Progress,
         InClose, CloseWaits, InConnect, AttKept, Unbegun, Attempts, Fields
<1> QED BY <1>2, <1>4, <1>5, <1>6, <1>7, <1>8, <1>9, <1>10 DEF Moves

LEMMA StepDisconnectEnds ==
    ASSUME ConnInv, CP!IInv, NEW t \in Threads, DisconnectRaises(t) \/ DisconnectSet(t)
    PROVE  Moves(t)
<1>1. /\ AttTypes /\ Fields /\ Unbegun /\ ThreadHolds(t)
      /\ caller \in [Threads -> {"idle", "waiting", "teardown"}]
      /\ MaxAttempts \in Nat /\ attempts \in 0 .. MaxAttempts /\ active \in 0 .. attempts
  BY TypedCaller, ConnectionAssumption DEF ConnInv, Fields
<1>2. AttTypes' /\ \A a \in Attempts : AttKept(a)
  BY <1>1 DEF DisconnectRaises, DisconnectSet, attemptVars, AttTypes, AttKept
<1>3. /\ pc[t] \in DisconnectPcs
      /\ pc'[t] = "idle"
      /\ cur'[t] = 0
      /\ ret'[t] = "idle"
      /\ caller'[t] = caller[t]
      /\ active' = active
  BY <1>1, ConnectionAssumption DEF DisconnectRaises, DisconnectSet, Goto, Leave, Fields,
         closeVars, attemptVars, Attempts
<1>4. Alone(t)
  BY <1>1 DEF DisconnectRaises, DisconnectSet, Goto, Leave, Alone, Fields, closeVars
<1>5. attempts' \in 0 .. MaxAttempts /\ attempts <= attempts' /\ active' \in 0 .. attempts'
  BY <1>1, <1>3 DEF DisconnectRaises, DisconnectSet, attemptVars
<1>6. Fields'
  <2>1. pc' \in [Threads -> Labels] /\ ret' \in [Threads -> Returns]
    BY <1>1, <1>3 DEF DisconnectRaises, DisconnectSet, Goto, Leave, Fields, Labels, Returns
  <2>2. cur' \in [Threads -> 0 .. MaxAttempts]
    BY <1>1, <1>3, <1>5 DEF DisconnectRaises, DisconnectSet, Goto, Leave, Fields
  <2>3. \A u \in Threads : cur'[u] <= attempts'
    BY <1>1, <1>3, <1>4, <1>5 DEF Alone, Fields
  <2>4. /\ UNCHANGED <<mode, faults, shut, released, pending, handling, link>>
        /\ state' \in States /\ disconnected' \in BOOLEAN
    <3>1. CASE DisconnectRaises(t)
      BY <1>1, <3>1 DEF DisconnectRaises, Fields, setup, queueVars, nativeVars
    <3>2. CASE DisconnectSet(t)
      BY <1>1, <3>2 DEF DisconnectSet, setup, queueVars, nativeVars, States
    <3> QED BY <3>1, <3>2
  <2> QED BY <1>1, <1>5, <2>1, <2>2, <2>3, <2>4 DEF Fields
<1>7. Keeps
  BY <1>2 DEF DisconnectRaises, DisconnectSet, Goto, Leave, Keeps, AttKept, closeVars,
         queueVars, nativeVars, Drained
<1>8. Finishes(t) /\ Activates(t)
  BY <1>2, <1>3 DEF DisconnectRaises, DisconnectSet, Finishes, Activates, AttKept, InConnect
<1>9. Enters(t)
  BY <1>1, <1>3 DEF DisconnectRaises, DisconnectSet, Goto, Leave, Enters, InConnect,
         ThreadHolds, Cancels, closeVars, nativeVars, queueVars
<1>10. ThreadHolds(t)'
  BY <1>1, <1>2, <1>3 DEF ThreadHolds, Connects, Withdraws, Cancels, Closes, Progress,
         InClose, CloseWaits, InConnect, AttKept, Unbegun, Attempts, Fields
<1> QED BY <1>2, <1>4, <1>5, <1>6, <1>7, <1>8, <1>9, <1>10 DEF Moves
       ----------------------------------------------------------------------------- (* The
       steps that reach the coordinator. *)

\* A call that raises leaves the coordinator too, if it ran the teardown.
LEMMA Raised ==
    ASSUME ConnInv, CP!IInv, NEW t \in Threads, Raise(t), pc[t] # "joined"
    PROVE  /\ Leave(t)
           /\ caller'[t] = "idle" /\ \A u \in Threads \ {t} : caller'[u] = caller[u]
           /\ status' \in {status, "close_failed"}
           /\ status # "open" => status' # "open"
<1>1. caller \in [Threads -> {"idle", "waiting", "teardown"}] /\ caller[t] # "waiting"
  BY TypedCaller DEF ConnInv, ThreadHolds, Closes
<1> QED BY <1>1 DEF Raise, Close!Fail, Close!Publish, closeVars

\* Once the attempt that close() found is over, no connect() is under way.
LEMMA NoConnect ==
    ASSUME ConnInv, active = 0 \/ \E t \in Threads :
               CloseWaits(t) /\ att[cur[t]].finished
    PROVE  \A u \in Threads : ~InConnect(u)
BY DEF ConnInv, ThreadHolds, Connects, Closes

\* A call raises.
LEMMA StepRaise ==
    ASSUME ConnInv, CP!IInv, NEW t \in Threads,
           pc[t] \in CancelPcs \cup PastWait, Raise(t),
           UNCHANGED <<setup, state, disconnected, attemptVars, queueVars, nativeVars>>
    PROVE  Moves(t)
<1>1. /\ AttTypes /\ Fields /\ Unbegun /\ ThreadHolds(t)
      /\ caller \in [Threads -> {"idle", "waiting", "teardown"}]
      /\ MaxAttempts \in Nat /\ attempts \in 0 .. MaxAttempts /\ active \in 0 .. attempts
  BY TypedCaller, ConnectionAssumption DEF ConnInv, Fields
<1>2. AttTypes' /\ \A a \in Attempts : AttKept(a)
  BY <1>1 DEF attemptVars, AttTypes, AttKept
<1>3. /\ pc[t] \notin {"idle", "joined", "withdrawn"}
      /\ pc'[t] = "idle"
      /\ cur'[t] = 0
      /\ ret'[t] = "idle"
      /\ caller'[t] = "idle" /\ \A u \in Threads \ {t} : caller'[u] = caller[u]
      /\ status' \in {status, "close_failed"} 
      /\ status # "open" => status' # "open"
      /\ active' = active
  BY <1>1, Raised, ConnectionAssumption DEF Goto, Leave, Fields, closeVars, attemptVars
<1>4. Alone(t)
  BY <1>1, Raised DEF Goto, Leave, Alone, Fields, closeVars
<1>5. attempts' \in 0 .. MaxAttempts /\ attempts <= attempts' /\ active' \in 0 .. attempts'
  BY <1>1, <1>3 DEF attemptVars
<1>6. Fields'
  <2>1. pc' \in [Threads -> Labels] /\ ret' \in [Threads -> Returns]
    BY <1>1, <1>3, Raised DEF Goto, Leave, Fields, Labels, Returns
  <2>2. cur' \in [Threads -> 0 .. MaxAttempts]
    BY <1>1, <1>3, <1>5, Raised DEF Goto, Leave, Fields
  <2>3. \A u \in Threads : cur'[u] <= attempts'
    BY <1>1, <1>3, <1>4, <1>5 DEF Alone, Fields
  <2> QED BY <1>1, <1>5, <2>1, <2>2, <2>3 DEF Leave, Fields, setup, queueVars, nativeVars,
                States, Events
<1>7. Keeps
  BY <1>1, <1>2, <1>3 DEF Goto, Leave, Keeps, AttKept, closeVars, queueVars, nativeVars,
         Drained
<1>8. Finishes(t) /\ Activates(t)
  BY <1>2, <1>3 DEF Finishes, Activates, AttKept, InConnect
<1>9. Enters(t)
  BY <1>1, <1>3 DEF Goto, Leave, Enters, InConnect, ThreadHolds, Cancels, closeVars,
         nativeVars, queueVars
<1>10. ThreadHolds(t)'
  BY <1>1, <1>2, <1>3, <1>7 DEF ThreadHolds, Connects, Withdraws, Cancels, Closes, Progress,
         InClose, CloseWaits, InConnect, AttKept, Unbegun, Attempts, Fields, Keeps
<1> QED BY <1>2, <1>4, <1>5, <1>6, <1>7, <1>8, <1>9, <1>10 DEF Moves

\* A native call of the cancel fails.
LEMMA StepCancelFails ==
    ASSUME ConnInv, CP!IInv, NEW t \in Threads,
           CancelFails(t)
    PROVE  Moves(t)
<1>1. /\ AttTypes /\ Fields /\ Unbegun /\ ThreadHolds(t)
      /\ caller \in [Threads -> {"idle", "waiting", "teardown"}]
      /\ MaxAttempts \in Nat /\ attempts \in 0 .. MaxAttempts /\ active \in 0 .. attempts
  BY TypedCaller, ConnectionAssumption DEF ConnInv, Fields
<1>2. AttTypes' /\ \A a \in Attempts : AttKept(a)
  <2>1. DOMAIN [cancelError |-> TRUE, cancelFinished |-> TRUE] = {"cancelError", "cancelFinished"}
    OBVIOUS
  <2>2. att' = Update(cur[t], [cancelError |-> TRUE, cancelFinished |-> TRUE])
    BY DEF CancelFails
  <2> QED BY <1>1, <2>1, <2>2, Updated DEF AttKept
<1>3. /\ pc[t] \in CancelAt
      /\ pc'[t] = "idle"
      /\ cur'[t] = 0
      /\ ret'[t] = "idle"
      /\ caller'[t] = "idle" /\ \A u \in Threads \ {t} : caller'[u] = caller[u]
      /\ status' \in {status, "close_failed"} 
      /\ status # "open" => status' # "open"
      /\ active' = active
  BY <1>1, Raised, ConnectionAssumption DEF CancelFails, Goto, Leave, CancelDisconnects,
         Fields, closeVars, attemptVars
<1>4. Alone(t)
  BY <1>1, Raised DEF CancelFails, Goto, Leave, CancelDisconnects, Alone, Fields, closeVars
<1>5. attempts' \in 0 .. MaxAttempts /\ attempts <= attempts' /\ active' \in 0 .. attempts'
  BY <1>1, <1>3 DEF CancelFails, attemptVars
<1>6. Fields'
  <2>1. pc' \in [Threads -> Labels] /\ ret' \in [Threads -> Returns]
    BY <1>1, <1>3, Raised DEF CancelFails, Goto, Leave, CancelDisconnects, Fields, Labels,
           Returns
  <2>2. cur' \in [Threads -> 0 .. MaxAttempts]
    BY <1>1, <1>3, <1>5, Raised DEF CancelFails, Goto, Leave, CancelDisconnects, Fields
  <2>3. \A u \in Threads : cur'[u] <= attempts'
    BY <1>1, <1>3, <1>4, <1>5 DEF Alone, Fields
  <2> QED BY <1>1, <1>5, <2>1, <2>2, <2>3 DEF CancelFails, Leave, CancelDisconnects, Fields,
                setup, queueVars, nativeVars, States, Events
<1>7. Keeps
  BY <1>1, <1>2, <1>3 DEF CancelFails, Goto, Leave, CancelDisconnects, Keeps, AttKept,
         closeVars, queueVars, nativeVars, Drained
<1>8. Finishes(t) /\ Activates(t)
  BY <1>2, <1>3 DEF CancelFails, Finishes, Activates, AttKept, InConnect
<1>9. Enters(t)
  BY <1>1, <1>3 DEF CancelFails, Goto, Leave, CancelDisconnects, Enters, InConnect,
         ThreadHolds, Cancels, closeVars, nativeVars, queueVars
<1>10. ThreadHolds(t)'
  BY <1>1, <1>2, <1>3, <1>7 DEF ThreadHolds, Connects, Withdraws, Cancels, Closes, Progress,
         InClose, CloseWaits, InConnect, AttKept, Unbegun, Attempts, Fields, Keeps
<1> QED BY <1>2, <1>4, <1>5, <1>6, <1>7, <1>8, <1>9, <1>10 DEF Moves

\* The cancel of another thread is over.
LEMMA StepCancelJoins ==
    ASSUME ConnInv, CP!IInv, NEW t \in Threads,
           CancelJoin(t), ~att[cur[t]].cancelError
    PROVE  Moves(t)
<1>1. /\ AttTypes /\ Fields /\ Unbegun /\ ThreadHolds(t)
      /\ caller \in [Threads -> {"idle", "waiting", "teardown"}]
      /\ MaxAttempts \in Nat /\ attempts \in 0 .. MaxAttempts /\ active \in 0 .. attempts
  BY TypedCaller, ConnectionAssumption DEF ConnInv, Fields
<1>2. AttTypes' /\ \A a \in Attempts : AttKept(a)
  BY <1>1 DEF CancelJoin, attemptVars, AttTypes, AttKept
<1>3. /\ pc[t] = "cjoin" /\ pc'[t] = ret[t]
      /\ ret[t] \in {"settle", "dwait", "kwait"}
      /\ cur'[t] = cur[t] /\ ret'[t] = ret[t]
      /\ UNCHANGED <<caller, status, active>>
  BY <1>1, ConnectionAssumption DEF CancelJoin, Goto, ThreadHolds, Cancels, Returns, Fields,
         closeVars, attemptVars
<1>4. Alone(t)
  BY <1>1 DEF CancelJoin, Goto, Alone, Fields, closeVars
<1>5. attempts' \in 0 .. MaxAttempts /\ attempts <= attempts' /\ active' \in 0 .. attempts'
  BY <1>1, <1>3 DEF CancelJoin, attemptVars
<1>6. Fields'
  <2>1. pc' \in [Threads -> Labels] /\ ret' \in [Threads -> Returns]
    BY <1>1, <1>3 DEF CancelJoin, Goto, Returns, Fields, Labels
  <2>2. cur' \in [Threads -> 0 .. MaxAttempts]
    BY <1>1, <1>3, <1>5 DEF CancelJoin, Goto, Returns, Fields
  <2>3. \A u \in Threads : cur'[u] <= attempts'
    BY <1>1, <1>3, <1>4, <1>5 DEF Alone, Fields
  <2> QED BY <1>1, <1>5, <2>1, <2>2, <2>3 DEF CancelJoin, Fields, setup, queueVars,
                nativeVars, States, Events
<1>7. Keeps
  BY <1>1, <1>2, <1>3 DEF CancelJoin, Goto, Keeps, AttKept, closeVars, queueVars, nativeVars,
         Drained
<1>8. Finishes(t) /\ Activates(t)
  BY <1>2, <1>3 DEF CancelJoin, Finishes, Activates, AttKept, InConnect
<1>9. Enters(t)
  BY <1>1, <1>3 DEF CancelJoin, Goto, ThreadHolds, Cancels, Returns, Enters, InConnect,
         closeVars, nativeVars, queueVars
<1>10. ThreadHolds(t)'
  BY <1>1, <1>2, <1>3, <1>7 DEF ThreadHolds, Connects, Withdraws, Cancels, Closes, Progress,
         InClose, CloseWaits, InConnect, AttKept, Unbegun, Attempts, Fields, Keeps
<1> QED BY <1>2, <1>4, <1>5, <1>6, <1>7, <1>8, <1>9, <1>10 DEF Moves

LEMMA StepCancelBarrier ==
    ASSUME ConnInv, CP!IInv, NEW t \in Threads,
           CancelBarrier(t)
    PROVE  Moves(t)
<1>1. /\ AttTypes /\ Fields /\ Unbegun /\ ThreadHolds(t)
      /\ caller \in [Threads -> {"idle", "waiting", "teardown"}]
      /\ MaxAttempts \in Nat /\ attempts \in 0 .. MaxAttempts /\ active \in 0 .. attempts
  BY TypedCaller, ConnectionAssumption DEF ConnInv, Fields
<1>2. AttTypes' /\ \A a \in Attempts : AttKept(a)
  <2>1. CASE att' = att
    BY <1>1, <2>1 DEF AttTypes, AttKept
  <2>2. ASSUME NEW v \in {None, "ok", "failed"},
               att' = Update(cur[t], [done |-> TRUE, terminal |-> v])
        PROVE  AttTypes' /\ \A a \in Attempts : AttKept(a)
    <3>1. /\ DOMAIN [done |-> TRUE, terminal |-> v] = {"done", "terminal"}
          /\ [done |-> TRUE, terminal |-> v]["terminal"] = v
      OBVIOUS
    <3> QED BY <1>1, <2>2, <3>1, Updated DEF AttKept
  <2>3. att[cur[t]].terminal \in {None, "ok", "failed"}
    BY <1>1 DEF ThreadHolds, Cancels, CancelBarrier, Fields, Attempts, AttTypes
  <2> QED BY <2>1, <2>2, <2>3 DEF CancelBarrier
<1>3. /\ pc[t] = "cbarrier" /\ pc'[t] = "cend"
      /\ cur'[t] = cur[t] /\ ret'[t] = ret[t]
      /\ UNCHANGED <<active, status, caller>>
  BY <1>1, ConnectionAssumption DEF CancelBarrier, Goto, Fields, closeVars, attemptVars
<1>4. Alone(t)
  BY <1>1 DEF CancelBarrier, Goto, Alone, Fields, closeVars
<1>5. attempts' \in 0 .. MaxAttempts /\ attempts <= attempts' /\ active' \in 0 .. attempts'
  BY <1>1, <1>3 DEF CancelBarrier, attemptVars
<1>6. Fields'
  <2>1. pc' \in [Threads -> Labels] /\ ret' \in [Threads -> Returns]
    BY <1>1, <1>3 DEF CancelBarrier, Goto, Fields, Labels, Returns
  <2>2. cur' \in [Threads -> 0 .. MaxAttempts]
    BY <1>1, <1>3, <1>5 DEF CancelBarrier, Goto, Fields
  <2>3. \A u \in Threads : cur'[u] <= attempts'
    BY <1>1, <1>3, <1>4, <1>5 DEF Alone, Fields
  <2> QED BY <1>1, <1>5, <2>1, <2>2, <2>3 DEF CancelBarrier, Fields, setup, queueVars,
                nativeVars, States, Events
<1>7. Keeps
  BY <1>1, <1>2, <1>3 DEF CancelBarrier, Goto, Keeps, AttKept, closeVars, queueVars,
         nativeVars, Drained
<1>8. Finishes(t) /\ Activates(t)
  BY <1>2, <1>3 DEF CancelBarrier, Finishes, Activates, AttKept, InConnect
<1>9. Enters(t)
  BY <1>1, <1>3 DEF CancelBarrier, Goto, Enters, InConnect, ThreadHolds, Cancels, closeVars,
         nativeVars, queueVars
<1>10. ThreadHolds(t)'
  BY <1>1, <1>2, <1>3, <1>7 DEF ThreadHolds, Connects, Withdraws, Cancels, Closes, Progress,
         InClose, CloseWaits, InConnect, AttKept, Unbegun, Attempts, Fields, Keeps
<1> QED BY <1>2, <1>4, <1>5, <1>6, <1>7, <1>8, <1>9, <1>10 DEF Moves

\* close() is elected and finds an attempt, or none.
LEMMA StepCloseBegin ==
    ASSUME ConnInv, CP!IInv, NEW t \in Threads,
           CloseBegin(t)
    PROVE  Moves(t)
<1>1. /\ AttTypes /\ Fields /\ Unbegun /\ ThreadHolds(t)
      /\ caller \in [Threads -> {"idle", "waiting", "teardown"}]
      /\ MaxAttempts \in Nat /\ attempts \in 0 .. MaxAttempts /\ active \in 0 .. attempts
  BY TypedCaller, ConnectionAssumption DEF ConnInv, Fields
<1>2. AttTypes' /\ \A a \in Attempts : AttKept(a)
  BY <1>1 DEF CloseBegin, attemptVars, AttTypes, AttKept
<1>3. /\ pc[t] = "idle"
      /\ caller'[t] = "teardown" /\ \A u \in Threads \ {t} : caller'[u] = caller[u]
      /\ cur'[t] = active /\ active' = active
      /\ status' = "closing"
      /\ \/ active # 0 /\ pc'[t] = "cancel" /\ ret'[t] = "kwait"
         \/ active = 0 /\ pc'[t] = "kchildren" /\ ret'[t] = ret[t]
      /\ active = 0 => \A u \in Threads : ~InConnect(u)
  BY <1>1, NoConnect, ConnectionAssumption DEF CloseBegin, Goto, Fields, closeVars,
         attemptVars, Close!BeginTeardown, Close!Electable
<1>4. Alone(t)
  BY <1>1 DEF CloseBegin, Goto, Alone, Fields, closeVars, Close!BeginTeardown, Close!Electable
<1>5. attempts' \in 0 .. MaxAttempts /\ attempts <= attempts' /\ active' \in 0 .. attempts'
  BY <1>1, <1>3 DEF CloseBegin, attemptVars
<1>6. Fields'
  <2>1. pc' \in [Threads -> Labels] /\ ret' \in [Threads -> Returns]
    BY <1>1, <1>3 DEF CloseBegin, Goto, Fields, Labels, Returns
  <2>2. cur' \in [Threads -> 0 .. MaxAttempts]
    BY <1>1, <1>3, <1>5 DEF CloseBegin, Goto, Fields
  <2>3. \A u \in Threads : cur'[u] <= attempts'
    BY <1>1, <1>3, <1>4, <1>5 DEF Alone, Fields
  <2> QED BY <1>1, <1>5, <2>1, <2>2, <2>3 DEF CloseBegin, Fields, setup, queueVars,
                nativeVars, States, Events
<1>7. Keeps
  BY <1>1, <1>2, <1>3 DEF CloseBegin, Goto, Keeps, AttKept, closeVars, queueVars, nativeVars,
         Drained
<1>8. Finishes(t) /\ Activates(t)
  BY <1>2, <1>3 DEF CloseBegin, Finishes, Activates, AttKept, InConnect
<1>9. Enters(t)
  BY <1>1, <1>3 DEF CloseBegin, Goto, Enters, InConnect, ThreadHolds, Cancels, closeVars,
         nativeVars, queueVars
<1>10. ThreadHolds(t)'
  BY <1>1, <1>2, <1>3, <1>7 DEF ThreadHolds, Connects, Withdraws, Cancels, Closes, Progress,
         InClose, CloseWaits, InConnect, AttKept, Unbegun, Attempts, Fields, Keeps
<1> QED BY <1>2, <1>4, <1>5, <1>6, <1>7, <1>8, <1>9, <1>10 DEF Moves

\* close() joins a teardown.
LEMMA StepCloseJoin ==
    ASSUME ConnInv, CP!IInv, NEW t \in Threads,
           CloseJoin(t)
    PROVE  Moves(t)
<1>1. /\ AttTypes /\ Fields /\ Unbegun /\ ThreadHolds(t)
      /\ caller \in [Threads -> {"idle", "waiting", "teardown"}]
      /\ MaxAttempts \in Nat /\ attempts \in 0 .. MaxAttempts /\ active \in 0 .. attempts
  BY TypedCaller, ConnectionAssumption DEF ConnInv, Fields
<1>2. AttTypes' /\ \A a \in Attempts : AttKept(a)
  BY <1>1 DEF CloseJoin, attemptVars, AttTypes, AttKept
<1>3. /\ pc[t] = "idle" /\ pc'[t] = "joined"
      /\ caller'[t] = "waiting" /\ \A u \in Threads \ {t} : caller'[u] = caller[u]
      /\ cur'[t] = cur[t] /\ ret'[t] = ret[t]
      /\ UNCHANGED <<active, status>>
  BY <1>1, ConnectionAssumption DEF CloseJoin, Goto, Fields, closeVars, attemptVars,
         Close!BeginWait
<1>4. Alone(t)
  BY <1>1 DEF CloseJoin, Goto, Alone, Fields, closeVars, Close!BeginWait
<1>5. attempts' \in 0 .. MaxAttempts /\ attempts <= attempts' /\ active' \in 0 .. attempts'
  BY <1>1, <1>3 DEF CloseJoin, attemptVars
<1>6. Fields'
  <2>1. pc' \in [Threads -> Labels] /\ ret' \in [Threads -> Returns]
    BY <1>1, <1>3 DEF CloseJoin, Goto, Fields, Labels, Returns
  <2>2. cur' \in [Threads -> 0 .. MaxAttempts]
    BY <1>1, <1>3, <1>5 DEF CloseJoin, Goto, Fields
  <2>3. \A u \in Threads : cur'[u] <= attempts'
    BY <1>1, <1>3, <1>4, <1>5 DEF Alone, Fields
  <2> QED BY <1>1, <1>5, <2>1, <2>2, <2>3 DEF CloseJoin, Fields, setup, queueVars, nativeVars,
                States, Events
<1>7. Keeps
  BY <1>1, <1>2, <1>3 DEF CloseJoin, Goto, Keeps, AttKept, closeVars, queueVars, nativeVars,
         Drained
<1>8. Finishes(t) /\ Activates(t)
  BY <1>2, <1>3 DEF CloseJoin, Finishes, Activates, AttKept, InConnect
<1>9. Enters(t)
  BY <1>1, <1>3 DEF CloseJoin, Goto, Enters, InConnect, ThreadHolds, Cancels, closeVars,
         nativeVars, queueVars
<1>10. ThreadHolds(t)'
  BY <1>1, <1>2, <1>3, <1>7 DEF ThreadHolds, Connects, Withdraws, Cancels, Closes, Progress,
         InClose, CloseWaits, InConnect, AttKept, Unbegun, Attempts, Fields, Keeps
<1> QED BY <1>2, <1>4, <1>5, <1>6, <1>7, <1>8, <1>9, <1>10 DEF Moves

LEMMA StepCloseJoined ==
    ASSUME ConnInv, CP!IInv, NEW t \in Threads,
           CloseJoined(t)
    PROVE  Moves(t)
<1>1. /\ AttTypes /\ Fields /\ Unbegun /\ ThreadHolds(t)
      /\ caller \in [Threads -> {"idle", "waiting", "teardown"}]
      /\ MaxAttempts \in Nat /\ attempts \in 0 .. MaxAttempts /\ active \in 0 .. attempts
  BY TypedCaller, ConnectionAssumption DEF ConnInv, Fields
<1>2. AttTypes' /\ \A a \in Attempts : AttKept(a)
  BY <1>1 DEF CloseJoined, attemptVars, AttTypes, AttKept
<1>3. /\ pc[t] = "joined"
      /\ pc'[t] = "idle"
      /\ cur'[t] = 0
      /\ ret'[t] = "idle"
      /\ caller'[t] = "idle" /\ \A u \in Threads \ {t} : caller'[u] = caller[u]
      /\ UNCHANGED <<active, status>>
  BY <1>1, ConnectionAssumption DEF CloseJoined, Goto, Leave, Fields, closeVars, attemptVars,
         Close!Wake, Close!Leave
<1>4. Alone(t)
  BY <1>1 DEF CloseJoined, Goto, Leave, Alone, Fields, closeVars, Close!Wake, Close!Leave
<1>5. attempts' \in 0 .. MaxAttempts /\ attempts <= attempts' /\ active' \in 0 .. attempts'
  BY <1>1, <1>3 DEF CloseJoined, attemptVars
<1>6. Fields'
  <2>1. pc' \in [Threads -> Labels] /\ ret' \in [Threads -> Returns]
    BY <1>1, <1>3 DEF CloseJoined, Goto, Leave, Fields, Labels, Returns
  <2>2. cur' \in [Threads -> 0 .. MaxAttempts]
    BY <1>1, <1>3, <1>5 DEF CloseJoined, Goto, Leave, Fields
  <2>3. \A u \in Threads : cur'[u] <= attempts'
    BY <1>1, <1>3, <1>4, <1>5 DEF Alone, Fields
  <2> QED BY <1>1, <1>5, <2>1, <2>2, <2>3 DEF CloseJoined, Leave, Fields, setup, queueVars,
                nativeVars, States, Events
<1>7. Keeps
  BY <1>1, <1>2, <1>3 DEF CloseJoined, Goto, Leave, Keeps, AttKept, closeVars, queueVars,
         nativeVars, Drained
<1>8. Finishes(t) /\ Activates(t)
  BY <1>2, <1>3 DEF CloseJoined, Finishes, Activates, AttKept, InConnect
<1>9. Enters(t)
  BY <1>1, <1>3 DEF CloseJoined, Goto, Leave, Enters, InConnect, ThreadHolds, Cancels,
         closeVars, nativeVars, queueVars
<1>10. ThreadHolds(t)'
  BY <1>1, <1>2, <1>3, <1>7 DEF ThreadHolds, Connects, Withdraws, Cancels, Closes, Progress,
         InClose, CloseWaits, InConnect, AttKept, Unbegun, Attempts, Fields, Keeps
<1> QED BY <1>2, <1>4, <1>5, <1>6, <1>7, <1>8, <1>9, <1>10 DEF Moves

LEMMA StepCloseWait ==
    ASSUME ConnInv, CP!IInv, NEW t \in Threads,
           CloseWait(t)
    PROVE  Moves(t)
<1>1. /\ AttTypes /\ Fields /\ Unbegun /\ ThreadHolds(t)
      /\ caller \in [Threads -> {"idle", "waiting", "teardown"}]
      /\ MaxAttempts \in Nat /\ attempts \in 0 .. MaxAttempts /\ active \in 0 .. attempts
  BY TypedCaller, ConnectionAssumption DEF ConnInv, Fields
<1>2. AttTypes' /\ \A a \in Attempts : AttKept(a)
  BY <1>1 DEF CloseWait, attemptVars, AttTypes, AttKept
<1>3. /\ pc[t] = "kwait" /\ pc'[t] = "kchildren"
      /\ cur'[t] = cur[t] /\ ret'[t] = ret[t]
      /\ UNCHANGED <<active, status, caller>>
      /\ \A u \in Threads : ~InConnect(u)
  BY <1>1, NoConnect, ConnectionAssumption DEF CloseWait, Goto, CloseWaits, AttemptFinished,
         Fields, closeVars, attemptVars
<1>4. Alone(t)
  BY <1>1 DEF CloseWait, Goto, Alone, Fields, closeVars
<1>5. attempts' \in 0 .. MaxAttempts /\ attempts <= attempts' /\ active' \in 0 .. attempts'
  BY <1>1, <1>3 DEF CloseWait, attemptVars
<1>6. Fields'
  <2>1. pc' \in [Threads -> Labels] /\ ret' \in [Threads -> Returns]
    BY <1>1, <1>3 DEF CloseWait, Goto, Fields, Labels, Returns
  <2>2. cur' \in [Threads -> 0 .. MaxAttempts]
    BY <1>1, <1>3, <1>5 DEF CloseWait, Goto, Fields
  <2>3. \A u \in Threads : cur'[u] <= attempts'
    BY <1>1, <1>3, <1>4, <1>5 DEF Alone, Fields
  <2> QED BY <1>1, <1>5, <2>1, <2>2, <2>3 DEF CloseWait, Fields, setup, queueVars, nativeVars,
                States, Events
<1>7. Keeps
  BY <1>1, <1>2, <1>3 DEF CloseWait, Goto, Keeps, AttKept, closeVars, queueVars, nativeVars,
         Drained
<1>8. Finishes(t) /\ Activates(t)
  BY <1>2, <1>3 DEF CloseWait, Finishes, Activates, AttKept, InConnect
<1>9. Enters(t)
  BY <1>1, <1>3 DEF CloseWait, Goto, CloseWaits, AttemptFinished, Enters, InConnect,
         ThreadHolds, Cancels, closeVars, nativeVars, queueVars
<1>10. ThreadHolds(t)'
  BY <1>1, <1>2, <1>3, <1>7 DEF ThreadHolds, Connects, Withdraws, Cancels, Closes, Progress,
         InClose, CloseWaits, InConnect, AttKept, Unbegun, Attempts, Fields, Keeps
<1> QED BY <1>2, <1>4, <1>5, <1>6, <1>7, <1>8, <1>9, <1>10 DEF Moves

LEMMA StepCloseChildren ==
    ASSUME ConnInv, CP!IInv, NEW t \in Threads,
           CloseChildren(t), ~Raise(t)
    PROVE  Moves(t)
<1>1. /\ AttTypes /\ Fields /\ Unbegun /\ ThreadHolds(t)
      /\ caller \in [Threads -> {"idle", "waiting", "teardown"}]
      /\ MaxAttempts \in Nat /\ attempts \in 0 .. MaxAttempts /\ active \in 0 .. attempts
  BY TypedCaller, ConnectionAssumption DEF ConnInv, Fields
<1>2. AttTypes' /\ \A a \in Attempts : AttKept(a)
  BY <1>1 DEF CloseChildren, attemptVars, AttTypes, AttKept
<1>3. /\ pc[t] = "kchildren" /\ pc'[t] = "kdrain"
      /\ cur'[t] = cur[t] /\ ret'[t] = ret[t]
      /\ UNCHANGED <<active, status, caller>>
      /\ shut'
  BY <1>1, ConnectionAssumption DEF CloseChildren, Goto, Fields, closeVars, attemptVars
<1>4. Alone(t)
  BY <1>1 DEF CloseChildren, Goto, Alone, Fields, closeVars
<1>5. attempts' \in 0 .. MaxAttempts /\ attempts <= attempts' /\ active' \in 0 .. attempts'
  BY <1>1, <1>3 DEF CloseChildren, attemptVars
<1>6. Fields'
  <2>1. pc' \in [Threads -> Labels] /\ ret' \in [Threads -> Returns]
    BY <1>1, <1>3 DEF CloseChildren, Goto, Fields, Labels, Returns
  <2>2. cur' \in [Threads -> 0 .. MaxAttempts]
    BY <1>1, <1>3, <1>5 DEF CloseChildren, Goto, Fields
  <2>3. \A u \in Threads : cur'[u] <= attempts'
    BY <1>1, <1>3, <1>4, <1>5 DEF Alone, Fields
  <2> QED BY <1>1, <1>5, <2>1, <2>2, <2>3 DEF CloseChildren, Fields, setup, queueVars,
                nativeVars, States, Events
<1>7. Keeps
  BY <1>1, <1>2, <1>3 DEF CloseChildren, Goto, Keeps, AttKept, closeVars, queueVars,
         nativeVars, Drained
<1>8. Finishes(t) /\ Activates(t)
  BY <1>2, <1>3 DEF CloseChildren, Finishes, Activates, AttKept, InConnect
<1>9. Enters(t)
  BY <1>1, <1>3 DEF CloseChildren, Goto, Enters, InConnect, ThreadHolds, Cancels, closeVars,
         nativeVars, queueVars
<1>10. ThreadHolds(t)'
  BY <1>1, <1>2, <1>3, <1>7 DEF ThreadHolds, Connects, Withdraws, Cancels, Closes, Progress,
         InClose, CloseWaits, InConnect, AttKept, Unbegun, Attempts, Fields, Keeps
<1> QED BY <1>2, <1>4, <1>5, <1>6, <1>7, <1>8, <1>9, <1>10 DEF Moves

LEMMA StepCloseDrain ==
    ASSUME ConnInv, CP!IInv, NEW t \in Threads,
           CloseDrain(t)
    PROVE  Moves(t)
<1>1. /\ AttTypes /\ Fields /\ Unbegun /\ ThreadHolds(t)
      /\ caller \in [Threads -> {"idle", "waiting", "teardown"}]
      /\ MaxAttempts \in Nat /\ attempts \in 0 .. MaxAttempts /\ active \in 0 .. attempts
  BY TypedCaller, ConnectionAssumption DEF ConnInv, Fields
<1>2. AttTypes' /\ \A a \in Attempts : AttKept(a)
  BY <1>1 DEF CloseDrain, attemptVars, AttTypes, AttKept
<1>3. /\ pc[t] = "kdrain" /\ pc'[t] \in {"kdisconnect", "krelease"}
      /\ cur'[t] = cur[t] /\ ret'[t] = ret[t]
      /\ UNCHANGED <<active, status, caller>>
      /\ Drained
  BY <1>1, ConnectionAssumption DEF CloseDrain, Goto, Fields, closeVars, attemptVars
<1>4. Alone(t)
  BY <1>1 DEF CloseDrain, Goto, Alone, Fields, closeVars
<1>5. attempts' \in 0 .. MaxAttempts /\ attempts <= attempts' /\ active' \in 0 .. attempts'
  BY <1>1, <1>3 DEF CloseDrain, attemptVars
<1>6. Fields'
  <2>1. pc' \in [Threads -> Labels] /\ ret' \in [Threads -> Returns]
    BY <1>1, <1>3 DEF CloseDrain, Goto, Fields, Labels, Returns
  <2>2. cur' \in [Threads -> 0 .. MaxAttempts]
    BY <1>1, <1>3, <1>5 DEF CloseDrain, Goto, Fields
  <2>3. \A u \in Threads : cur'[u] <= attempts'
    BY <1>1, <1>3, <1>4, <1>5 DEF Alone, Fields
  <2> QED BY <1>1, <1>5, <2>1, <2>2, <2>3 DEF CloseDrain, Fields, setup, queueVars,
                nativeVars, States, Events
<1>7. Keeps
  BY <1>1, <1>2, <1>3 DEF CloseDrain, Goto, Keeps, AttKept, closeVars, queueVars, nativeVars,
         Drained
<1>8. Finishes(t) /\ Activates(t)
  BY <1>2, <1>3 DEF CloseDrain, Finishes, Activates, AttKept, InConnect
<1>9. Enters(t)
  BY <1>1, <1>3 DEF CloseDrain, Goto, Enters, InConnect, ThreadHolds, Cancels, closeVars,
         nativeVars, queueVars
<1>10. ThreadHolds(t)'
  BY <1>1, <1>2, <1>3, <1>7 DEF ThreadHolds, Connects, Withdraws, Cancels, Closes, Progress,
         InClose, CloseWaits, InConnect, AttKept, Unbegun, Attempts, Fields, Keeps
<1> QED BY <1>2, <1>4, <1>5, <1>6, <1>7, <1>8, <1>9, <1>10 DEF Moves

LEMMA StepCloseDisconnect ==
    ASSUME ConnInv, CP!IInv, NEW t \in Threads,
           CloseDisconnect(t), ~Raise(t)
    PROVE  Moves(t)
<1>1. /\ AttTypes /\ Fields /\ Unbegun /\ ThreadHolds(t)
      /\ caller \in [Threads -> {"idle", "waiting", "teardown"}]
      /\ MaxAttempts \in Nat /\ attempts \in 0 .. MaxAttempts /\ active \in 0 .. attempts
  BY TypedCaller, ConnectionAssumption DEF ConnInv, Fields
<1>2. AttTypes' /\ \A a \in Attempts : AttKept(a)
  BY <1>1 DEF CloseDisconnect, NativeDisconnect, attemptVars, AttTypes, AttKept
<1>3. /\ pc[t] = "kdisconnect" /\ pc'[t] = "krelease"
      /\ cur'[t] = cur[t] /\ ret'[t] = ret[t]
      /\ UNCHANGED <<active, status, caller>>
  BY <1>1, ConnectionAssumption DEF CloseDisconnect, Goto, NativeDisconnect, Posted, Fields,
         closeVars, attemptVars
<1>4. Alone(t)
  BY <1>1 DEF CloseDisconnect, Goto, NativeDisconnect, Posted, Alone, Fields, closeVars
<1>5. attempts' \in 0 .. MaxAttempts /\ attempts <= attempts' /\ active' \in 0 .. attempts'
  BY <1>1, <1>3 DEF CloseDisconnect, attemptVars
<1>6. Fields'
  <2>1. pc' \in [Threads -> Labels] /\ ret' \in [Threads -> Returns]
    BY <1>1, <1>3 DEF CloseDisconnect, Goto, NativeDisconnect, Posted, Fields, Labels, Returns
  <2>2. cur' \in [Threads -> 0 .. MaxAttempts]
    BY <1>1, <1>3, <1>5 DEF CloseDisconnect, Goto, NativeDisconnect, Posted, Fields
  <2>3. \A u \in Threads : cur'[u] <= attempts'
    BY <1>1, <1>3, <1>4, <1>5 DEF Alone, Fields
  <2> QED BY <1>1, <1>5, <2>1, <2>2, <2>3 DEF CloseDisconnect, NativeDisconnect, Posted,
                Fields, setup, queueVars, nativeVars, States, Events
<1>7. Keeps
  BY <1>1, <1>2, <1>3 DEF CloseDisconnect, Goto, NativeDisconnect, Posted, Keeps, AttKept,
         closeVars, queueVars, nativeVars, Drained
<1>8. Finishes(t) /\ Activates(t)
  BY <1>2, <1>3 DEF CloseDisconnect, Finishes, Activates, AttKept, InConnect
<1>9. Enters(t)
  BY <1>1, <1>3 DEF CloseDisconnect, Goto, NativeDisconnect, Posted, Enters, InConnect,
         ThreadHolds, Cancels, closeVars, nativeVars, queueVars
<1>10. ThreadHolds(t)'
  BY <1>1, <1>2, <1>3, <1>7 DEF ThreadHolds, Connects, Withdraws, Cancels, Closes, Progress,
         InClose, CloseWaits, InConnect, AttKept, Unbegun, Attempts, Fields, Keeps
<1> QED BY <1>2, <1>4, <1>5, <1>6, <1>7, <1>8, <1>9, <1>10 DEF Moves

LEMMA StepCloseRelease ==
    ASSUME ConnInv, CP!IInv, NEW t \in Threads,
           CloseRelease(t), ~Raise(t)
    PROVE  Moves(t)
<1>1. /\ AttTypes /\ Fields /\ Unbegun /\ ThreadHolds(t)
      /\ caller \in [Threads -> {"idle", "waiting", "teardown"}]
      /\ MaxAttempts \in Nat /\ attempts \in 0 .. MaxAttempts /\ active \in 0 .. attempts
  BY TypedCaller, ConnectionAssumption DEF ConnInv, Fields
<1>2. AttTypes' /\ \A a \in Attempts : AttKept(a)
  BY <1>1 DEF CloseRelease, attemptVars, AttTypes, AttKept
<1>3. /\ pc[t] = "krelease" /\ pc'[t] = "kend"
      /\ cur'[t] = cur[t] /\ ret'[t] = ret[t]
      /\ UNCHANGED <<active, status, caller>>
      /\ released'
  BY <1>1, ConnectionAssumption DEF CloseRelease, Goto, Fields, closeVars, attemptVars
<1>4. Alone(t)
  BY <1>1 DEF CloseRelease, Goto, Alone, Fields, closeVars
<1>5. attempts' \in 0 .. MaxAttempts /\ attempts <= attempts' /\ active' \in 0 .. attempts'
  BY <1>1, <1>3 DEF CloseRelease, attemptVars
<1>6. Fields'
  <2>1. pc' \in [Threads -> Labels] /\ ret' \in [Threads -> Returns]
    BY <1>1, <1>3 DEF CloseRelease, Goto, Fields, Labels, Returns
  <2>2. cur' \in [Threads -> 0 .. MaxAttempts]
    BY <1>1, <1>3, <1>5 DEF CloseRelease, Goto, Fields
  <2>3. \A u \in Threads : cur'[u] <= attempts'
    BY <1>1, <1>3, <1>4, <1>5 DEF Alone, Fields
  <2> QED BY <1>1, <1>5, <2>1, <2>2, <2>3 DEF CloseRelease, Fields, setup, queueVars,
                nativeVars, States, Events
<1>7. Keeps
  BY <1>1, <1>2, <1>3 DEF CloseRelease, Goto, Keeps, AttKept, closeVars, queueVars,
         nativeVars, Drained
<1>8. Finishes(t) /\ Activates(t)
  BY <1>2, <1>3 DEF CloseRelease, Finishes, Activates, AttKept, InConnect
<1>9. Enters(t)
  BY <1>1, <1>3 DEF CloseRelease, Goto, Enters, InConnect, ThreadHolds, Cancels, closeVars,
         nativeVars, queueVars
<1>10. ThreadHolds(t)'
  BY <1>1, <1>2, <1>3, <1>7 DEF ThreadHolds, Connects, Withdraws, Cancels, Closes, Progress,
         InClose, CloseWaits, InConnect, AttKept, Unbegun, Attempts, Fields, Keeps
<1> QED BY <1>2, <1>4, <1>5, <1>6, <1>7, <1>8, <1>9, <1>10 DEF Moves

LEMMA StepCloseEnd ==
    ASSUME ConnInv, CP!IInv, NEW t \in Threads,
           CloseEnd(t)
    PROVE  Moves(t)
<1>1. /\ AttTypes /\ Fields /\ Unbegun /\ ThreadHolds(t)
      /\ caller \in [Threads -> {"idle", "waiting", "teardown"}]
      /\ MaxAttempts \in Nat /\ attempts \in 0 .. MaxAttempts /\ active \in 0 .. attempts
  BY TypedCaller, ConnectionAssumption DEF ConnInv, Fields
<1>2. AttTypes' /\ \A a \in Attempts : AttKept(a)
  BY <1>1 DEF CloseEnd, attemptVars, AttTypes, AttKept
<1>3. /\ pc[t] = "kend"
      /\ pc'[t] = "idle"
      /\ cur'[t] = 0
      /\ ret'[t] = "idle"
      /\ caller'[t] = "idle" /\ \A u \in Threads \ {t} : caller'[u] = caller[u]
      /\ active' = active /\ status' = "closed"
  BY <1>1, ConnectionAssumption DEF CloseEnd, Goto, Leave, Fields, closeVars, attemptVars,
         Close!Succeed, Close!Publish
<1>4. Alone(t)
  BY <1>1 DEF CloseEnd, Goto, Leave, Alone, Fields, closeVars, Close!Succeed, Close!Publish
<1>5. attempts' \in 0 .. MaxAttempts /\ attempts <= attempts' /\ active' \in 0 .. attempts'
  BY <1>1, <1>3 DEF CloseEnd, attemptVars
<1>6. Fields'
  <2>1. pc' \in [Threads -> Labels] /\ ret' \in [Threads -> Returns]
    BY <1>1, <1>3 DEF CloseEnd, Goto, Leave, Fields, Labels, Returns
  <2>2. cur' \in [Threads -> 0 .. MaxAttempts]
    BY <1>1, <1>3, <1>5 DEF CloseEnd, Goto, Leave, Fields
  <2>3. \A u \in Threads : cur'[u] <= attempts'
    BY <1>1, <1>3, <1>4, <1>5 DEF Alone, Fields
  <2> QED BY <1>1, <1>5, <2>1, <2>2, <2>3 DEF CloseEnd, Leave, Fields, setup, queueVars,
                nativeVars, States, Events
<1>7. Keeps
  BY <1>1, <1>2, <1>3 DEF CloseEnd, Goto, Leave, Keeps, AttKept, closeVars, queueVars,
         nativeVars, Drained
<1>8. Finishes(t) /\ Activates(t)
  BY <1>2, <1>3 DEF CloseEnd, Finishes, Activates, AttKept, InConnect
<1>9. Enters(t)
  BY <1>1, <1>3 DEF CloseEnd, Goto, Leave, Enters, InConnect, ThreadHolds, Cancels, closeVars,
         nativeVars, queueVars
<1>10. ThreadHolds(t)'
  BY <1>1, <1>2, <1>3, <1>7 DEF ThreadHolds, Connects, Withdraws, Cancels, Closes, Progress,
         InClose, CloseWaits, InConnect, AttKept, Unbegun, Attempts, Fields, Keeps
<1> QED BY <1>2, <1>4, <1>5, <1>6, <1>7, <1>8, <1>9, <1>10 DEF Moves
       -----------------------------------------------------------------------------
(* The pool and the native SDK.                                            *)

\* They move no thread, and they post nothing once the Dispatcher is closed.
LEMMA Unmoved ==
    ASSUME ConnInv, UNCHANGED <<threadVars, closeVars, active, attempts, shut, released>>,
           AttTypes', Fields', \A a \in Attempts : AttKept(a), shut /\ Drained => Drained'
    PROVE  ConnInv'
<1>1. /\ \A t \in Threads : ThreadHolds(t) /\ cur[t] \in 0 .. MaxAttempts
      /\ pc' = pc /\ cur' = cur /\ ret' = ret /\ caller' = caller /\ status' = status
  BY DEF ConnInv, Fields, threadVars, closeVars
<1>2. \A t \in Threads : /\ InConnect(t)' <=> InConnect(t)
                         /\ CloseWaits(t)' <=> CloseWaits(t)
                         /\ InClose(t)' <=> InClose(t)
  BY <1>1 DEF InConnect, CloseWaits, InClose
<1>3. ASSUME NEW t \in Threads PROVE ThreadHolds(t)'
  <2>1. cur[t] # 0 => AttKept(cur[t])
    BY <1>1, ConnectionAssumption DEF Attempts
  <2>2. Connects(t)' /\ Withdraws(t)' /\ Cancels(t)'
    BY <1>1, <1>2, <2>1 DEF ThreadHolds, Connects, Withdraws, Cancels, AttKept
  <2>3. Closes(t)' /\ Progress(t)'
    BY <1>1, <1>2 DEF ThreadHolds, Closes, Progress
  <2> QED BY <2>2, <2>3 DEF ThreadHolds
<1>4. Unbegun'
  BY DEF ConnInv, Unbegun, AttKept
<1>5. OneConnect' /\ ConnectsOver' /\ CancelledOnce'
  BY <1>1, <1>2 DEF ConnInv, OneConnect, ConnectsOver, CancelledOnce
<1>6. Released'
  BY <1>1 DEF ConnInv, Released
<1> QED BY <1>1, <1>3, <1>4, <1>5, <1>6 DEF ConnInv

LEMMA StepHandle ==
    ASSUME ConnInv, Handle
    PROVE  ConnInv'
<1>1. AttTypes /\ Fields /\ active \in 0 .. MaxAttempts
  BY ConnectionAssumption DEF ConnInv, Fields
<1>2. AttTypes' /\ \A a \in Attempts : AttKept(a)
  <2>1. CASE att' = att
    BY <1>1, <2>1 DEF AttTypes, AttKept
  <2>2. ASSUME NEW v \in {"ok", "failed"}, att' = Update(active, [terminal |-> v, done |-> TRUE])
        PROVE  AttTypes' /\ \A a \in Attempts : AttKept(a)
    <3>1. /\ DOMAIN [terminal |-> v, done |-> TRUE] = {"terminal", "done"}
          /\ [terminal |-> v, done |-> TRUE]["terminal"] = v
      OBVIOUS
    <3> QED BY <1>1, <2>2, <3>1, Updated DEF AttKept
  <2> QED BY <2>1, <2>2 DEF Handle, HandlePop, HandleAttempt, HandleState, attemptVars
<1>3. Fields'
  BY <1>1 DEF Handle, HandlePop, HandleAttempt, HandleState, Fields, setup, attemptVars,
         nativeVars, threadVars, Events, States
<1>4. /\ UNCHANGED <<threadVars, closeVars, active, attempts, shut, released>>
      /\ shut /\ Drained => Drained'
  BY DEF Handle, HandlePop, HandleAttempt, HandleState, attemptVars, nativeVars, Drained
<1> QED BY <1>2, <1>3, <1>4, Unmoved

LEMMA StepComplete ==
    ASSUME ConnInv, ManagedComplete
    PROVE  ConnInv'
<1>1. AttTypes /\ Fields
  BY DEF ConnInv
<1>2. AttTypes' /\ \A a \in Attempts : AttKept(a)
  <2>1. ASSUME NEW v \in {"ok", "failed"},
               att' = Update(attempts, [completed |-> TRUE, terminal |-> v, done |-> TRUE])
        PROVE  AttTypes' /\ \A a \in Attempts : AttKept(a)
    <3>1. /\ DOMAIN [completed |-> TRUE, terminal |-> v, done |-> TRUE]
               = {"completed", "terminal", "done"}
          /\ [completed |-> TRUE, terminal |-> v, done |-> TRUE]["terminal"] = v
      OBVIOUS
    <3> QED BY <1>1, <2>1, <3>1, Updated DEF AttKept
  <2>2. CASE att' = Update(attempts, [completed |-> TRUE])
    <3>1. DOMAIN [completed |-> TRUE] = {"completed"}
      OBVIOUS
    <3> QED BY <1>1, <2>2, <3>1, Updated DEF AttKept
  <2> QED BY <2>1, <2>2 DEF ManagedComplete
<1>3. Fields' /\ (shut /\ Drained => Drained')
  BY <1>1 DEF ManagedComplete, Fields, setup, queueVars, nativeVars, threadVars, Drained
<1>4. UNCHANGED <<threadVars, closeVars, active, attempts, shut, released>>
  BY DEF ManagedComplete, queueVars, nativeVars
<1> QED BY <1>2, <1>3, <1>4, Unmoved

LEMMA StepLink ==
    ASSUME ConnInv, LinkUp \/ LinkLost
    PROVE  ConnInv'
<1>1. AttTypes /\ Fields
  BY DEF ConnInv
<1>2. AttTypes' /\ \A a \in Attempts : AttKept(a)
  <2>1. CASE att' = att
    BY <1>1, <2>1 DEF AttTypes, AttKept
  <2>2. CASE att' = Update(attempts, [wentUp |-> TRUE])
    <3>1. DOMAIN [wentUp |-> TRUE] = {"wentUp"}
      OBVIOUS
    <3> QED BY <1>1, <2>2, <3>1, Updated DEF AttKept
  <2> QED BY <2>1, <2>2 DEF LinkUp, LinkLost, attemptVars
<1>3. Fields' /\ (shut /\ Drained => Drained')
  BY <1>1 DEF LinkUp, LinkLost, Posted, Fields, setup, attemptVars, threadVars, Events, Drained
<1>4. UNCHANGED <<threadVars, closeVars, active, attempts, shut, released>>
  BY DEF LinkUp, LinkLost, attemptVars
<1> QED BY <1>2, <1>3, <1>4, Unmoved

LEMMA StepStutter ==
    ASSUME ConnInv, UNCHANGED vars
    PROVE  ConnInv'
<1>1. AttTypes' /\ \A a \in Attempts : AttKept(a)
  BY DEF ConnInv, AttTypes, AttKept, vars, attemptVars
<1>2. Fields' /\ (shut /\ Drained => Drained')
  BY DEF ConnInv, Fields, Drained, vars, setup, attemptVars, queueVars, nativeVars, threadVars
<1>3. UNCHANGED <<threadVars, closeVars, active, attempts, shut, released>>
  BY DEF vars, attemptVars, queueVars, nativeVars
<1> QED BY <1>1, <1>2, <1>3, Unmoved

-----------------------------------------------------------------------------
(* The steps together.                                                     *)

LEMMA ConnectStepMoves ==
    ASSUME ConnInv, CP!IInv, NEW t \in Threads, ConnectStep(t) \/ InterruptConnect(t)
    PROVE  Moves(t)
BY StepStarted, StepRefused, StepWithdraw, StepConnectGoes, StepConnectRaises,
   StepAttemptEnds, StepFinishConnect DEF ConnectStep

LEMMA CancelStepMoves ==
    ASSUME ConnInv, CP!IInv, NEW t \in Threads, CancelStep(t)
    PROVE  Moves(t)
<1>1. CASE CancelJoin(t)
  <2>1. CASE att[cur[t]].cancelError
    <3>1. pc[t] \in CancelPcs /\ Raise(t)
          /\ UNCHANGED <<setup, state, disconnected, attemptVars, queueVars, nativeVars>>
      BY <1>1, <2>1 DEF CancelJoin
    <3> QED BY <3>1, StepRaise
  <2> QED BY <1>1, <2>1, StepCancelJoins
<1> QED BY <1>1, StepCancelReturns, StepCancelClaim, StepCancelEnds, StepCancelManaged,
           StepCancelGoes, StepCancelBarrier, StepCancelFails DEF CancelStep

LEMMA DisconnectStepMoves ==
    ASSUME ConnInv, CP!IInv, NEW t \in Threads, DisconnectStep(t)
    PROVE  Moves(t)
BY StepDisconnectGoes, StepDisconnectEnds DEF DisconnectStep

LEMMA CloseStepMoves ==
    ASSUME ConnInv, CP!IInv, NEW t \in Threads, CloseStep(t)
    PROVE  Moves(t)
<1>1. CASE Raise(t) /\ (CloseChildren(t) \/ CloseDisconnect(t) \/ CloseRelease(t))
  <2>1. Leave(t) /\ pc[t] \in PastWait
    BY <1>1 DEF CloseChildren, CloseDisconnect, CloseRelease, Raise
  <2>2. pc'[t] = "idle"
    BY <2>1 DEF Leave, Goto, ConnInv, Fields
  <2>3. UNCHANGED <<setup, state, disconnected, attemptVars, queueVars, nativeVars>>
    BY <1>1, <2>2
       DEF CloseChildren, CloseDisconnect, CloseRelease, Goto, ConnInv, Fields, queueVars,
           nativeVars
  <2> QED BY <1>1, <2>1, <2>3, StepRaise
<1> QED BY <1>1, StepCloseJoined, StepCloseWait, StepCloseChildren, StepCloseDrain,
           StepCloseDisconnect, StepCloseRelease, StepCloseEnd DEF CloseStep

\* Whatever a thread does, it moves alone.
LEMMA ThreadMoves ==
    ASSUME ConnInv, CP!IInv, NEW t \in Threads, Call(t) \/ Continue(t) \/ InterruptConnect(t)
    PROVE  Moves(t)
BY StepBegin, StepDisconnect, StepCloseBegin, StepCloseJoin, ConnectStepMoves, CancelStepMoves,
   DisconnectStepMoves, CloseStepMoves DEF Call, Continue

LEMMA ConnStep ==
    ASSUME ConnInv, CP!IInv, [Next]_vars
    PROVE  ConnInv'
<1>1. ASSUME NEW t \in Threads, Call(t) \/ Continue(t) \/ InterruptConnect(t)
      PROVE  ConnInv'
  BY <1>1, ThreadMoves, Moved
<1> QED BY <1>1, StepHandle, StepComplete, StepLink, StepStutter DEF Next

LEMMA ConnInit == Init => ConnInv
<1> SUFFICES ASSUME Init PROVE ConnInv
  OBVIOUS
<1>1. AttTypes /\ Unbegun
  BY DEF Init, AttTypes, Unbegun, NewAttempt
<1>2. Fields
  <2>1. /\ pc \in [Threads -> Labels] /\ ret \in [Threads -> Returns]
        /\ cur \in [Threads -> 0 .. MaxAttempts] /\ \A t \in Threads : cur[t] = 0
    BY ConnectionAssumption DEF Init, Labels, Returns
  <2>2. attempts = 0 /\ active = 0 /\ 0 \in 0 .. MaxAttempts /\ 0 \in 0 .. 0 /\ 0 <= 0
    BY ConnectionAssumption DEF Init
  <2>3. /\ mode \in Modes /\ faults \in FaultSets /\ state \in States
        /\ pending \in Events /\ handling \in Events /\ link \in {"down", "connecting", "up"}
        /\ disconnected \in BOOLEAN /\ shut \in BOOLEAN /\ released \in BOOLEAN
    BY DEF Init, States, Events
  <2> QED BY <2>1, <2>2, <2>3 DEF Fields
<1>3. \A t \in Threads : ThreadHolds(t) /\ ~InConnect(t)
  BY DEF Init, Close!Init, ThreadHolds, Connects, Withdraws, Cancels, Closes, Progress,
         InClose, CloseWaits, InConnect
<1>4. OneConnect /\ ConnectsOver /\ Released /\ CancelledOnce
  BY <1>3 DEF Init, OneConnect, ConnectsOver, Released, CancelledOnce
<1> QED BY <1>1, <1>2, <1>3, <1>4 DEF ConnInv, Init, Close!Init

\* The invariant, which rests on that of the coordinator.
THEOREM ConnectionInvariant == Spec => []ConnInv
<1>1. CP!IInv /\ ConnInv /\ [Next]_vars => ConnInv'
  BY ConnStep
<1> QED BY <1>1, ConnInit, CoordInvariant, PTL DEF Spec

\* A deadline, disconnect() and close() may all ask for the cancel of an attempt:
\* one thread performs it; and the fields keep their types.
THEOREM AttemptsExact == Spec => []AttemptsAreExact
<1>1. CP!IInv /\ ConnInv => AttemptsAreExact
  <2> SUFFICES ASSUME CP!IInv, ConnInv PROVE AttemptsAreExact
    OBVIOUS
  <2>1. Close!TypeOK
    BY DEF CP!IInv, CP!TypeOK, Close!TypeOK, CP!Generations, Close!Generations, CP!Verdicts,
           Close!Verdicts, CP!Absent, Close!Absent
  <2>2. TypeOK
    BY <2>1, ConnectionAssumption DEF TypeOK, ConnInv, Fields, AttTypes, Events
  <2> QED BY <2>2 DEF AttemptsAreExact, ConnInv
<1> QED BY <1>1, CoordInvariant, ConnectionInvariant, PTL

\* A destroyed handle has a closed and drained Dispatcher, and nobody is told
\* "closed" before it is destroyed, also after teardowns that failed half way.
THEOREM ClosesCompletely == Spec => []CloseIsComplete
<1>1. ConnInv => CloseIsComplete
  BY DEF ConnInv, Released, CloseIsComplete
<1> QED BY <1>1, ConnectionInvariant, PTL

\* close() waits for the connect() it found, and none begins after it: so no
\* connect() uses a handle that was destroyed.
THEOREM HandleOutlives == Spec => []HandleOutlivesConnect
<1>1. ConnInv => HandleOutlivesConnect
  BY DEF ConnInv, ConnectsOver, HandleOutlivesConnect, InConnect
<1> QED BY <1>1, ConnectionInvariant, PTL
-----------------------------------------------------------------------------
(* The link.  As long as no connect() began before the session before it was *)
(* over, everything under way is about the latest attempt: link, events,     *)
(* _state and that attempt tell the same story.                              *)

Latest == att[attempts]

\* DISCONNECTED is the last event and still to be handled.
Lost == pending = "DISCONNECTED" \/ (handling = "DISCONNECTED" /\ pending = None)

Queued(event) == pending = event \/ handling = event

Running(t) == InConnect(t) /\ pc[t] \notin {"start", "refused"}

AttemptStory ==
    /\ active \in {0, attempts}
    /\ \A a \in Attempts : a > attempts => att[a] = NewAttempt
    /\ attempts # 0 =>
         /\ Latest.done => Latest.terminal # None
         /\ Latest.cancelFinished => Latest.cancelling
         /\ Latest.terminal = "ok" => Latest.wentUp
         /\ Latest.terminal = "failed" => link = "down"
         /\ ~Latest.started => /\ Latest.terminal = None /\ ~Latest.cancelFinished
                               /\ ~Latest.handle /\ ~Latest.wentUp
                               /\ link = "down" /\ Drained

QueueStory ==
    /\ Queued("DISCONNECTED") => link = "down"
    /\ Queued("CONNECTED") => attempts # 0 /\ Latest.wentUp
    /\ Queued("CONNECTING") => active # 0
    /\ link = "connecting" => /\ attempts # 0 /\ ~Latest.wentUp /\ state # "CONNECTED"

StateStory ==
    /\ active = 0 => state # "CONNECTING"
    /\ active = 0 /\ link = "down" /\ status = "open" =>
         /\ state = "CONNECTED" => Lost \/ \E u \in Threads : pc[u] \in {"dbarrier", "dset"}
         /\ Queued("CONNECTED") => \/ handling = "CONNECTED" /\ pending = "DISCONNECTED"
                                   \/ \E u \in Threads : pc[u] = "dbarrier"
    /\ ~NativeFails =>
         /\ disconnected => link = "down"
         /\ link # "down" => state \in {"CONNECTING", "CONNECTED"}
         /\ attempts # 0 /\ Latest.finished /\ ~Succeeded(attempts) => link = "down"
         /\ released => link = "down"

StartStory(t) ==
    /\ pc[t] \in ConnectPcs \cup CancelPcs \cup {"dwait", "kwait"} =>
         cur[t] = attempts /\ attempts # 0
    /\ pc[t] \in {"start", "refused"} => link = "down" /\ Drained
    /\ pc[t] = "start" => ~Latest.started /\ state = "CONNECTING" /\ ~disconnected
    /\ pc[t] = "refused" => Latest.started
    /\ pc[t] = "withdrawn" /\ cur[t] = attempts => link = "down"

CancelStory(t) ==
    /\ pc[t] \in CancelAt => ~Latest.cancelFinished /\ (active = 0 => link = "down")
    /\ pc[t] \in {"cdone", "cbarrier", "cend"} => Latest.started
    /\ pc[t] \in {"cbarrier", "cend"} => link = "down"
    /\ pc[t] = "cend" \/ (pc[t] = "cbarrier" /\ mode = "access_key") => Latest.terminal # None

RunningStory(t) ==
    /\ Running(t) =>
         /\ Latest.started /\ (mode = "access_key" => Latest.handle)
         /\ Latest.cancelFinished /\ ~Latest.cancelError => link = "down" /\ Latest.terminal # None
    /\ InConnect(t) /\ ~NativeFails => ~Latest.cancelError
    /\ InConnect(t) /\ ~Latest.cancelling /\ Latest.wentUp /\ link = "down" =>
         Latest.terminal = "failed" \/ Lost

FinishStory(t) ==
    /\ pc[t] \in {"settle", "finbarrier", "finish"} => Latest.terminal # None
    /\ pc[t] \in {"finbarrier", "finish"} /\ Latest.cancelling =>
         Latest.cancelFinished /\ ~Latest.cancelError
    /\ pc[t] = "finish" => ~Queued("CONNECTED") /\ ~Queued("CONNECTING")

EndStory(t) ==
    /\ pc[t] \in {"dnative", "dbarrier", "dset"} => \A u \in Threads : ~InConnect(u)
    /\ pc[t] = "dbarrier" => link = "down"
    /\ pc[t] \in {"dset", "krelease", "kend"} /\ ~NativeFails => link = "down"

ThreadStory(t) ==
    StartStory(t) /\ CancelStory(t) /\ RunningStory(t) /\ FinishStory(t) /\ EndStory(t)

LinkInv ==
    ~overlapped => /\ AttemptStory /\ QueueStory /\ StateStory
                   /\ \A t \in Threads : ThreadStory(t)

\* What the story says of two threads at once.
LEMMA Pair ==
    ASSUME ConnInv, LinkInv, ~overlapped, NEW t \in Threads, NEW u \in Threads \ {t}
    PROVE  /\ ThreadStory(t) /\ ThreadHolds(t) /\ ThreadStory(u) /\ ThreadHolds(u)
           /\ ~(InConnect(t) /\ InConnect(u))
           /\ ~(pc[t] \in CancelAt /\ pc[u] \in CancelAt)
           /\ InConnect(u) => /\ active = attempts /\ attempts # 0 /\ cur[u] = attempts
                              /\ ~Latest.finished
                              /\ ~shut /\ ~released /\ pc[t] \notin PastWait
                              /\ pc[t] \notin {"dnative", "dbarrier", "dset"}
           /\ pc[u] \in CancelPcs => cur[u] = attempts /\ attempts # 0
           /\ pc[u] \in CancelAt => Latest.cancelling
<1>1. ThreadStory(t) /\ ThreadHolds(t) /\ ThreadStory(u) /\ ThreadHolds(u)
  BY DEF ConnInv, LinkInv
<1>2. ~(InConnect(t) /\ InConnect(u))
  BY DEF ConnInv, OneConnect
<1>3. \A v \in {t, u} : pc[v] \in CancelPcs => cur[v] = attempts /\ attempts # 0
  BY <1>1 DEF ThreadStory, StartStory, ThreadHolds, Cancels
<1>4. ~(pc[t] \in CancelAt /\ pc[u] \in CancelAt)
  BY <1>3 DEF ConnInv, CancelledOnce
<1>5. pc[u] \in CancelAt => Latest.cancelling
  BY <1>1, <1>3 DEF ThreadHolds, Cancels, Latest
<1>6. InConnect(u) => /\ active = attempts /\ attempts # 0 /\ cur[u] = attempts
                      /\ ~Latest.finished
  BY <1>1 DEF ThreadStory, StartStory, ThreadHolds, Connects, InConnect, Latest
<1>7. InConnect(u) => /\ ~shut /\ ~released /\ pc[t] \notin PastWait
                      /\ pc[t] \notin {"dnative", "dbarrier", "dset"}
  BY <1>1 DEF ConnInv, ConnectsOver, ThreadStory, EndStory
<1> QED BY <1>1, <1>2, <1>3, <1>4, <1>5, <1>6, <1>7

LEMMA LatestIs ==
    ASSUME AttTypes, attempts \in Attempts, attempts' = attempts,
           NEW a, NEW r, att' = Update(a, r), NEW f \in DOMAIN NewAttempt
    PROVE  /\ a = attempts /\ f \in DOMAIN r => Latest'[f] = r[f]
           /\ a # attempts \/ f \notin DOMAIN r => Latest'[f] = Latest[f]
BY UpdateIs DEF Latest

\* The link is down when a connect() raises, and when a handle is destroyed, if
\* the native calls of the teardown succeed.
LEMMA LinkSaysSo ==
    ASSUME ConnInv, LinkInv
    PROVE  /\ FailedConnectLeavesNoLink
           /\ ~NativeFails => ReleasedLinkIsDown /\ StateMatchesLink
<1>1. CASE ~overlapped
  <2>1. FailedConnectLeavesNoLink
    <3> SUFFICES ASSUME NEW t \in Threads, pc[t] = "finish", ~Succeeded(cur[t])
                 PROVE  link = "down"
      BY DEF FailedConnectLeavesNoLink
    <3>1. ThreadStory(t) /\ AttemptStory /\ ThreadHolds(t) /\ AttTypes /\ Fields
      BY <1>1 DEF LinkInv, ConnInv
    <3>2. cur[t] = attempts /\ attempts # 0 /\ attempts \in Attempts /\ Running(t)
      BY <3>1, ConnectionAssumption
         DEF ThreadStory, StartStory, ThreadHolds, Connects, InConnect, Running, Fields, Attempts
    <3>3. Latest.terminal \in {"ok", "failed"}
      BY <3>1, <3>2 DEF ThreadStory, FinishStory, AttTypes, Latest
    <3> QED BY <3>1, <3>2, <3>3
            DEF ThreadStory, FinishStory, RunningStory, AttemptStory, Succeeded, Latest
  <2>2. ASSUME ~NativeFails PROVE ReleasedLinkIsDown
    BY <1>1, <2>2 DEF LinkInv, StateStory, ReleasedLinkIsDown
  <2>3. ASSUME ~NativeFails PROVE StateMatchesLink
    <3> SUFFICES ASSUME \A t \in Threads : pc[t] = "idle", Drained, active = 0, status = "open"
                 PROVE  state = "CONNECTED" <=> link = "up"
      BY DEF StateMatchesLink
    <3>1. /\ StateStory /\ QueueStory /\ link \in {"down", "connecting", "up"}
          /\ ~Lost
      BY <1>1 DEF LinkInv, ConnInv, Fields, Drained, Lost, None
    <3> QED BY <2>3, <3>1 DEF StateStory, QueueStory
  <2> QED BY <2>1, <2>2, <2>3
<1>2. CASE overlapped
  BY <1>2 DEF FailedConnectLeavesNoLink, ReleasedLinkIsDown, StateMatchesLink
<1> QED BY <1>1, <1>2

LEMMA LinkInit == Init => LinkInv
BY DEF Init, LinkInv, AttemptStory, QueueStory, StateStory, ThreadStory, StartStory,
       CancelStory, RunningStory, FinishStory, EndStory, Queued, InConnect, Running, None,
       Attempts
-----------------------------------------------------------------------------
(* What a step of a thread does to the story.                              *)

Others(t) == \A u \in Threads \ {t} :
    /\ pc'[u] = pc[u] /\ cur'[u] = cur[u] /\ ret'[u] = ret[u]
    /\ InConnect(u)' <=> InConnect(u)
    /\ Running(u)' <=> Running(u)

LEMMA OthersStay ==
    ASSUME NEW t \in Threads, Alone(t)
    PROVE  Others(t)
BY DEF Alone, Others, InConnect, Running

\* A step that changes only where its thread is.
LEMMA LinkQuiet ==
    ASSUME ConnInv, LinkInv, ~overlapped, NEW t \in Threads, Moves(t), ThreadStory(t)',
           UNCHANGED <<mode, faults, attempts, overlapped, state, disconnected, active, att,
                       pending, handling, link, released>>,
           status' = "open" => status = "open",
           InConnect(t)' => InConnect(t),
           pc[t] \in {"dbarrier", "dset"} => pc'[t] \in {"dbarrier", "dset"},
           pc[t] = "dbarrier" => Drained
    PROVE  LinkInv'
<1>1. /\ Fields /\ ThreadHolds(t) /\ ThreadStory(t)
      /\ AttemptStory /\ QueueStory /\ StateStory
      /\ Latest' = Latest
  BY DEF ConnInv, LinkInv, Latest
<1>2. Others(t)
  BY OthersStay DEF Moves
<1>3. AttemptStory' /\ QueueStory'
  BY <1>1 DEF AttemptStory, QueueStory, Queued, Drained
<1>4. StateStory'
  BY <1>1, <1>2 DEF Others, StateStory, Queued, Lost, Drained, None, NativeFails, Succeeded
<1>5. ASSUME NEW u \in Threads \ {t} PROVE ThreadStory(u)'
  <2>1. ThreadStory(u)
    BY DEF LinkInv
  <2>2. StartStory(u)' /\ CancelStory(u)'
    BY <1>1, <1>2, <2>1 DEF Others, ThreadStory, StartStory, CancelStory, Drained
  <2>3. RunningStory(u)' /\ FinishStory(u)'
    BY <1>1, <1>2, <2>1 DEF Others, ThreadStory, RunningStory, FinishStory, NativeFails, Queued,
           Lost
  <2>4. EndStory(u)'
    BY <1>2, <2>1 DEF Others, ThreadStory, EndStory, NativeFails
  <2> QED BY <2>2, <2>3, <2>4 DEF ThreadStory
<1> QED BY <1>3, <1>4, <1>5 DEF LinkInv

\* A connect() that begins when everything before it is over.
LEMMA LinkBegin ==
    ASSUME ConnInv, LinkInv, ~overlapped, NEW t \in Threads, Moves(t), BeginConnect(t), ~overlapped'
    PROVE  LinkInv'
<1>1. /\ Fields /\ AttTypes /\ ThreadHolds(t) /\ ThreadStory(t) /\ AttemptStory /\ StateStory
      /\ attempts \in Nat /\ MaxAttempts \in Nat
  BY ConnectionAssumption DEF ConnInv, LinkInv, Fields
<1>2. /\ pc[t] = "idle" /\ pc'[t] = "start" /\ cur'[t] = attempts'
      /\ attempts' = attempts + 1 /\ attempts' \in Attempts
      /\ active = 0 /\ active' = attempts' /\ state' = "CONNECTING" /\ disconnected' = FALSE
      /\ link = "down" /\ Drained /\ \A u \in Threads : pc[u] \in {"idle", "withdrawn"}
      /\ UNCHANGED <<mode, faults, att, pending, handling, link, released>>
  <2>1. link = "down" /\ Drained /\ ~Disconnecting
    BY Zenon DEF BeginConnect
  <2>2. attempts' = attempts + 1 /\ attempts' \in Attempts
    BY <1>1 DEF BeginConnect, Attempts
  <2> QED BY <1>1, <2>1, <2>2
          DEF BeginConnect, Goto, Disconnecting, Fields, setup, queueVars, nativeVars
<1>3. /\ Latest' = NewAttempt
      /\ \A a \in Attempts : a > attempts' => att'[a] = NewAttempt
  BY <1>1, <1>2 DEF AttemptStory, Latest, Attempts
<1>4. /\ ~NewAttempt.started /\ ~NewAttempt.done /\ ~NewAttempt.finished
      /\ NewAttempt.terminal = None /\ ~NewAttempt.cancelling /\ ~NewAttempt.cancelError
      /\ ~NewAttempt.cancelFinished /\ ~NewAttempt.handle /\ ~NewAttempt.wentUp
  BY DEF NewAttempt
<1>5. Others(t) /\ \A u \in Threads \ {t} : pc'[u] \in {"idle", "withdrawn"}
  BY <1>2, OthersStay DEF Moves, Others
<1>6. attempts' # 0 /\ Drained'
  BY <1>1, <1>2 DEF Drained
<1>7. AttemptStory'
  BY <1>2, <1>3, <1>4, <1>6 DEF AttemptStory, None
<1>8. QueueStory'
  BY <1>2, <1>6 DEF QueueStory, Queued, Drained, None
<1>9. StateStory'
  BY <1>2, <1>3, <1>4, <1>6 DEF StateStory, Latest
<1>10. ASSUME NEW u \in Threads \ {t} PROVE ThreadStory(u)'
  BY <1>2, <1>5 DEF ThreadStory, StartStory, CancelStory, RunningStory, FinishStory, EndStory,
         Running, InConnect
<1>11. ThreadStory(t)'
  BY <1>2, <1>3, <1>4, <1>6 DEF ThreadStory, StartStory, CancelStory, RunningStory,
         FinishStory, EndStory, Running
<1> QED BY <1>7, <1>8, <1>9, <1>10, <1>11 DEF LinkInv

\* The native call starts the attempt, or refuses it.
LEMMA LinkStarted ==
    ASSUME ConnInv, LinkInv, ~overlapped, NEW t \in Threads, Moves(t), NativeConnect(t)
    PROVE  LinkInv'
<1>1. /\ Fields /\ AttTypes /\ ThreadHolds(t) /\ ThreadStory(t)
      /\ AttemptStory /\ QueueStory /\ StateStory
      /\ cur[t] # 0 => cur[t] \in Attempts
      /\ attempts # 0 => attempts \in Attempts
  BY ConnectionAssumption DEF ConnInv, LinkInv, Fields, Attempts
<1>2. /\ pc[t] = "start" /\ pc'[t] = "await" /\ cur[t] = attempts /\ attempts # 0
      /\ cur'[t] = cur[t] /\ ret'[t] = ret[t]
      /\ UNCHANGED <<mode, faults, attempts, overlapped>>
      /\ UNCHANGED <<active, state, disconnected, handling, released, status>>
      /\ active = attempts /\ ~Latest.started /\ ~released /\ ~disconnected /\ ~Latest.finished
      /\ link' = "connecting" /\ pending' \in {None, "CONNECTING"} /\ pending = None /\ handling = None
  BY <1>1 DEF NativeConnect, Goto, Posted, Drained, Latest, Fields, ThreadHolds, Connects,
         Cancels, InConnect, ThreadStory, StartStory, closeVars, attemptVars, setup,
         queueVars, nativeVars
<1>3. /\ attempts # 0 =>
         /\ Latest'.done = Latest.done
         /\ Latest'.finished = Latest.finished
         /\ Latest'.terminal = Latest.terminal
         /\ Latest'.cancelling = Latest.cancelling
         /\ Latest'.cancelError = Latest.cancelError
         /\ Latest'.cancelFinished = Latest.cancelFinished
         /\ Latest'.wentUp = Latest.wentUp
         /\ Latest'.started
         /\ mode = "access_key" => Latest'.handle
      /\ \A a \in Attempts : a > attempts => att'[a] = NewAttempt
  <2>1. /\ DOMAIN [started |-> TRUE, handle |-> mode = "access_key"] = {"started", "handle"}
    OBVIOUS
  <2>2. att' = Update(cur[t], [started |-> TRUE, handle |-> mode = "access_key"])
    BY DEF NativeConnect
  <2>3. {"started", "done", "finished", "terminal", "cancelling", "cancelError",
         "cancelFinished", "handle", "wentUp"}
          \subseteq DOMAIN NewAttempt
    BY DEF NewAttempt
  <2>4. \A a \in Attempts : a > attempts => att'[a] = NewAttempt
    BY <1>1, <1>2, <2>2 DEF Update, AttTypes, Fields, AttemptStory
  <2>5. mode = "access_key" => Latest'.handle
    <3>1. attempts # 0 => Latest'["handle"] =
              [started |-> TRUE, handle |-> mode = "access_key"]["handle"]
      BY <1>1, <1>2, <2>1, <2>2, <2>3, LatestIs
    <3> QED BY <1>2, <3>1
  <2>6. attempts # 0 =>
          /\ \A f \in DOMAIN NewAttempt \ {"started", "handle"} : Latest'[f] = Latest[f]
          /\ Latest'["started"]
    <3>1. [started |-> TRUE, handle |-> mode = "access_key"]["started"] = TRUE
      OBVIOUS
    <3> QED BY <1>1, <1>2, <2>1, <2>2, <2>3, <3>1, LatestIs
  <2> QED BY <2>3, <2>4, <2>5, <2>6
<1>4. Others(t)
  BY <1>2, OthersStay DEF Moves
<1>5. AttemptStory'
  BY <1>1, <1>2, <1>3 DEF AttemptStory, Fields, ThreadStory, StartStory, CancelStory,
         QueueStory, Queued, Drained, None, ThreadHolds, Cancels
<1>6. QueueStory'
  BY <1>1, <1>2, <1>3 DEF QueueStory, Queued, Lost, None, Drained, AttemptStory, Fields,
         ThreadStory, StartStory, FinishStory, InConnect
<1>7. StateStory'
  BY <1>1, <1>2, <1>3, <1>4 DEF Others, StateStory, AttemptStory, QueueStory, Queued, Lost,
         Drained, None, NativeFails, Succeeded, Latest, ThreadStory, StartStory,
         CancelStory, RunningStory, FinishStory, EndStory, ThreadHolds, Connects, Cancels,
         InConnect, Running
<1>8. ASSUME NEW u \in Threads \ {t} PROVE ThreadStory(u)'
  <2>1. StartStory(u)'
    BY <1>1, <1>2, <1>3, <1>4, Pair DEF Others, ThreadStory, StartStory, EndStory,
           CancelStory, Drained, InConnect, ThreadHolds, Withdraws
  <2>2. CancelStory(u)'
    BY <1>1, <1>2, <1>3, <1>4, Pair DEF Others, ThreadStory, StartStory, CancelStory,
           FinishStory, ThreadHolds, Cancels, Connects, InConnect
  <2>3. RunningStory(u)' /\ FinishStory(u)'
    BY <1>1, <1>2, <1>3, <1>4, Pair DEF Others, ThreadStory, RunningStory, FinishStory,
           CancelStory, StartStory, NativeFails, InConnect, Running, Queued, Lost, None,
           QueueStory, AttemptStory
  <2>4. EndStory(u)'
    BY <1>1, <1>2, <1>4, Pair DEF Others, ThreadStory, EndStory, NativeFails, InConnect
  <2> QED BY <2>1, <2>2, <2>3, <2>4 DEF ThreadStory
<1>9. ThreadStory(t)'
  <2>1. StartStory(t)' /\ CancelStory(t)'
    BY <1>1, <1>2, <1>3 DEF ThreadStory, StartStory, CancelStory, ThreadHolds, Cancels,
           Drained, AttemptStory, InConnect, Connects
  <2>2. RunningStory(t)' /\ FinishStory(t)'
    BY <1>1, <1>2, <1>3 DEF ThreadStory, StartStory, RunningStory, FinishStory, CancelStory,
           NativeFails, InConnect, Running, Queued, Lost, None, QueueStory, AttemptStory,
           Drained, ThreadHolds, Connects, Cancels
  <2>3. EndStory(t)'
    BY <1>1, <1>2, <1>4, Pair DEF Others, ThreadStory, EndStory, NativeFails, InConnect,
           StateStory
  <2> QED BY <2>1, <2>2, <2>3 DEF ThreadStory
<1> QED BY <1>5, <1>6, <1>7, <1>8, <1>9 DEF LinkInv

LEMMA LinkRefused ==
    ASSUME ConnInv, LinkInv, ~overlapped, NEW t \in Threads, Moves(t), NativeConnectFails(t)
    PROVE  LinkInv'
<1>1. /\ Fields /\ AttTypes /\ ThreadHolds(t) /\ ThreadStory(t)
      /\ AttemptStory /\ QueueStory /\ StateStory
      /\ cur[t] # 0 => cur[t] \in Attempts
      /\ attempts # 0 => attempts \in Attempts
  BY ConnectionAssumption DEF ConnInv, LinkInv, Fields, Attempts
<1>2. /\ pc[t] = "start" /\ pc'[t] = "refused" /\ cur[t] = attempts /\ attempts # 0
      /\ cur'[t] = cur[t] /\ ret'[t] = ret[t]
      /\ UNCHANGED <<mode, faults, attempts, overlapped>>
      /\ UNCHANGED <<active, state, disconnected, released, status>>
      /\ UNCHANGED <<pending, handling, link>>
  BY <1>1 DEF NativeConnectFails, Goto, Fields, ThreadHolds, Connects, Cancels, InConnect,
         ThreadStory, StartStory, closeVars, attemptVars, setup, queueVars, nativeVars
<1>3. /\ attempts # 0 =>
         /\ Latest'.done = Latest.done
         /\ Latest'.finished = Latest.finished
         /\ Latest'.terminal = Latest.terminal
         /\ Latest'.cancelling = Latest.cancelling
         /\ Latest'.cancelError = Latest.cancelError
         /\ Latest'.cancelFinished = Latest.cancelFinished
         /\ Latest'.handle = Latest.handle
         /\ Latest'.wentUp = Latest.wentUp
         /\ Latest'.started
      /\ \A a \in Attempts : a > attempts => att'[a] = NewAttempt
  <2>1. /\ DOMAIN [started |-> TRUE] = {"started"}
        /\ [started |-> TRUE]["started"] = TRUE
    OBVIOUS
  <2>2. att' = Update(cur[t], [started |-> TRUE])
    BY DEF NativeConnectFails
  <2>3. {"started", "done", "finished", "terminal", "cancelling", "cancelError",
         "cancelFinished", "handle", "wentUp"}
          \subseteq DOMAIN NewAttempt
    BY DEF NewAttempt
  <2>4. \A a \in Attempts : a > attempts => att'[a] = NewAttempt
    BY <1>1, <1>2, <2>2 DEF Update, AttTypes, Fields, AttemptStory
  <2>5. attempts # 0 => \A f \in DOMAIN NewAttempt \ {"started"} : Latest'[f] = Latest[f]
    BY <1>1, <1>2, <2>1, <2>2, LatestIs
  <2>6. /\ attempts # 0 => Latest'.started
    BY <1>1, <1>2, <2>1, <2>2, <2>3, LatestIs
  <2> QED BY <2>3, <2>4, <2>5, <2>6
<1>4. Others(t)
  BY <1>2, OthersStay DEF Moves
<1>5. AttemptStory'
  BY <1>1, <1>2, <1>3 DEF AttemptStory, Fields, ThreadStory, StartStory, CancelStory,
         QueueStory, Queued, Drained, None, ThreadHolds, Cancels
<1>6. QueueStory'
  BY <1>1, <1>2, <1>3 DEF QueueStory, Queued, Lost, None, Drained, AttemptStory, Fields,
         ThreadStory, StartStory, FinishStory, InConnect
<1>7. StateStory'
  BY <1>1, <1>2, <1>3, <1>4 DEF Others, StateStory, AttemptStory, QueueStory, Queued, Lost,
         Drained, None, NativeFails, Succeeded, Latest, ThreadStory, StartStory,
         CancelStory, RunningStory, FinishStory, EndStory, ThreadHolds, Connects, Cancels,
         InConnect, Running
<1>8. ASSUME NEW u \in Threads \ {t} PROVE ThreadStory(u)'
  <2>1. StartStory(u)'
    BY <1>1, <1>2, <1>3, <1>4, Pair DEF Others, ThreadStory, StartStory, EndStory,
           CancelStory, Drained, InConnect
  <2>2. CancelStory(u)'
    BY <1>1, <1>2, <1>3, <1>4, Pair DEF Others, ThreadStory, StartStory, CancelStory,
           FinishStory, ThreadHolds, Cancels, Connects, InConnect
  <2>3. RunningStory(u)' /\ FinishStory(u)'
    BY <1>1, <1>2, <1>3, <1>4, Pair DEF Others, ThreadStory, RunningStory, FinishStory,
           CancelStory, StartStory, NativeFails, InConnect, Running, Queued, Lost, None,
           QueueStory, AttemptStory
  <2>4. EndStory(u)'
    BY <1>1, <1>2, <1>4, Pair DEF Others, ThreadStory, EndStory, NativeFails, InConnect
  <2> QED BY <2>1, <2>2, <2>3, <2>4 DEF ThreadStory
<1>9. ThreadStory(t)'
  <2>1. StartStory(t)' /\ CancelStory(t)'
    BY <1>1, <1>2, <1>3 DEF ThreadStory, StartStory, CancelStory, ThreadHolds, Cancels,
           Drained, AttemptStory, InConnect, Connects
  <2>2. RunningStory(t)' /\ FinishStory(t)'
    BY <1>1, <1>2, <1>3 DEF ThreadStory, StartStory, RunningStory, FinishStory, CancelStory,
           NativeFails, InConnect, Running, Queued, Lost, None, QueueStory, AttemptStory,
           Drained, ThreadHolds, Connects, Cancels
  <2>3. EndStory(t)'
    BY <1>1, <1>2, <1>4, Pair DEF Others, ThreadStory, EndStory, NativeFails, InConnect,
           StateStory
  <2> QED BY <2>1, <2>2, <2>3 DEF ThreadStory
<1> QED BY <1>5, <1>6, <1>7, <1>8, <1>9 DEF LinkInv

LEMMA LinkWithdraw ==
    ASSUME ConnInv, LinkInv, ~overlapped, NEW t \in Threads, Moves(t), Withdraw(t)
    PROVE  LinkInv'
<1>1. /\ Fields /\ AttTypes /\ ThreadHolds(t) /\ ThreadStory(t)
      /\ AttemptStory /\ QueueStory /\ StateStory
      /\ cur[t] # 0 => cur[t] \in Attempts
      /\ attempts # 0 => attempts \in Attempts
  BY ConnectionAssumption DEF ConnInv, LinkInv, Fields, Attempts
<1>2. /\ pc[t] = "refused" /\ pc'[t] = "withdrawn" /\ cur[t] = attempts /\ attempts # 0
      /\ cur'[t] = cur[t] /\ ret'[t] = ret[t]
      /\ UNCHANGED <<mode, faults, attempts, overlapped>>
      /\ UNCHANGED <<att, disconnected, released, status>>
      /\ UNCHANGED <<pending, handling, link>>
      /\ active = attempts /\ active' = 0 /\ state' = "IDLE"
      /\ link = "down" /\ Drained
  BY <1>1 DEF Withdraw, Goto, Fields, ThreadHolds, Connects, Cancels, InConnect,
         ThreadStory, StartStory, closeVars, attemptVars, setup, queueVars, nativeVars
<1>3. /\ attempts # 0 =>
         /\ Latest'.started = Latest.started
         /\ Latest'.done = Latest.done
         /\ Latest'.finished = Latest.finished
         /\ Latest'.terminal = Latest.terminal
         /\ Latest'.cancelling = Latest.cancelling
         /\ Latest'.cancelError = Latest.cancelError
         /\ Latest'.cancelFinished = Latest.cancelFinished
         /\ Latest'.handle = Latest.handle
         /\ Latest'.wentUp = Latest.wentUp
      /\ \A a \in Attempts : a > attempts => att'[a] = NewAttempt
  BY <1>1, <1>2 DEF Withdraw, attemptVars, Latest, AttemptStory
<1>4. Others(t)
  BY <1>2, OthersStay DEF Moves
<1>5. AttemptStory'
  BY <1>1, <1>2, <1>3 DEF AttemptStory, Fields, ThreadStory, StartStory, CancelStory,
         QueueStory, Queued, Drained, None, ThreadHolds, Cancels
<1>6. QueueStory'
  BY <1>1, <1>2, <1>3 DEF QueueStory, Queued, Lost, None, Drained, AttemptStory, Fields,
         ThreadStory, StartStory, FinishStory, InConnect
<1>7. StateStory'
  BY <1>1, <1>2, <1>3, <1>4 DEF Others, StateStory, AttemptStory, QueueStory, Queued, Lost,
         Drained, None, NativeFails, Succeeded, Latest, ThreadStory, StartStory,
         CancelStory, RunningStory, FinishStory, EndStory, ThreadHolds, Connects, Cancels,
         InConnect, Running
<1>8. ASSUME NEW u \in Threads \ {t} PROVE ThreadStory(u)'
  <2>1. StartStory(u)'
    BY <1>1, <1>2, <1>3, <1>4, Pair DEF Others, ThreadStory, StartStory, EndStory,
           CancelStory, Drained, InConnect
  <2>2. CancelStory(u)'
    BY <1>1, <1>2, <1>3, <1>4, Pair DEF Others, ThreadStory, StartStory, CancelStory,
           FinishStory, ThreadHolds, Cancels, Connects, InConnect
  <2>3. RunningStory(u)' /\ FinishStory(u)'
    BY <1>1, <1>2, <1>3, <1>4, Pair DEF Others, ThreadStory, RunningStory, FinishStory,
           CancelStory, StartStory, NativeFails, InConnect, Running, Queued, Lost, None,
           QueueStory, AttemptStory
  <2>4. EndStory(u)'
    BY <1>1, <1>2, <1>4, Pair DEF Others, ThreadStory, EndStory, NativeFails, InConnect
  <2> QED BY <2>1, <2>2, <2>3, <2>4 DEF ThreadStory
<1>9. ThreadStory(t)'
  <2>1. StartStory(t)' /\ CancelStory(t)'
    BY <1>1, <1>2, <1>3 DEF ThreadStory, StartStory, CancelStory, ThreadHolds, Cancels,
           Drained, AttemptStory, InConnect, Connects
  <2>2. RunningStory(t)' /\ FinishStory(t)'
    BY <1>1, <1>2, <1>3 DEF ThreadStory, StartStory, RunningStory, FinishStory, CancelStory,
           NativeFails, InConnect, Running, Queued, Lost, None, QueueStory, AttemptStory,
           Drained, ThreadHolds, Connects, Cancels
  <2>3. EndStory(t)'
    BY <1>1, <1>2, <1>4, Pair DEF Others, ThreadStory, EndStory, NativeFails, InConnect,
           StateStory
  <2> QED BY <2>1, <2>2, <2>3 DEF ThreadStory
<1> QED BY <1>5, <1>6, <1>7, <1>8, <1>9 DEF LinkInv

\* The attempt is over: withdrawn, failed, or its handle stays in use.
LEMMA LinkEnds ==
    ASSUME ConnInv, LinkInv, ~overlapped, NEW t \in Threads,
           Moves(t), Withdrawn(t) \/ SettleFailed(t) \/ SettleInUse(t)
    PROVE  LinkInv'
<1>1. /\ Fields /\ AttTypes /\ ThreadHolds(t) /\ ThreadStory(t)
      /\ AttemptStory /\ QueueStory /\ StateStory
      /\ cur[t] # 0 => cur[t] \in Attempts
      /\ attempts # 0 => attempts \in Attempts
  BY ConnectionAssumption DEF ConnInv, LinkInv, Fields, Attempts
<1>2. /\ pc[t] \in {"withdrawn", "settle"} /\ cur[t] # 0
      /\ pc'[t] = "idle" /\ cur'[t] = 0 /\ ret'[t] = "idle"
      /\ UNCHANGED <<mode, faults, attempts, overlapped>>
      /\ UNCHANGED <<active, state, disconnected, released, status>>
      /\ UNCHANGED <<pending, handling, link>>
  BY <1>1 DEF Withdrawn, SettleFailed, SettleInUse, Goto, Leave, RunningStory, FinishStory,
         AttemptStory, AttTypes, Succeeded, Latest, Withdraws, Running, Fields, ThreadHolds,
         Connects, Cancels, InConnect, ThreadStory, StartStory, closeVars, attemptVars,
         setup, queueVars, nativeVars
<1>3. /\ attempts # 0 =>
         /\ Latest'.started = Latest.started
         /\ Latest'.done = Latest.done
         /\ Latest'.terminal = Latest.terminal
         /\ Latest'.cancelling = Latest.cancelling
         /\ Latest'.cancelError = Latest.cancelError
         /\ Latest'.cancelFinished = Latest.cancelFinished
         /\ Latest'.handle = Latest.handle
         /\ Latest'.wentUp = Latest.wentUp
         /\ Latest'.finished => Latest.finished \/ cur[t] = attempts
      /\ \A a \in Attempts : a > attempts => att'[a] = NewAttempt
  <2>1. /\ DOMAIN [finished |-> TRUE] = {"finished"}
        /\ [finished |-> TRUE]["finished"] = TRUE
    OBVIOUS
  <2>2. att' = Update(cur[t], [finished |-> TRUE])
    BY DEF Withdrawn, SettleFailed, SettleInUse
  <2>3. {"started", "done", "finished", "terminal", "cancelling", "cancelError",
         "cancelFinished", "handle", "wentUp"}
          \subseteq DOMAIN NewAttempt
    BY DEF NewAttempt
  <2>4. \A a \in Attempts : a > attempts => att'[a] = NewAttempt
    BY <1>1, <1>2, <2>2 DEF Update, AttTypes, Fields, AttemptStory
  <2>5. attempts # 0 => \A f \in DOMAIN NewAttempt \ {"finished"} : Latest'[f] = Latest[f]
    BY <1>1, <1>2, <2>1, <2>2, LatestIs
  <2>6. /\ attempts # 0 => (Latest'.finished => Latest.finished \/ cur[t] = attempts)
    BY <1>1, <1>2, <2>1, <2>2, <2>3, LatestIs
  <2> QED BY <2>3, <2>4, <2>5, <2>6
<1>4. Others(t)
  BY <1>2, OthersStay DEF Moves
<1>10. /\ cur[t] = attempts /\ ~NativeFails /\ ~Succeeded(attempts) => link = "down"
  BY <1>1, <1>2 DEF Withdrawn, SettleFailed, SettleInUse, RunningStory, FinishStory,
         AttemptStory, AttTypes, Succeeded, Latest, Withdraws, Running, Leave, Fields,
         ThreadHolds, Connects, Cancels, InConnect, ThreadStory, StartStory
<1>5. AttemptStory'
  BY <1>1, <1>2, <1>3, <1>10 DEF AttemptStory, Fields, ThreadStory, StartStory, CancelStory,
         QueueStory, Queued, Drained, None, ThreadHolds, Cancels
<1>6. QueueStory'
  BY <1>1, <1>2, <1>3, <1>10 DEF QueueStory, Queued, Lost, None, Drained, AttemptStory,
         Fields, ThreadStory, StartStory, FinishStory, InConnect
<1>7. StateStory'
  BY <1>1, <1>2, <1>3, <1>10, <1>4 DEF Others, StateStory, AttemptStory, QueueStory, Queued,
         Lost, Drained, None, NativeFails, Succeeded, Latest, ThreadStory, StartStory,
         CancelStory, RunningStory, FinishStory, EndStory, ThreadHolds, Connects, Cancels,
         InConnect, Running
<1>8. ASSUME NEW u \in Threads \ {t} PROVE ThreadStory(u)'
  <2>1. StartStory(u)'
    BY <1>1, <1>2, <1>3, <1>4, Pair DEF Others, ThreadStory, StartStory, EndStory,
           CancelStory, Drained, InConnect
  <2>2. CancelStory(u)'
    BY <1>1, <1>2, <1>3, <1>10, <1>4, Pair DEF Others, ThreadStory, StartStory, CancelStory,
           FinishStory, ThreadHolds, Cancels, Connects, InConnect
  <2>3. RunningStory(u)' /\ FinishStory(u)'
    BY <1>1, <1>2, <1>3, <1>10, <1>4, Pair DEF Others, ThreadStory, RunningStory,
           FinishStory, CancelStory, StartStory, NativeFails, InConnect, Running, Queued,
           Lost, None, QueueStory, AttemptStory
  <2>4. EndStory(u)'
    BY <1>1, <1>2, <1>4, Pair DEF Others, ThreadStory, EndStory, NativeFails, InConnect
  <2> QED BY <2>1, <2>2, <2>3, <2>4 DEF ThreadStory
<1>9. ThreadStory(t)'
  <2>1. StartStory(t)' /\ CancelStory(t)'
    BY <1>1, <1>2, <1>3, <1>10 DEF ThreadStory, StartStory, CancelStory, ThreadHolds,
           Cancels, Drained, AttemptStory, InConnect, Connects
  <2>2. RunningStory(t)' /\ FinishStory(t)'
    BY <1>1, <1>2, <1>3, <1>10 DEF ThreadStory, StartStory, RunningStory, FinishStory,
           CancelStory, NativeFails, InConnect, Running, Queued, Lost, None, QueueStory,
           AttemptStory, Drained, ThreadHolds, Connects, Cancels
  <2>3. EndStory(t)'
    BY <1>1, <1>2, <1>4, Pair DEF Others, ThreadStory, EndStory, NativeFails, InConnect,
           StateStory
  <2> QED BY <2>1, <2>2, <2>3 DEF ThreadStory
<1> QED BY <1>5, <1>6, <1>7, <1>8, <1>9 DEF LinkInv

\* _finish_connect tells the state from the end of the attempt.
LEMMA LinkFinish ==
    ASSUME ConnInv, LinkInv, ~overlapped, NEW t \in Threads, Moves(t), FinishConnect(t)
    PROVE  LinkInv'
<1>1. /\ Fields /\ AttTypes /\ ThreadHolds(t) /\ ThreadStory(t)
      /\ AttemptStory /\ QueueStory /\ StateStory
      /\ cur[t] # 0 => cur[t] \in Attempts
      /\ attempts # 0 => attempts \in Attempts
  BY ConnectionAssumption DEF ConnInv, LinkInv, Fields, Attempts
<1>2. /\ pc[t] = "finish" /\ cur[t] = attempts /\ attempts # 0
      /\ pc'[t] = "idle" /\ cur'[t] = 0 /\ ret'[t] = "idle"
      /\ UNCHANGED <<mode, faults, attempts, overlapped>>
      /\ UNCHANGED <<released, status>>
      /\ UNCHANGED <<pending, handling, link>>
      /\ active = attempts /\ active' = 0
      /\ state' = IF Succeeded(attempts) THEN "CONNECTED" ELSE "DISCONNECTED"
      /\ disconnected' = (disconnected \/ ~Succeeded(attempts))
      /\ ~Succeeded(attempts) => link = "down"
      /\ ~Queued("CONNECTED") /\ ~Queued("CONNECTING")
  BY <1>1 DEF FinishConnect, Goto, Leave, RunningStory, FinishStory, AttemptStory, Latest,
         Running, Succeeded, AttTypes, Fields, ThreadHolds, Connects, Cancels, InConnect,
         ThreadStory, StartStory, closeVars, attemptVars, setup, queueVars, nativeVars
<1>3. /\ attempts # 0 =>
         /\ Latest'.started = Latest.started
         /\ Latest'.done = Latest.done
         /\ Latest'.terminal = Latest.terminal
         /\ Latest'.cancelling = Latest.cancelling
         /\ Latest'.cancelError = Latest.cancelError
         /\ Latest'.cancelFinished = Latest.cancelFinished
         /\ Latest'.handle = Latest.handle
         /\ Latest'.wentUp = Latest.wentUp
         /\ Latest'.finished
      /\ \A a \in Attempts : a > attempts => att'[a] = NewAttempt
  <2>1. /\ DOMAIN [finished |-> TRUE] = {"finished"}
        /\ [finished |-> TRUE]["finished"] = TRUE
    OBVIOUS
  <2>2. att' = Update(cur[t], [finished |-> TRUE])
    BY DEF FinishConnect
  <2>3. {"started", "done", "finished", "terminal", "cancelling", "cancelError",
         "cancelFinished", "handle", "wentUp"}
          \subseteq DOMAIN NewAttempt
    BY DEF NewAttempt
  <2>4. \A a \in Attempts : a > attempts => att'[a] = NewAttempt
    BY <1>1, <1>2, <2>2 DEF Update, AttTypes, Fields, AttemptStory
  <2>5. attempts # 0 => \A f \in DOMAIN NewAttempt \ {"finished"} : Latest'[f] = Latest[f]
    BY <1>1, <1>2, <2>1, <2>2, LatestIs
  <2>6. /\ attempts # 0 => Latest'.finished
    BY <1>1, <1>2, <2>1, <2>2, <2>3, LatestIs
  <2> QED BY <2>3, <2>4, <2>5, <2>6
<1>4. Others(t)
  BY <1>2, OthersStay DEF Moves
<1>10. /\ Succeeded(attempts) => Latest.terminal = "ok"
  BY <1>1, <1>2 DEF FinishConnect, RunningStory, FinishStory, AttemptStory, Latest, Running,
         Succeeded, AttTypes, Leave, Fields, ThreadHolds, Connects, Cancels, InConnect,
         ThreadStory, StartStory
<1>5. AttemptStory'
  BY <1>1, <1>2, <1>3, <1>10 DEF AttemptStory, Fields, ThreadStory, StartStory, CancelStory,
         QueueStory, Queued, Drained, None, ThreadHolds, Cancels
<1>6. QueueStory'
  BY <1>1, <1>2, <1>3, <1>10 DEF QueueStory, Queued, Lost, None, Drained, AttemptStory,
         Fields, ThreadStory, StartStory, FinishStory, InConnect
<1>7. StateStory'
  BY <1>1, <1>2, <1>3, <1>10, <1>4 DEF Others, StateStory, AttemptStory, QueueStory, Queued,
         Lost, Drained, None, NativeFails, Succeeded, Latest, ThreadStory, StartStory,
         CancelStory, RunningStory, FinishStory, EndStory, ThreadHolds, Connects, Cancels,
         InConnect, Running
<1>8. ASSUME NEW u \in Threads \ {t} PROVE ThreadStory(u)'
  <2>1. StartStory(u)'
    BY <1>1, <1>2, <1>3, <1>4, Pair DEF Others, ThreadStory, StartStory, EndStory,
           CancelStory, Drained, InConnect
  <2>2. CancelStory(u)'
    BY <1>1, <1>2, <1>3, <1>10, <1>4, Pair DEF Others, ThreadStory, StartStory, CancelStory,
           FinishStory, ThreadHolds, Cancels, Connects, InConnect
  <2>3. RunningStory(u)' /\ FinishStory(u)'
    BY <1>1, <1>2, <1>3, <1>10, <1>4, Pair DEF Others, ThreadStory, RunningStory,
           FinishStory, CancelStory, StartStory, NativeFails, InConnect, Running, Queued,
           Lost, None, QueueStory, AttemptStory
  <2>4. EndStory(u)'
    BY <1>1, <1>2, <1>4, Pair DEF Others, ThreadStory, EndStory, NativeFails, InConnect
  <2> QED BY <2>1, <2>2, <2>3, <2>4 DEF ThreadStory
<1>9. ThreadStory(t)'
  <2>1. StartStory(t)' /\ CancelStory(t)'
    BY <1>1, <1>2, <1>3, <1>10 DEF ThreadStory, StartStory, CancelStory, ThreadHolds,
           Cancels, Drained, AttemptStory, InConnect, Connects
  <2>2. RunningStory(t)' /\ FinishStory(t)'
    BY <1>1, <1>2, <1>3, <1>10 DEF ThreadStory, StartStory, RunningStory, FinishStory,
           CancelStory, NativeFails, InConnect, Running, Queued, Lost, None, QueueStory,
           AttemptStory, Drained, ThreadHolds, Connects, Cancels
  <2>3. EndStory(t)'
    BY <1>1, <1>2, <1>4, Pair DEF Others, ThreadStory, EndStory, NativeFails, InConnect,
           StateStory
  <2> QED BY <2>1, <2>2, <2>3 DEF ThreadStory
<1> QED BY <1>5, <1>6, <1>7, <1>8, <1>9 DEF LinkInv

\* connect() goes on, or is interrupted.
LEMMA LinkGoes ==
    ASSUME ConnInv, LinkInv, ~overlapped, NEW t \in Threads, Moves(t),
           AwaitDone(t) \/ Timeout(t) \/ InterruptConnect(t) \/ Settle(t) \/
           FinishBarrier(t)
    PROVE  LinkInv'
<1>1. /\ Fields /\ AttTypes /\ ThreadHolds(t) /\ ThreadStory(t) /\ Released
      /\ AttemptStory /\ QueueStory /\ StateStory
      /\ attempts # 0 => attempts \in Attempts
  BY ConnectionAssumption DEF ConnInv, LinkInv, Fields, Attempts
<1>2. /\ UNCHANGED <<mode, faults, attempts, overlapped, state, disconnected, active, att,
                     pending, handling, link, released>>
      /\ status' = "open" => status = "open"
      /\ Latest' = Latest
      /\ \A u \in Threads \ {t} : InConnect(u)' <=> InConnect(u)
  BY <1>1, OthersStay DEF AwaitDone, Timeout, InterruptConnect, Settle, FinishBarrier,
         Moves, Others, Goto, Leave, Fields, Raise, Close!Fail, Close!BeginTeardown,
         Close!BeginWait, Close!Wake, Close!Leave, closeVars, attemptVars, setup, queueVars,
         nativeVars, Latest
<1>3. /\ ThreadStory(t)'
      /\ InConnect(t)' => InConnect(t)
      /\ pc[t] \in {"dbarrier", "dset"} => pc'[t] \in {"dbarrier", "dset"}
      /\ pc[t] = "dbarrier" => Drained
  <2> USE DEF Fields, ThreadHolds, Connects, Cancels, InConnect
  <2>1. CASE AwaitDone(t)
    <3>1. /\ pc[t] = "await" /\ pc'[t] = "settle" /\ cur[t] = attempts /\ attempts # 0
          /\ cur'[t] = cur[t] /\ ret'[t] = ret[t]
          /\ Latest.terminal # None
      BY <1>1, <2>1 DEF AwaitDone, Goto, Leave, Raise, AttemptStory, ThreadStory,
             StartStory, Latest
    <3> QED BY <1>1, <1>2, <3>1 DEF ThreadStory, StartStory, CancelStory, RunningStory,
                 FinishStory, EndStory, Running, Drained, Queued, Lost, NativeFails
  <2>2. CASE Timeout(t)
    <3>1. /\ pc[t] = "await" /\ pc'[t] = "cancel" /\ cur[t] = attempts /\ ret'[t] = "settle"
          /\ cur'[t] = cur[t]
      BY <1>1, <2>2 DEF Timeout, Goto, Leave, Raise, ThreadStory, StartStory
    <3> QED BY <1>1, <1>2, <3>1 DEF ThreadStory, StartStory, CancelStory, RunningStory,
                 FinishStory, EndStory, Running, Drained, Queued, Lost, NativeFails
  <2>3. CASE InterruptConnect(t)
    <3>1. /\ pc[t] = "await"
          /\ pc'[t] = "idle" /\ cur'[t] = 0
      BY <1>1, <2>3 DEF InterruptConnect, Goto, Leave, Raise
    <3> QED BY <1>1, <1>2, <3>1 DEF ThreadStory, StartStory, CancelStory, RunningStory,
                 FinishStory, EndStory, Running, Drained, Queued, Lost, NativeFails
  <2>4. CASE Settle(t)
    <3>1. /\ pc[t] = "settle" /\ pc'[t] = "finbarrier" /\ cur[t] = attempts
          /\ cur'[t] = cur[t] /\ ret'[t] = ret[t]
          /\ Latest.cancelling => Latest.cancelFinished /\ ~Latest.cancelError
      BY <1>1, <2>4 DEF Settle, Goto, Leave, Raise, ThreadStory, StartStory, Latest
    <3> QED BY <1>1, <1>2, <3>1 DEF ThreadStory, StartStory, CancelStory, RunningStory,
                 FinishStory, EndStory, Running, Drained, Queued, Lost, NativeFails
  <2>5. CASE FinishBarrier(t)
    <3>1. /\ pc[t] = "finbarrier" /\ pc'[t] = "finish" /\ cur[t] = attempts
          /\ cur'[t] = cur[t] /\ ret'[t] = ret[t]
          /\ ~Queued("CONNECTED") /\ ~Queued("CONNECTING")
      BY <1>1, <2>5 DEF FinishBarrier, Goto, Leave, Raise, ThreadStory, StartStory, Drained,
             Queued, None
    <3> QED BY <1>1, <1>2, <3>1 DEF ThreadStory, StartStory, CancelStory, RunningStory,
                 FinishStory, EndStory, Running, Drained, Queued, Lost, NativeFails
  <2> QED BY <2>1, <2>2, <2>3, <2>4, <2>5
<1> QED BY <1>2, <1>3, LinkQuiet

\* A cancel is claimed; it is over with nothing to do; it is asked for.
LEMMA LinkClaim ==
    ASSUME ConnInv, LinkInv, ~overlapped, NEW t \in Threads, Moves(t), CancelClaim(t)
    PROVE  LinkInv'
<1>1. /\ Fields /\ AttTypes /\ ThreadHolds(t) /\ ThreadStory(t)
      /\ AttemptStory /\ QueueStory /\ StateStory
      /\ cur[t] # 0 => cur[t] \in Attempts
      /\ attempts # 0 => attempts \in Attempts
  BY ConnectionAssumption DEF ConnInv, LinkInv, Fields, Attempts
<1>2. /\ pc[t] = "cancel" /\ pc'[t] \in {"cstart", "cjoin"} /\ cur[t] = attempts /\ attempts # 0
      /\ cur'[t] = cur[t] /\ ret'[t] = ret[t]
      /\ UNCHANGED <<mode, faults, attempts, overlapped>>
      /\ UNCHANGED <<active, state, disconnected, released, status>>
      /\ UNCHANGED <<pending, handling, link>>
      /\ active = attempts /\ Latest.terminal = None
      /\ pc'[t] = "cstart" => ~Latest.cancelling
  BY <1>1 DEF CancelClaim, Goto, Latest, Fields, ThreadHolds, Connects, Cancels, InConnect,
         ThreadStory, StartStory, closeVars, attemptVars, setup, queueVars, nativeVars
<1>3. /\ attempts # 0 =>
         /\ Latest'.started = Latest.started
         /\ Latest'.done = Latest.done
         /\ Latest'.finished = Latest.finished
         /\ Latest'.terminal = Latest.terminal
         /\ Latest'.cancelError = Latest.cancelError
         /\ Latest'.cancelFinished = Latest.cancelFinished
         /\ Latest'.handle = Latest.handle
         /\ Latest'.wentUp = Latest.wentUp
         /\ Latest'.cancelling
      /\ \A a \in Attempts : a > attempts => att'[a] = NewAttempt
  <2>1. /\ DOMAIN [cancelling |-> TRUE] = {"cancelling"}
        /\ [cancelling |-> TRUE]["cancelling"] = TRUE
    OBVIOUS
  <2>2. att' = Update(cur[t], [cancelling |-> TRUE])
    BY DEF CancelClaim
  <2>3. {"started", "done", "finished", "terminal", "cancelling", "cancelError",
         "cancelFinished", "handle", "wentUp"}
          \subseteq DOMAIN NewAttempt
    BY DEF NewAttempt
  <2>4. \A a \in Attempts : a > attempts => att'[a] = NewAttempt
    BY <1>1, <1>2, <2>2 DEF Update, AttTypes, Fields, AttemptStory
  <2>5. attempts # 0 => \A f \in DOMAIN NewAttempt \ {"cancelling"} : Latest'[f] = Latest[f]
    BY <1>1, <1>2, <2>1, <2>2, LatestIs
  <2>6. /\ attempts # 0 => Latest'.cancelling
    BY <1>1, <1>2, <2>1, <2>2, <2>3, LatestIs
  <2> QED BY <2>3, <2>4, <2>5, <2>6
<1>4. Others(t)
  BY <1>2, OthersStay DEF Moves
<1>5. AttemptStory'
  BY <1>1, <1>2, <1>3 DEF AttemptStory, Fields, ThreadStory, StartStory, CancelStory,
         QueueStory, Queued, Drained, None, ThreadHolds, Cancels
<1>6. QueueStory'
  BY <1>1, <1>2, <1>3 DEF QueueStory, Queued, Lost, None, Drained, AttemptStory, Fields,
         ThreadStory, StartStory, FinishStory, InConnect
<1>7. StateStory'
  BY <1>1, <1>2, <1>3, <1>4 DEF Others, StateStory, AttemptStory, QueueStory, Queued, Lost,
         Drained, None, NativeFails, Succeeded, Latest, ThreadStory, StartStory,
         CancelStory, RunningStory, FinishStory, EndStory, ThreadHolds, Connects, Cancels,
         InConnect, Running
<1>8. ASSUME NEW u \in Threads \ {t} PROVE ThreadStory(u)'
  <2>1. StartStory(u)'
    BY <1>1, <1>2, <1>3, <1>4, Pair DEF Others, ThreadStory, StartStory, EndStory,
           CancelStory, Drained, InConnect
  <2>2. CancelStory(u)'
    BY <1>1, <1>2, <1>3, <1>4, Pair DEF Others, ThreadStory, StartStory, CancelStory,
           FinishStory, ThreadHolds, Cancels, Connects, InConnect
  <2>3. RunningStory(u)' /\ FinishStory(u)'
    BY <1>1, <1>2, <1>3, <1>4, Pair DEF Others, ThreadStory, RunningStory, FinishStory,
           CancelStory, StartStory, NativeFails, InConnect, Running, Queued, Lost, None,
           QueueStory, AttemptStory
  <2>4. EndStory(u)'
    BY <1>1, <1>2, <1>4, Pair DEF Others, ThreadStory, EndStory, NativeFails, InConnect
  <2> QED BY <2>1, <2>2, <2>3, <2>4 DEF ThreadStory
<1>9. ThreadStory(t)'
  <2>1. StartStory(t)' /\ CancelStory(t)'
    BY <1>1, <1>2, <1>3 DEF ThreadStory, StartStory, CancelStory, ThreadHolds, Cancels,
           Drained, AttemptStory, InConnect, Connects
  <2>2. RunningStory(t)' /\ FinishStory(t)'
    BY <1>1, <1>2, <1>3 DEF ThreadStory, StartStory, RunningStory, FinishStory, CancelStory,
           NativeFails, InConnect, Running, Queued, Lost, None, QueueStory, AttemptStory,
           Drained, ThreadHolds, Connects, Cancels
  <2>3. EndStory(t)'
    BY <1>1, <1>2, <1>4, Pair DEF Others, ThreadStory, EndStory, NativeFails, InConnect,
           StateStory
  <2> QED BY <2>1, <2>2, <2>3 DEF ThreadStory
<1> QED BY <1>5, <1>6, <1>7, <1>8, <1>9 DEF LinkInv

LEMMA LinkNothing ==
    ASSUME ConnInv, LinkInv, ~overlapped, NEW t \in Threads, Moves(t), CancelNothing(t)
    PROVE  LinkInv'
<1>1. /\ Fields /\ AttTypes /\ ThreadHolds(t) /\ ThreadStory(t)
      /\ AttemptStory /\ QueueStory /\ StateStory
      /\ cur[t] # 0 => cur[t] \in Attempts
      /\ attempts # 0 => attempts \in Attempts
  BY ConnectionAssumption DEF ConnInv, LinkInv, Fields, Attempts
<1>2. /\ pc[t] = "cstart" /\ pc'[t] = ret[t] /\ cur[t] = attempts /\ attempts # 0
      /\ cur'[t] = cur[t] /\ ret'[t] = ret[t]
      /\ UNCHANGED <<mode, faults, attempts, overlapped>>
      /\ UNCHANGED <<active, state, disconnected, released, status>>
      /\ UNCHANGED <<pending, handling, link>>
      /\ ret[t] \in {"dwait", "kwait"}
  BY <1>1 DEF CancelNothing, Goto, Latest, RunningStory, Running, Returns, Fields,
         ThreadHolds, Connects, Cancels, InConnect, ThreadStory, StartStory, closeVars,
         attemptVars, setup, queueVars, nativeVars
<1>3. /\ attempts # 0 =>
         /\ Latest'.started = Latest.started
         /\ Latest'.done = Latest.done
         /\ Latest'.finished = Latest.finished
         /\ Latest'.terminal = Latest.terminal
         /\ Latest'.cancelling = Latest.cancelling
         /\ Latest'.cancelError = Latest.cancelError
         /\ Latest'.handle = Latest.handle
         /\ Latest'.wentUp = Latest.wentUp
         /\ Latest'.cancelFinished
      /\ \A a \in Attempts : a > attempts => att'[a] = NewAttempt
  <2>1. /\ DOMAIN [cancelFinished |-> TRUE] = {"cancelFinished"}
        /\ [cancelFinished |-> TRUE]["cancelFinished"] = TRUE
    OBVIOUS
  <2>2. att' = Update(cur[t], [cancelFinished |-> TRUE])
    BY DEF CancelNothing
  <2>3. {"started", "done", "finished", "terminal", "cancelling", "cancelError",
         "cancelFinished", "handle", "wentUp"}
          \subseteq DOMAIN NewAttempt
    BY DEF NewAttempt
  <2>4. \A a \in Attempts : a > attempts => att'[a] = NewAttempt
    BY <1>1, <1>2, <2>2 DEF Update, AttTypes, Fields, AttemptStory
  <2>5. attempts # 0 => \A f \in DOMAIN NewAttempt \ {"cancelFinished"} : Latest'[f] = Latest[f]
    BY <1>1, <1>2, <2>1, <2>2, LatestIs
  <2>6. /\ attempts # 0 => Latest'.cancelFinished
    BY <1>1, <1>2, <2>1, <2>2, <2>3, LatestIs
  <2> QED BY <2>3, <2>4, <2>5, <2>6
<1>4. Others(t)
  BY <1>2, OthersStay DEF Moves
<1>10. /\ Latest.started /\ Latest.cancelling
       /\ Latest.finished \/ (mode = "access_key" /\ ~Latest.handle)
  BY <1>1, <1>2 DEF CancelNothing, Latest, RunningStory, Running, Returns, Fields,
         ThreadHolds, Connects, Cancels, InConnect, ThreadStory, StartStory
<1>5. AttemptStory'
  BY <1>1, <1>2, <1>3, <1>10 DEF AttemptStory, Fields, ThreadStory, StartStory, CancelStory,
         QueueStory, Queued, Drained, None, ThreadHolds, Cancels
<1>6. QueueStory'
  BY <1>1, <1>2, <1>3, <1>10 DEF QueueStory, Queued, Lost, None, Drained, AttemptStory,
         Fields, ThreadStory, StartStory, FinishStory, InConnect
<1>7. StateStory'
  BY <1>1, <1>2, <1>3, <1>10, <1>4 DEF Others, StateStory, AttemptStory, QueueStory, Queued,
         Lost, Drained, None, NativeFails, Succeeded, Latest, ThreadStory, StartStory,
         CancelStory, RunningStory, FinishStory, EndStory, ThreadHolds, Connects, Cancels,
         InConnect, Running
<1>8. ASSUME NEW u \in Threads \ {t} PROVE ThreadStory(u)'
  <2>1. StartStory(u)'
    BY <1>1, <1>2, <1>3, <1>4, Pair DEF Others, ThreadStory, StartStory, EndStory,
           CancelStory, Drained, InConnect
  <2>2. CancelStory(u)'
    BY <1>1, <1>2, <1>3, <1>10, <1>4, Pair DEF Others, ThreadStory, StartStory, CancelStory,
           FinishStory, ThreadHolds, Cancels, Connects, InConnect
  <2>3. RunningStory(u)' /\ FinishStory(u)'
    BY <1>1, <1>2, <1>3, <1>10, <1>4, Pair DEF Others, ThreadStory, RunningStory,
           FinishStory, CancelStory, StartStory, NativeFails, InConnect, Running, Queued,
           Lost, None, QueueStory, AttemptStory
  <2>4. EndStory(u)'
    BY <1>1, <1>2, <1>4, Pair DEF Others, ThreadStory, EndStory, NativeFails, InConnect
  <2> QED BY <2>1, <2>2, <2>3, <2>4 DEF ThreadStory
<1>9. ThreadStory(t)'
  <2>1. StartStory(t)' /\ CancelStory(t)'
    BY <1>1, <1>2, <1>3, <1>10 DEF ThreadStory, StartStory, CancelStory, ThreadHolds,
           Cancels, Drained, AttemptStory, InConnect, Connects
  <2>2. RunningStory(t)' /\ FinishStory(t)'
    BY <1>1, <1>2, <1>3, <1>10 DEF ThreadStory, StartStory, RunningStory, FinishStory,
           CancelStory, NativeFails, InConnect, Running, Queued, Lost, None, QueueStory,
           AttemptStory, Drained, ThreadHolds, Connects, Cancels
  <2>3. EndStory(t)'
    BY <1>1, <1>2, <1>4, Pair DEF Others, ThreadStory, EndStory, NativeFails, InConnect,
           StateStory
  <2> QED BY <2>1, <2>2, <2>3 DEF ThreadStory
<1> QED BY <1>5, <1>6, <1>7, <1>8, <1>9 DEF LinkInv

LEMMA LinkManaged ==
    ASSUME ConnInv, LinkInv, ~overlapped, NEW t \in Threads, Moves(t), CancelManaged(t)
    PROVE  LinkInv'
<1>1. /\ Fields /\ AttTypes /\ ThreadHolds(t) /\ ThreadStory(t)
      /\ AttemptStory /\ QueueStory /\ StateStory
      /\ cur[t] # 0 => cur[t] \in Attempts
      /\ attempts # 0 => attempts \in Attempts
  BY ConnectionAssumption DEF ConnInv, LinkInv, Fields, Attempts
<1>2. /\ pc[t] = "cstart" /\ pc'[t] = "cdone" /\ cur[t] = attempts /\ attempts # 0
      /\ cur'[t] = cur[t] /\ ret'[t] = ret[t]
      /\ UNCHANGED <<mode, faults, attempts, overlapped>>
      /\ UNCHANGED <<active, state, disconnected, released, status>>
      /\ UNCHANGED <<pending, handling, link>>
  BY <1>1 DEF CancelManaged, Goto, Cancellable, Latest, Fields, ThreadHolds, Connects,
         Cancels, InConnect, ThreadStory, StartStory, closeVars, attemptVars, setup,
         queueVars, nativeVars
<1>3. /\ attempts # 0 =>
         /\ Latest'.started = Latest.started
         /\ Latest'.done = Latest.done
         /\ Latest'.finished = Latest.finished
         /\ Latest'.terminal = Latest.terminal
         /\ Latest'.cancelling = Latest.cancelling
         /\ Latest'.cancelError = Latest.cancelError
         /\ Latest'.cancelFinished = Latest.cancelFinished
         /\ Latest'.handle = Latest.handle
         /\ Latest'.wentUp = Latest.wentUp
      /\ \A a \in Attempts : a > attempts => att'[a] = NewAttempt
  <2>1. /\ DOMAIN [cancelAsked |-> TRUE] = {"cancelAsked"}
        /\ [cancelAsked |-> TRUE]["cancelAsked"] = TRUE
    OBVIOUS
  <2>2. att' = Update(cur[t], [cancelAsked |-> TRUE])
    BY DEF CancelManaged
  <2>3. {"started", "done", "finished", "terminal", "cancelling", "cancelError",
         "cancelFinished", "handle", "wentUp"}
          \subseteq DOMAIN NewAttempt
    BY DEF NewAttempt
  <2>4. \A a \in Attempts : a > attempts => att'[a] = NewAttempt
    BY <1>1, <1>2, <2>2 DEF Update, AttTypes, Fields, AttemptStory
  <2>5. attempts # 0 => \A f \in DOMAIN NewAttempt \ {"cancelAsked"} : Latest'[f] = Latest[f]
    BY <1>1, <1>2, <2>1, <2>2, LatestIs
  <2> QED BY <2>3, <2>4, <2>5
<1>4. Others(t)
  BY <1>2, OthersStay DEF Moves
<1>10. /\ Latest.started /\ Latest.cancelling
  BY <1>1, <1>2 DEF CancelManaged, Latest, Cancellable, Fields, ThreadHolds, Connects,
         Cancels, InConnect, ThreadStory, StartStory
<1>5. AttemptStory'
  BY <1>1, <1>2, <1>3, <1>10 DEF AttemptStory, Fields, ThreadStory, StartStory, CancelStory,
         QueueStory, Queued, Drained, None, ThreadHolds, Cancels
<1>6. QueueStory'
  BY <1>1, <1>2, <1>3, <1>10 DEF QueueStory, Queued, Lost, None, Drained, AttemptStory,
         Fields, ThreadStory, StartStory, FinishStory, InConnect
<1>7. StateStory'
  BY <1>1, <1>2, <1>3, <1>10, <1>4 DEF Others, StateStory, AttemptStory, QueueStory, Queued,
         Lost, Drained, None, NativeFails, Succeeded, Latest, ThreadStory, StartStory,
         CancelStory, RunningStory, FinishStory, EndStory, ThreadHolds, Connects, Cancels,
         InConnect, Running
<1>8. ASSUME NEW u \in Threads \ {t} PROVE ThreadStory(u)'
  <2>1. StartStory(u)'
    BY <1>1, <1>2, <1>3, <1>4, Pair DEF Others, ThreadStory, StartStory, EndStory,
           CancelStory, Drained, InConnect
  <2>2. CancelStory(u)'
    BY <1>1, <1>2, <1>3, <1>10, <1>4, Pair DEF Others, ThreadStory, StartStory, CancelStory,
           FinishStory, ThreadHolds, Cancels, Connects, InConnect
  <2>3. RunningStory(u)' /\ FinishStory(u)'
    BY <1>1, <1>2, <1>3, <1>10, <1>4, Pair DEF Others, ThreadStory, RunningStory,
           FinishStory, CancelStory, StartStory, NativeFails, InConnect, Running, Queued,
           Lost, None, QueueStory, AttemptStory
  <2>4. EndStory(u)'
    BY <1>1, <1>2, <1>4, Pair DEF Others, ThreadStory, EndStory, NativeFails, InConnect
  <2> QED BY <2>1, <2>2, <2>3, <2>4 DEF ThreadStory
<1>9. ThreadStory(t)'
  <2>1. StartStory(t)' /\ CancelStory(t)'
    BY <1>1, <1>2, <1>3, <1>10 DEF ThreadStory, StartStory, CancelStory, ThreadHolds,
           Cancels, Drained, AttemptStory, InConnect, Connects
  <2>2. RunningStory(t)' /\ FinishStory(t)'
    BY <1>1, <1>2, <1>3, <1>10 DEF ThreadStory, StartStory, RunningStory, FinishStory,
           CancelStory, NativeFails, InConnect, Running, Queued, Lost, None, QueueStory,
           AttemptStory, Drained, ThreadHolds, Connects, Cancels
  <2>3. EndStory(t)'
    BY <1>1, <1>2, <1>4, Pair DEF Others, ThreadStory, EndStory, NativeFails, InConnect,
           StateStory
  <2> QED BY <2>1, <2>2, <2>3 DEF ThreadStory
<1> QED BY <1>5, <1>6, <1>7, <1>8, <1>9 DEF LinkInv

LEMMA LinkCancelDown ==
    ASSUME ConnInv, LinkInv, ~overlapped, NEW t \in Threads, Moves(t), CancelDisconnect(t)
    PROVE  LinkInv'
<1>1. /\ Fields /\ AttTypes /\ ThreadHolds(t) /\ ThreadStory(t)
      /\ AttemptStory /\ QueueStory /\ StateStory
      /\ cur[t] # 0 => cur[t] \in Attempts
      /\ attempts # 0 => attempts \in Attempts
  BY ConnectionAssumption DEF ConnInv, LinkInv, Fields, Attempts
<1>2. /\ pc[t] \in {"cstart", "cdone"} /\ pc'[t] = "cbarrier" /\ cur[t] = attempts /\ attempts # 0
      /\ cur'[t] = cur[t] /\ ret'[t] = ret[t]
      /\ UNCHANGED <<mode, faults, attempts, overlapped>>
      /\ UNCHANGED <<active, att, state, disconnected, released, status, handling>>
      /\ link' = "down"
      /\ link = "down" \/ shut => pending' = pending
      /\ pending' = pending \/ pending' = "DISCONNECTED"
      /\ mode = "access_key" => Latest.terminal # None
  BY <1>1 DEF CancelDisconnect, Goto, CancelDisconnects, NativeDisconnect, Posted,
         Cancellable, Latest, CancelStory, None, Fields, ThreadHolds, Connects, Cancels,
         InConnect, ThreadStory, StartStory, closeVars, attemptVars, setup, queueVars,
         nativeVars
<1>3. /\ attempts # 0 =>
         /\ Latest'.started = Latest.started
         /\ Latest'.done = Latest.done
         /\ Latest'.finished = Latest.finished
         /\ Latest'.terminal = Latest.terminal
         /\ Latest'.cancelling = Latest.cancelling
         /\ Latest'.cancelError = Latest.cancelError
         /\ Latest'.cancelFinished = Latest.cancelFinished
         /\ Latest'.handle = Latest.handle
         /\ Latest'.wentUp = Latest.wentUp
      /\ \A a \in Attempts : a > attempts => att'[a] = NewAttempt
  BY <1>1, <1>2 DEF CancelDisconnect, attemptVars, Latest, AttemptStory
<1>4. Others(t)
  BY <1>2, OthersStay DEF Moves
<1>10. /\ Latest.started /\ Latest.cancelling
  BY <1>1, <1>2 DEF CancelDisconnect, Latest, CancelStory, None, CancelDisconnects,
         NativeDisconnect, Posted, Cancellable, Fields, ThreadHolds, Connects, Cancels,
         InConnect, ThreadStory, StartStory
<1>5. AttemptStory'
  BY <1>1, <1>2, <1>3, <1>10 DEF AttemptStory, Fields, ThreadStory, StartStory, CancelStory,
         QueueStory, Queued, Drained, None, ThreadHolds, Cancels
<1>6. QueueStory'
  BY <1>1, <1>2, <1>3, <1>10 DEF QueueStory, Queued, Lost, None, Drained, AttemptStory,
         Fields, ThreadStory, StartStory, FinishStory, InConnect
<1>7. StateStory'
  BY <1>1, <1>2, <1>3, <1>10, <1>4 DEF Others, StateStory, AttemptStory, QueueStory, Queued,
         Lost, Drained, None, NativeFails, Succeeded, Latest, ThreadStory, StartStory,
         CancelStory, RunningStory, FinishStory, EndStory, ThreadHolds, Connects, Cancels,
         InConnect, Running
<1>8. ASSUME NEW u \in Threads \ {t} PROVE ThreadStory(u)'
  <2>1. StartStory(u)'
    BY <1>1, <1>2, <1>3, <1>4, Pair DEF Others, ThreadStory, StartStory, EndStory,
           CancelStory, Drained, InConnect
  <2>2. CancelStory(u)'
    BY <1>1, <1>2, <1>3, <1>10, <1>4, Pair DEF Others, ThreadStory, StartStory, CancelStory,
           FinishStory, ThreadHolds, Cancels, Connects, InConnect
  <2>3. RunningStory(u)' /\ FinishStory(u)'
    BY <1>1, <1>2, <1>3, <1>10, <1>4, Pair DEF Others, ThreadStory, RunningStory,
           FinishStory, CancelStory, StartStory, NativeFails, InConnect, Running, Queued,
           Lost, None, QueueStory, AttemptStory
  <2>4. EndStory(u)'
    BY <1>1, <1>2, <1>4, Pair DEF Others, ThreadStory, EndStory, NativeFails, InConnect
  <2> QED BY <2>1, <2>2, <2>3, <2>4 DEF ThreadStory
<1>9. ThreadStory(t)'
  <2>1. StartStory(t)' /\ CancelStory(t)'
    BY <1>1, <1>2, <1>3, <1>10 DEF ThreadStory, StartStory, CancelStory, ThreadHolds,
           Cancels, Drained, AttemptStory, InConnect, Connects
  <2>2. RunningStory(t)' /\ FinishStory(t)'
    BY <1>1, <1>2, <1>3, <1>10 DEF ThreadStory, StartStory, RunningStory, FinishStory,
           CancelStory, NativeFails, InConnect, Running, Queued, Lost, None, QueueStory,
           AttemptStory, Drained, ThreadHolds, Connects, Cancels
  <2>3. EndStory(t)'
    BY <1>1, <1>2, <1>4, Pair DEF Others, ThreadStory, EndStory, NativeFails, InConnect,
           StateStory
  <2> QED BY <2>1, <2>2, <2>3 DEF ThreadStory
<1> QED BY <1>5, <1>6, <1>7, <1>8, <1>9 DEF LinkInv

LEMMA LinkCancelBarrier ==
    ASSUME ConnInv, LinkInv, ~overlapped, NEW t \in Threads, Moves(t), CancelBarrier(t)
    PROVE  LinkInv'
<1>1. /\ Fields /\ AttTypes /\ ThreadHolds(t) /\ ThreadStory(t)
      /\ AttemptStory /\ QueueStory /\ StateStory
      /\ cur[t] # 0 => cur[t] \in Attempts
      /\ attempts # 0 => attempts \in Attempts
  BY ConnectionAssumption DEF ConnInv, LinkInv, Fields, Attempts
<1>2. /\ pc[t] = "cbarrier" /\ pc'[t] = "cend" /\ cur[t] = attempts /\ attempts # 0
      /\ cur'[t] = cur[t] /\ ret'[t] = ret[t]
      /\ UNCHANGED <<mode, faults, attempts, overlapped>>
      /\ UNCHANGED <<active, state, disconnected, released, status>>
      /\ UNCHANGED <<pending, handling, link>>
      /\ link = "down"
      /\ mode = "access_key" => Latest.terminal # None
  BY <1>1 DEF CancelBarrier, Goto, Latest, CancelStory, Fields, ThreadHolds, Connects,
         Cancels, InConnect, ThreadStory, StartStory, closeVars, attemptVars, setup,
         queueVars, nativeVars
<1>3. /\ attempts # 0 =>
         /\ Latest'.started = Latest.started
         /\ Latest'.finished = Latest.finished
         /\ Latest'.cancelling = Latest.cancelling
         /\ Latest'.cancelError = Latest.cancelError
         /\ Latest'.cancelFinished = Latest.cancelFinished
         /\ Latest'.handle = Latest.handle
         /\ Latest'.wentUp = Latest.wentUp
         /\ Latest'.terminal # None /\ (Latest.terminal # None => Latest'.terminal = Latest.terminal)
         /\ Latest'.terminal \in {"failed", Latest.terminal}
      /\ \A a \in Attempts : a > attempts => att'[a] = NewAttempt
  <2>1. CASE mode = "access_key"
    BY <1>1, <1>2, <2>1 DEF CancelBarrier, Latest, AttemptStory
  <2>2. CASE mode # "access_key"
    <3> DEFINE r == [done |-> TRUE, terminal |-> IF att[cur[t]].terminal = None THEN "failed"
                                                 ELSE att[cur[t]].terminal]
    <3>1. /\ DOMAIN r = {"done", "terminal"}
          /\ r["terminal"] = IF Latest.terminal = None THEN "failed" ELSE Latest.terminal
      BY <1>2 DEF Latest
    <3>2. att' = Update(cur[t], r)
      BY <2>2 DEF CancelBarrier
    <3> HIDE DEF r
    <3>3. \A a \in Attempts : a > attempts => att'[a] = NewAttempt
      BY <1>1, <1>2, <3>2 DEF Update, AttTypes, Fields, AttemptStory
    <3>4. {"terminal"} \subseteq DOMAIN NewAttempt
          /\ {"started", "finished", "cancelling", "cancelError", "cancelFinished", "handle", "wentUp"}
               \subseteq DOMAIN NewAttempt
      BY DEF NewAttempt
    <3>5. attempts # 0 =>
            /\ \A f \in DOMAIN NewAttempt \ {"done", "terminal"} : Latest'[f] = Latest[f]
            /\ Latest'["terminal"] = r["terminal"]
      BY <1>1, <1>2, <3>1, <3>2, <3>4, LatestIs
    <3> QED BY <1>1, <3>1, <3>3, <3>4, <3>5 DEF None
  <2> QED BY <2>1, <2>2
<1>4. Others(t)
  BY <1>2, OthersStay DEF Moves
<1>10. /\ Latest.started /\ Latest.cancelling
  BY <1>1, <1>2 DEF CancelBarrier, Latest, CancelStory, Fields, ThreadHolds, Connects,
         Cancels, InConnect, ThreadStory, StartStory
<1>5. AttemptStory'
  BY <1>1, <1>2, <1>3, <1>10 DEF AttemptStory, Fields, ThreadStory, StartStory, CancelStory,
         QueueStory, Queued, Drained, None, ThreadHolds, Cancels
<1>6. QueueStory'
  BY <1>1, <1>2, <1>3, <1>10 DEF QueueStory, Queued, Lost, None, Drained, AttemptStory,
         Fields, ThreadStory, StartStory, FinishStory, InConnect
<1>7. StateStory'
  BY <1>1, <1>2, <1>3, <1>10, <1>4 DEF Others, StateStory, AttemptStory, QueueStory, Queued,
         Lost, Drained, None, NativeFails, Succeeded, Latest, ThreadStory, StartStory,
         CancelStory, RunningStory, FinishStory, EndStory, ThreadHolds, Connects, Cancels,
         InConnect, Running
<1>8. ASSUME NEW u \in Threads \ {t} PROVE ThreadStory(u)'
  <2>1. StartStory(u)'
    BY <1>1, <1>2, <1>3, <1>4, Pair DEF Others, ThreadStory, StartStory, EndStory,
           CancelStory, Drained, InConnect
  <2>2. CancelStory(u)'
    BY <1>1, <1>2, <1>3, <1>10, <1>4, Pair DEF Others, ThreadStory, StartStory, CancelStory,
           FinishStory, ThreadHolds, Cancels, Connects, InConnect
  <2>3. RunningStory(u)' /\ FinishStory(u)'
    BY <1>1, <1>2, <1>3, <1>10, <1>4, Pair DEF Others, ThreadStory, RunningStory,
           FinishStory, CancelStory, StartStory, NativeFails, InConnect, Running, Queued,
           Lost, None, QueueStory, AttemptStory
  <2>4. EndStory(u)'
    BY <1>1, <1>2, <1>4, Pair DEF Others, ThreadStory, EndStory, NativeFails, InConnect
  <2> QED BY <2>1, <2>2, <2>3, <2>4 DEF ThreadStory
<1>9. ThreadStory(t)'
  <2>1. StartStory(t)' /\ CancelStory(t)'
    BY <1>1, <1>2, <1>3, <1>10 DEF ThreadStory, StartStory, CancelStory, ThreadHolds,
           Cancels, Drained, AttemptStory, InConnect, Connects
  <2>2. RunningStory(t)' /\ FinishStory(t)'
    BY <1>1, <1>2, <1>3, <1>10 DEF ThreadStory, StartStory, RunningStory, FinishStory,
           CancelStory, NativeFails, InConnect, Running, Queued, Lost, None, QueueStory,
           AttemptStory, Drained, ThreadHolds, Connects, Cancels
  <2>3. EndStory(t)'
    BY <1>1, <1>2, <1>4, Pair DEF Others, ThreadStory, EndStory, NativeFails, InConnect,
           StateStory
  <2> QED BY <2>1, <2>2, <2>3 DEF ThreadStory
<1> QED BY <1>5, <1>6, <1>7, <1>8, <1>9 DEF LinkInv

LEMMA LinkCancelEnd ==
    ASSUME ConnInv, LinkInv, ~overlapped, NEW t \in Threads, Moves(t), CancelEnd(t)
    PROVE  LinkInv'
<1>1. /\ Fields /\ AttTypes /\ ThreadHolds(t) /\ ThreadStory(t)
      /\ AttemptStory /\ QueueStory /\ StateStory
      /\ cur[t] # 0 => cur[t] \in Attempts
      /\ attempts # 0 => attempts \in Attempts
  BY ConnectionAssumption DEF ConnInv, LinkInv, Fields, Attempts
<1>2. /\ pc[t] = "cend" /\ pc'[t] = ret[t] /\ cur[t] = attempts /\ attempts # 0
      /\ cur'[t] = cur[t] /\ ret'[t] = ret[t]
      /\ UNCHANGED <<mode, faults, attempts, overlapped>>
      /\ UNCHANGED <<active, state, released, status>>
      /\ UNCHANGED <<pending, handling, link>>
      /\ disconnected'
      /\ Latest.terminal # None /\ link = "down"
      /\ ret[t] \in {"settle", "dwait", "kwait"}
  BY <1>1 DEF CancelEnd, Goto, Latest, CancelStory, Returns, Fields, ThreadHolds, Connects,
         Cancels, InConnect, ThreadStory, StartStory, closeVars, attemptVars, setup,
         queueVars, nativeVars
<1>3. /\ attempts # 0 =>
         /\ Latest'.started = Latest.started
         /\ Latest'.done = Latest.done
         /\ Latest'.finished = Latest.finished
         /\ Latest'.terminal = Latest.terminal
         /\ Latest'.cancelling = Latest.cancelling
         /\ Latest'.cancelError = Latest.cancelError
         /\ Latest'.handle = Latest.handle
         /\ Latest'.wentUp = Latest.wentUp
         /\ Latest'.cancelFinished
      /\ \A a \in Attempts : a > attempts => att'[a] = NewAttempt
  <2>1. /\ DOMAIN [cancelFinished |-> TRUE] = {"cancelFinished"}
        /\ [cancelFinished |-> TRUE]["cancelFinished"] = TRUE
    OBVIOUS
  <2>2. att' = Update(cur[t], [cancelFinished |-> TRUE])
    BY DEF CancelEnd
  <2>3. {"started", "done", "finished", "terminal", "cancelling", "cancelError",
         "cancelFinished", "handle", "wentUp"}
          \subseteq DOMAIN NewAttempt
    BY DEF NewAttempt
  <2>4. \A a \in Attempts : a > attempts => att'[a] = NewAttempt
    BY <1>1, <1>2, <2>2 DEF Update, AttTypes, Fields, AttemptStory
  <2>5. attempts # 0 => \A f \in DOMAIN NewAttempt \ {"cancelFinished"} : Latest'[f] = Latest[f]
    BY <1>1, <1>2, <2>1, <2>2, LatestIs
  <2>6. /\ attempts # 0 => Latest'.cancelFinished
    BY <1>1, <1>2, <2>1, <2>2, <2>3, LatestIs
  <2> QED BY <2>3, <2>4, <2>5, <2>6
<1>4. Others(t)
  BY <1>2, OthersStay DEF Moves
<1>10. /\ Latest.started /\ Latest.cancelling
  BY <1>1, <1>2 DEF CancelEnd, Latest, CancelStory, Returns, Fields, ThreadHolds, Connects,
         Cancels, InConnect, ThreadStory, StartStory
<1>5. AttemptStory'
  BY <1>1, <1>2, <1>3, <1>10 DEF AttemptStory, Fields, ThreadStory, StartStory, CancelStory,
         QueueStory, Queued, Drained, None, ThreadHolds, Cancels
<1>6. QueueStory'
  BY <1>1, <1>2, <1>3, <1>10 DEF QueueStory, Queued, Lost, None, Drained, AttemptStory,
         Fields, ThreadStory, StartStory, FinishStory, InConnect
<1>7. StateStory'
  BY <1>1, <1>2, <1>3, <1>10, <1>4 DEF Others, StateStory, AttemptStory, QueueStory, Queued,
         Lost, Drained, None, NativeFails, Succeeded, Latest, ThreadStory, StartStory,
         CancelStory, RunningStory, FinishStory, EndStory, ThreadHolds, Connects, Cancels,
         InConnect, Running
<1>8. ASSUME NEW u \in Threads \ {t} PROVE ThreadStory(u)'
  <2>1. StartStory(u)'
    BY <1>1, <1>2, <1>3, <1>4, Pair DEF Others, ThreadStory, StartStory, EndStory,
           CancelStory, Drained, InConnect
  <2>2. CancelStory(u)'
    BY <1>1, <1>2, <1>3, <1>10, <1>4, Pair DEF Others, ThreadStory, StartStory, CancelStory,
           FinishStory, ThreadHolds, Cancels, Connects, InConnect
  <2>3. RunningStory(u)' /\ FinishStory(u)'
    <3>1. RunningStory(u)'
      BY <1>1, <1>2, <1>3, <1>4, Pair DEF Others, ThreadStory, RunningStory, CancelStory,
             NativeFails, InConnect, Running, Lost
    <3>2. FinishStory(u)'
      BY <1>1, <1>2, <1>3, <1>10, <1>4, Pair DEF Others, ThreadStory, FinishStory,
             CancelStory, InConnect, Queued
    <3> QED BY <3>1, <3>2
  <2>4. EndStory(u)'
    BY <1>1, <1>2, <1>4, Pair DEF Others, ThreadStory, EndStory, NativeFails, InConnect
  <2> QED BY <2>1, <2>2, <2>3, <2>4 DEF ThreadStory
<1>9. ThreadStory(t)'
  <2>1. StartStory(t)' /\ CancelStory(t)'
    BY <1>1, <1>2, <1>3, <1>10 DEF ThreadStory, StartStory, CancelStory, ThreadHolds,
           Cancels, Drained, AttemptStory, InConnect, Connects
  <2>2. RunningStory(t)' /\ FinishStory(t)'
    BY <1>1, <1>2, <1>3, <1>10 DEF ThreadStory, StartStory, RunningStory, FinishStory,
           CancelStory, NativeFails, InConnect, Running, Queued, Lost, None, QueueStory,
           AttemptStory, Drained, ThreadHolds, Connects, Cancels
  <2>3. EndStory(t)'
    BY <1>1, <1>2, <1>4, Pair DEF Others, ThreadStory, EndStory, NativeFails, InConnect,
           StateStory
  <2> QED BY <2>1, <2>2, <2>3 DEF ThreadStory
<1> QED BY <1>5, <1>6, <1>7, <1>8, <1>9 DEF LinkInv

LEMMA LinkCancelFails ==
    ASSUME ConnInv, LinkInv, ~overlapped, NEW t \in Threads, Moves(t), CancelFails(t)
    PROVE  LinkInv'
<1>1. /\ Fields /\ AttTypes /\ ThreadHolds(t) /\ ThreadStory(t)
      /\ AttemptStory /\ QueueStory /\ StateStory
      /\ cur[t] # 0 => cur[t] \in Attempts
      /\ attempts # 0 => attempts \in Attempts
  BY ConnectionAssumption DEF ConnInv, LinkInv, Fields, Attempts
<1>2. /\ pc[t] \in {"cstart", "cdone"} /\ cur[t] = attempts /\ attempts # 0
      /\ pc'[t] = "idle" /\ cur'[t] = 0 /\ ret'[t] = "idle"
      /\ UNCHANGED <<mode, faults, attempts, overlapped>>
      /\ UNCHANGED <<active, state, disconnected, released>>
      /\ UNCHANGED <<pending, handling, link>>
      /\ NativeFails \/ released
      /\ status' = "open" => status = "open"
  BY <1>1 DEF CancelFails, Goto, CancelDisconnects, NativeRefuses, Cancellable, Raise,
         Leave, Close!Fail, Latest, CancelStory, Fields, ThreadHolds, Connects, Cancels,
         InConnect, ThreadStory, StartStory, closeVars, attemptVars, setup, queueVars,
         nativeVars
<1>3. /\ attempts # 0 =>
         /\ Latest'.started = Latest.started
         /\ Latest'.done = Latest.done
         /\ Latest'.finished = Latest.finished
         /\ Latest'.terminal = Latest.terminal
         /\ Latest'.cancelling = Latest.cancelling
         /\ Latest'.handle = Latest.handle
         /\ Latest'.wentUp = Latest.wentUp
         /\ Latest'.cancelFinished
         /\ Latest'.cancelError
      /\ \A a \in Attempts : a > attempts => att'[a] = NewAttempt
  <2>1. /\ DOMAIN [cancelError |-> TRUE, cancelFinished |-> TRUE] = {"cancelError", "cancelFinished"}
        /\ [cancelError |-> TRUE, cancelFinished |-> TRUE]["cancelError"] = TRUE
        /\ [cancelError |-> TRUE, cancelFinished |-> TRUE]["cancelFinished"] = TRUE
    OBVIOUS
  <2>2. att' = Update(cur[t], [cancelError |-> TRUE, cancelFinished |-> TRUE])
    BY DEF CancelFails
  <2>3. {"started", "done", "finished", "terminal", "cancelling", "cancelError",
         "cancelFinished", "handle", "wentUp"}
          \subseteq DOMAIN NewAttempt
    BY DEF NewAttempt
  <2>4. \A a \in Attempts : a > attempts => att'[a] = NewAttempt
    BY <1>1, <1>2, <2>2 DEF Update, AttTypes, Fields, AttemptStory
  <2>5. attempts # 0 => \A f \in DOMAIN NewAttempt \ {"cancelError", "cancelFinished"} : Latest'[f] = Latest[f]
    BY <1>1, <1>2, <2>1, <2>2, LatestIs
  <2>6. /\ attempts # 0 => Latest'.cancelFinished
        /\ attempts # 0 => Latest'.cancelError
    BY <1>1, <1>2, <2>1, <2>2, <2>3, LatestIs
  <2> QED BY <2>3, <2>4, <2>5, <2>6
<1>4. Others(t)
  BY <1>2, OthersStay DEF Moves
<1>10. /\ Latest.started /\ Latest.cancelling
  BY <1>1, <1>2 DEF CancelFails, Latest, CancelStory, CancelDisconnects, NativeRefuses,
         Cancellable, Raise, Leave, Close!Fail, Fields, ThreadHolds, Connects, Cancels,
         InConnect, ThreadStory, StartStory
<1>5. AttemptStory'
  BY <1>1, <1>2, <1>3, <1>10 DEF AttemptStory, Fields, ThreadStory, StartStory, CancelStory,
         QueueStory, Queued, Drained, None, ThreadHolds, Cancels
<1>6. QueueStory'
  BY <1>1, <1>2, <1>3, <1>10 DEF QueueStory, Queued, Lost, None, Drained, AttemptStory,
         Fields, ThreadStory, StartStory, FinishStory, InConnect
<1>7. StateStory'
  BY <1>1, <1>2, <1>3, <1>10, <1>4 DEF Others, StateStory, AttemptStory, QueueStory, Queued,
         Lost, Drained, None, NativeFails, Succeeded, Latest, ThreadStory, StartStory,
         CancelStory, RunningStory, FinishStory, EndStory, ThreadHolds, Connects, Cancels,
         InConnect, Running
<1>8. ASSUME NEW u \in Threads \ {t} PROVE ThreadStory(u)'
  <2>1. StartStory(u)'
    BY <1>1, <1>2, <1>3, <1>4, Pair DEF Others, ThreadStory, StartStory, EndStory,
           CancelStory, Drained, InConnect
  <2>2. CancelStory(u)'
    BY <1>1, <1>2, <1>3, <1>10, <1>4, Pair DEF Others, ThreadStory, StartStory, CancelStory,
           FinishStory, ThreadHolds, Cancels, Connects, InConnect
  <2>3. RunningStory(u)' /\ FinishStory(u)'
    BY <1>1, <1>2, <1>3, <1>10, <1>4, Pair DEF Others, ThreadStory, RunningStory,
           FinishStory, CancelStory, StartStory, NativeFails, InConnect, Running, Queued,
           Lost, None, QueueStory, AttemptStory
  <2>4. EndStory(u)'
    BY <1>1, <1>2, <1>4, Pair DEF Others, ThreadStory, EndStory, NativeFails, InConnect
  <2> QED BY <2>1, <2>2, <2>3, <2>4 DEF ThreadStory
<1>9. ThreadStory(t)'
  <2>1. StartStory(t)' /\ CancelStory(t)'
    BY <1>1, <1>2, <1>3, <1>10 DEF ThreadStory, StartStory, CancelStory, ThreadHolds,
           Cancels, Drained, AttemptStory, InConnect, Connects
  <2>2. RunningStory(t)' /\ FinishStory(t)'
    BY <1>1, <1>2, <1>3, <1>10 DEF ThreadStory, StartStory, RunningStory, FinishStory,
           CancelStory, NativeFails, InConnect, Running, Queued, Lost, None, QueueStory,
           AttemptStory, Drained, ThreadHolds, Connects, Cancels
  <2>3. EndStory(t)'
    BY <1>1, <1>2, <1>4, Pair DEF Others, ThreadStory, EndStory, NativeFails, InConnect,
           StateStory
  <2> QED BY <2>1, <2>2, <2>3 DEF ThreadStory
<1> QED BY <1>5, <1>6, <1>7, <1>8, <1>9 DEF LinkInv

\* A cancel is not needed, joined or over.
LEMMA LinkCancelGoes ==
    ASSUME ConnInv, LinkInv, ~overlapped, NEW t \in Threads, Moves(t),
           CancelNotNeeded(t) \/ CancelJoin(t) \/ CancelEnded(t)
    PROVE  LinkInv'
<1>1. /\ Fields /\ AttTypes /\ ThreadHolds(t) /\ ThreadStory(t) /\ Released
      /\ AttemptStory /\ QueueStory /\ StateStory
      /\ attempts # 0 => attempts \in Attempts
  BY ConnectionAssumption DEF ConnInv, LinkInv, Fields, Attempts
<1>2. /\ UNCHANGED <<mode, faults, attempts, overlapped, state, disconnected, active, att,
                     pending, handling, link, released>>
      /\ status' = "open" => status = "open"
      /\ Latest' = Latest
      /\ \A u \in Threads \ {t} : InConnect(u)' <=> InConnect(u)
  BY <1>1, OthersStay DEF CancelNotNeeded, CancelJoin, CancelEnded, Moves, Others, Goto,
         Leave, Fields, Raise, Close!Fail, Close!BeginTeardown, Close!BeginWait, Close!Wake,
         Close!Leave, closeVars, attemptVars, setup, queueVars, nativeVars, Latest
<1>3. /\ ThreadStory(t)'
      /\ InConnect(t)' => InConnect(t)
      /\ pc[t] \in {"dbarrier", "dset"} => pc'[t] \in {"dbarrier", "dset"}
      /\ pc[t] = "dbarrier" => Drained
  <2> USE DEF Fields, ThreadHolds, Connects, Cancels, InConnect
  <2>1. CASE CancelNotNeeded(t)
    <3>1. /\ pc[t] = "cancel" /\ pc'[t] = ret[t] /\ cur[t] = attempts
          /\ cur'[t] = cur[t] /\ ret'[t] = ret[t]
          /\ ret[t] \in {"settle", "dwait", "kwait"}
          /\ ret[t] = "settle" => Latest.terminal # None
      BY <1>1, <2>1 DEF CancelNotNeeded, Goto, Leave, Raise, ThreadStory, StartStory,
             Latest, Returns
    <3> QED BY <1>1, <1>2, <3>1 DEF ThreadStory, StartStory, CancelStory, RunningStory,
                 FinishStory, EndStory, Running, Drained, Queued, Lost, NativeFails
  <2>2. CASE CancelJoin(t)
    <3>1. /\ pc[t] = "cjoin" /\ cur[t] = attempts
          /\ \/ pc'[t] = "idle" /\ cur'[t] = 0
             \/ pc'[t] = ret[t] /\ cur'[t] = cur[t] /\ ret'[t] = ret[t]
          /\ ret[t] \in {"settle", "dwait", "kwait"}
          /\ ret[t] = "settle" /\ pc'[t] = ret[t] => Latest.terminal # None
      BY <1>1, <2>2 DEF CancelJoin, Goto, Leave, Raise, ThreadStory, StartStory,
             RunningStory, Running, Latest, Returns
    <3> QED BY <1>1, <1>2, <3>1 DEF ThreadStory, StartStory, CancelStory, RunningStory,
                 FinishStory, EndStory, Running, Drained, Queued, Lost, NativeFails
  <2>3. CASE CancelEnded(t)
    <3>1. /\ pc[t] = "cdone" /\ pc'[t] = "cend" /\ cur[t] = attempts
          /\ cur'[t] = cur[t] /\ ret'[t] = ret[t]
          /\ Latest.terminal # None /\ link = "down"
      BY <1>1, <2>3 DEF CancelEnded, Goto, Leave, Raise, ThreadStory, StartStory,
             AttemptStory, AttTypes, Latest
    <3> QED BY <1>1, <1>2, <3>1 DEF ThreadStory, StartStory, CancelStory, RunningStory,
                 FinishStory, EndStory, Running, Drained, Queued, Lost, NativeFails
  <2> QED BY <2>1, <2>2, <2>3
<1> QED BY <1>2, <1>3, LinkQuiet

\* disconnect() takes the link down, and tells the state.
LEMMA LinkDisconnectDown ==
    ASSUME ConnInv, LinkInv, ~overlapped, NEW t \in Threads, Moves(t), DisconnectNative(t)
    PROVE  LinkInv'
<1>1. /\ Fields /\ AttTypes /\ ThreadHolds(t) /\ ThreadStory(t)
      /\ AttemptStory /\ QueueStory /\ StateStory
      /\ cur[t] # 0 => cur[t] \in Attempts
      /\ attempts # 0 => attempts \in Attempts
  BY ConnectionAssumption DEF ConnInv, LinkInv, Fields, Attempts
<1>2. /\ pc[t] = "dnative" /\ pc'[t] = "dbarrier"
      /\ cur'[t] = cur[t] /\ ret'[t] = ret[t]
      /\ UNCHANGED <<mode, faults, attempts, overlapped>>
      /\ UNCHANGED <<active, att, state, disconnected, released, status, handling>>
      /\ link' = "down"
      /\ link = "down" \/ shut => pending' = pending
      /\ pending' = pending \/ pending' = "DISCONNECTED"
      /\ \A u \in Threads : ~InConnect(u)
  BY <1>1 DEF DisconnectNative, Goto, NativeDisconnect, Posted, EndStory, Fields,
         ThreadHolds, Connects, Cancels, InConnect, ThreadStory, StartStory, closeVars,
         attemptVars, setup, queueVars, nativeVars
<1>3. /\ attempts # 0 =>
         /\ Latest'.started = Latest.started
         /\ Latest'.done = Latest.done
         /\ Latest'.finished = Latest.finished
         /\ Latest'.terminal = Latest.terminal
         /\ Latest'.cancelling = Latest.cancelling
         /\ Latest'.cancelError = Latest.cancelError
         /\ Latest'.cancelFinished = Latest.cancelFinished
         /\ Latest'.handle = Latest.handle
         /\ Latest'.wentUp = Latest.wentUp
      /\ \A a \in Attempts : a > attempts => att'[a] = NewAttempt
  BY <1>1, <1>2 DEF DisconnectNative, attemptVars, Latest, AttemptStory
<1>4. Others(t)
  BY <1>2, OthersStay DEF Moves
<1>5. AttemptStory'
  BY <1>1, <1>2, <1>3 DEF AttemptStory, Fields, ThreadStory, StartStory, CancelStory,
         QueueStory, Queued, Drained, None, ThreadHolds, Cancels
<1>6. QueueStory'
  BY <1>1, <1>2, <1>3 DEF QueueStory, Queued, Lost, None, Drained, AttemptStory, Fields,
         ThreadStory, StartStory, FinishStory, InConnect
<1>7. StateStory'
  BY <1>1, <1>2, <1>3, <1>4 DEF Others, StateStory, AttemptStory, QueueStory, Queued, Lost,
         Drained, None, NativeFails, Succeeded, Latest, ThreadStory, StartStory,
         CancelStory, RunningStory, FinishStory, EndStory, ThreadHolds, Connects, Cancels,
         InConnect, Running
<1>8. ASSUME NEW u \in Threads \ {t} PROVE ThreadStory(u)'
  <2>1. StartStory(u)'
    BY <1>1, <1>2, <1>3, <1>4, Pair DEF Others, ThreadStory, StartStory, EndStory,
           CancelStory, Drained, InConnect
  <2>2. CancelStory(u)'
    BY <1>1, <1>2, <1>3, <1>4, Pair DEF Others, ThreadStory, StartStory, CancelStory,
           FinishStory, ThreadHolds, Cancels, Connects, InConnect
  <2>3. RunningStory(u)' /\ FinishStory(u)'
    BY <1>1, <1>2, <1>3, <1>4, Pair DEF Others, ThreadStory, RunningStory, FinishStory,
           CancelStory, StartStory, NativeFails, InConnect, Running, Queued, Lost, None,
           QueueStory, AttemptStory
  <2>4. EndStory(u)'
    BY <1>1, <1>2, <1>4, Pair DEF Others, ThreadStory, EndStory, NativeFails, InConnect
  <2> QED BY <2>1, <2>2, <2>3, <2>4 DEF ThreadStory
<1>9. ThreadStory(t)'
  <2>1. StartStory(t)' /\ CancelStory(t)'
    BY <1>1, <1>2, <1>3 DEF ThreadStory, StartStory, CancelStory, ThreadHolds, Cancels,
           Drained, AttemptStory, InConnect, Connects
  <2>2. RunningStory(t)' /\ FinishStory(t)'
    BY <1>1, <1>2, <1>3 DEF ThreadStory, StartStory, RunningStory, FinishStory, CancelStory,
           NativeFails, InConnect, Running, Queued, Lost, None, QueueStory, AttemptStory,
           Drained, ThreadHolds, Connects, Cancels
  <2>3. EndStory(t)'
    BY <1>1, <1>2, <1>4, Pair DEF Others, ThreadStory, EndStory, NativeFails, InConnect,
           StateStory
  <2> QED BY <2>1, <2>2, <2>3 DEF ThreadStory
<1> QED BY <1>5, <1>6, <1>7, <1>8, <1>9 DEF LinkInv

LEMMA LinkDisconnectSet ==
    ASSUME ConnInv, LinkInv, ~overlapped, NEW t \in Threads, Moves(t), DisconnectSet(t)
    PROVE  LinkInv'
<1>1. /\ Fields /\ AttTypes /\ ThreadHolds(t) /\ ThreadStory(t)
      /\ AttemptStory /\ QueueStory /\ StateStory
      /\ cur[t] # 0 => cur[t] \in Attempts
      /\ attempts # 0 => attempts \in Attempts
  BY ConnectionAssumption DEF ConnInv, LinkInv, Fields, Attempts
<1>2. /\ pc[t] = "dset"
      /\ pc'[t] = "idle" /\ cur'[t] = 0 /\ ret'[t] = "idle"
      /\ UNCHANGED <<mode, faults, attempts, overlapped>>
      /\ UNCHANGED <<active, att, released, status>>
      /\ UNCHANGED <<pending, handling, link>>
      /\ state' = "DISCONNECTED" /\ disconnected'
      /\ NativeFails \/ link = "down"
      /\ \A u \in Threads : ~InConnect(u)
  BY <1>1 DEF DisconnectSet, Goto, Leave, EndStory, Fields, ThreadHolds, Connects, Cancels,
         InConnect, ThreadStory, StartStory, closeVars, attemptVars, setup, queueVars,
         nativeVars
<1>3. /\ attempts # 0 =>
         /\ Latest'.started = Latest.started
         /\ Latest'.done = Latest.done
         /\ Latest'.finished = Latest.finished
         /\ Latest'.terminal = Latest.terminal
         /\ Latest'.cancelling = Latest.cancelling
         /\ Latest'.cancelError = Latest.cancelError
         /\ Latest'.cancelFinished = Latest.cancelFinished
         /\ Latest'.handle = Latest.handle
         /\ Latest'.wentUp = Latest.wentUp
      /\ \A a \in Attempts : a > attempts => att'[a] = NewAttempt
  BY <1>1, <1>2 DEF DisconnectSet, attemptVars, Latest, AttemptStory
<1>4. Others(t)
  BY <1>2, OthersStay DEF Moves
<1>5. AttemptStory'
  BY <1>1, <1>2, <1>3 DEF AttemptStory, Fields, ThreadStory, StartStory, CancelStory,
         QueueStory, Queued, Drained, None, ThreadHolds, Cancels
<1>6. QueueStory'
  BY <1>1, <1>2, <1>3 DEF QueueStory, Queued, Lost, None, Drained, AttemptStory, Fields,
         ThreadStory, StartStory, FinishStory, InConnect
<1>7. StateStory'
  BY <1>1, <1>2, <1>3, <1>4 DEF Others, StateStory, AttemptStory, QueueStory, Queued, Lost,
         Drained, None, NativeFails, Succeeded, Latest, ThreadStory, StartStory,
         CancelStory, RunningStory, FinishStory, EndStory, ThreadHolds, Connects, Cancels,
         InConnect, Running
<1>8. ASSUME NEW u \in Threads \ {t} PROVE ThreadStory(u)'
  <2>1. StartStory(u)'
    BY <1>1, <1>2, <1>3, <1>4, Pair DEF Others, ThreadStory, StartStory, EndStory,
           CancelStory, Drained, InConnect
  <2>2. CancelStory(u)'
    BY <1>1, <1>2, <1>3, <1>4, Pair DEF Others, ThreadStory, StartStory, CancelStory,
           FinishStory, ThreadHolds, Cancels, Connects, InConnect
  <2>3. RunningStory(u)' /\ FinishStory(u)'
    BY <1>1, <1>2, <1>3, <1>4, Pair DEF Others, ThreadStory, RunningStory, FinishStory,
           CancelStory, StartStory, NativeFails, InConnect, Running, Queued, Lost, None,
           QueueStory, AttemptStory
  <2>4. EndStory(u)'
    BY <1>1, <1>2, <1>4, Pair DEF Others, ThreadStory, EndStory, NativeFails, InConnect
  <2> QED BY <2>1, <2>2, <2>3, <2>4 DEF ThreadStory
<1>9. ThreadStory(t)'
  <2>1. StartStory(t)' /\ CancelStory(t)'
    BY <1>1, <1>2, <1>3 DEF ThreadStory, StartStory, CancelStory, ThreadHolds, Cancels,
           Drained, AttemptStory, InConnect, Connects
  <2>2. RunningStory(t)' /\ FinishStory(t)'
    BY <1>1, <1>2, <1>3 DEF ThreadStory, StartStory, RunningStory, FinishStory, CancelStory,
           NativeFails, InConnect, Running, Queued, Lost, None, QueueStory, AttemptStory,
           Drained, ThreadHolds, Connects, Cancels
  <2>3. EndStory(t)'
    BY <1>1, <1>2, <1>4, Pair DEF Others, ThreadStory, EndStory, NativeFails, InConnect,
           StateStory
  <2> QED BY <2>1, <2>2, <2>3 DEF ThreadStory
<1> QED BY <1>5, <1>6, <1>7, <1>8, <1>9 DEF LinkInv

\* disconnect() goes on or raises.
LEMMA LinkDisconnectGoes ==
    ASSUME ConnInv, LinkInv, ~overlapped, NEW t \in Threads, Moves(t),
           Disconnect(t) \/ DisconnectWait(t) \/ DisconnectRaises(t) \/
           DisconnectBarrier(t)
    PROVE  LinkInv'
<1>1. /\ Fields /\ AttTypes /\ ThreadHolds(t) /\ ThreadStory(t) /\ Released
      /\ AttemptStory /\ QueueStory /\ StateStory
      /\ attempts # 0 => attempts \in Attempts
  BY ConnectionAssumption DEF ConnInv, LinkInv, Fields, Attempts
<1>2. /\ UNCHANGED <<mode, faults, attempts, overlapped, state, disconnected, active, att,
                     pending, handling, link, released>>
      /\ status' = "open" => status = "open"
      /\ Latest' = Latest
      /\ \A u \in Threads \ {t} : InConnect(u)' <=> InConnect(u)
  BY <1>1, OthersStay DEF Disconnect, DisconnectWait, DisconnectRaises, DisconnectBarrier,
         Moves, Others, Goto, Leave, Fields, Raise, Close!Fail, Close!BeginTeardown,
         Close!BeginWait, Close!Wake, Close!Leave, closeVars, attemptVars, setup, queueVars,
         nativeVars, Latest
<1>3. /\ ThreadStory(t)'
      /\ InConnect(t)' => InConnect(t)
      /\ pc[t] \in {"dbarrier", "dset"} => pc'[t] \in {"dbarrier", "dset"}
      /\ pc[t] = "dbarrier" => Drained
  <2> USE DEF Fields, ThreadHolds, Connects, Cancels, InConnect
  <2>1. CASE Disconnect(t)
    <3>1. /\ pc[t] = "idle" /\ cur'[t] = active
          /\ \/ pc'[t] = "cancel" /\ active = attempts /\ attempts # 0 /\ ret'[t] = "dwait"
             \/ pc'[t] = "dnative" /\ \A u \in Threads : ~InConnect(u)
      BY <1>1, <2>1 DEF Disconnect, Goto, Leave, Raise, AttemptStory, ConnInv
    <3> QED BY <1>1, <1>2, <3>1 DEF ThreadStory, StartStory, CancelStory, RunningStory,
                 FinishStory, EndStory, Running, Drained, Queued, Lost, NativeFails
  <2>2. CASE DisconnectWait(t)
    <3>1. /\ pc[t] = "dwait" /\ pc'[t] \in {"dnative", "dset"}
          /\ cur'[t] = cur[t] /\ ret'[t] = ret[t]
          /\ \A u \in Threads : ~InConnect(u)
          /\ pc'[t] = "dset" /\ ~NativeFails => link = "down"
      BY <1>1, <2>2, Pair DEF DisconnectWait, Goto, Leave, Raise, AttemptFinished,
             ThreadStory, StartStory, StateStory, Succeeded, Latest
    <3> QED BY <1>1, <1>2, <3>1 DEF ThreadStory, StartStory, CancelStory, RunningStory,
                 FinishStory, EndStory, Running, Drained, Queued, Lost, NativeFails
  <2>3. CASE DisconnectRaises(t)
    <3>1. /\ pc[t] = "dnative"
          /\ pc'[t] = "idle" /\ cur'[t] = 0
      BY <1>1, <2>3 DEF DisconnectRaises, Goto, Leave, Raise
    <3> QED BY <1>1, <1>2, <3>1 DEF ThreadStory, StartStory, CancelStory, RunningStory,
                 FinishStory, EndStory, Running, Drained, Queued, Lost, NativeFails
  <2>4. CASE DisconnectBarrier(t)
    <3>1. /\ pc[t] = "dbarrier" /\ pc'[t] = "dset" /\ Drained
          /\ cur'[t] = cur[t] /\ ret'[t] = ret[t]
          /\ \A u \in Threads : ~InConnect(u)
          /\ link = "down"
      BY <1>1, <2>4 DEF DisconnectBarrier, Goto, Leave, Raise, ThreadStory, EndStory
    <3> QED BY <1>1, <1>2, <3>1 DEF ThreadStory, StartStory, CancelStory, RunningStory,
                 FinishStory, EndStory, Running, Drained, Queued, Lost, NativeFails
  <2> QED BY <2>1, <2>2, <2>3, <2>4
<1> QED BY <1>2, <1>3, LinkQuiet

\* close() takes the link down, destroys the handle and ends.
LEMMA LinkCloseDown ==
    ASSUME ConnInv, LinkInv, ~overlapped, NEW t \in Threads,
           Moves(t), CloseDisconnect(t), pc'[t] = "krelease"
    PROVE  LinkInv'
<1>1. /\ Fields /\ AttTypes /\ ThreadHolds(t) /\ ThreadStory(t)
      /\ AttemptStory /\ QueueStory /\ StateStory
      /\ cur[t] # 0 => cur[t] \in Attempts
      /\ attempts # 0 => attempts \in Attempts
  BY ConnectionAssumption DEF ConnInv, LinkInv, Fields, Attempts
<1>2. /\ pc[t] = "kdisconnect" /\ pc'[t] = "krelease"
      /\ cur'[t] = cur[t] /\ ret'[t] = ret[t]
      /\ UNCHANGED <<mode, faults, attempts, overlapped>>
      /\ UNCHANGED <<active, att, state, released, status, handling, pending>>
      /\ link' = "down" /\ disconnected' /\ status # "open"
      /\ \A u \in Threads : ~InConnect(u)
  BY <1>1 DEF CloseDisconnect, Goto, NativeDisconnect, Posted, Raise, Leave, ConnInv,
         ConnectsOver, Progress, Released, Fields, ThreadHolds, Connects, Cancels,
         InConnect, ThreadStory, StartStory, closeVars, attemptVars, setup, queueVars,
         nativeVars
<1>3. /\ attempts # 0 =>
         /\ Latest'.started = Latest.started
         /\ Latest'.done = Latest.done
         /\ Latest'.finished = Latest.finished
         /\ Latest'.terminal = Latest.terminal
         /\ Latest'.cancelling = Latest.cancelling
         /\ Latest'.cancelError = Latest.cancelError
         /\ Latest'.cancelFinished = Latest.cancelFinished
         /\ Latest'.handle = Latest.handle
         /\ Latest'.wentUp = Latest.wentUp
      /\ \A a \in Attempts : a > attempts => att'[a] = NewAttempt
  BY <1>1, <1>2 DEF CloseDisconnect, attemptVars, Latest, AttemptStory
<1>4. Others(t)
  BY <1>2, OthersStay DEF Moves
<1>5. AttemptStory'
  BY <1>1, <1>2, <1>3 DEF AttemptStory, Fields, ThreadStory, StartStory, CancelStory,
         QueueStory, Queued, Drained, None, ThreadHolds, Cancels
<1>6. QueueStory'
  BY <1>1, <1>2, <1>3 DEF QueueStory, Queued, Lost, None, Drained, AttemptStory, Fields,
         ThreadStory, StartStory, FinishStory, InConnect
<1>7. StateStory'
  BY <1>1, <1>2, <1>3, <1>4 DEF Others, StateStory, AttemptStory, QueueStory, Queued, Lost,
         Drained, None, NativeFails, Succeeded, Latest, ThreadStory, StartStory,
         CancelStory, RunningStory, FinishStory, EndStory, ThreadHolds, Connects, Cancels,
         InConnect, Running
<1>8. ASSUME NEW u \in Threads \ {t} PROVE ThreadStory(u)'
  <2>1. StartStory(u)'
    BY <1>1, <1>2, <1>3, <1>4, Pair DEF Others, ThreadStory, StartStory, EndStory,
           CancelStory, Drained, InConnect
  <2>2. CancelStory(u)'
    BY <1>1, <1>2, <1>3, <1>4, Pair DEF Others, ThreadStory, StartStory, CancelStory,
           FinishStory, ThreadHolds, Cancels, Connects, InConnect
  <2>3. RunningStory(u)' /\ FinishStory(u)'
    BY <1>1, <1>2, <1>3, <1>4, Pair DEF Others, ThreadStory, RunningStory, FinishStory,
           CancelStory, StartStory, NativeFails, InConnect, Running, Queued, Lost, None,
           QueueStory, AttemptStory
  <2>4. EndStory(u)'
    BY <1>1, <1>2, <1>4, Pair DEF Others, ThreadStory, EndStory, NativeFails, InConnect
  <2> QED BY <2>1, <2>2, <2>3, <2>4 DEF ThreadStory
<1>9. ThreadStory(t)'
  <2>1. StartStory(t)' /\ CancelStory(t)'
    BY <1>1, <1>2, <1>3 DEF ThreadStory, StartStory, CancelStory, ThreadHolds, Cancels,
           Drained, AttemptStory, InConnect, Connects
  <2>2. RunningStory(t)' /\ FinishStory(t)'
    BY <1>1, <1>2, <1>3 DEF ThreadStory, StartStory, RunningStory, FinishStory, CancelStory,
           NativeFails, InConnect, Running, Queued, Lost, None, QueueStory, AttemptStory,
           Drained, ThreadHolds, Connects, Cancels
  <2>3. EndStory(t)'
    BY <1>1, <1>2, <1>4, Pair DEF Others, ThreadStory, EndStory, NativeFails, InConnect,
           StateStory
  <2> QED BY <2>1, <2>2, <2>3 DEF ThreadStory
<1> QED BY <1>5, <1>6, <1>7, <1>8, <1>9 DEF LinkInv

LEMMA LinkRelease ==
    ASSUME ConnInv, LinkInv, ~overlapped, NEW t \in Threads, Moves(t), CloseRelease(t), pc'[t] = "kend"
    PROVE  LinkInv'
<1>1. /\ Fields /\ AttTypes /\ ThreadHolds(t) /\ ThreadStory(t)
      /\ AttemptStory /\ QueueStory /\ StateStory
      /\ cur[t] # 0 => cur[t] \in Attempts
      /\ attempts # 0 => attempts \in Attempts
  BY ConnectionAssumption DEF ConnInv, LinkInv, Fields, Attempts
<1>2. /\ pc[t] = "krelease" /\ pc'[t] = "kend"
      /\ cur'[t] = cur[t] /\ ret'[t] = ret[t]
      /\ UNCHANGED <<mode, faults, attempts, overlapped>>
      /\ UNCHANGED <<active, att, state, disconnected, status>>
      /\ UNCHANGED <<pending, handling, link>>
      /\ NativeFails \/ link = "down"
      /\ \A u \in Threads : ~InConnect(u)
  BY <1>1 DEF CloseRelease, Goto, Raise, Leave, ConnInv, ConnectsOver, EndStory, Fields,
         ThreadHolds, Connects, Cancels, InConnect, ThreadStory, StartStory, closeVars,
         attemptVars, setup, queueVars, nativeVars
<1>3. /\ attempts # 0 =>
         /\ Latest'.started = Latest.started
         /\ Latest'.done = Latest.done
         /\ Latest'.finished = Latest.finished
         /\ Latest'.terminal = Latest.terminal
         /\ Latest'.cancelling = Latest.cancelling
         /\ Latest'.cancelError = Latest.cancelError
         /\ Latest'.cancelFinished = Latest.cancelFinished
         /\ Latest'.handle = Latest.handle
         /\ Latest'.wentUp = Latest.wentUp
      /\ \A a \in Attempts : a > attempts => att'[a] = NewAttempt
  BY <1>1, <1>2 DEF CloseRelease, attemptVars, Latest, AttemptStory
<1>4. Others(t)
  BY <1>2, OthersStay DEF Moves
<1>5. AttemptStory'
  BY <1>1, <1>2, <1>3 DEF AttemptStory, Fields, ThreadStory, StartStory, CancelStory,
         QueueStory, Queued, Drained, None, ThreadHolds, Cancels
<1>6. QueueStory'
  BY <1>1, <1>2, <1>3 DEF QueueStory, Queued, Lost, None, Drained, AttemptStory, Fields,
         ThreadStory, StartStory, FinishStory, InConnect
<1>7. StateStory'
  BY <1>1, <1>2, <1>3, <1>4 DEF Others, StateStory, AttemptStory, QueueStory, Queued, Lost,
         Drained, None, NativeFails, Succeeded, Latest, ThreadStory, StartStory,
         CancelStory, RunningStory, FinishStory, EndStory, ThreadHolds, Connects, Cancels,
         InConnect, Running
<1>8. ASSUME NEW u \in Threads \ {t} PROVE ThreadStory(u)'
  <2>1. StartStory(u)'
    BY <1>1, <1>2, <1>3, <1>4, Pair DEF Others, ThreadStory, StartStory, EndStory,
           CancelStory, Drained, InConnect
  <2>2. CancelStory(u)'
    BY <1>1, <1>2, <1>3, <1>4, Pair DEF Others, ThreadStory, StartStory, CancelStory,
           FinishStory, ThreadHolds, Cancels, Connects, InConnect
  <2>3. RunningStory(u)' /\ FinishStory(u)'
    BY <1>1, <1>2, <1>3, <1>4, Pair DEF Others, ThreadStory, RunningStory, FinishStory,
           CancelStory, StartStory, NativeFails, InConnect, Running, Queued, Lost, None,
           QueueStory, AttemptStory
  <2>4. EndStory(u)'
    BY <1>1, <1>2, <1>4, Pair DEF Others, ThreadStory, EndStory, NativeFails, InConnect
  <2> QED BY <2>1, <2>2, <2>3, <2>4 DEF ThreadStory
<1>9. ThreadStory(t)'
  <2>1. StartStory(t)' /\ CancelStory(t)'
    BY <1>1, <1>2, <1>3 DEF ThreadStory, StartStory, CancelStory, ThreadHolds, Cancels,
           Drained, AttemptStory, InConnect, Connects
  <2>2. RunningStory(t)' /\ FinishStory(t)'
    BY <1>1, <1>2, <1>3 DEF ThreadStory, StartStory, RunningStory, FinishStory, CancelStory,
           NativeFails, InConnect, Running, Queued, Lost, None, QueueStory, AttemptStory,
           Drained, ThreadHolds, Connects, Cancels
  <2>3. EndStory(t)'
    BY <1>1, <1>2, <1>4, Pair DEF Others, ThreadStory, EndStory, NativeFails, InConnect,
           StateStory
  <2> QED BY <2>1, <2>2, <2>3 DEF ThreadStory
<1> QED BY <1>5, <1>6, <1>7, <1>8, <1>9 DEF LinkInv

LEMMA LinkCloseEnd ==
    ASSUME ConnInv, LinkInv, ~overlapped, NEW t \in Threads, Moves(t), CloseEnd(t)
    PROVE  LinkInv'
<1>1. /\ Fields /\ AttTypes /\ ThreadHolds(t) /\ ThreadStory(t)
      /\ AttemptStory /\ QueueStory /\ StateStory
      /\ cur[t] # 0 => cur[t] \in Attempts
      /\ attempts # 0 => attempts \in Attempts
  BY ConnectionAssumption DEF ConnInv, LinkInv, Fields, Attempts
<1>2. /\ pc[t] = "kend"
      /\ pc'[t] = "idle" /\ cur'[t] = 0 /\ ret'[t] = "idle"
      /\ UNCHANGED <<mode, faults, attempts, overlapped>>
      /\ UNCHANGED <<active, att, released, disconnected>>
      /\ UNCHANGED <<pending, handling, link>>
      /\ state' = "DISCONNECTED" /\ status' = "closed"
      /\ NativeFails \/ link = "down"
      /\ \A u \in Threads : ~InConnect(u)
  BY <1>1 DEF CloseEnd, Goto, Leave, Close!Succeed, ConnInv, ConnectsOver, EndStory, Fields,
         ThreadHolds, Connects, Cancels, InConnect, ThreadStory, StartStory, closeVars,
         attemptVars, setup, queueVars, nativeVars
<1>3. /\ attempts # 0 =>
         /\ Latest'.started = Latest.started
         /\ Latest'.done = Latest.done
         /\ Latest'.finished = Latest.finished
         /\ Latest'.terminal = Latest.terminal
         /\ Latest'.cancelling = Latest.cancelling
         /\ Latest'.cancelError = Latest.cancelError
         /\ Latest'.cancelFinished = Latest.cancelFinished
         /\ Latest'.handle = Latest.handle
         /\ Latest'.wentUp = Latest.wentUp
      /\ \A a \in Attempts : a > attempts => att'[a] = NewAttempt
  BY <1>1, <1>2 DEF CloseEnd, attemptVars, Latest, AttemptStory
<1>4. Others(t)
  BY <1>2, OthersStay DEF Moves
<1>5. AttemptStory'
  BY <1>1, <1>2, <1>3 DEF AttemptStory, Fields, ThreadStory, StartStory, CancelStory,
         QueueStory, Queued, Drained, None, ThreadHolds, Cancels
<1>6. QueueStory'
  BY <1>1, <1>2, <1>3 DEF QueueStory, Queued, Lost, None, Drained, AttemptStory, Fields,
         ThreadStory, StartStory, FinishStory, InConnect
<1>7. StateStory'
  BY <1>1, <1>2, <1>3, <1>4 DEF Others, StateStory, AttemptStory, QueueStory, Queued, Lost,
         Drained, None, NativeFails, Succeeded, Latest, ThreadStory, StartStory,
         CancelStory, RunningStory, FinishStory, EndStory, ThreadHolds, Connects, Cancels,
         InConnect, Running
<1>8. ASSUME NEW u \in Threads \ {t} PROVE ThreadStory(u)'
  <2>1. StartStory(u)'
    BY <1>1, <1>2, <1>3, <1>4, Pair DEF Others, ThreadStory, StartStory, EndStory,
           CancelStory, Drained, InConnect
  <2>2. CancelStory(u)'
    BY <1>1, <1>2, <1>3, <1>4, Pair DEF Others, ThreadStory, StartStory, CancelStory,
           FinishStory, ThreadHolds, Cancels, Connects, InConnect
  <2>3. RunningStory(u)' /\ FinishStory(u)'
    BY <1>1, <1>2, <1>3, <1>4, Pair DEF Others, ThreadStory, RunningStory, FinishStory,
           CancelStory, StartStory, NativeFails, InConnect, Running, Queued, Lost, None,
           QueueStory, AttemptStory
  <2>4. EndStory(u)'
    BY <1>1, <1>2, <1>4, Pair DEF Others, ThreadStory, EndStory, NativeFails, InConnect
  <2> QED BY <2>1, <2>2, <2>3, <2>4 DEF ThreadStory
<1>9. ThreadStory(t)'
  <2>1. StartStory(t)' /\ CancelStory(t)'
    BY <1>1, <1>2, <1>3 DEF ThreadStory, StartStory, CancelStory, ThreadHolds, Cancels,
           Drained, AttemptStory, InConnect, Connects
  <2>2. RunningStory(t)' /\ FinishStory(t)'
    BY <1>1, <1>2, <1>3 DEF ThreadStory, StartStory, RunningStory, FinishStory, CancelStory,
           NativeFails, InConnect, Running, Queued, Lost, None, QueueStory, AttemptStory,
           Drained, ThreadHolds, Connects, Cancels
  <2>3. EndStory(t)'
    BY <1>1, <1>2, <1>4, Pair DEF Others, ThreadStory, EndStory, NativeFails, InConnect,
           StateStory
  <2> QED BY <2>1, <2>2, <2>3 DEF ThreadStory
<1> QED BY <1>5, <1>6, <1>7, <1>8, <1>9 DEF LinkInv

\* close() goes on, waits for another one, or raises.
LEMMA LinkCloseGoes ==
    ASSUME ConnInv, LinkInv, ~overlapped, NEW t \in Threads, Moves(t),
           CloseBegin(t) \/ CloseJoin(t) \/ CloseJoined(t) \/ CloseWait(t) \/
           CloseChildren(t) \/ CloseDrain(t) \/ ((CloseDisconnect(t) \/
           CloseRelease(t)) /\ Raise(t))
    PROVE  LinkInv'
<1>1. /\ Fields /\ AttTypes /\ ThreadHolds(t) /\ ThreadStory(t) /\ Released
      /\ AttemptStory /\ QueueStory /\ StateStory
      /\ attempts # 0 => attempts \in Attempts
  BY ConnectionAssumption DEF ConnInv, LinkInv, Fields, Attempts
<1>2. /\ UNCHANGED <<mode, faults, attempts, overlapped, state, disconnected, active, att,
                     pending, handling, link, released>>
      /\ status' = "open" => status = "open"
      /\ Latest' = Latest
      /\ \A u \in Threads \ {t} : InConnect(u)' <=> InConnect(u)
  BY <1>1, OthersStay DEF CloseBegin, CloseJoin, CloseJoined, CloseWait, CloseChildren,
         CloseDrain, CloseDisconnect, CloseRelease, Moves, Others, Goto, Leave, Fields,
         Raise, Close!Fail, Close!BeginTeardown, Close!BeginWait, Close!Wake, Close!Leave,
         closeVars, attemptVars, setup, queueVars, nativeVars, Latest
<1>3. /\ ThreadStory(t)'
      /\ InConnect(t)' => InConnect(t)
      /\ pc[t] \in {"dbarrier", "dset"} => pc'[t] \in {"dbarrier", "dset"}
      /\ pc[t] = "dbarrier" => Drained
  <2> USE DEF Fields, ThreadHolds, Connects, Cancels, InConnect
  <2>1. CASE CloseBegin(t)
    <3>1. /\ pc[t] = "idle" /\ cur'[t] = active
          /\ \/ pc'[t] = "cancel" /\ active = attempts /\ attempts # 0 /\ ret'[t] = "kwait"
             \/ pc'[t] = "kchildren"
      BY <1>1, <2>1 DEF CloseBegin, Goto, Leave, Raise, AttemptStory
    <3> QED BY <1>1, <1>2, <3>1 DEF ThreadStory, StartStory, CancelStory, RunningStory,
                 FinishStory, EndStory, Running, Drained, Queued, Lost, NativeFails
  <2>2. CASE CloseJoin(t)
    <3>1. /\ pc[t] = "idle" /\ pc'[t] = "joined"
      BY <1>1, <2>2 DEF CloseJoin, Goto, Leave, Raise
    <3> QED BY <1>1, <1>2, <3>1 DEF ThreadStory, StartStory, CancelStory, RunningStory,
                 FinishStory, EndStory, Running, Drained, Queued, Lost, NativeFails
  <2>3. CASE CloseJoined(t)
    <3>1. /\ pc[t] = "joined"
          /\ pc'[t] = "idle" /\ cur'[t] = 0
      BY <1>1, <2>3 DEF CloseJoined, Goto, Leave, Raise
    <3> QED BY <1>1, <1>2, <3>1 DEF ThreadStory, StartStory, CancelStory, RunningStory,
                 FinishStory, EndStory, Running, Drained, Queued, Lost, NativeFails
  <2>4. CASE CloseWait(t)
    <3>1. /\ pc[t] = "kwait" /\ pc'[t] = "kchildren"
      BY <1>1, <2>4, Pair DEF CloseWait, Goto, Leave, Raise
    <3> QED BY <1>1, <1>2, <3>1 DEF ThreadStory, StartStory, CancelStory, RunningStory,
                 FinishStory, EndStory, Running, Drained, Queued, Lost, NativeFails
  <2>5. CASE CloseChildren(t)
    <3>1. /\ pc[t] = "kchildren"
          /\ \/ pc'[t] = "kdrain"
             \/ pc'[t] = "idle" /\ cur'[t] = 0
      BY <1>1, <2>5 DEF CloseChildren, Goto, Leave, Raise
    <3> QED BY <1>1, <1>2, <3>1 DEF ThreadStory, StartStory, CancelStory, RunningStory,
                 FinishStory, EndStory, Running, Drained, Queued, Lost, NativeFails
  <2>6. CASE CloseDrain(t)
    <3>1. /\ pc[t] = "kdrain" /\ pc'[t] \in {"kdisconnect", "krelease"}
          /\ pc'[t] = "krelease" /\ ~NativeFails => link = "down"
      BY <1>1, <2>6 DEF CloseDrain, Goto, Leave, Raise, StateStory
    <3> QED BY <1>1, <1>2, <3>1 DEF ThreadStory, StartStory, CancelStory, RunningStory,
                 FinishStory, EndStory, Running, Drained, Queued, Lost, NativeFails
  <2>7. CASE (CloseDisconnect(t) \/ CloseRelease(t)) /\ Raise(t)
    <3>1. /\ pc[t] \in {"kdisconnect", "krelease"}
          /\ pc'[t] = "idle" /\ cur'[t] = 0
      BY <1>1, <2>7 DEF CloseDisconnect, CloseRelease, Goto, Leave, Raise
    <3> QED BY <1>1, <1>2, <3>1 DEF ThreadStory, StartStory, CancelStory, RunningStory,
                 FinishStory, EndStory, Running, Drained, Queued, Lost, NativeFails
  <2> QED BY <2>1, <2>2, <2>3, <2>4, <2>5, <2>6, <2>7
<1> QED BY <1>2, <1>3, LinkQuiet
-----------------------------------------------------------------------------
(* What the handler, the SDK and the link do to the story.                 *)

\* What the story says of one thread.
LEMMA Single ==
    ASSUME ConnInv, LinkInv, ~overlapped, NEW u \in Threads
    PROVE  /\ ThreadStory(u) /\ ThreadHolds(u)
           /\ InConnect(u) => /\ active = attempts /\ attempts # 0 /\ ~Latest.finished
                              /\ ~shut /\ ~released
           /\ pc[u] \in CancelAt => attempts # 0 /\ Latest.cancelling
<1>1. ThreadStory(u) /\ ThreadHolds(u)
  BY DEF ConnInv, LinkInv
<1>2. pc[u] \in CancelAt => attempts # 0 /\ Latest.cancelling
  BY <1>1 DEF ThreadStory, StartStory, ThreadHolds, Cancels, Latest
<1>3. InConnect(u) => /\ active = attempts /\ attempts # 0 /\ ~Latest.finished
                      /\ ~shut /\ ~released
  BY <1>1 DEF ConnInv, ConnectsOver, ThreadStory, StartStory, ThreadHolds, Connects, InConnect,
         Latest
<1> QED BY <1>1, <1>2, <1>3

\* A record that ends the latest attempt touches nothing else of it.
LEMMA EventTaken ==
    ASSUME AttTypes, Fields, AttemptStory, attempts \in Attempts, attempts' = attempts,
           NEW r, att' = Update(attempts, r),
           "terminal" \in DOMAIN r, DOMAIN r \subseteq {"completed", "done", "terminal"}
    PROVE  /\ Latest'.started = Latest.started /\ Latest'.finished = Latest.finished
           /\ Latest'.cancelling = Latest.cancelling
           /\ Latest'.cancelError = Latest.cancelError
           /\ Latest'.cancelFinished = Latest.cancelFinished
           /\ Latest'.handle = Latest.handle /\ Latest'.wentUp = Latest.wentUp
           /\ Latest'.terminal = r["terminal"]
           /\ \A a \in Attempts : a > attempts => att'[a] = NewAttempt
<1>1. {"started", "finished", "cancelling", "cancelError", "cancelFinished", "handle", "wentUp"}
        \subseteq DOMAIN NewAttempt \ DOMAIN r
  BY DEF NewAttempt
<1>2. "terminal" \in DOMAIN NewAttempt
  BY DEF NewAttempt
<1>3. \A a \in Attempts : a > attempts => att'[a] = NewAttempt
  BY DEF Update, AttTypes, Fields, AttemptStory
<1>4. \A f \in DOMAIN NewAttempt \ DOMAIN r : Latest'[f] = Latest[f]
  BY LatestIs
<1>5. Latest'["terminal"] = r["terminal"]
  BY <1>2, LatestIs
<1> QED BY <1>1, <1>3, <1>4, <1>5

\* The queue hands over its event.
LEMMA LinkPop ==
    ASSUME ConnInv, LinkInv, ~overlapped, HandlePop
    PROVE  LinkInv'
<1>1. /\ Fields /\ AttTypes /\ Released /\ AttemptStory /\ QueueStory /\ StateStory
      /\ attempts # 0 => attempts \in Attempts
  BY ConnectionAssumption DEF ConnInv, LinkInv, Fields, Attempts
<1>2. /\ UNCHANGED <<state, disconnected, active, att, link, released>>
      /\ pending # None /\ handling = None
      /\ pending' = None /\ handling' = pending
      /\ UNCHANGED <<pc, cur, ret, mode, faults, attempts, overlapped, status>>
  BY <1>1 DEF HandlePop, Fields, closeVars, attemptVars, setup, queueVars, nativeVars,
         threadVars
<1>3. /\ attempts # 0 =>
         /\ Latest'.started = Latest.started
         /\ Latest'.done = Latest.done
         /\ Latest'.finished = Latest.finished
         /\ Latest'.terminal = Latest.terminal
         /\ Latest'.cancelling = Latest.cancelling
         /\ Latest'.cancelError = Latest.cancelError
         /\ Latest'.cancelFinished = Latest.cancelFinished
         /\ Latest'.handle = Latest.handle
         /\ Latest'.wentUp = Latest.wentUp
      /\ \A a \in Attempts : a > attempts => att'[a] = NewAttempt
  BY <1>1, <1>2 DEF HandlePop, attemptVars, Latest, AttemptStory
<1>5. AttemptStory'
  BY <1>1, <1>2, <1>3 DEF AttemptStory, Fields, QueueStory, Queued, Drained, None
<1>6. QueueStory'
  BY <1>1, <1>2, <1>3 DEF QueueStory, Queued, None, Drained, AttemptStory, Fields
<1>7. StateStory'
  BY <1>1, <1>2, <1>3 DEF StateStory, AttemptStory, QueueStory, Queued, Lost, Drained, None,
         NativeFails, Succeeded, Latest, Fields, Events
<1>8. ASSUME NEW u \in Threads PROVE ThreadStory(u)'
  <2>1. StartStory(u)'
    BY <1>1, <1>2, <1>3, Single DEF ThreadStory, StartStory, Drained, InConnect, None
  <2>2. CancelStory(u)'
    BY <1>1, <1>2, <1>3, Single DEF ThreadStory, CancelStory, None
  <2>3. RunningStory(u)'
    BY <1>1, <1>2, <1>3, Single DEF ThreadStory, RunningStory, NativeFails, InConnect,
           Running, Queued, Lost, None, QueueStory, AttemptStory
  <2>4. FinishStory(u)'
    BY <1>1, <1>2, <1>3, Single DEF ThreadStory, FinishStory, InConnect, Queued, None,
           AttemptStory, QueueStory
  <2>5. EndStory(u)'
    BY <1>1, <1>2, <1>3, Single DEF ThreadStory, EndStory, NativeFails, InConnect
  <2> QED BY <2>1, <2>2, <2>3, <2>4, <2>5 DEF ThreadStory
<1> QED BY <1>5, <1>6, <1>7, <1>8 DEF LinkInv

\* _handle_event, for the active attempt.
LEMMA LinkAttempt ==
    ASSUME ConnInv, LinkInv, ~overlapped, HandleAttempt
    PROVE  LinkInv'
<1>1. /\ Fields /\ AttTypes /\ Released /\ AttemptStory /\ QueueStory /\ StateStory
      /\ attempts # 0 => attempts \in Attempts
  BY ConnectionAssumption DEF ConnInv, LinkInv, Fields, Attempts
<1>2. /\ UNCHANGED <<disconnected, active, link, released, pending>>
      /\ active = attempts /\ attempts # 0 /\ handling # None /\ handling' = None
      /\ state' \in {state, handling}
      /\ UNCHANGED <<pc, cur, ret, mode, faults, attempts, overlapped, status>>
  BY <1>1 DEF HandleAttempt, AttemptStory, None, Fields, closeVars, attemptVars, setup,
         queueVars, nativeVars, threadVars
<1>3. /\ attempts # 0 =>
         /\ Latest'.started = Latest.started
         /\ Latest'.finished = Latest.finished
         /\ Latest'.cancelling = Latest.cancelling
         /\ Latest'.cancelError = Latest.cancelError
         /\ Latest'.cancelFinished = Latest.cancelFinished
         /\ Latest'.handle = Latest.handle
         /\ Latest'.wentUp = Latest.wentUp
         /\ Latest'.done => Latest.done \/ Latest'.terminal # None
         /\ handling = "DISCONNECTED" => Latest'.terminal = "failed"
         /\ \/ Latest'.terminal = Latest.terminal
            \/ Latest'.terminal = "ok" /\ Latest.terminal = None /\ handling = "CONNECTED"
            \/ handling = "DISCONNECTED"
      /\ \A a \in Attempts : a > attempts => att'[a] = NewAttempt
  <2> DEFINE ended == Takes(active, handling) /\ handling \in {"CONNECTED", "DISCONNECTED"}
  <2>1. CASE ~ended
    BY <1>1, <1>2, <2>1 DEF HandleAttempt, Takes, Latest, AttTypes, AttemptStory, Fields, Events
  <2>2. CASE ended
    <3> DEFINE r == [terminal |-> IF handling = "DISCONNECTED" THEN "failed" ELSE "ok",
                     done |-> TRUE]
    <3>1. /\ DOMAIN r = {"done", "terminal"}
          /\ r["terminal"] = IF handling = "DISCONNECTED" THEN "failed" ELSE "ok"
      OBVIOUS
    <3>2. att' = Update(attempts, r)
      BY <1>2, <2>2 DEF HandleAttempt
    <3>3. handling # "DISCONNECTED" => handling = "CONNECTED" /\ Latest.terminal = None
      BY <1>2, <2>2 DEF Takes, Latest
    <3> HIDE DEF r, ended
    <3> QED BY <1>1, <1>2, <3>1, <3>2, <3>3, EventTaken DEF None
  <2> QED BY <2>1, <2>2
<1>5. AttemptStory'
  BY <1>1, <1>2, <1>3 DEF AttemptStory, Fields, QueueStory, Queued, Drained, None
<1>6. QueueStory'
  BY <1>1, <1>2, <1>3 DEF QueueStory, Queued, None, Drained, AttemptStory, Fields
<1>7. StateStory'
  BY <1>1, <1>2, <1>3 DEF StateStory, AttemptStory, QueueStory, Queued, Lost, Drained, None,
         NativeFails, Succeeded, Latest, Fields, Events
<1>8. ASSUME NEW u \in Threads PROVE ThreadStory(u)'
  <2>1. StartStory(u)'
    BY <1>1, <1>2, <1>3, Single DEF ThreadStory, StartStory, Drained, InConnect, None
  <2>2. CancelStory(u)'
    BY <1>1, <1>2, <1>3, Single DEF ThreadStory, CancelStory, None
  <2>3. RunningStory(u)'
    BY <1>1, <1>2, <1>3, Single DEF ThreadStory, RunningStory, NativeFails, InConnect,
           Running, Queued, Lost, None, QueueStory, AttemptStory
  <2>4. FinishStory(u)'
    BY <1>1, <1>2, <1>3, Single DEF ThreadStory, FinishStory, InConnect, Queued, None,
           AttemptStory, QueueStory
  <2>5. EndStory(u)'
    BY <1>1, <1>2, <1>3, Single DEF ThreadStory, EndStory, NativeFails, InConnect
  <2> QED BY <2>1, <2>2, <2>3, <2>4, <2>5 DEF ThreadStory
<1> QED BY <1>5, <1>6, <1>7, <1>8 DEF LinkInv

\* _handle_event without an attempt.
LEMMA LinkState ==
    ASSUME ConnInv, LinkInv, ~overlapped, HandleState
    PROVE  LinkInv'
<1>1. /\ Fields /\ AttTypes /\ Released /\ AttemptStory /\ QueueStory /\ StateStory
      /\ attempts # 0 => attempts \in Attempts
  BY ConnectionAssumption DEF ConnInv, LinkInv, Fields, Attempts
<1>2. /\ UNCHANGED <<disconnected, active, att, link, released, pending>>
      /\ active = 0 /\ handling # None /\ handling' = None
      /\ state' = handling /\ handling # "CONNECTING"
      /\ UNCHANGED <<pc, cur, ret, mode, faults, attempts, overlapped, status>>
  BY <1>1 DEF HandleState, QueueStory, Queued, Fields, closeVars, attemptVars, setup,
         queueVars, nativeVars, threadVars
<1>3. /\ attempts # 0 =>
         /\ Latest'.started = Latest.started
         /\ Latest'.done = Latest.done
         /\ Latest'.finished = Latest.finished
         /\ Latest'.terminal = Latest.terminal
         /\ Latest'.cancelling = Latest.cancelling
         /\ Latest'.cancelError = Latest.cancelError
         /\ Latest'.cancelFinished = Latest.cancelFinished
         /\ Latest'.handle = Latest.handle
         /\ Latest'.wentUp = Latest.wentUp
      /\ \A a \in Attempts : a > attempts => att'[a] = NewAttempt
  BY <1>1, <1>2 DEF HandleState, attemptVars, Latest, AttemptStory
<1>5. AttemptStory'
  BY <1>1, <1>2, <1>3 DEF AttemptStory, Fields, QueueStory, Queued, Drained, None
<1>6. QueueStory'
  BY <1>1, <1>2, <1>3 DEF QueueStory, Queued, None, Drained, AttemptStory, Fields
<1>7. StateStory'
  <2>1. link = "down" /\ status = "open" /\ state' = "CONNECTED" =>
          Lost' \/ \E u \in Threads : pc'[u] \in {"dbarrier", "dset"}
    BY <1>1, <1>2 DEF StateStory, Queued, Lost
  <2>2. link = "down" /\ status = "open" /\ Queued("CONNECTED")' =>
          \E u \in Threads : pc'[u] = "dbarrier"
    BY <1>1, <1>2 DEF StateStory, Queued, None
  <2>3. ~NativeFails /\ link # "down" => state' \in {"CONNECTING", "CONNECTED"}
    BY <1>1, <1>2 DEF StateStory, QueueStory, Queued, Fields, Events
  <2>4. Succeeded(attempts)' <=> Succeeded(attempts)
    BY <1>2 DEF Succeeded
  <2> QED BY <1>1, <1>2, <1>3, <2>1, <2>2, <2>3, <2>4 DEF StateStory, NativeFails
<1>8. ASSUME NEW u \in Threads PROVE ThreadStory(u)'
  <2>1. StartStory(u)'
    BY <1>1, <1>2, <1>3, Single DEF ThreadStory, StartStory, Drained, InConnect, None
  <2>2. CancelStory(u)'
    BY <1>1, <1>2, <1>3, Single DEF ThreadStory, CancelStory, None
  <2>3. RunningStory(u)'
    BY <1>1, <1>2, <1>3, Single DEF ThreadStory, RunningStory, NativeFails, InConnect,
           Running, Queued, Lost, None, QueueStory, AttemptStory
  <2>4. FinishStory(u)'
    BY <1>1, <1>2, <1>3, Single DEF ThreadStory, FinishStory, InConnect, Queued, None,
           AttemptStory, QueueStory
  <2>5. EndStory(u)'
    BY <1>1, <1>2, <1>3, Single DEF ThreadStory, EndStory, NativeFails, InConnect
  <2> QED BY <2>1, <2>2, <2>3, <2>4, <2>5 DEF ThreadStory
<1> QED BY <1>5, <1>6, <1>7, <1>8 DEF LinkInv

\* _managed_complete.
LEMMA LinkComplete ==
    ASSUME ConnInv, LinkInv, ~overlapped, ManagedComplete
    PROVE  LinkInv'
<1>1. /\ Fields /\ AttTypes /\ Released /\ AttemptStory /\ QueueStory /\ StateStory
      /\ attempts # 0 => attempts \in Attempts
  BY ConnectionAssumption DEF ConnInv, LinkInv, Fields, Attempts
<1>2. /\ UNCHANGED <<state, disconnected, active, link, released, pending, handling>>
      /\ attempts # 0
      /\ UNCHANGED <<pc, cur, ret, mode, faults, attempts, overlapped, status>>
  BY <1>1 DEF ManagedComplete, Latest, Fields, closeVars, attemptVars, setup, queueVars,
         nativeVars, threadVars
<1>3. /\ attempts # 0 =>
         /\ Latest'.started = Latest.started
         /\ Latest'.finished = Latest.finished
         /\ Latest'.cancelling = Latest.cancelling
         /\ Latest'.cancelError = Latest.cancelError
         /\ Latest'.cancelFinished = Latest.cancelFinished
         /\ Latest'.handle = Latest.handle
         /\ Latest'.wentUp = Latest.wentUp
         /\ Latest'.done => Latest.done \/ Latest'.terminal # None
         /\ \/ Latest'.terminal = Latest.terminal
            \/ Latest'.terminal = "ok" /\ Latest.terminal = None /\ Latest.wentUp
            \/ Latest'.terminal = "failed" /\ link = "down"
      /\ \A a \in Attempts : a > attempts => att'[a] = NewAttempt
  <2>1. PICK code \in {"ok", "failed"} :
          /\ IF code = "ok" THEN Latest.wentUp ELSE link = "down"
          /\ \/ /\ Latest.terminal = None \/ (Latest.terminal = "ok" /\ code = "failed")
                /\ att' = Update(attempts, [completed |-> TRUE, terminal |-> code, done |-> TRUE])
             \/ att' = Update(attempts, [completed |-> TRUE])
    BY DEF ManagedComplete, Latest
  <2>2. CASE att' = Update(attempts, [completed |-> TRUE])
    <3>1. DOMAIN [completed |-> TRUE] = {"completed"}
      OBVIOUS
    <3>2. DOMAIN NewAttempt \ {"completed"} = DOMAIN NewAttempt \ DOMAIN [completed |-> TRUE]
      BY <3>1
    <3>3. {"started", "finished", "cancelling", "cancelError", "cancelFinished", "handle", "wentUp", "done", "terminal"} \subseteq DOMAIN NewAttempt \ {"completed"}
      BY DEF NewAttempt
    <3>4. \A a \in Attempts : a > attempts => att'[a] = NewAttempt
      BY <1>1, <1>2, <2>2 DEF Update, AttTypes, Fields, AttemptStory
    <3>5. \A f \in DOMAIN NewAttempt \ {"completed"} : Latest'[f] = Latest[f]
      BY <1>1, <1>2, <2>2, <3>2, LatestIs
    <3> QED BY <3>3, <3>4, <3>5
  <2>3. CASE /\ Latest.terminal = None \/ (Latest.terminal = "ok" /\ code = "failed")
             /\ att' = Update(attempts, [completed |-> TRUE, terminal |-> code, done |-> TRUE])
    <3> DEFINE r == [completed |-> TRUE, terminal |-> code, done |-> TRUE]
    <3>1. DOMAIN r = {"completed", "terminal", "done"} /\ r["terminal"] = code
      OBVIOUS
    <3>2. att' = Update(attempts, r)
      BY <2>3
    <3> HIDE DEF r
    <3> QED BY <1>1, <1>2, <2>1, <2>3, <3>1, <3>2, EventTaken DEF None
  <2> QED BY <2>1, <2>2, <2>3
<1>10. /\ Latest.handle
  BY <1>1, <1>2 DEF ManagedComplete, Latest, Fields
<1>5. AttemptStory'
  BY <1>1, <1>2, <1>3, <1>10 DEF AttemptStory, Fields, QueueStory, Queued, Drained, None
<1>6. QueueStory'
  BY <1>1, <1>2, <1>3, <1>10 DEF QueueStory, Queued, None, Drained, AttemptStory, Fields
<1>7. StateStory'
  BY <1>1, <1>2, <1>3, <1>10 DEF StateStory, AttemptStory, QueueStory, Queued, Lost,
         Drained, None, NativeFails, Succeeded, Latest, Fields, Events
<1>8. ASSUME NEW u \in Threads PROVE ThreadStory(u)'
  <2>1. StartStory(u)'
    BY <1>1, <1>2, <1>3, <1>10, Single DEF ThreadStory, StartStory, Drained, InConnect, None
  <2>2. CancelStory(u)'
    BY <1>1, <1>2, <1>3, <1>10, Single DEF ThreadStory, CancelStory, None
  <2>3. RunningStory(u)'
    BY <1>1, <1>2, <1>3, <1>10, Single DEF ThreadStory, RunningStory, NativeFails,
           InConnect, Running, Queued, Lost, None, QueueStory, AttemptStory
  <2>4. FinishStory(u)'
    BY <1>1, <1>2, <1>3, <1>10, Single DEF ThreadStory, FinishStory, InConnect, Queued,
           None, AttemptStory, QueueStory
  <2>5. EndStory(u)'
    BY <1>1, <1>2, <1>3, <1>10, Single DEF ThreadStory, EndStory, NativeFails, InConnect
  <2> QED BY <2>1, <2>2, <2>3, <2>4, <2>5 DEF ThreadStory
<1> QED BY <1>5, <1>6, <1>7, <1>8 DEF LinkInv

\* The link comes up, or is lost.
LEMMA LinkComesUp ==
    ASSUME ConnInv, LinkInv, ~overlapped, LinkUp
    PROVE  LinkInv'
<1>1. /\ Fields /\ AttTypes /\ Released /\ AttemptStory /\ QueueStory /\ StateStory
      /\ attempts # 0 => attempts \in Attempts
  BY ConnectionAssumption DEF ConnInv, LinkInv, Fields, Attempts
<1>2. /\ UNCHANGED <<state, disconnected, active, released, handling>>
      /\ attempts # 0 /\ link = "connecting" /\ link' = "up" /\ ~released
      /\ pending' \in {pending, "CONNECTED"}
      /\ UNCHANGED <<pc, cur, ret, mode, faults, attempts, overlapped, status>>
  BY <1>1 DEF LinkUp, Posted, QueueStory, AttemptStory, AttTypes, Latest, Fields, closeVars,
         attemptVars, setup, queueVars, nativeVars, threadVars
<1>3. /\ attempts # 0 =>
         /\ Latest'.started = Latest.started
         /\ Latest'.done = Latest.done
         /\ Latest'.finished = Latest.finished
         /\ Latest'.terminal = Latest.terminal
         /\ Latest'.cancelling = Latest.cancelling
         /\ Latest'.cancelError = Latest.cancelError
         /\ Latest'.cancelFinished = Latest.cancelFinished
         /\ Latest'.handle = Latest.handle
         /\ Latest'.wentUp
      /\ \A a \in Attempts : a > attempts => att'[a] = NewAttempt
  <2>1. DOMAIN [wentUp |-> TRUE] = {"wentUp"} /\ [wentUp |-> TRUE]["wentUp"] = TRUE
    OBVIOUS
  <2>2. att' = Update(attempts, [wentUp |-> TRUE])
    BY DEF LinkUp
  <2>3. {"started", "finished", "cancelling", "cancelError", "cancelFinished", "handle", "wentUp", "done", "terminal"} \subseteq DOMAIN NewAttempt
    BY DEF NewAttempt
  <2>4. \A a \in Attempts : a > attempts => att'[a] = NewAttempt
    BY <1>1, <1>2, <2>2 DEF Update, AttTypes, Fields, AttemptStory
  <2>5. /\ \A f \in DOMAIN NewAttempt \ {"wentUp"} : Latest'[f] = Latest[f]
        /\ Latest'["wentUp"]
    BY <1>1, <1>2, <2>1, <2>2, <2>3, LatestIs
  <2> QED BY <2>3, <2>4, <2>5
<1>10. /\ Latest.terminal = None
  BY <1>1, <1>2 DEF LinkUp, QueueStory, AttemptStory, AttTypes, Latest, Posted, Fields
<1>5. AttemptStory'
  BY <1>1, <1>2, <1>3, <1>10 DEF AttemptStory, Fields, QueueStory, Queued, Drained, None
<1>6. QueueStory'
  BY <1>1, <1>2, <1>3, <1>10 DEF QueueStory, Queued, None, Drained, AttemptStory, Fields
<1>7. StateStory'
  BY <1>1, <1>2, <1>3, <1>10 DEF StateStory, AttemptStory, QueueStory, Queued, Lost,
         Drained, None, NativeFails, Succeeded, Latest, Fields, Events
<1>8. ASSUME NEW u \in Threads PROVE ThreadStory(u)'
  <2>1. StartStory(u)'
    BY <1>1, <1>2, <1>3, <1>10, Single DEF ThreadStory, StartStory, Drained, InConnect, None
  <2>2. CancelStory(u)'
    BY <1>1, <1>2, <1>3, <1>10, Single DEF ThreadStory, CancelStory, None
  <2>3. RunningStory(u)'
    BY <1>1, <1>2, <1>3, <1>10, Single DEF ThreadStory, RunningStory, NativeFails,
           InConnect, Running, Queued, Lost, None, QueueStory, AttemptStory
  <2>4. FinishStory(u)'
    BY <1>1, <1>2, <1>3, <1>10, Single DEF ThreadStory, FinishStory, InConnect, Queued,
           None, AttemptStory, QueueStory
  <2>5. EndStory(u)'
    BY <1>1, <1>2, <1>3, <1>10, Single DEF ThreadStory, EndStory, NativeFails, InConnect
  <2> QED BY <2>1, <2>2, <2>3, <2>4, <2>5 DEF ThreadStory
<1> QED BY <1>5, <1>6, <1>7, <1>8 DEF LinkInv

LEMMA LinkIsLost ==
    ASSUME ConnInv, LinkInv, ~overlapped, LinkLost
    PROVE  LinkInv'
<1>1. /\ Fields /\ AttTypes /\ Released /\ AttemptStory /\ QueueStory /\ StateStory
      /\ attempts # 0 => attempts \in Attempts
  BY ConnectionAssumption DEF ConnInv, LinkInv, Fields, Attempts
<1>2. /\ UNCHANGED <<state, disconnected, active, att, released, handling>>
      /\ link # "down" /\ link' = "down" /\ ~released
      /\ pending' \in {pending, "DISCONNECTED"}
      /\ ~shut => pending' = "DISCONNECTED"
      /\ UNCHANGED <<pc, cur, ret, mode, faults, attempts, overlapped, status>>
  BY <1>1 DEF LinkLost, Posted, Fields, closeVars, attemptVars, setup, queueVars,
         nativeVars, threadVars
<1>3. /\ attempts # 0 =>
         /\ Latest'.started = Latest.started
         /\ Latest'.done = Latest.done
         /\ Latest'.finished = Latest.finished
         /\ Latest'.terminal = Latest.terminal
         /\ Latest'.cancelling = Latest.cancelling
         /\ Latest'.cancelError = Latest.cancelError
         /\ Latest'.cancelFinished = Latest.cancelFinished
         /\ Latest'.handle = Latest.handle
         /\ Latest'.wentUp = Latest.wentUp
      /\ \A a \in Attempts : a > attempts => att'[a] = NewAttempt
  BY <1>1, <1>2 DEF LinkLost, attemptVars, Latest, AttemptStory
<1>5. AttemptStory'
  BY <1>1, <1>2, <1>3 DEF AttemptStory, Fields, QueueStory, Queued, Drained, None
<1>6. QueueStory'
  BY <1>1, <1>2, <1>3 DEF QueueStory, Queued, None, Drained, AttemptStory, Fields
<1>7. StateStory'
  BY <1>1, <1>2, <1>3 DEF StateStory, AttemptStory, QueueStory, Queued, Lost, Drained, None,
         NativeFails, Succeeded, Latest, Fields, Events, Released
<1>8. ASSUME NEW u \in Threads PROVE ThreadStory(u)'
  <2>1. StartStory(u)'
    BY <1>1, <1>2, <1>3, Single DEF ThreadStory, StartStory, Drained, InConnect, None
  <2>2. CancelStory(u)'
    BY <1>1, <1>2, <1>3, Single DEF ThreadStory, CancelStory, None
  <2>3. RunningStory(u)'
    BY <1>1, <1>2, <1>3, Single DEF ThreadStory, RunningStory, NativeFails, InConnect,
           Running, Queued, Lost, None, QueueStory, AttemptStory
  <2>4. FinishStory(u)'
    BY <1>1, <1>2, <1>3, Single DEF ThreadStory, FinishStory, InConnect, Queued, None,
           AttemptStory, QueueStory
  <2>5. EndStory(u)'
    BY <1>1, <1>2, <1>3, Single DEF ThreadStory, EndStory, NativeFails, InConnect
  <2> QED BY <2>1, <2>2, <2>3, <2>4, <2>5 DEF ThreadStory
<1> QED BY <1>5, <1>6, <1>7, <1>8 DEF LinkInv

LEMMA LinkStutter ==
    ASSUME LinkInv, UNCHANGED vars
    PROVE  LinkInv'
BY DEF LinkInv, AttemptStory, QueueStory, StateStory, ThreadStory, StartStory, CancelStory,
       RunningStory, FinishStory, EndStory, Latest, Lost, Queued, Running, InConnect, Drained,
       Succeeded, NativeFails, vars, closeVars, setup, attemptVars, queueVars, nativeVars,
       threadVars
-----------------------------------------------------------------------------
(* The steps together.                                                     *)

LEMMA LinkConnectStep ==
    ASSUME ConnInv, LinkInv, ~overlapped, NEW t \in Threads, Moves(t),
           ConnectStep(t) \/ InterruptConnect(t)
    PROVE  LinkInv'
BY LinkStarted, LinkRefused, LinkWithdraw, LinkEnds, LinkFinish, LinkGoes DEF ConnectStep

LEMMA LinkCancelStep ==
    ASSUME ConnInv, LinkInv, ~overlapped, NEW t \in Threads, Moves(t), CancelStep(t)
    PROVE  LinkInv'
BY LinkClaim, LinkNothing, LinkManaged, LinkCancelDown, LinkCancelBarrier, LinkCancelEnd,
   LinkCancelFails, LinkCancelGoes DEF CancelStep

LEMMA LinkDisconnectStep ==
    ASSUME ConnInv, LinkInv, ~overlapped, NEW t \in Threads, Moves(t),
           Disconnect(t) \/ DisconnectStep(t)
    PROVE  LinkInv'
BY LinkDisconnectDown, LinkDisconnectSet, LinkDisconnectGoes DEF DisconnectStep

LEMMA LinkCloseStep ==
    ASSUME ConnInv, LinkInv, ~overlapped, NEW t \in Threads, Moves(t),
           CloseBegin(t) \/ CloseJoin(t) \/ CloseStep(t)
    PROVE  LinkInv'
<1>1. CASE CloseDisconnect(t)
  <2>1. pc'[t] = "krelease" \/ Raise(t)
    BY <1>1 DEF CloseDisconnect, Goto, ConnInv, Fields
  <2> QED BY <1>1, <2>1, LinkCloseDown, LinkCloseGoes
<1>2. CASE CloseRelease(t)
  <2>1. pc'[t] = "kend" \/ Raise(t)
    BY <1>2 DEF CloseRelease, Goto, ConnInv, Fields
  <2> QED BY <1>2, <2>1, LinkRelease, LinkCloseGoes
<1> QED BY <1>1, <1>2, LinkCloseEnd, LinkCloseGoes DEF CloseStep

\* A connect() that began too early is not forgotten.
LEMMA OverlapStays ==
    ASSUME [Next]_vars, overlapped
    PROVE  overlapped'
<1>1. ASSUME NEW t \in Threads, Call(t) \/ ConnectStep(t) \/ InterruptConnect(t)
      PROVE  overlapped'
  BY <1>1 DEF Call, BeginConnect, Disconnect, CloseBegin, CloseJoin, ConnectStep,
       NativeConnect, NativeConnectFails, Withdraw, Withdrawn, AwaitDone, Timeout,
       SettleFailed, Settle, SettleInUse, FinishBarrier, FinishConnect, InterruptConnect
<1>2. ASSUME NEW t \in Threads, CancelStep(t)
      PROVE  overlapped'
  BY <1>2 DEF CancelStep, CancelNotNeeded, CancelClaim, CancelJoin, CancelNothing,
       CancelManaged, CancelEnded, CancelDisconnect, CancelBarrier, CancelEnd, CancelFails
<1>3. ASSUME NEW t \in Threads, DisconnectStep(t) \/ CloseStep(t)
      PROVE  overlapped'
  BY <1>3 DEF DisconnectStep, DisconnectWait, DisconnectNative, DisconnectRaises,
       DisconnectBarrier, DisconnectSet, CloseStep, CloseJoined, CloseWait, CloseChildren,
       CloseDrain, CloseDisconnect, CloseRelease, CloseEnd
<1>4. Handle \/ ManagedComplete \/ LinkUp \/ LinkLost \/ UNCHANGED vars => overlapped'
  BY DEF Handle, HandlePop, HandleAttempt, HandleState, ManagedComplete, LinkUp, LinkLost, vars
<1> QED BY <1>1, <1>2, <1>3, <1>4 DEF Next, Continue

LEMMA LinkStep ==
    ASSUME ConnInv, CP!IInv, LinkInv, [Next]_vars
    PROVE  LinkInv'
<1>1. CASE overlapped
  BY <1>1, OverlapStays DEF LinkInv
<1>2. CASE ~overlapped
  <2>1. ASSUME NEW t \in Threads, Call(t) \/ Continue(t) \/ InterruptConnect(t)
        PROVE  LinkInv'
    <3>1. Moves(t)
      BY <2>1, ThreadMoves
    <3>2. CASE BeginConnect(t)
      <4>1. overlapped' => LinkInv'
        BY DEF LinkInv
      <4> QED BY <1>2, <3>1, <3>2, <4>1, LinkBegin
    <3> QED BY <1>2, <2>1, <3>1, <3>2, LinkConnectStep, LinkCancelStep, LinkDisconnectStep,
               LinkCloseStep DEF Call, Continue
  <2>2. Handle \/ ManagedComplete \/ LinkUp \/ LinkLost => LinkInv'
    BY <1>2, LinkPop, LinkAttempt, LinkState, LinkComplete, LinkComesUp, LinkIsLost DEF Handle
  <2> QED BY <2>1, <2>2, LinkStutter DEF Next
<1> QED BY <1>1, <1>2

\* As long as no connect() began before the session before it was over, the link,
\* the events under way, _state and the attempt tell one story.
THEOREM LinkInvariant == Spec => []LinkInv
<1>1. CP!IInv /\ ConnInv /\ LinkInv /\ [Next]_vars => LinkInv'
  BY LinkStep
<1> QED BY <1>1, LinkInit, CoordInvariant, ConnectionInvariant, PTL DEF Spec

\* A connect() that is about to raise, whatever made it fail, leaves no link.
THEOREM ConnectRaisesCleanly == Spec => []FailedConnectLeavesNoLink
<1>1. ConnInv /\ LinkInv => FailedConnectLeavesNoLink
  BY LinkSaysSo
<1> QED BY <1>1, ConnectionInvariant, LinkInvariant, PTL

\* Nor does close(), which decides by two fields that three other operations and
\* the event handler write, when no native call of a cancel or a teardown fails.
THEOREM NothingLeftBehind ==
    ASSUME \A f \in FaultSets : "native" \notin f
    PROVE  Spec => []NoLinkLeftBehind
<1>1. ConnInv /\ LinkInv => NoLinkLeftBehind
  BY LinkSaysSo DEF NoLinkLeftBehind, NativeFails, ConnInv, Fields
<1> QED BY <1>1, ConnectionInvariant, LinkInvariant, PTL

\* And what the application reads when nothing is under way is the state of the
\* link, in whatever order events, completion, deadline and cancel came.
THEOREM StateIsTheLinks ==
    ASSUME \A f \in FaultSets : "native" \notin f
    PROVE  Spec => []StateMatchesLink
<1>1. ConnInv /\ LinkInv => StateMatchesLink
  BY LinkSaysSo DEF NativeFails, ConnInv, Fields
<1> QED BY <1>1, ConnectionInvariant, LinkInvariant, PTL
=============================================================================
