----------------------------- MODULE Dispatcher -----------------------------
(***************************************************************************)
(* The private callback pool of the SDK (src/tirtc/_dispatch.py): one      *)
(* _Dispatcher per Connection, Output, Replay and ExportTask, all drained  *)
(* by the daemon worker threads of one _CallbackExecutor.                  *)
(*                                                                         *)
(* SDK threads call the sinks (_native_sink, _native_task_sink);           *)
(* application threads call barrier(), close() and, through a finalizer,   *)
(* discard(); workers take dispatchers from the executor's ready queue and *)
(* drain one event at a time.  A step of the model is one critical section *)
(* of a dispatcher's Condition, or one operation on the ready queue.       *)
(* Condition.wait() puts the caller in "asleep"; notify_all() removes it,  *)
(* and only then may it look at its predicate again.                       *)
(***************************************************************************)
EXTENDS Integers, Sequences, FiniteSets, SequencesExt

CONSTANTS
    Dispatchers,    \* one per object that delivers callbacks
    Workers,        \* the executor's threads (two in the code)
    SdkThreads,     \* native threads that enter the sinks
    AppThreads,     \* threads of the application
    Capacity,       \* _capacity (64 in the code)
    FrameCapacity,  \* _frame_capacity of each dispatcher (2 or 64)
    Emits,          \* the kinds the sink of each dispatcher receives
    StateValues,    \* payloads of the "latest" kinds
    Tasks,          \* callback tasks the native runtime may dispatch
    CallbackCloses, \* <<a, b>>: a callback of a may call b.close()
    Bound           \* <<o, p>>: output o is attached to p

LatestKinds   == {"state", "time"}
TerminalKinds == {"completed", "error", "native_task"}
PlainKinds    == {"command", "message"}
Kinds         == LatestKinds \cup TerminalKinds \cup PlainKinds \cup {"frame"}
Threads       == SdkThreads \cup AppThreads
Payloads      == StateValues \cup Tasks \cup {"none"}

\* A queued event: its kind, its payload and a frame's discontinuity flag.
Event == [kind : Kinds, val : Payloads, mark : BOOLEAN]

NoLoss == -1    \* value of the history variable sinceLoss

\* Values of registers that are not in use.
AnyDispatcher == CHOOSE d \in Dispatchers : TRUE
NoEvent       == [kind |-> "state", val |-> "none", mark |-> FALSE]

ASSUME CapacityAssumption ==
    /\ Capacity \in Nat \ {0}
    /\ FrameCapacity \in [Dispatchers -> Nat \ {0}]

ASSUME DispatcherAssumption == Dispatchers # {}

\* A task is a capsule and a state a number: they are told apart.
ASSUME PayloadAssumption == Tasks \cap (StateValues \cup {"none"}) = {}

ASSUME ThreadAssumption ==
    /\ SdkThreads \cap AppThreads = {}
    /\ Workers \cap Threads = {}

\* A Connection emits state, command and message; an Output state, error and
\* frames; a Replay or an ExportTask native tasks only.
ASSUME EmitsAssumption ==
    /\ Emits \in [Dispatchers -> SUBSET Kinds]
    /\ \A d \in Dispatchers : \A j, k \in Emits[d] \cap TerminalKinds : j = k

ASSUME CloseAssumption ==
    /\ CallbackCloses \subseteq Dispatchers \X Dispatchers
    /\ Bound \subseteq Dispatchers \X Dispatchers

VARIABLES
    closed, dropped, events, executing, frameCount, scheduled, \* _Dispatcher
    owned, alive,       \* the owner is referenced; its weak handler resolves
    ready,              \* _CallbackExecutor._ready
    wpc, wd, wev, wt,   \* worker: pc, dispatcher, event in hand, nested close
    tpc, td, ttask,     \* thread: pc, dispatcher, task it is posting
    asleep,             \* threads and workers inside Condition.wait()
    inside,             \* thread: dispatchers whose callback it runs itself
    newest,             \* history: newest accepted payload of a latest kind
    sinceLoss,          \* history: frames accepted since an unreported loss
    dispatched, runs    \* history: tasks handed to a sink, and their runs

queueVars  == <<closed, dropped, events, executing, frameCount, scheduled>>
ownerVars  == <<owned, alive>>
workerVars == <<wpc, wd, wev, wt>>
threadVars == <<tpc, td, ttask>>
frameVars  == <<newest, sinceLoss>>
taskVars   == <<inside, dispatched, runs>>
vars == <<queueVars, ownerVars, ready, workerVars, threadVars, asleep,
          frameVars, taskVars>>

-----------------------------------------------------------------------------
(* Predicates of the three waits, and notify_all().                        *)

CloseBlockedByQueue(d) == events[d] # <<>>  \* mutant: close() ignores _executing
CloseBlocked(d)   == executing[d] \/ events[d] # <<>>
BarrierBlocked(d) == executing[d] \/ events[d] # <<>> \/ scheduled[d]
TaskBlocked(d)    == ~closed[d] /\ Len(events[d]) >= Capacity

WaitingOn(d) ==
    {t \in Threads : tpc[t] \in {"ntask", "barrier", "closing"} /\ td[t] = d}
    \cup {w \in Workers : wpc[w] = "nested" /\ wt[w] = d}

NotifyNobody(d) == asleep           \* mutant: notify_all() forgotten

Notify(d) == asleep \ WaitingOn(d)

\* The events of one kind in a queue: where they are, how many, in order.
Positions(q, k) == {i \in DOMAIN q : q[i].kind = k}
Count(q, k) == Cardinality(Positions(q, k))
OfKindNone(q, k) == <<>>            \* mutant: discard() keeps nothing
OfKind(q, k) ==
    [j \in 1 .. Count(q, k) |->
        q[CHOOSE i \in Positions(q, k) :
            Cardinality({x \in Positions(q, k) : x < i}) = j - 1]]

Init ==
    /\ closed = [d \in Dispatchers |-> FALSE]
    /\ dropped = [d \in Dispatchers |-> FALSE]
    /\ events = [d \in Dispatchers |-> <<>>]
    /\ executing = [d \in Dispatchers |-> FALSE]
    /\ frameCount = [d \in Dispatchers |-> 0]
    /\ scheduled = [d \in Dispatchers |-> FALSE]
    /\ owned = [d \in Dispatchers |-> TRUE]
    /\ alive = [d \in Dispatchers |-> TRUE]
    /\ ready = <<>>
    /\ wpc = [w \in Workers |-> "idle"]
    /\ wd = [w \in Workers |-> AnyDispatcher]
    /\ wev = [w \in Workers |-> NoEvent]
    /\ wt = [w \in Workers |-> AnyDispatcher]
    /\ tpc = [t \in Threads |-> "idle"]
    /\ td = [t \in Threads |-> AnyDispatcher]
    /\ ttask = [t \in Threads |-> "none"]
    /\ asleep = {}
    /\ inside = [t \in Threads |-> {}]
    /\ newest = [d \in Dispatchers |-> [k \in LatestKinds |-> "none"]]
    /\ sinceLoss = [d \in Dispatchers |-> NoLoss]
    /\ dispatched = {}
    /\ runs = [k \in Tasks |-> 0]

-----------------------------------------------------------------------------
(* _Dispatcher.post, reached through _native_sink.  A closed dispatcher     *)
(* refuses every event, so each case below has ~closed[d].                 *)

\* What the sink of d may be called with.
Offers(d) ==
    {e \in Event : /\ e.kind \in Emits[d] \ {"native_task"}
                   /\ IF e.kind \in LatestKinds THEN e.val \in StateValues
                                                ELSE e.val = "none"
                   /\ e.mark => e.kind = "frame"}

\* Mutant: a state event never replaces a pending one.
ReplaceableNever(d, k) == {}

\* Positions an event of a latest kind overwrites.
Replaceable(d, k) ==
    {i \in DOMAIN events[d] : k \in LatestKinds /\ events[d][i].kind = k}

Evictable(d) ==
    {i \in DOMAIN events[d] : events[d][i].kind \notin TerminalKinds}

\* A queue at capacity whose events are all terminal takes one more event
\* only if it is terminal and the first of its kind.
Rejected(d, e) ==
    /\ Len(events[d]) >= Capacity
    /\ Evictable(d) = {}
    /\ \/ e.kind \notin TerminalKinds
       \/ \E i \in DOMAIN events[d] : events[d][i].kind = e.kind

\* A frame finds the frame budget or the queue exhausted.
FrameRefused(d) ==
    frameCount[d] >= FrameCapacity[d] \/ Len(events[d]) >= Capacity

\* Mutant: every post puts the dispatcher on the ready queue.
ScheduleAlways(t, d) ==
    /\ scheduled' = [scheduled EXCEPT ![d] = TRUE]
    /\ tpc' = [tpc EXCEPT ![t] = "sched"]
    /\ td' = [td EXCEPT ![t] = d]

\* Set scheduled; the caller puts d on the ready queue after the unlock.
Schedule(t, d) ==
    /\ scheduled' = [scheduled EXCEPT ![d] = TRUE]
    /\ tpc' = [tpc EXCEPT ![t] = IF scheduled[d] THEN "idle" ELSE "sched"]
    /\ td' = [td EXCEPT ![t] = IF scheduled[d] THEN AnyDispatcher ELSE d]

\* The newest event of a latest kind replaces the last pending one in place.
PostReplace(d, e) ==
    /\ ~closed[d]
    /\ Replaceable(d, e.kind) # {}
    /\ events' = [events EXCEPT ![d] =
                    ReplaceAt(@, Max(Replaceable(d, e.kind)), e)]
    /\ newest' = [newest EXCEPT ![d][e.kind] = e.val]
    /\ UNCHANGED <<closed, dropped, executing, frameCount, scheduled, ownerVars,
                   ready, workerVars, threadVars, asleep, sinceLoss, taskVars>>

\* Mutant: a frame is refused without remembering the loss.
PostDropSilently(d, e) ==
    /\ ~closed[d]
    /\ e.kind = "frame"
    /\ FrameRefused(d)
    /\ sinceLoss' = [sinceLoss EXCEPT ![d] = IF alive[d] THEN 0 ELSE NoLoss]
    /\ UNCHANGED <<queueVars, ownerVars, ready, workerVars, threadVars, asleep,
                   newest, taskVars>>

PostDropFrame(d, e) ==
    /\ ~closed[d]
    /\ e.kind = "frame"
    /\ FrameRefused(d)
    /\ dropped' = [dropped EXCEPT ![d] = TRUE]
    /\ sinceLoss' = [sinceLoss EXCEPT ![d] = IF alive[d] THEN 0 ELSE NoLoss]
    /\ UNCHANGED <<closed, events, executing, frameCount, scheduled, ownerVars,
                   ready, workerVars, threadVars, asleep, newest, taskVars>>

\* The queue an accepted event is appended to: when it is full, without its
\* first event that is not terminal.
Room(d) ==
    IF Len(events[d]) >= Capacity /\ Evictable(d) # {}
      THEN RemoveAt(events[d], Min(Evictable(d)))
      ELSE events[d]

\* Mutant: an evicted frame stays counted in _frame_count.
EvictsUncounted(d) == FALSE

EvictsFrame(d) ==
    /\ Len(events[d]) >= Capacity
    /\ Evictable(d) # {}
    /\ events[d][Min(Evictable(d))].kind = "frame"

PostAppend(t, d, e) ==
    /\ ~closed[d]
    /\ Replaceable(d, e.kind) = {}
    /\ e.kind = "frame" => ~FrameRefused(d)
    /\ ~Rejected(d, e)
    /\ LET frame == e.kind = "frame"
           entry == [e EXCEPT !.mark = @ \/ (frame /\ dropped[d])]
       IN  /\ events' = [events EXCEPT ![d] = Append(Room(d), entry)]
           /\ dropped' = [dropped EXCEPT ![d] = ~frame /\ (@ \/ EvictsFrame(d))]
           /\ frameCount' = [frameCount EXCEPT ![d] =
                               IF frame THEN @ + 1
                               ELSE IF EvictsFrame(d) THEN @ - 1 ELSE @]
           /\ newest' = [newest EXCEPT ![d] =
                           [k \in LatestKinds |-> IF k = e.kind THEN e.val ELSE @[k]]]
           /\ sinceLoss' = [sinceLoss EXCEPT ![d] =
                              IF frame THEN IF @ = NoLoss THEN NoLoss ELSE @ + 1
                              ELSE IF EvictsFrame(d) /\ alive[d] THEN 0 ELSE @]
    /\ Schedule(t, d)
    /\ UNCHANGED <<closed, executing, ownerVars, ready, workerVars, ttask,
                   asleep, taskVars>>

Post(t) ==
    /\ tpc[t] = "idle" /\ inside[t] = {}
    /\ \E d \in Dispatchers : \E e \in Offers(d) :
          PostReplace(d, e) \/ PostDropFrame(d, e) \/ PostAppend(t, d, e)

-----------------------------------------------------------------------------
(* _Dispatcher.post_native_task, reached through _native_task_sink, and the *)
(* native hand-off around it: a task the sink does not keep is run by the   *)
(* destructor of its capsule, on the SDK thread.  The task calls the sink   *)
(* with the event it carries, and the sink calls the handler at once, with  *)
(* no look at closed: this callback is outside the pool.                    *)

\* Mutant: a refused task is dropped.
TaskRejectDrops(t, d, k) ==
    /\ closed[d]
    /\ tpc' = [tpc EXCEPT ![t] = "idle"]
    /\ td' = [td EXCEPT ![t] = AnyDispatcher]
    /\ ttask' = [ttask EXCEPT ![t] = "none"]
    /\ UNCHANGED <<queueVars, asleep, runs>>

TaskReject(t, d, k) ==
    /\ closed[d]
    /\ runs' = [runs EXCEPT ![k] = @ + 1]
    /\ tpc' = [tpc EXCEPT ![t] = "task"]
    /\ td' = [td EXCEPT ![t] = d]
    /\ ttask' = [ttask EXCEPT ![t] = "none"]
    /\ UNCHANGED <<queueVars, asleep>>

TaskWait(t, d, k) ==
    /\ TaskBlocked(d)
    /\ tpc' = [tpc EXCEPT ![t] = "ntask"]
    /\ td' = [td EXCEPT ![t] = d]
    /\ ttask' = [ttask EXCEPT ![t] = k]
    /\ asleep' = asleep \cup {t}
    /\ UNCHANGED <<queueVars, runs>>

TaskAppend(t, d, k) ==
    /\ ~closed[d]
    /\ ~TaskBlocked(d)
    /\ events' = [events EXCEPT ![d] =
                    Append(@, [kind |-> "native_task", val |-> k, mark |-> FALSE])]
    /\ Schedule(t, d)
    /\ ttask' = [ttask EXCEPT ![t] = "none"]
    /\ UNCHANGED <<closed, dropped, executing, frameCount, asleep, runs>>

TaskStep(t, d, k) ==
    /\ TaskReject(t, d, k) \/ TaskWait(t, d, k) \/ TaskAppend(t, d, k)
    /\ UNCHANGED <<ownerVars, ready, workerVars, frameVars>>

PostNativeTask(t) ==
    /\ tpc[t] = "idle" /\ inside[t] = {}
    /\ \E d \in Dispatchers, k \in Tasks \ dispatched :
          /\ "native_task" \in Emits[d]
          /\ dispatched' = dispatched \cup {k}
          /\ TaskStep(t, d, k)
    /\ UNCHANGED inside

ResumeTask(t) ==
    /\ tpc[t] = "ntask"
    /\ t \notin asleep
    /\ TaskStep(t, td[t], ttask[t])
    /\ UNCHANGED <<inside, dispatched>>

\* The refused task calls the sink, which calls the handler if it is alive.
RefusedCallback(t) ==
    /\ tpc[t] = "task"
    /\ inside' = [inside EXCEPT ![t] = IF alive[td[t]] THEN {td[t]} ELSE {}]
    /\ tpc' = [tpc EXCEPT ![t] = "idle"]
    /\ td' = [td EXCEPT ![t] = AnyDispatcher]
    /\ UNCHANGED <<queueVars, ownerVars, ready, workerVars, ttask, asleep, frameVars,
                   dispatched, runs>>

RefusedReturn(t) ==
    /\ tpc[t] = "idle"
    /\ inside[t] # {}
    /\ inside' = [inside EXCEPT ![t] = {}]
    /\ UNCHANGED <<queueVars, ownerVars, ready, workerVars, threadVars, asleep,
                   frameVars, dispatched, runs>>

\* _CallbackExecutor.schedule, after the poster has released the lock.
PutReady(t) ==
    /\ tpc[t] = "sched"
    /\ ready' = Append(ready, td[t])
    /\ tpc' = [tpc EXCEPT ![t] = "idle"]
    /\ td' = [td EXCEPT ![t] = AnyDispatcher]
    /\ UNCHANGED <<queueVars, ownerVars, workerVars, ttask, asleep, frameVars,
                   taskVars>>

-----------------------------------------------------------------------------
(* barrier(), close(), and the finalizer's discard().                      *)

\* Test a wait's predicate under the lock: sleep (again), or return.
WaitStep(t, d, pc, blocked, base) ==
    /\ tpc' = [tpc EXCEPT ![t] = IF blocked THEN pc ELSE "idle"]
    /\ td' = [td EXCEPT ![t] = IF blocked THEN d ELSE AnyDispatcher]
    /\ asleep' = IF blocked THEN base \cup {t} ELSE base

Barrier(t) ==
    /\ tpc[t] = "idle"
    /\ \E d \in Dispatchers :
          /\ owned[d]
          /\ WaitStep(t, d, "barrier", BarrierBlocked(d), asleep)
    /\ UNCHANGED <<queueVars, ownerVars, ready, workerVars, ttask, frameVars,
                   taskVars>>

\* close() by the owner, or at the end of its finalizer.
Close(t) ==
    /\ \E d \in Dispatchers :
          /\ \/ tpc[t] = "idle" /\ owned[d]
             \/ tpc[t] \in {"del", "fin"} /\ td[t] = d
          /\ closed' = [closed EXCEPT ![d] = TRUE]
          /\ WaitStep(t, d, "closing", CloseBlocked(d), Notify(d))
    /\ UNCHANGED <<dropped, events, executing, frameCount, scheduled, ownerVars,
                   ready, workerVars, ttask, frameVars, taskVars>>

ResumeWait(t) ==
    /\ tpc[t] \in {"barrier", "closing"}
    /\ t \notin asleep
    /\ WaitStep(t, td[t], tpc[t],
                IF tpc[t] = "closing" THEN CloseBlocked(td[t])
                                      ELSE BarrierBlocked(td[t]), asleep)
    /\ UNCHANGED <<queueVars, ownerVars, ready, workerVars, ttask, frameVars,
                   taskVars>>

\* The last reference to the owner of d goes away while nobody is inside one
\* of its methods or callbacks; its __del__ starts on this thread.  The cycle
\* collector clears weak references first, plain deallocation does not.
Collect(t) ==
    /\ tpc[t] = "idle"
    /\ \E d \in Dispatchers :
          /\ owned[d]
          /\ \A u \in Threads :
                tpc[u] \in {"barrier", "closing"} => td[u] # d
          /\ \A w \in Workers : /\ wpc[w] \in {"run", "nested"} => wd[w] # d
                                /\ wpc[w] = "nested" => wt[w] # d
          /\ \A u \in Threads : d \notin inside[u]
          /\ owned' = [owned EXCEPT ![d] = FALSE]
          /\ \E b \in BOOLEAN :
                /\ alive' = [alive EXCEPT ![d] = b]
                /\ sinceLoss' = [sinceLoss EXCEPT ![d] = IF b THEN @ ELSE NoLoss]
          /\ tpc' = [tpc EXCEPT ![t] = "del"]
          /\ td' = [td EXCEPT ![t] = d]
    /\ UNCHANGED <<queueVars, ready, workerVars, ttask, asleep, newest, taskVars>>

\* discard(), the first thing the finalizer of an Output or a Replay does; a
\* Connection's or an ExportTask's goes straight to close().
Discard(t) ==
    /\ tpc[t] = "del"
    /\ LET d    == td[t]
           kept == OfKind(events[d], "native_task")
       IN  /\ closed' = [closed EXCEPT ![d] = TRUE]
           /\ events' = [events EXCEPT ![d] = kept]
           /\ frameCount' = [frameCount EXCEPT ![d] = 0]
           /\ scheduled' = [scheduled EXCEPT ![d] =
                              @ /\ (kept # <<>> \/ executing[d])]
           /\ asleep' = Notify(d)
           /\ sinceLoss' = [sinceLoss EXCEPT ![d] = NoLoss]
    /\ tpc' = [tpc EXCEPT ![t] = "fin"]
    /\ UNCHANGED <<dropped, executing, ownerVars, ready, workerVars, td, ttask,
                   newest, taskVars>>

-----------------------------------------------------------------------------
(* A worker: _CallbackExecutor._run and _Dispatcher._drain_one.            *)

Take(w) ==
    /\ wpc[w] = "idle"
    /\ ready # <<>>
    /\ ready' = Tail(ready)
    /\ wpc' = [wpc EXCEPT ![w] = "got"]
    /\ wd' = [wd EXCEPT ![w] = Head(ready)]
    /\ UNCHANGED <<queueVars, ownerVars, wev, wt, threadVars, asleep, frameVars,
                   taskVars>>

\* Nothing is queued: return without notify_all().
DrainEmpty(w) ==
    /\ wpc[w] = "got"
    /\ events[wd[w]] = <<>>
    /\ scheduled' = [scheduled EXCEPT ![wd[w]] = FALSE]
    /\ wpc' = [wpc EXCEPT ![w] = "idle"]
    /\ wd' = [wd EXCEPT ![w] = AnyDispatcher]
    /\ UNCHANGED <<closed, dropped, events, executing, frameCount, ownerVars,
                   ready, wev, wt, threadVars, asleep, frameVars, taskVars>>

DrainPop(w) ==
    /\ wpc[w] = "got"
    /\ LET d == wd[w]
       IN  /\ events[d] # <<>>
           /\ events' = [events EXCEPT ![d] = Tail(@)]
           /\ frameCount' = [frameCount EXCEPT ![d] =
                               IF Head(events[d]).kind = "frame" THEN @ - 1 ELSE @]
           /\ executing' = [executing EXCEPT ![d] = TRUE]
           /\ wev' = [wev EXCEPT ![w] = Head(events[d])]
           /\ wpc' = [wpc EXCEPT ![w] = "popped"]
           /\ asleep' = Notify(d)
    /\ UNCHANGED <<closed, dropped, scheduled, ownerVars, ready, wd, wt,
                   threadVars, frameVars, taskVars>>

\* The task runs whether or not the weak handler is alive; the handler is
\* called if it is.
HandlerEnter(w) ==
    /\ wpc[w] = "popped"
    /\ wev[w].kind = "native_task" \/ alive[wd[w]]
    /\ wpc' = [wpc EXCEPT ![w] = "run"]
    /\ runs' = [k \in Tasks |-> IF wev[w].kind = "native_task" /\ wev[w].val = k
                                  THEN runs[k] + 1 ELSE runs[k]]
    /\ sinceLoss' = [sinceLoss EXCEPT ![wd[w]] =
                       IF /\ wev[w].kind = "frame"
                          /\ @ > Count(events[wd[w]], "frame")
                         THEN NoLoss ELSE @]
    /\ UNCHANGED <<queueVars, ownerVars, ready, wd, wev, wt, threadVars, asleep,
                   newest, inside, dispatched>>

\* Mutant: _drain_one does not schedule itself again.
HandlerReturnForgets(w) ==
    /\ \/ wpc[w] = "run"
       \/ wpc[w] = "popped" /\ wev[w].kind # "native_task" /\ ~alive[wd[w]]
    /\ executing' = [executing EXCEPT ![wd[w]] = FALSE]
    /\ wpc' = [wpc EXCEPT ![w] = "idle"]
    /\ wd' = [wd EXCEPT ![w] = AnyDispatcher]
    /\ wev' = [wev EXCEPT ![w] = NoEvent]
    /\ asleep' = Notify(wd[w])
    /\ UNCHANGED <<closed, dropped, events, frameCount, scheduled, ownerVars, ready,
                   wt, threadVars, frameVars, taskVars>>

\* The handler has returned or raised, or was gone.
HandlerReturn(w) ==
    /\ \/ wpc[w] = "run"
       \/ wpc[w] = "popped" /\ wev[w].kind # "native_task" /\ ~alive[wd[w]]
    /\ LET d       == wd[w]
           pending == events[d] # <<>>
       IN  /\ executing' = [executing EXCEPT ![d] = FALSE]
           /\ scheduled' = [scheduled EXCEPT ![d] = @ /\ pending]
           /\ wpc' = [wpc EXCEPT ![w] = IF pending THEN "resched" ELSE "idle"]
           /\ wd' = [wd EXCEPT ![w] = IF pending THEN d ELSE AnyDispatcher]
           /\ wev' = [wev EXCEPT ![w] = NoEvent]
           /\ asleep' = Notify(d)
    /\ UNCHANGED <<closed, dropped, events, frameCount, ownerVars, ready, wt,
                   threadVars, frameVars, taskVars>>

Reschedule(w) ==
    /\ wpc[w] = "resched"
    /\ ready' = Append(ready, wd[w])
    /\ wpc' = [wpc EXCEPT ![w] = "idle"]
    /\ wd' = [wd EXCEPT ![w] = AnyDispatcher]
    /\ UNCHANGED <<queueVars, ownerVars, wev, wt, threadVars, asleep, frameVars,
                   taskVars>>

\* The close() of an object is refused in its own callback and in those of
\* the object it is attached to, or that is attached to it.
Related(a, b) == a = b \/ <<a, b>> \in Bound \/ <<b, a>> \in Bound

NestedWait(w, d, base) ==
    /\ wpc' = [wpc EXCEPT ![w] = IF CloseBlocked(d) THEN "nested" ELSE "run"]
    /\ wt' = [wt EXCEPT ![w] = IF CloseBlocked(d) THEN d ELSE AnyDispatcher]
    /\ asleep' = IF CloseBlocked(d) THEN base \cup {w} ELSE base
    /\ UNCHANGED <<dropped, events, executing, frameCount, scheduled, ownerVars,
                   ready, wd, wev, threadVars, frameVars, taskVars>>

\* A callback calls another object's close().
NestedClose(w) ==
    /\ wpc[w] = "run"
    /\ alive[wd[w]]
    /\ \E d \in Dispatchers :
          /\ <<wd[w], d>> \in CallbackCloses
          /\ owned[d]
          /\ ~Related(wd[w], d)
          /\ closed' = [closed EXCEPT ![d] = TRUE]
          /\ NestedWait(w, d, Notify(d))

\* So does one that runs outside the pool.
RefusedClose(t) ==
    /\ tpc[t] = "idle"
    /\ \E c \in inside[t], d \in Dispatchers :
          /\ <<c, d>> \in CallbackCloses
          /\ owned[d]
          /\ ~Related(c, d)
          /\ closed' = [closed EXCEPT ![d] = TRUE]
          /\ WaitStep(t, d, "closing", CloseBlocked(d), Notify(d))
    /\ UNCHANGED <<dropped, events, executing, frameCount, scheduled, ownerVars,
                   ready, workerVars, ttask, frameVars, taskVars>>

NestedResume(w) ==
    /\ wpc[w] = "nested"
    /\ w \notin asleep
    /\ NestedWait(w, wt[w], asleep)
    /\ UNCHANGED closed

-----------------------------------------------------------------------------
SdkStep(t) == Post(t) \/ PostNativeTask(t) \/ RefusedClose(t)

AppStep(t) == Barrier(t) \/ Close(t) \/ Collect(t) \/ Discard(t)

\* What a thread does once it is inside a call.
ThreadContinue(t) ==
    ResumeTask(t) \/ RefusedCallback(t) \/ RefusedReturn(t) \/ PutReady(t)
     \/ ResumeWait(t)

WorkerStep(w) ==
    \/ Take(w) \/ DrainEmpty(w) \/ DrainPop(w) \/ HandlerEnter(w)
    \/ HandlerReturn(w) \/ Reschedule(w) \/ NestedResume(w)

Next ==
    \/ \E t \in SdkThreads : SdkStep(t)
    \/ \E t \in AppThreads : AppStep(t)
    \/ \E t \in Threads : ThreadContinue(t)
    \/ \E w \in Workers : WorkerStep(w) \/ NestedClose(w)

Spec == Init /\ [][Next]_vars

\* The workers run, callbacks return, and a thread inside a call or a
\* finalizer goes on when it can.
Fairness ==
    /\ \A w \in Workers : WF_vars(WorkerStep(w))
    /\ \A t \in Threads : WF_vars(ThreadContinue(t))
    /\ \A t \in AppThreads : WF_vars(tpc[t] \in {"del", "fin"} /\ Close(t))

FairSpec == Spec /\ Fairness

-----------------------------------------------------------------------------
(* Properties.                                                             *)

\* Type correctness of the dispatcher's state.
TypeOK ==
    /\ closed \in [Dispatchers -> BOOLEAN]
    /\ dropped \in [Dispatchers -> BOOLEAN]
    /\ events \in [Dispatchers -> Seq(Event)]
    /\ executing \in [Dispatchers -> BOOLEAN]
    /\ frameCount \in [Dispatchers -> Int]
    /\ scheduled \in [Dispatchers -> BOOLEAN]
    /\ owned \in [Dispatchers -> BOOLEAN]
    /\ alive \in [Dispatchers -> BOOLEAN]
    /\ ready \in Seq(Dispatchers)
    /\ wpc \in [Workers -> {"idle", "got", "popped", "run", "nested", "resched"}]
    /\ wd \in [Workers -> Dispatchers]
    /\ wev \in [Workers -> Event]
    /\ wt \in [Workers -> Dispatchers]
    /\ tpc \in [Threads -> {"idle", "sched", "ntask", "task", "barrier",
                            "closing", "del", "fin"}]
    /\ td \in [Threads -> Dispatchers]
    /\ ttask \in [Threads -> Tasks \cup {"none"}]
    /\ asleep \subseteq Threads \cup Workers
    /\ inside \in [Threads -> SUBSET Dispatchers]
    /\ newest \in [Dispatchers -> [LatestKinds -> Payloads]]
    /\ sinceLoss \in [Dispatchers -> Nat \cup {NoLoss}]
    /\ dispatched \subseteq Tasks
    /\ runs \in [Tasks -> Nat]

InCallback(w, d) == wd[w] = d /\ wpc[w] \in {"popped", "run", "nested"}

\* README: callbacks of one object run serially.  They do until its Dispatcher
\* is closed, and in the pool even then: two workers are never inside
\* _drain_one's unlocked section for the same dispatcher, whatever posters,
\* closers and finalizers do to "scheduled" meanwhile, and an SDK thread that
\* runs a callback itself does so for a dispatcher that is closed.
SerialCallbacks ==
    /\ \A v, w \in Workers, d \in Dispatchers :
          InCallback(v, d) /\ InCallback(w, d) => v = w
    /\ \A t \in Threads : \A d \in inside[t] : closed[d]

\* Who runs a callback of d: a worker, or an SDK thread with a refused task.
Callers(d) ==
    {w \in Workers : InCallback(w, d) /\ wpc[w] # "popped" /\ alive[d]}
    \cup {t \in Threads : d \in inside[t]}

\* README: callbacks of one object run serially, without exception.
AllCallbacksSerial == \A d \in Dispatchers : Cardinality(Callers(d)) <= 1

(* The right to drain d, "the token", is in one place: the ready queue, a   *)
(* poster about to put it there, or a worker.                               *)
Queued(d)     == \E i \in DOMAIN ready : ready[i] = d
Posting(t, d) == tpc[t] = "sched" /\ td[t] = d
Draining(w, d) == wpc[w] # "idle" /\ wd[w] = d
Token(d) ==
    \/ Queued(d)
    \/ \E t \in Threads : Posting(t, d)
    \/ \E w \in Workers : Draining(w, d)

TokenUnique ==
    /\ \A i, j \in DOMAIN ready : ready[i] = ready[j] => i = j
    /\ \A d \in Dispatchers :
         /\ \A t, u \in Threads : Posting(t, d) /\ Posting(u, d) => t = u
         /\ \A v, w \in Workers : Draining(v, d) /\ Draining(w, d) => v = w
         /\ Queued(d) => /\ \A t \in Threads : ~Posting(t, d)
                         /\ \A w \in Workers : ~Draining(w, d)
         /\ \A t \in Threads, w \in Workers : ~(Posting(t, d) /\ Draining(w, d))

TokenScheduled ==
    \A d \in Dispatchers : Token(d) => scheduled[d] \/ closed[d]

ExecutingExact ==
    \A d \in Dispatchers : executing[d] <=> \E w \in Workers : InCallback(w, d)

\* The inductive strengthening of SerialCallbacks: at most one token, a token
\* implies "scheduled" until the dispatcher is closed, and "executing" is
\* exactly the unlocked section.
DispatchInv == TokenUnique /\ TokenScheduled /\ ExecutingExact

\* No event is stranded and no flag is left over: "scheduled" holds exactly
\* while an event is queued or being handled, and then the token exists (post,
\* post_native_task, _drain_one and discard all write "scheduled" under the
\* lock and hand the token on after it).
NoStrandedEvents ==
    \A d \in Dispatchers :
        /\ scheduled[d] <=> CloseBlocked(d)
        /\ scheduled[d] => Token(d)

ThreadBlocked(t) ==
    \/ tpc[t] = "barrier" /\ BarrierBlocked(td[t])
    \/ tpc[t] = "closing" /\ CloseBlocked(td[t])
    \/ tpc[t] = "ntask" /\ TaskBlocked(td[t])
WorkerBlocked(w) == wpc[w] = "nested" /\ CloseBlocked(wt[w])

\* No wake-up is lost: whoever sleeps in barrier(), close(), a nested close()
\* or post_native_task() still has to wait, although _drain_one returns
\* without notify_all() when it finds nothing and clears "scheduled".
NoLostWakeup ==
    /\ \A t \in Threads \cap asleep : ThreadBlocked(t)
    /\ \A w \in Workers \cap asleep : WorkerBlocked(w)

\* Neither an accepted event nor a sleeper is forgotten: the flag, the queue,
\* the ready list and the Condition agree, whichever path of post(),
\* post_native_task(), _drain_one() or discard() clears "scheduled".
NothingStranded == NoStrandedEvents /\ NoLostWakeup

\* The queue never outgrows its capacity and _frame_count, which is adjusted
\* in four places, is the number of frames queued, within its own capacity.
QueueBounds ==
    \A d \in Dispatchers :
        /\ Len(events[d]) <= Capacity
        /\ frameCount[d] = Count(events[d], "frame")
        /\ frameCount[d] <= FrameCapacity[d]

\* A loss is reported: once a frame was refused or evicted, the first frame
\* accepted after it carries the discontinuity mark, or none has come yet and
\* the dispatcher still remembers the loss.
Held(d) ==
    {w \in Workers : wpc[w] = "popped" /\ wd[w] = d /\ wev[w].kind = "frame"}
LossIsAnnounced ==
    \A d \in Dispatchers :
        LET frames == (IF Held(d) = {} THEN <<>>
                         ELSE <<wev[CHOOSE w \in Held(d) : TRUE]>>)
                      \o OfKind(events[d], "frame")
        IN  /\ sinceLoss[d] = 0 => dropped[d]
            /\ sinceLoss[d] > 0 =>
                  frames[Len(frames) - sinceLoss[d] + 1].mark

\* Of a latest kind at most one event is pending, and it carries the newest
\* payload the sink accepted: an older state is never delivered after it.
PendingStateIsNewest ==
    \A d \in Dispatchers : \A i, j \in DOMAIN events[d] :
        /\ events[d][i].kind \in LatestKinds =>
              events[d][i].val = newest[d][events[d][i].kind]
        /\ events[d][i].kind \in LatestKinds /\ events[d][i].kind = events[d][j].kind
              => i = j

\* The comments of discard() and dispatch_callback_task: a native task is run
\* exactly once, queued or refused, closed or collected.
TaskCopies(k) ==
    Cardinality({t \in Threads : tpc[t] = "ntask" /\ ttask[t] = k})
     + Cardinality({w \in Workers : wpc[w] = "popped" /\ wev[w].val = k})
     + Cardinality(UNION {{<<d, i>> : i \in {j \in DOMAIN events[d] :
                            events[d][j].val = k}} : d \in Dispatchers})
     + runs[k] = 1
TaskRunsOnce ==
    \A k \in Tasks : IF k \in dispatched THEN TaskCopies(k) ELSE runs[k] = 0

\* The callers inside close() of d, or on the way to it in the owner's finalizer.
ClosersOf(d) ==
    {t \in Threads : tpc[t] \in {"del", "fin", "closing"} /\ td[t] = d}
    \cup {w \in Workers : wpc[w] = "nested" /\ wt[w] = d}

Quiet(d) == closed[d] /\ events[d] = <<>> /\ \A w \in Workers : ~InCallback(w, d)

\* Owners destroy the native object once close() has returned: then the pool
\* runs no callback of d, and never will, although close() does not look at
\* "scheduled" and d may still be on the ready queue.
PoolQuietAfterClose ==
    [][\A d \in Dispatchers :
          /\ Quiet(d) => Quiet(d)'
          /\ closed[d] # closed[d]' => Quiet(d)' \/ ClosersOf(d)' # {}
          /\ ClosersOf(d) \ ClosersOf(d)' # {} => Quiet(d)']_vars

\* README: close() waits for the callbacks that have been entered.  Once it has
\* returned none runs, inside the pool or outside.
CloseAwaitsCallbacks ==
    \A d \in Dispatchers : closed[d] /\ ClosersOf(d) = {} => Callers(d) = {}

\* Every dispatched native task is eventually run.
TasksRun == \A k \in Tasks : k \in dispatched ~> runs[k] > 0

\* close() returns, whatever the sinks keep offering.
CloseReturns == \A t \in Threads : tpc[t] = "closing" ~> tpc[t] # "closing"
====
