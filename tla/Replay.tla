------------------------------- MODULE Replay -------------------------------
(***************************************************************************)
(* Replay (src/tirtc/storage/__init__.py): its operations run one at a time *)
(* under a lock they keep over the native call; its callbacks run on a pool *)
(* thread and may call operations of the same Replay; the native SDK        *)
(* answers "in use" while one of them runs, and the operation tries again   *)
(* with the lock held.  close() stops the playback without the lock.        *)
(*                                                                         *)
(* A step is taking the lock, one native call, the assignments after it, or  *)
(* the end of one wait.  What the Replay records, dumps and is attached to   *)
(* is a set of children; ClientTree and Outputs have the rest of them.  A    *)
(* call that raises before it changed anything is no step, and a second      *)
(* caller of close() waits for the first (CloseCoordinator).                 *)
(***************************************************************************)
EXTENDS Integers

CONSTANTS
    Threads,      \* application threads
    Ranges,       \* the ranges play() is called with, <<start, end>>
    Times,        \* the targets seek() is called with
    Children,     \* recordings, dumps and Outputs
    MaxCallbacks, \* bound on the callbacks of a behaviour
    NativeFails   \* may a native call fail, or stay "in use" for five seconds?

ASSUME ReplayAssumption ==
    /\ \A r \in Ranges : r \in Int \X Int /\ r[1] < r[2]
    /\ Times \subseteq Int /\ MaxCallbacks \in Nat /\ NativeFails \in BOOLEAN
    /\ "none" \notin Threads /\ "callback" \notin Threads

VARIABLES
    replay,    \* status, holder of _lock, _playback_range, _native_stopped, children
    native,    \* the range that is playing, whether the handle is gone
    callbacks, \* whether one runs, and how many have begun
    call       \* each caller: where it is, the operation and its argument

vars == <<replay, native, callbacks, call>>

None     == "none"
NoRange  == <<0, 0>>
Callback == "callback"      \* the pool thread, while a callback runs
Callers  == Threads \cup {Callback}
Idle     == [pc |-> "idle", op |-> None, arg |-> None, todo |-> {}]

\* Operations that try again while the native SDK is "in use", those that call
\* it once, and those that are refused in a callback.
Retried  == {"pause", "resume", "set_speed", "seek", "stop"}
Once     == {"play", "speed", "current_time", "start"}
Blocking == {"play", "seek", "stop"}

Args(op) == CASE op = "play"  -> Ranges
              [] op = "seek"  -> Times
              [] op = "start" -> Children
              [] OTHER        -> {None}

Init ==
    /\ replay = [status |-> "open", lock |-> None, range |-> NoRange, stopped |-> FALSE,
                 children |-> {}, shut |-> FALSE]
    /\ native = [playing |-> NoRange, gone |-> FALSE]
    /\ callbacks = [busy |-> FALSE, begun |-> 0]
    /\ call = [u \in Callers |-> Idle]

At(u, label)   == call[u].pc = label
Goto(u, label) == call' = [call EXCEPT ![u].pc = label]
Return(u)      == call' = [call EXCEPT ![u] = Idle]
Inside(time, range) == range[1] <= time /\ time < range[2]

-----------------------------------------------------------------------------
(* The native side.                                                        *)

\* The playback has reached the end of its range, or failed.
PlaybackEnds ==
    /\ native.playing # NoRange
    /\ native' = [native EXCEPT !.playing = NoRange]
    /\ UNCHANGED <<replay, callbacks, call>>

CallbackBegins ==
    /\ ~callbacks.busy /\ ~replay.shut /\ callbacks.begun < MaxCallbacks
    /\ callbacks' = [busy |-> TRUE, begun |-> callbacks.begun + 1]
    /\ UNCHANGED <<replay, native, call>>

CallbackReturns ==
    /\ callbacks.busy /\ At(Callback, "idle")
    /\ callbacks' = [callbacks EXCEPT !.busy = FALSE]
    /\ UNCHANGED <<replay, native, call>>

-----------------------------------------------------------------------------
(* _operation_lock.                                                         *)

Call(t, op, arg) ==
    /\ t \in Threads /\ At(t, "idle")
    /\ call' = [call EXCEPT ![t] = [Idle EXCEPT !.pc = "lock", !.op = op, !.arg = arg]]
    /\ UNCHANGED <<replay, native, callbacks>>

\* Mutant: a callback waits for the lock like a thread.
CallFromCallbackWaits(op, arg) ==
    /\ callbacks.busy /\ At(Callback, "idle") /\ op \notin Blocking
    /\ call' = [call EXCEPT ![Callback] = [Idle EXCEPT !.pc = "lock", !.op = op, !.arg = arg]]
    /\ UNCHANGED <<replay, native, callbacks>>

\* A callback takes the lock at once or is refused.
CallFromCallback(op, arg) ==
    /\ callbacks.busy /\ At(Callback, "idle") /\ op \notin Blocking
    /\ replay.lock = None /\ replay.status = "open"
    /\ replay' = [replay EXCEPT !.lock = Callback]
    /\ call' = [call EXCEPT ![Callback] = [Idle EXCEPT !.pc = "native", !.op = op, !.arg = arg]]
    /\ UNCHANGED <<native, callbacks>>

\* seek() outside the range that was given to play() is refused.
Refused(u) ==
    \/ replay.status # "open"
    \/ call[u].op = "seek" /\ replay.range # NoRange /\ ~Inside(call[u].arg, replay.range)

\* Mutant: operations are not serial.
UnlockedAlways == TRUE

Unlocked == replay.lock = None

Lock(u) ==
    /\ At(u, "lock") /\ call[u].op # "close"
    /\ Unlocked
    /\ \/ Refused(u) /\ Return(u) /\ UNCHANGED replay
       \/ ~Refused(u) /\ replay' = [replay EXCEPT !.lock = u] /\ Goto(u, "native")
    /\ UNCHANGED <<native, callbacks>>

Released == [replay EXCEPT !.lock = None]

-----------------------------------------------------------------------------
(* The operations.                                                         *)

Played(u) == CASE call[u].op = "play" -> call[u].arg
               [] call[u].op = "stop" -> NoRange
               [] OTHER -> native.playing

\* The native call.  A thread gets past it when no callback runs; a callback is
\* in one, and its call is made once.
Native(u) ==
    /\ At(u, "native")
    /\ u \in Threads /\ call[u].op \in Retried \cup {"play"} => ~callbacks.busy
    /\ native' = [native EXCEPT !.playing = Played(u)]
    /\ Goto(u, "store")
    /\ UNCHANGED <<replay, callbacks>>

\* It is refused: an operation that is not retried, or a timeout.
NativeRaises(u) ==
    /\ At(u, "native")
    /\ NativeFails \/ (callbacks.busy /\ (call[u].op \in Once \/ u = Callback))
    /\ replay' = Released
    /\ Return(u)
    /\ UNCHANGED <<native, callbacks>>

\* Mutant: play() leaves _native_stopped as it is.
StoredKeepsStopped(op, arg) ==
    CASE op = "play"  -> [Released EXCEPT !.range = arg]
      [] op = "stop"  -> [Released EXCEPT !.stopped = TRUE]
      [] op = "start" -> [Released EXCEPT !.children = @ \cup {arg}]
      [] OTHER        -> Released

\* What the operation assigns before it releases the lock.
Stored(op, arg) ==
    CASE op = "play"  -> [Released EXCEPT !.range = arg, !.stopped = FALSE]
      [] op = "stop"  -> [Released EXCEPT !.stopped = TRUE]
      [] op = "start" -> [Released EXCEPT !.children = @ \cup {arg}]
      [] OTHER        -> Released

Store(u) ==
    /\ At(u, "store")
    /\ replay' = Stored(call[u].op, call[u].arg)
    /\ Return(u)
    /\ UNCHANGED <<native, callbacks>>

\* A child ends: _finish_task, _finish_raw_dump or _detach, under the lock.
ChildEnds(k) ==
    /\ k \in replay.children /\ replay.lock = None
    /\ replay' = [replay EXCEPT !.children = @ \ {k}]
    /\ UNCHANGED <<native, callbacks, call>>

-----------------------------------------------------------------------------
(* close(): _close_replay.                                                  *)

\* Mutant: begin() without the lock.
CloseBeginUnlocked(t) ==
    /\ At(t, "lock") /\ call[t].op = "close"
    /\ replay.status \in {"open", "close_failed"}
    /\ replay' = [replay EXCEPT !.status = "closing"]
    /\ call' = [call EXCEPT ![t].pc = "close_children", ![t].todo = replay.children]
    /\ UNCHANGED <<native, callbacks>>

\* begin() and the snapshots, under the lock, which is then released.
CloseBegin(t) ==
    /\ At(t, "lock") /\ call[t].op = "close"
    /\ replay.lock = None
    /\ replay.status \in {"open", "close_failed"}
    /\ replay' = [replay EXCEPT !.status = "closing"]
    /\ call' = [call EXCEPT ![t].pc = "close_children", ![t].todo = replay.children]
    /\ UNCHANGED <<native, callbacks>>

\* The Replay is closed, or another thread's close() answers for this one.
CloseJoins(t) ==
    /\ At(t, "lock") /\ call[t].op = "close"
    /\ replay.status \in {"closing", "closed"}
    /\ Return(t)
    /\ UNCHANGED <<replay, native, callbacks>>

\* The dumps, recordings and Outputs of the snapshot, one after another.
CloseChild(t, k) ==
    /\ At(t, "close_children") /\ k \in call[t].todo
    /\ replay.lock = None
    /\ replay' = [replay EXCEPT !.children = @ \ {k}]
    /\ call' = [call EXCEPT ![t].todo = @ \ {k}]
    /\ UNCHANGED <<native, callbacks>>

\* replay_stop, tried again while a callback runs; not if _native_stopped.
CloseStops(t) ==
    /\ At(t, "close_children") /\ call[t].todo = {}
    /\ \/ replay.stopped /\ UNCHANGED <<replay, native>>
       \/ /\ ~replay.stopped /\ ~callbacks.busy
          /\ native' = [native EXCEPT !.playing = NoRange]
          /\ replay' = [replay EXCEPT !.stopped = TRUE]
    /\ Goto(t, "close_shut")
    /\ UNCHANGED callbacks

\* Dispatcher.close(): no more callbacks are taken.
CloseShuts(t) ==
    /\ At(t, "close_shut")
    /\ replay' = [replay EXCEPT !.shut = TRUE]
    /\ Goto(t, "close_native")
    /\ UNCHANGED <<native, callbacks>>

\* The running callback has returned; the handle is destroyed, the parent
\* forgets the Replay, and succeed().
CloseNative(t) ==
    /\ At(t, "close_native") /\ ~callbacks.busy
    /\ native' = [native EXCEPT !.gone = TRUE]
    /\ replay' = [replay EXCEPT !.status = "closed"]
    /\ Return(t)
    /\ UNCHANGED callbacks

\* A child, replay_stop or the native close fails: fail().
CloseFails(t) ==
    /\ NativeFails
    /\ \/ At(t, "close_children") /\ (call[t].todo # {} \/ ~replay.stopped)
       \/ At(t, "close_native") /\ ~callbacks.busy
    /\ replay' = [replay EXCEPT !.status = "close_failed"]
    /\ Return(t)
    /\ UNCHANGED <<native, callbacks>>

-----------------------------------------------------------------------------
\* The steps of a call that has begun; NativeRaises and CloseFails stand apart,
\* as no call may depend on a timeout.
Step(u) ==
    \/ Lock(u) \/ Native(u) \/ Store(u)
    \/ CloseBegin(u) \/ CloseJoins(u) \/ \E k \in Children : CloseChild(u, k)
    \/ CloseStops(u) \/ CloseShuts(u) \/ CloseNative(u)

Next ==
    \/ PlaybackEnds \/ CallbackBegins \/ CallbackReturns
    \/ \E op \in Retried \cup Once : \E arg \in Args(op) :
          CallFromCallback(op, arg) \/ \E t \in Threads : Call(t, op, arg)
    \/ \E t \in Threads : Call(t, "close", None) \/ CloseFails(t)
    \/ \E u \in Callers : Step(u) \/ NativeRaises(u)
    \/ \E k \in Children : ChildEnds(k)

Spec == Init /\ [][Next]_vars

\* Threads run and callbacks return.  No timeout is assumed to pass.
Fairness ==
    /\ \A u \in Callers : WF_vars(Step(u))
    /\ WF_vars(CallbackReturns)
    /\ \A u \in Callers : WF_vars(NativeRaises(u) /\ call[u].op \in Once)

FairSpec == Spec /\ Fairness

-----------------------------------------------------------------------------
TypeOK ==
    /\ replay.status \in {"open", "closing", "close_failed", "closed"}
    /\ replay.lock \in Callers \cup {None}
    /\ replay.range \in Ranges \cup {NoRange} /\ native.playing \in Ranges \cup {NoRange}
    /\ replay.children \subseteq Children
    /\ callbacks \in [busy : BOOLEAN, begun : 0 .. MaxCallbacks]

\* close() destroys no handle that is still playing, however play() and stop()
\* of other threads were ordered before it and however often close() failed.
StoppedBeforeDestroyed == native.gone => native.playing = NoRange

\* seek() is checked against the range that is playing, not one that another
\* thread has replaced meanwhile.
SeekInsideRange ==
    \A u \in Callers : At(u, "native") /\ call[u].op = "seek" /\ native.playing # NoRange
                       => Inside(call[u].arg, native.playing)

\* No operation that has passed its checks uses the handle after close() has
\* destroyed it.
HandleLives == native.gone => \A u \in Callers : ~At(u, "native") /\ ~At(u, "store")

\* HandleLives, with the types of the Replay's records.
HandleOutlivesUse == TypeOK /\ HandleLives

\* An operation that has the lock, a callback and close() return without the
\* help of a timeout: none of them waits for another that waits for it.
CallsReturn ==
    \A u \in Callers : (~At(u, "idle") /\ (At(u, "lock") => u = Callback)) ~> At(u, "idle")
=============================================================================
