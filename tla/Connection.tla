----------------------------- MODULE Connection -----------------------------
(***************************************************************************)
(* The connect / disconnect / close protocol of one Connection             *)
(* (src/tirtc/_core.py).  Application threads call connect(), disconnect()  *)
(* and close(); the callback pool runs _handle_event; the native SDK moves  *)
(* the link, posts state events and completes managed attempts.             *)
(*                                                                         *)
(* A step is a critical section of Connection._lock, one native call, or    *)
(* the end of one wait.  close() is composed with CloseCoordinator.  Of the *)
(* Dispatcher only its contract is kept: at most one pending state event,   *)
(* the newest; one handler at a time; barrier() and close() wait for both.  *)
(* The native SDK is external and modelled from how the code uses it.       *)
(***************************************************************************)
EXTENDS Integers, FiniteSets

CONSTANTS
    Threads,        \* application threads
    Interruptible,  \* those a KeyboardInterrupt may reach inside connect()
    Modes,          \* credential modes of the Client to consider
    FaultSets,      \* the combinations of faults to consider
    MaxAttempts,    \* bound on _connect_generation
    MaxGeneration   \* bound on the generations of close()

ASSUME ConnectionAssumption ==
    /\ IsFiniteSet(Threads) /\ Interruptible \subseteq Threads
    /\ Modes \subseteq {"external_token", "access_key"}
    /\ FaultSets \subseteq SUBSET {"interrupt", "native"}
    /\ MaxAttempts \in Nat /\ MaxGeneration \in Nat

VARIABLES
    status, generation, outcomes, waiters, caller, gen, asleep, result,
                    \* the CloseCoordinator of this connection
    mode,           \* _client._mode
    faults,         \* what may go wrong: a KeyboardInterrupt inside connect(), the
                    \* native calls of a cancel or a teardown
    state,          \* _state
    disconnected,   \* _disconnect_finished
    active,         \* _active_connect, 0 for None
    attempts,       \* _connect_generation
    att,            \* the _ConnectState of each attempt
    pending, handling, shut,    \* the Dispatcher: queue, handler, closed
    link, released, \* native: the link and whether the handle is destroyed
    pc, cur, ret,   \* thread: where it is, its attempt, where a cancel returns
    overlapped      \* history: a connect() began before the last session was over

Errors == {"error"}
Close  == INSTANCE CloseCoordinator WITH Interruptible <- {}

closeVars  == <<status, generation, outcomes, waiters, caller, gen, asleep, result>>
setup      == <<mode, faults>>
attemptVars == <<active, attempts, att>>
queueVars  == <<pending, handling, shut>>
nativeVars == <<link, released>>
threadVars == <<pc, cur, ret>>
vars == <<closeVars, setup, state, disconnected, attemptVars, queueVars, nativeVars,
          threadVars, overlapped>>

Attempts == 1 .. MaxAttempts
None     == "none"
States   == {"IDLE", "CONNECTING", "CONNECTED", "DISCONNECTED"}

\* _ConnectState.  "error" is set together with "cancelling" and stands with it;
\* the last four are the native side of the attempt.
NewAttempt ==
    [started |-> FALSE, done |-> FALSE, finished |-> FALSE, terminal |-> None,
     cancelling |-> FALSE, cancelError |-> FALSE, cancelFinished |-> FALSE,
     handle |-> FALSE, wentUp |-> FALSE, completed |-> FALSE, cancelAsked |-> FALSE]

Init ==
    /\ Close!Init
    /\ mode \in Modes
    /\ faults \in FaultSets
    /\ state = "IDLE"
    /\ disconnected = FALSE
    /\ active = 0
    /\ attempts = 0
    /\ att = [a \in Attempts |-> NewAttempt]
    /\ pending = None
    /\ handling = None
    /\ shut = FALSE
    /\ link = "down"
    /\ released = FALSE
    /\ pc = [t \in Threads |-> "idle"]
    /\ cur = [t \in Threads |-> 0]
    /\ ret = [t \in Threads |-> "idle"]
    /\ overlapped = FALSE

-----------------------------------------------------------------------------
Goto(t, label) == pc' = [pc EXCEPT ![t] = label]

\* The call of t is over, by return or by raising.
Leave(t) ==
    /\ Goto(t, "idle")
    /\ cur' = [cur EXCEPT ![t] = 0]
    /\ ret' = [ret EXCEPT ![t] = "idle"]

\* The sink: a newer state replaces a pending one; a closed queue refuses it.
Posted(event) == IF shut THEN pending ELSE event

\* barrier() and the wait of close(): the queue is empty, no handler runs.
Drained == pending = None /\ handling = None

\* conn_disconnect: the link goes down and a live one posts DISCONNECTED before
\* the call returns.
NativeDisconnect ==
    /\ ~released
    /\ link' = "down"
    /\ \/ pending' = pending
       \/ link # "down" /\ pending' = Posted("DISCONNECTED")
    /\ UNCHANGED <<handling, shut, released>>

NativeFails == "native" \in faults

\* conn_disconnect or connect_attempt_cancel reports an error; a destroyed
\* handle always does.
NativeRefuses == NativeFails \/ released

\* Attempt a, with some of its fields set to r's.
Update(a, r) == [att EXCEPT ![a] =
    [f \in DOMAIN NewAttempt |-> IF f \in DOMAIN r THEN r[f] ELSE @[f]]]

-----------------------------------------------------------------------------
(* connect().                                                              *)

\* Another thread is still inside a disconnect().
Disconnecting == \E u \in Threads : pc[u] \notin {"idle", "withdrawn"}

\* _begin_connect.  It neither waits for the events of the previous session nor
\* for calls that other threads are still inside.
BeginConnect(t) ==
    /\ pc[t] = "idle"
    /\ status = "open"
    /\ active = 0
    /\ attempts < MaxAttempts
    /\ attempts' = attempts + 1
    /\ active' = attempts + 1
    /\ state' = "CONNECTING"
    /\ disconnected' = FALSE
    /\ Goto(t, "start")
    /\ cur' = [cur EXCEPT ![t] = attempts + 1]
    /\ overlapped' = (overlapped \/ link # "down" \/ ~Drained \/ Disconnecting)
    /\ UNCHANGED <<closeVars, setup, att, queueVars, nativeVars, ret>>

\* The native call starts the attempt; native_started is set.
NativeConnect(t) ==
    /\ pc[t] = "start"
    /\ link = "down" /\ ~released
    /\ link' = "connecting"
    /\ pending' \in {pending, Posted("CONNECTING")}
    /\ att' = Update(cur[t], [started |-> TRUE, handle |-> mode = "access_key"])
    /\ Goto(t, "await")
    /\ UNCHANGED <<closeVars, setup, state, disconnected, active, attempts, handling,
                   shut, released, cur, ret, overlapped>>

\* It refuses: native_started is set, then the attempt is withdrawn, then
\* finished is set.
NativeConnectFails(t) ==
    /\ pc[t] = "start"
    /\ att' = Update(cur[t], [started |-> TRUE])
    /\ Goto(t, "refused")
    /\ UNCHANGED <<closeVars, setup, state, disconnected, active, attempts, queueVars,
                   nativeVars, cur, ret, overlapped>>

Withdraw(t) ==
    /\ pc[t] = "refused"
    /\ active' = IF active = cur[t] THEN 0 ELSE active
    /\ state' = IF active = cur[t] THEN "IDLE" ELSE state
    /\ Goto(t, "withdrawn")
    /\ UNCHANGED <<closeVars, setup, disconnected, attempts, att, queueVars,
                   nativeVars, cur, ret, overlapped>>

\* Mutant: finished is not set when the native call refuses.
WithdrawnSilently(t) ==
    /\ pc[t] = "withdrawn"
    /\ Leave(t)
    /\ UNCHANGED <<closeVars, setup, state, disconnected, attemptVars, queueVars,
                   nativeVars, overlapped>>

Withdrawn(t) ==
    /\ pc[t] = "withdrawn"
    /\ att' = Update(cur[t], [finished |-> TRUE])
    /\ Leave(t)
    /\ UNCHANGED <<closeVars, setup, state, disconnected, active, attempts, queueVars,
                   nativeVars, overlapped>>

\* _wait_connect: done in time, or the deadline passes first.
AwaitDone(t) ==
    /\ pc[t] = "await"
    /\ att[cur[t]].done
    /\ Goto(t, "settle")
    /\ UNCHANGED <<closeVars, setup, state, disconnected, attemptVars, queueVars,
                   nativeVars, cur, ret, overlapped>>

Timeout(t) ==
    /\ pc[t] = "await"
    /\ ~att[cur[t]].done
    /\ Goto(t, "cancel")
    /\ ret' = [ret EXCEPT ![t] = "settle"]
    /\ UNCHANGED <<closeVars, setup, state, disconnected, attemptVars, queueVars,
                   nativeVars, cur, overlapped>>

\* KeyboardInterrupt out of done.wait(), which no "try" surrounds.
InterruptConnect(t) ==
    /\ "interrupt" \in faults /\ t \in Interruptible
    /\ pc[t] = "await"
    /\ Leave(t)
    /\ UNCHANGED <<closeVars, setup, state, disconnected, attemptVars, queueVars,
                   nativeVars, overlapped>>

\* A cancel is under way or over: wait for it and raise its error.
SettleFailed(t) ==
    /\ pc[t] = "settle"
    /\ att[cur[t]].cancelling /\ att[cur[t]].cancelFinished
    /\ att[cur[t]].cancelError
    /\ att' = Update(cur[t], [finished |-> TRUE])
    /\ Leave(t)
    /\ UNCHANGED <<closeVars, setup, state, disconnected, active, attempts, queueVars,
                   nativeVars, overlapped>>

\* Destroy the managed handle; it is in use until its completion has run.
Settle(t) ==
    /\ pc[t] = "settle"
    /\ att[cur[t]].cancelling => att[cur[t]].cancelFinished
    /\ ~att[cur[t]].cancelError
    /\ att[cur[t]].handle => att[cur[t]].completed
    /\ Goto(t, "finbarrier")
    /\ UNCHANGED <<closeVars, setup, state, disconnected, attemptVars, queueVars,
                   nativeVars, cur, ret, overlapped>>

\* It stays in use for five seconds and _retry_in_use gives up: the attempt is
\* over but remains _active_connect.
SettleInUse(t) ==
    /\ pc[t] = "settle"
    /\ att[cur[t]].cancelling => att[cur[t]].cancelFinished
    /\ ~att[cur[t]].cancelError
    /\ att[cur[t]].handle /\ ~att[cur[t]].completed
    /\ att' = Update(cur[t], [finished |-> TRUE])
    /\ Leave(t)
    /\ UNCHANGED <<closeVars, setup, state, disconnected, active, attempts, queueVars,
                   nativeVars, overlapped>>

\* _finish_connect.
FinishBarrier(t) ==
    /\ pc[t] = "finbarrier"
    /\ Drained
    /\ Goto(t, "finish")
    /\ UNCHANGED <<closeVars, setup, state, disconnected, attemptVars, queueVars,
                   nativeVars, cur, ret, overlapped>>

Succeeded(a) == att[a].terminal = "ok" /\ ~att[a].cancelling

FinishConnect(t) ==
    /\ pc[t] = "finish"
    /\ active' = IF active = cur[t] THEN 0 ELSE active
    /\ state' = IF Succeeded(cur[t]) THEN "CONNECTED" ELSE "DISCONNECTED"
    /\ disconnected' = (disconnected \/ ~Succeeded(cur[t]))
    /\ att' = Update(cur[t], [finished |-> TRUE])
    /\ Leave(t)
    /\ UNCHANGED <<closeVars, setup, attempts, queueVars, nativeVars, overlapped>>

-----------------------------------------------------------------------------
(* _cancel_connect, called from connect(), disconnect() and close(); it      *)
(* returns to ret[t], or raises.                                            *)

Raise(t) ==
    /\ IF caller[t] = "teardown" THEN Close!Fail(t, "error") ELSE UNCHANGED closeVars
    /\ Leave(t)

CancelNotNeeded(t) ==
    /\ pc[t] = "cancel"
    /\ active # cur[t] \/ att[cur[t]].terminal # None
    /\ Goto(t, ret[t])
    /\ UNCHANGED <<closeVars, setup, state, disconnected, attemptVars, queueVars,
                   nativeVars, cur, ret, overlapped>>

\* Mutant: "cancelling" is not looked at.
CancelClaimTwice(t) ==
    /\ pc[t] = "cancel"
    /\ active = cur[t] /\ att[cur[t]].terminal = None
    /\ Goto(t, "cstart")
    /\ att' = Update(cur[t], [cancelling |-> TRUE])
    /\ UNCHANGED <<closeVars, setup, state, disconnected, active, attempts, queueVars,
                   nativeVars, cur, ret, overlapped>>

CancelClaim(t) ==
    /\ pc[t] = "cancel"
    /\ active = cur[t] /\ att[cur[t]].terminal = None
    /\ Goto(t, IF att[cur[t]].cancelling THEN "cjoin" ELSE "cstart")
    /\ att' = Update(cur[t], [cancelling |-> TRUE])
    /\ UNCHANGED <<closeVars, setup, state, disconnected, active, attempts, queueVars,
                   nativeVars, cur, ret, overlapped>>

CancelJoin(t) ==
    /\ pc[t] = "cjoin"
    /\ att[cur[t]].cancelFinished
    /\ IF att[cur[t]].cancelError
         THEN Raise(t)
         ELSE Goto(t, ret[t]) /\ UNCHANGED <<closeVars, cur, ret>>
    /\ UNCHANGED <<setup, state, disconnected, attemptVars, queueVars, nativeVars,
                   overlapped>>

\* The native attempt never started.
CancelNothing(t) ==
    /\ pc[t] = "cstart"
    /\ att[cur[t]].started
    /\ att[cur[t]].finished \/ (mode = "access_key" /\ ~att[cur[t]].handle)
    /\ att' = Update(cur[t], [cancelFinished |-> TRUE])
    /\ Goto(t, ret[t])
    /\ UNCHANGED <<closeVars, setup, state, disconnected, active, attempts, queueVars,
                   nativeVars, cur, ret, overlapped>>

Cancellable(t) ==
    /\ att[cur[t]].started
    /\ ~att[cur[t]].finished
    /\ mode = "access_key" => att[cur[t]].handle

\* connect_attempt_cancel, in managed mode.
CancelManaged(t) ==
    /\ pc[t] = "cstart"
    /\ Cancellable(t)
    /\ mode = "access_key"
    /\ att' = Update(cur[t], [cancelAsked |-> TRUE])
    /\ Goto(t, "cdone")
    /\ UNCHANGED <<closeVars, setup, state, disconnected, active, attempts, queueVars,
                   nativeVars, cur, ret, overlapped>>

\* Mutant: an attempt that connected before the cancel is left connected.
CancelEndedAnyhow(t) ==
    /\ pc[t] = "cdone"
    /\ att[cur[t]].done
    /\ Goto(t, "cend")
    /\ UNCHANGED <<closeVars, setup, state, disconnected, attemptVars, queueVars,
                   nativeVars, cur, ret, overlapped>>

\* The attempt ended: if it had connected, disconnect it again.
CancelEnded(t) ==
    /\ pc[t] = "cdone"
    /\ att[cur[t]].done
    /\ att[cur[t]].terminal # "ok"
    /\ Goto(t, "cend")
    /\ UNCHANGED <<closeVars, setup, state, disconnected, attemptVars, queueVars,
                   nativeVars, cur, ret, overlapped>>

CancelDisconnects(t) ==
    \/ pc[t] = "cstart" /\ Cancellable(t) /\ mode = "external_token"
    \/ pc[t] = "cdone" /\ att[cur[t]].done /\ att[cur[t]].terminal = "ok"

CancelDisconnect(t) ==
    /\ CancelDisconnects(t)
    /\ NativeDisconnect
    /\ Goto(t, "cbarrier")
    /\ UNCHANGED <<closeVars, setup, state, disconnected, attemptVars, cur, ret,
                   overlapped>>

CancelBarrier(t) ==
    /\ pc[t] = "cbarrier"
    /\ Drained
    /\ att' = IF mode = "access_key" THEN att
              ELSE Update(cur[t], [done |-> TRUE,
                     terminal |-> IF att[cur[t]].terminal = None THEN "failed"
                                  ELSE att[cur[t]].terminal])
    /\ Goto(t, "cend")
    /\ UNCHANGED <<closeVars, setup, state, disconnected, active, attempts, queueVars,
                   nativeVars, cur, ret, overlapped>>

CancelEnd(t) ==
    /\ pc[t] = "cend"
    /\ disconnected' = TRUE
    /\ att' = Update(cur[t], [cancelFinished |-> TRUE])
    /\ Goto(t, ret[t])
    /\ UNCHANGED <<closeVars, setup, state, active, attempts, queueVars, nativeVars,
                   cur, ret, overlapped>>

\* One of the native calls of the cancel fails.
CancelFails(t) ==
    /\ \/ CancelDisconnects(t)
       \/ pc[t] = "cstart" /\ Cancellable(t) /\ mode = "access_key"
    /\ NativeRefuses
    /\ att' = Update(cur[t], [cancelError |-> TRUE, cancelFinished |-> TRUE])
    /\ Raise(t)
    /\ UNCHANGED <<setup, state, disconnected, active, attempts, queueVars, nativeVars,
                   overlapped>>

CancelStep(t) ==
    \/ CancelNotNeeded(t) \/ CancelClaim(t) \/ CancelJoin(t) \/ CancelNothing(t)
    \/ CancelManaged(t) \/ CancelEnded(t) \/ CancelDisconnect(t) \/ CancelBarrier(t)
    \/ CancelEnd(t) \/ CancelFails(t)

-----------------------------------------------------------------------------
(* disconnect().                                                           *)

\* Mutant: nobody waits for the connect() it cancelled.
AttemptOver(t) == TRUE

\* attempt.finished.wait() returns.
AttemptFinished(t) == att[cur[t]].finished

Disconnect(t) ==
    /\ pc[t] = "idle"
    /\ status = "open"
    /\ cur' = [cur EXCEPT ![t] = active]
    /\ IF active # 0
         THEN Goto(t, "cancel") /\ ret' = [ret EXCEPT ![t] = "dwait"]
         ELSE Goto(t, "dnative") /\ UNCHANGED ret
    /\ UNCHANGED <<closeVars, setup, state, disconnected, attemptVars, queueVars,
                   nativeVars, overlapped>>

DisconnectWait(t) ==
    /\ pc[t] = "dwait"
    /\ AttemptFinished(t)
    /\ Goto(t, IF Succeeded(cur[t]) THEN "dnative" ELSE "dset")
    /\ UNCHANGED <<closeVars, setup, state, disconnected, attemptVars, queueVars,
                   nativeVars, cur, ret, overlapped>>

DisconnectNative(t) ==
    /\ pc[t] = "dnative"
    /\ NativeDisconnect
    /\ Goto(t, "dbarrier")
    /\ UNCHANGED <<closeVars, setup, state, disconnected, attemptVars, cur, ret,
                   overlapped>>

DisconnectRaises(t) ==
    /\ pc[t] = "dnative"
    /\ NativeRefuses
    /\ Leave(t)
    /\ UNCHANGED <<closeVars, setup, state, disconnected, attemptVars, queueVars,
                   nativeVars, overlapped>>

DisconnectBarrier(t) ==
    /\ pc[t] = "dbarrier"
    /\ Drained
    /\ Goto(t, "dset")
    /\ UNCHANGED <<closeVars, setup, state, disconnected, attemptVars, queueVars,
                   nativeVars, cur, ret, overlapped>>

DisconnectSet(t) ==
    /\ pc[t] = "dset"
    /\ state' = "DISCONNECTED"
    /\ disconnected' = TRUE
    /\ Leave(t)
    /\ UNCHANGED <<closeVars, setup, attemptVars, queueVars, nativeVars, overlapped>>

DisconnectStep(t) ==
    \/ DisconnectWait(t) \/ DisconnectNative(t) \/ DisconnectRaises(t)
    \/ DisconnectBarrier(t) \/ DisconnectSet(t)

-----------------------------------------------------------------------------
(* close(): _close_connection.  The Outputs, dumps and recordings it takes   *)
(* down in CloseChildren may make it fail.                                  *)

CloseBegin(t) ==
    /\ pc[t] = "idle"
    /\ Close!BeginTeardown(t)
    /\ cur' = [cur EXCEPT ![t] = active]
    /\ IF active # 0
         THEN Goto(t, "cancel") /\ ret' = [ret EXCEPT ![t] = "kwait"]
         ELSE Goto(t, "kchildren") /\ UNCHANGED ret
    /\ UNCHANGED <<setup, state, disconnected, attemptVars, queueVars, nativeVars,
                   overlapped>>

CloseJoin(t) ==
    /\ pc[t] = "idle"
    /\ Close!BeginWait(t)
    /\ Goto(t, "joined")
    /\ UNCHANGED <<setup, state, disconnected, attemptVars, queueVars, nativeVars, cur,
                   ret, overlapped>>

CloseJoined(t) ==
    /\ pc[t] = "joined"
    /\ Close!Wake(t)
    /\ Leave(t)
    /\ UNCHANGED <<setup, state, disconnected, attemptVars, queueVars, nativeVars,
                   overlapped>>

CloseWait(t) ==
    /\ pc[t] = "kwait"
    /\ AttemptFinished(t)
    /\ Goto(t, "kchildren")
    /\ UNCHANGED <<closeVars, setup, state, disconnected, attemptVars, queueVars,
                   nativeVars, cur, ret, overlapped>>

CloseChildren(t) ==
    /\ pc[t] = "kchildren"
    /\ \/ NativeFails /\ Raise(t) /\ UNCHANGED shut
       \/ shut' = TRUE /\ Goto(t, "kdrain") /\ UNCHANGED <<closeVars, cur, ret>>
    /\ UNCHANGED <<setup, state, disconnected, attemptVars, pending, handling,
                   nativeVars, overlapped>>

\* Mutant: close() neither waits for the callbacks nor disconnects.
CloseDrainHasty(t) ==
    /\ pc[t] = "kdrain"
    /\ Goto(t, "krelease")
    /\ UNCHANGED <<closeVars, setup, state, disconnected, attemptVars, queueVars,
                   nativeVars, cur, ret, overlapped>>

CloseDrain(t) ==
    /\ pc[t] = "kdrain"
    /\ Drained
    /\ Goto(t, IF ~disconnected /\ state \in {"CONNECTING", "CONNECTED"}
                 THEN "kdisconnect" ELSE "krelease")
    /\ UNCHANGED <<closeVars, setup, state, disconnected, attemptVars, queueVars,
                   nativeVars, cur, ret, overlapped>>

CloseDisconnect(t) ==
    /\ pc[t] = "kdisconnect"
    /\ \/ NativeRefuses /\ Raise(t) /\ UNCHANGED <<disconnected, queueVars, nativeVars>>
       \/ /\ NativeDisconnect
          /\ disconnected' = TRUE
          /\ Goto(t, "krelease")
          /\ UNCHANGED <<closeVars, cur, ret>>
    /\ UNCHANGED <<setup, state, attemptVars, overlapped>>

CloseRelease(t) ==
    /\ pc[t] = "krelease"
    /\ \/ NativeFails /\ Raise(t) /\ UNCHANGED released
       \/ released' = TRUE /\ Goto(t, "kend") /\ UNCHANGED <<closeVars, cur, ret>>
    /\ UNCHANGED <<setup, state, disconnected, attemptVars, queueVars, link, overlapped>>

\* A dump that closed with an error makes close() succeed with that error.
CloseEnd(t) ==
    /\ pc[t] = "kend"
    /\ state' = "DISCONNECTED"
    /\ \E v \in Close!Verdicts : (v = "ok" \/ NativeFails) /\ Close!Succeed(t, v)
    /\ Leave(t)
    /\ UNCHANGED <<setup, disconnected, attemptVars, queueVars, nativeVars, overlapped>>

CloseStep(t) ==
    \/ CloseJoined(t) \/ CloseWait(t) \/ CloseChildren(t) \/ CloseDrain(t)
    \/ CloseDisconnect(t) \/ CloseRelease(t) \/ CloseEnd(t)

-----------------------------------------------------------------------------
(* The callback pool: _handle_event for a state event.                     *)

HandlePop ==
    /\ pending # None
    /\ handling = None
    /\ handling' = pending
    /\ pending' = None
    /\ UNCHANGED <<closeVars, setup, state, disconnected, attemptVars, shut, nativeVars,
                   threadVars, overlapped>>

\* Mutant: the first terminal event decides.
TakesFirst(a, event) == att[a].terminal = None

\* Attempt a still takes the event: it is not terminal, or a success that turns
\* into a failure.
Takes(a, event) ==
    \/ att[a].terminal = None
    \/ att[a].terminal = "ok" /\ event = "DISCONNECTED"

\* While an attempt is active the event belongs to it.
HandleAttempt ==
    /\ handling # None
    /\ active # 0
    /\ LET over  == handling = "DISCONNECTED"
           taken == Takes(active, handling)
           ended == taken /\ handling \in {"CONNECTED", "DISCONNECTED"}
       IN  /\ state' = IF taken THEN handling ELSE state
           /\ att' = IF ended
                       THEN Update(active, [terminal |-> IF over THEN "failed" ELSE "ok",
                                            done |-> TRUE])
                       ELSE att
    /\ handling' = None
    /\ UNCHANGED <<closeVars, setup, disconnected, active, attempts, pending, shut,
                   nativeVars, threadVars, overlapped>>

\* Otherwise it updates the state; CONNECTING does not follow CONNECTED.
HandleState ==
    /\ handling # None
    /\ active = 0
    /\ state' = IF state = "CONNECTED" /\ handling = "CONNECTING" THEN state ELSE handling
    /\ handling' = None
    /\ UNCHANGED <<closeVars, setup, disconnected, attemptVars, pending, shut,
                   nativeVars, threadVars, overlapped>>

\* _managed_complete, on an SDK thread.
ManagedComplete ==
    /\ attempts # 0
    /\ att[attempts].handle /\ ~att[attempts].completed
    /\ \E code \in {"ok", "failed"} :
          /\ IF code = "ok" THEN att[attempts].wentUp ELSE link = "down"
          /\ att' = IF /\ active = attempts
                       /\ \/ att[attempts].terminal = None
                          \/ att[attempts].terminal = "ok" /\ code = "failed"
                      THEN Update(attempts, [completed |-> TRUE, terminal |-> code,
                                             done |-> TRUE])
                      ELSE Update(attempts, [completed |-> TRUE])
    /\ UNCHANGED <<closeVars, setup, state, disconnected, active, attempts, queueVars,
                   nativeVars, threadVars, overlapped>>

\* The native link comes up or is lost.
LinkUp ==
    /\ link = "connecting" /\ ~released
    /\ link' = "up"
    /\ pending' = Posted("CONNECTED")
    /\ att' = Update(attempts, [wentUp |-> TRUE])
    /\ UNCHANGED <<closeVars, setup, state, disconnected, active, attempts, handling,
                   shut, released, threadVars, overlapped>>

LinkLost ==
    /\ link # "down" /\ ~released
    /\ link' = "down"
    /\ pending' = Posted("DISCONNECTED")
    /\ UNCHANGED <<closeVars, setup, state, disconnected, attemptVars, handling, shut,
                   released, threadVars, overlapped>>

-----------------------------------------------------------------------------
Call(t) == BeginConnect(t) \/ Disconnect(t) \/ CloseBegin(t) \/ CloseJoin(t)

ConnectStep(t) ==
    \/ NativeConnect(t) \/ NativeConnectFails(t) \/ Withdraw(t) \/ Withdrawn(t)
    \/ AwaitDone(t) \/ Timeout(t) \/ SettleFailed(t) \/ Settle(t) \/ SettleInUse(t)
    \/ FinishBarrier(t) \/ FinishConnect(t)

Continue(t) == ConnectStep(t) \/ CancelStep(t) \/ DisconnectStep(t) \/ CloseStep(t)

Handle == HandlePop \/ HandleAttempt \/ HandleState

Next ==
    \/ \E t \in Threads : Call(t) \/ Continue(t) \/ InterruptConnect(t)
    \/ Handle \/ ManagedComplete \/ LinkUp \/ LinkLost

Spec == Init /\ [][Next]_vars

\* Threads inside a call go on, deadlines pass, the pool handles events (the
\* Dispatcher's CloseReturns and TasksRun), and a managed attempt that is
\* cancelled or whose link is decided completes.
Fairness ==
    /\ \A t \in Threads : WF_vars(Continue(t))
    /\ WF_vars(Handle)
    /\ WF_vars(ManagedComplete)
    /\ WF_vars(attempts # 0 /\ att[attempts].cancelAsked /\ link = "connecting" /\ LinkLost)

FairSpec == Spec /\ Fairness

-----------------------------------------------------------------------------
(* Properties.                                                             *)

\* Type correctness of the connection's state.
TypeOK ==
    /\ Close!TypeOK
    /\ mode \in Modes /\ faults \in FaultSets
    /\ state \in States
    /\ disconnected \in BOOLEAN
    /\ active \in 0 .. MaxAttempts
    /\ attempts \in 0 .. MaxAttempts
    /\ \A a \in Attempts : /\ DOMAIN att[a] = DOMAIN NewAttempt
                           /\ att[a].terminal \in {None, "ok", "failed"}
    /\ {pending, handling} \subseteq {None, "CONNECTING", "CONNECTED", "DISCONNECTED"}
    /\ link \in {"down", "connecting", "up"}
    /\ cur \in [Threads -> 0 .. MaxAttempts]

\* A connect() that is about to raise leaves no link behind: whether the attempt
\* failed, timed out against a late CONNECTED, or was cancelled by disconnect()
\* or close(), the native link is down when _finish_connect says DISCONNECTED.
FailedConnectLeavesNoLink ==
    \A t \in Threads :
        pc[t] = "finish" /\ ~Succeeded(cur[t]) /\ ~overlapped => link = "down"

\* close() destroys the native connection only when its link is down, although
\* it decides by _disconnect_finished and _state, which three other operations
\* and the event handler write.
ReleasedLinkIsDown == released /\ ~overlapped => link = "down"

\* Neither a connect() that raises nor close() leaves a native link behind that
\* nobody owns: late CONNECTED events, deadlines, cancels and the two fields
\* close() decides by may come in any order.
NoLinkLeftBehind == FailedConnectLeavesNoLink /\ ReleasedLinkIsDown

\* The native handle outlives every connect() that is still using it.
HandleOutlivesConnect ==
    released => \A t \in Threads :
        pc[t] \notin {"start", "await", "settle", "finbarrier", "finish"}

\* When nothing is under way the state the application reads is that of the
\* link, whatever the order of events, completion, deadline and cancel was.
StateMatchesLink ==
    (/\ \A t \in Threads : pc[t] = "idle"
     /\ Drained /\ active = 0 /\ status = "open" /\ ~overlapped)
        => (state = "CONNECTED" <=> link = "up")

\* README: close() stops new callbacks, waits for those running and then
\* completes the native release; so a destroyed handle has a closed and drained
\* Dispatcher, and no caller, the elected one or one that waited for it, is told
\* "closed" before that, also when earlier teardowns failed half way.
CloseIsComplete ==
    /\ released => shut /\ Drained
    /\ status = "closed" => released

\* One thread performs the cancel of an attempt, the others wait for it.
CancelledOnce ==
    \A t, u \in Threads :
        (/\ {pc[t], pc[u]} \subseteq {"cstart", "cdone", "cbarrier", "cend"}
         /\ cur[t] = cur[u]) => t = u

\* The fields of each attempt keep their types, and each attempt is cancelled by
\* one thread, although a deadline, disconnect() and close() may all ask for it.
AttemptsAreExact == TypeOK /\ CancelledOnce

\* connect(), disconnect() and close() all return, when the native calls of a
\* cancel succeed and no signal ends a wait.
CallsReturn == faults = {} => \A t \in Threads : pc[t] # "idle" ~> pc[t] = "idle"

\* README: close() from an application thread completes the native release.  So
\* it must at least return.
CloseReturns == \A t \in Threads : caller[t] = "teardown" ~> caller[t] # "teardown"
=============================================================================
