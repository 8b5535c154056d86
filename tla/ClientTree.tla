----------------------------- MODULE ClientTree -----------------------------
(***************************************************************************)
(* How a Client is taken down with everything it created.  RTC: Client,     *)
(* Connection, RecordingTask and RawDump (src/tirtc/_core.py,               *)
(* src/tirtc/_raw_dump.py); Cloud: Client, CloudStorage, Replay and their   *)
(* RecordingTask and RawDump (src/tirtc/storage/__init__.py).  Every        *)
(* close() and stop() may be called on every object, by several threads and *)
(* by callbacks, and any native call of it may fail; a close() that failed  *)
(* can be called again.                                                     *)
(*                                                                         *)
(* The objects are the nodes of a tree.  A caller has a stack of frames, one *)
(* for each close() or stop() it is in.  A step is a critical section, one  *)
(* native call or the end of one wait.  What else a close() waits for is in *)
(* Connection, Outputs, CloudStorage and Replay, the Client's lease in      *)
(* Runtime.  A coordinator is taken as CloseOnce describes it.              *)
(***************************************************************************)
EXTENDS Integers, SequencesExt

CONSTANTS
    Threads,     \* application threads
    Nodes,       \* the objects
    Shapes,      \* trees over Nodes: functions to [kind, parent, made]
    Users,       \* <<t, n>>: caller t creates, stops and closes n
    Callbackers, \* nodes whose callback may close and stop other nodes
    MaxFaults    \* how many native calls may fail by timeout or refusal

None == "none"
Containers == {"client", "cloud", "connection", "replay"}

ASSUME TreeAssumption ==
    /\ Callbackers \subseteq Nodes /\ MaxFaults \in Nat
    /\ Users \subseteq (Threads \cup Callbackers) \X Nodes
    /\ \A s \in Shapes : s \in [Nodes -> [kind : Containers \cup {"task", "dump"},
                                          parent : Nodes \cup {None}, made : BOOLEAN]]

\* Only containers hold others; what nobody holds, the Client, is there at the
\* start.
ASSUME ShapeAssumption ==
    /\ None \notin Nodes
    /\ \A s \in Shapes : \A n \in Nodes :
          IF s[n].parent = None THEN s[n].made ELSE s[s[n].parent].kind \in Containers

VARIABLES
    tree,   \* the shape of this behaviour
    node,   \* the state of each object
    busy,   \* objects whose callback is running
    stack,  \* each caller: the frames of the calls it is in
    ret,    \* each caller: what the call it made last returned to the frame below
    faults  \* failures so far

vars == <<tree, node, busy, stack, ret, faults>>

Callers == Threads \cup Callbackers

\* kids: the sets of children the object closes.  For a task stopped, error and
\* file are _stopped, _error and _result, given: the file was returned to the
\* application, stops: native stops that took effect.  For a dump stopped means
\* _archive, and status "closing" that its lock is held.
NewNode == [made |-> FALSE, status |-> "open", gone |-> FALSE, kids |-> {},
            shut |-> FALSE, stopped |-> FALSE, error |-> FALSE, file |-> None,
            given |-> FALSE, stops |-> 0]

Init ==
    /\ tree \in Shapes
    /\ node = [n \in Nodes |-> [NewNode EXCEPT
                 !.made = tree[n].made,
                 !.kids = {m \in Nodes : tree[m].made /\ tree[m].parent = n}]]
    /\ busy = {}
    /\ stack = [t \in Callers |-> <<>>]
    /\ ret = [t \in Callers |-> None]
    /\ faults = 0

Kind(n)    == tree[n].kind
Parent(n)  == tree[n].parent
Roots      == {n \in Nodes : Parent(n) = None}
Ancestors(n) == {m \in Nodes : \/ m = n \/ m = Parent(n)
                               \/ Parent(n) # None /\ m = Parent(Parent(n))}

Top(t)       == Last(stack[t])
At(t, label) == stack[t] # <<>> /\ Top(t).pc = label
Frame(n, label) == [n |-> n, pc |-> label, todo |-> {}, child |-> None, err |-> FALSE]

\* The top frame of t goes to label.
Goto(t, label) ==
    stack' = [stack EXCEPT ![t] = Append(Front(@), [Top(t) EXCEPT !.pc = label])]

\* A call of n returns to whom: t, and who waits for its outcome.
Served(t, n) == {t} \cup {u \in Callers : At(u, "join") /\ Top(u).n = n}

\* The calls of those callers return: their frames are popped.
PopAll(callers, verdict) ==
    /\ stack' = [u \in Callers |-> IF u \in callers THEN Front(stack[u]) ELSE stack[u]]
    /\ ret' = [u \in Callers |-> IF u \notin callers THEN ret[u]
                                 ELSE IF Len(stack[u]) > 1 THEN verdict ELSE None]

\* All of them return but t, which goes to label.
PopOthers(t, callers, label, verdict) ==
    /\ stack' = [u \in Callers |->
                    IF u = t THEN Append(Front(stack[t]), [Top(t) EXCEPT !.pc = label])
                    ELSE IF u \in callers THEN Front(stack[u]) ELSE stack[u]]
    /\ ret' = [u \in Callers |-> IF u \notin callers \ {t} THEN ret[u]
                                 ELSE IF Len(stack[u]) > 1 THEN verdict ELSE None]

\* Application callers among them, which see what the call returned.
Outermost(callers) == \E u \in callers : Len(stack[u]) = 1

Fault == faults < MaxFaults /\ faults' = faults + 1

-----------------------------------------------------------------------------
(* Creating: create_connection, open_device and open_with_token,            *)
(* create_replay, start_recording, start_raw_dump.                          *)

\* Mutant: a parent that is being closed is not refused.
CreatesClosed(t, n, kind) ==
    /\ stack[t] = <<>> /\ t \in Threads
    /\ Kind(n) = kind /\ ~node[n].made /\ node[Parent(n)].made
    /\ node' = [node EXCEPT ![n].made = TRUE, ![Parent(n)].kids = @ \cup {n}]
    /\ UNCHANGED <<tree, busy, stack, ret, faults>>

\* Under the parent's lock: require_open, the native call and the registration,
\* which is taken back when the native call fails.
Creates(t, n, kind) ==
    /\ stack[t] = <<>> /\ t \in Threads
    /\ Kind(n) = kind /\ ~node[n].made /\ node[Parent(n)].made
    /\ node[Parent(n)].status = "open"
    /\ node' = [node EXCEPT ![n].made = TRUE, ![Parent(n)].kids = @ \cup {n}]
    /\ UNCHANGED <<tree, busy, stack, ret, faults>>

CreateConnection(t, n) == Creates(t, n, "connection")
OpenCloud(t, n)        == Creates(t, n, "cloud")
CreateReplay(t, n)     == Creates(t, n, "replay")
StartRecording(t, n)   == Creates(t, n, "task")
StartRawDump(t, n)     == Creates(t, n, "dump")

-----------------------------------------------------------------------------
(* Entering close() or stop().                                              *)

\* begin() of the coordinator, with the snapshot of the children; a RawDump
\* takes its lock in a step of its own.
Entry(n) ==
    IF Kind(n) = "dump" THEN Frame(n, "lock")
    ELSE CASE node[n].status = "closed"  -> Frame(n, "closed")
           [] node[n].status = "closing" -> Frame(n, "join")
           [] OTHER -> IF Kind(n) = "task" THEN Frame(n, "stop")
                       ELSE [Frame(n, "children") EXCEPT !.todo = node[n].kids]

Entered(n) ==
    IF Kind(n) # "dump" /\ node[n].status # "closed"
    THEN [node EXCEPT ![n].status = "closing"] ELSE node

\* Mutant: only a callback of the object itself is refused.
RefusedSelf(t, n) == t = n

\* A callback is refused what would wait for it: close() of its object and of
\* the objects that hold it, stop() of what its object records.
Refused(t, n) ==
    t \in Callbackers /\ (n \in Ancestors(t) \/ (Kind(n) \in {"task", "dump"} /\ Parent(n) = t))

\* The application calls close() or stop() of n; that of a closed object
\* changes nothing and is no step.
Close(t, n) ==
    /\ stack[t] = <<>> /\ (t \in Callbackers => t \in busy)
    /\ node[n].made /\ node[n].status # "closed" /\ ~Refused(t, n)
    /\ stack' = [stack EXCEPT ![t] = <<Entry(n)>>]
    /\ node' = Entered(n)
    /\ UNCHANGED <<tree, busy, ret, faults>>

\* A child that was closed meanwhile: a task raises its error again.
CloseAgain(t) ==
    /\ At(t, "closed")
    /\ PopAll({t}, IF node[Top(t).n].error THEN "error" ELSE "ok")
    /\ UNCHANGED <<tree, node, busy, faults>>

\* Mutant: a close() that failed leaves the object open.
FailReopens(t) ==
    /\ node' = [node EXCEPT ![Top(t).n].status = "open"]
    /\ PopAll(Served(t, Top(t).n), "error")

\* fail() of the coordinator.
Fail(t) ==
    /\ node' = [node EXCEPT ![Top(t).n].status = "close_failed"]
    /\ PopAll(Served(t, Top(t).n), "error")

\* Mutant: what raised stays among the children.
UnregisteredOk(n) ==
    [m \in Nodes |-> IF m = Parent(n) /\ ~node[n].error
                     THEN [node[m] EXCEPT !.kids = @ \ {n}] ELSE node[m]]

\* The parent's _finish_*.
Unregistered(n) ==
    [m \in Nodes |-> IF m = Parent(n) THEN [node[m] EXCEPT !.kids = @ \ {n}] ELSE node[m]]

\* What the close() or stop() in the top frame of t ends with.
Outcome(t) == IF Top(t).err \/ node[Top(t).n].error THEN "error" ELSE "ok"

\* A Connection and a CloudStorage leave their Client after succeed(), a task and
\* a Replay leave their parent before it; a RawDump has no coordinator.
LeavesLast(n) == Kind(n) \in {"connection", "cloud"}

\* The native object is gone, and the parent forgets it under its own lock.
Unregister(t) ==
    /\ At(t, "unregister")
    /\ node' = Unregistered(Top(t).n)
    /\ \/ Kind(Top(t).n) \in {"task", "replay"} /\ Goto(t, "succeed") /\ UNCHANGED ret
       \/ Kind(Top(t).n) \notin {"task", "replay"} /\ PopAll({t}, Outcome(t))
    /\ UNCHANGED <<tree, busy, faults>>

\* succeed() of the coordinator.  Who waits returns; so does the caller, unless
\* its object is still registered.
Succeed(t) ==
    /\ At(t, "succeed")
    /\ LET n == Top(t).n IN
       /\ node' = [node EXCEPT ![n].status = "closed",
                     ![n].given = @ \/ (node[n].file # None /\ Outermost(Served(t, n)))]
       /\ \/ ~LeavesLast(n) /\ PopAll(Served(t, n), Outcome(t))
          \/ LeavesLast(n) /\ PopOthers(t, Served(t, n), "unregister", Outcome(t))
    /\ UNCHANGED <<tree, busy, faults>>

-----------------------------------------------------------------------------
(* RecordingTask.stop().                                                    *)

\* Mutant: a stop() after one that failed stops the recording again.
StopTaskAgain(t) ==
    /\ At(t, "stop")
    /\ LET n == Top(t).n IN
       \E error \in BOOLEAN :
          node' = [node EXCEPT ![n].stopped = TRUE, ![n].stops = @ + 1, ![n].error = error,
                               ![n].file = IF error THEN None ELSE "kept"]
    /\ Goto(t, "destroy")
    /\ UNCHANGED <<tree, busy, ret, faults>>

\* recording_stop, unless an earlier stop() got past it: a file or an error.
StopTask(t) ==
    /\ At(t, "stop")
    /\ LET n == Top(t).n IN
       \/ node[n].stopped /\ UNCHANGED node
       \/ /\ ~node[n].stopped
          /\ \E error \in BOOLEAN :
                node' = [node EXCEPT ![n].stopped = TRUE, ![n].stops = @ + 1, ![n].error = error,
                                     ![n].file = IF error THEN None ELSE "kept"]
    /\ Goto(t, "destroy")
    /\ UNCHANGED <<tree, busy, ret, faults>>

\* A native call stays "in use" for five seconds: stop(), or the close() of a
\* container, fails and may be repeated.
TimesOut(t) ==
    /\ \/ At(t, "stop") /\ ~node[Top(t).n].stopped
       \/ At(t, "destroy")
       \/ At(t, "release") /\ Top(t).n \notin busy
    /\ Fault
    /\ Fail(t)
    /\ UNCHANGED <<tree, busy>>

Destroy(t) ==
    /\ At(t, "destroy")
    /\ node' = [node EXCEPT ![Top(t).n].gone = TRUE]
    /\ Goto(t, "unregister")
    /\ UNCHANGED <<tree, busy, ret, faults>>

-----------------------------------------------------------------------------
(* RawDump.  close() keeps the dump's lock over its native calls.           *)

\* stop() by the application: once it has succeeded the archive is kept.
StopDump(t, n) ==
    /\ stack[t] = <<>> /\ t \in Threads
    /\ Kind(n) = "dump" /\ node[n].made /\ node[n].status = "open"
    /\ node' = [node EXCEPT ![n].stopped = TRUE]
    /\ UNCHANGED <<tree, busy, stack, ret, faults>>

LockDump(t) ==
    /\ At(t, "lock")
    /\ \/ node[Top(t).n].status = "open"
          /\ node' = [node EXCEPT ![Top(t).n].status = "closing"]
          /\ Goto(t, "dump_stop") /\ UNCHANGED ret
       \/ node[Top(t).n].status = "closed" /\ PopAll({t}, "ok") /\ UNCHANGED node
    /\ UNCHANGED <<tree, busy, faults>>

\* close() stops first; an error of stop() is raised when all is done.
StopFirst(t) ==
    /\ At(t, "dump_stop")
    /\ \/ node' = [node EXCEPT ![Top(t).n].stopped = TRUE] /\ Goto(t, "dump_close")
       \/ /\ ~node[Top(t).n].stopped /\ UNCHANGED node
          /\ stack' = [stack EXCEPT ![t] =
                Append(Front(@), [Top(t) EXCEPT !.pc = "dump_close", !.err = TRUE])]
    /\ UNCHANGED <<tree, busy, ret, faults>>

\* The native close: _closed is set, or the lock is released and the dump stays.
CloseDump(t) ==
    /\ At(t, "dump_close")
    /\ LET n == Top(t).n IN
       \/ /\ node' = [node EXCEPT ![n].gone = TRUE, ![n].status = "closed"]
          /\ Goto(t, "unregister") /\ UNCHANGED <<ret, faults>>
       \/ /\ Fault
          /\ node' = [node EXCEPT ![n].status = "open"] /\ PopAll({t}, "error")
    /\ UNCHANGED <<tree, busy>>

-----------------------------------------------------------------------------
(* Closing the children of a container.                                     *)

\* The dumps first, then the tasks; a Client and a CloudStorage have one kind.
CloseChild(t, c) ==
    /\ At(t, "children") /\ ret[t] = None
    /\ c \in Top(t).todo
    /\ (\E d \in Top(t).todo : Kind(d) = "dump") => Kind(c) = "dump"
    /\ stack' = [stack EXCEPT ![t] =
          Append(Front(@), [Top(t) EXCEPT !.todo = @ \ {c}, !.child = c]) \o <<Entry(c)>>]
    /\ node' = Entered(c)
    /\ UNCHANGED <<tree, busy, ret, faults>>

\* Mutant: the file of a recording is not deleted.
ChildClosedKeeps(t) ==
    /\ At(t, "children") /\ ret[t] = "ok"
    /\ ret' = [ret EXCEPT ![t] = None]
    /\ UNCHANGED <<tree, node, busy, stack, faults>>

\* The child is closed; the file of a recording is deleted.
ChildClosed(t) ==
    /\ At(t, "children") /\ ret[t] = "ok"
    /\ node' = [node EXCEPT ![Top(t).child].file = IF @ = None THEN None ELSE "deleted"]
    /\ ret' = [ret EXCEPT ![t] = None]
    /\ UNCHANGED <<tree, busy, stack, faults>>

\* The SDK refuses to delete the file: close() fails, and as the task is no
\* longer a child the next close() does not try again.
DeleteRaises(t) ==
    /\ At(t, "children") /\ ret[t] = "ok"
    /\ node[Top(t).child].file = "kept"
    /\ Fault
    /\ node' = [node EXCEPT ![Top(t).child].file = "refused", ![Top(t).n].status = "close_failed"]
    /\ PopAll(Served(t, Top(t).n), "error")
    /\ UNCHANGED <<tree, busy>>

\* It raised.  An error of a child that is closed all the same is kept for the
\* end; any error of a recording, and a child that is not closed, end close().
ChildRaised(t) ==
    /\ At(t, "children") /\ ret[t] = "error"
    /\ LET c == Top(t).child IN
       \/ /\ Kind(c) # "task" /\ node[c].status = "closed"
          /\ stack' = [stack EXCEPT ![t] = Append(Front(@), [Top(t) EXCEPT !.err = TRUE])]
          /\ ret' = [ret EXCEPT ![t] = None]
          /\ UNCHANGED node
       \/ /\ Kind(c) = "task" \/ node[c].status # "closed"
          /\ Fail(t)
    /\ UNCHANGED <<tree, busy, faults>>

\* The Dispatcher takes no more events.
Shut(t) ==
    /\ At(t, "children") /\ ret[t] = None /\ Top(t).todo = {}
    /\ node' = [node EXCEPT ![Top(t).n].shut = TRUE]
    /\ Goto(t, "release")
    /\ UNCHANGED <<tree, busy, ret, faults>>

\* Its callback has returned; the native object is destroyed, or the lease of
\* the Client is given back.
Release(t) ==
    /\ At(t, "release") /\ Top(t).n \notin busy
    /\ node' = [node EXCEPT ![Top(t).n].gone = TRUE]
    /\ Goto(t, IF Kind(Top(t).n) = "replay" THEN "unregister" ELSE "succeed")
    /\ UNCHANGED <<tree, busy, ret, faults>>

-----------------------------------------------------------------------------
CallbackBegins(n) ==
    /\ n \notin busy /\ node[n].made /\ ~node[n].shut
    /\ busy' = busy \cup {n}
    /\ UNCHANGED <<tree, node, stack, ret, faults>>

CallbackReturns(n) ==
    /\ n \in busy /\ stack[n] = <<>>
    /\ busy' = busy \ {n}
    /\ UNCHANGED <<tree, node, stack, ret, faults>>

Step(t) ==
    \/ CloseAgain(t) \/ Unregister(t) \/ Succeed(t)
    \/ StopTask(t) \/ TimesOut(t) \/ Destroy(t)
    \/ LockDump(t) \/ StopFirst(t) \/ CloseDump(t)
    \/ \E c \in Nodes : CloseChild(t, c)
    \/ ChildClosed(t) \/ DeleteRaises(t) \/ ChildRaised(t) \/ Shut(t) \/ Release(t)

Next ==
    \/ \E u \in Users : \/ CreateConnection(u[1], u[2]) \/ OpenCloud(u[1], u[2])
                         \/ CreateReplay(u[1], u[2])
                         \/ StartRecording(u[1], u[2]) \/ StartRawDump(u[1], u[2])
                         \/ StopDump(u[1], u[2])
                         \/ Close(u[1], u[2])
    \/ \E t \in Callers : Step(t)
    \/ \E n \in Callbackers : CallbackBegins(n) \/ CallbackReturns(n)

Spec == Init /\ [][Next]_vars

\* Threads run, callbacks return, and the application closes a Client again
\* when it is not closed yet.
Fairness ==
    /\ \A t \in Callers : WF_vars(Step(t))
    /\ \A n \in Callbackers : WF_vars(CallbackReturns(n))
    /\ WF_vars(\E u \in Users : u[2] \in Roots /\ Close(u[1], u[2]))

FairSpec == Spec /\ Fairness

-----------------------------------------------------------------------------
TypeOK ==
    /\ tree \in Shapes
    /\ node \in [Nodes -> [made : BOOLEAN, gone : BOOLEAN, kids : SUBSET Nodes,
                           status : {"open", "closing", "close_failed", "closed"},
                           shut : BOOLEAN, stopped : BOOLEAN, error : BOOLEAN,
                           file : {None, "kept", "deleted", "refused"}, given : BOOLEAN, stops : Nat]]
    /\ busy \subseteq Nodes
    /\ ret \in [Callers -> {None, "ok", "error"}]
    /\ faults \in 0 .. MaxFaults

\* No native object is destroyed, and no lease given back, while an object made
\* from it lives: whatever was created, stopped or closed on other threads
\* while close() was under way, and whatever failed.
ParentOutlivesChildren ==
    \A n \in Nodes : node[n].made /\ Parent(n) # None /\ node[Parent(n)].gone => node[n].gone

\* An application's stop() of n is past its native calls and returns the file next.
HandingOut(n) ==
    \E t \in Callers : /\ Len(stack[t]) = 1
                       /\ Top(t).n = n /\ Top(t).pc \in {"unregister", "succeed"}

\* When a Connection or Replay is closed, the file of each of its recordings was
\* returned to the application, is about to be, or was deleted, unless the SDK
\* refused to delete it.
NoOrphanFile ==
    \A n \in Nodes \ Roots : node[n].file = "kept" /\ node[Parent(n)].status = "closed" =>
        node[n].given \/ HandingOut(n)

\* A recording is stopped once, although stop() may fail after it and be
\* repeated by the application or by close().
StoppedOnce == \A n \in Nodes : node[n].stops <= 1

\* What was recorded is accounted for: stopped once, its file handed out or
\* deleted before its Connection or Replay is closed, and the records of the
\* objects well formed, however stop() of a thread and close() of a parent meet.
RecordingsAccountedFor == TypeOK /\ NoOrphanFile /\ StoppedOnce

\* The life of an object.  The status of a RawDump says who holds its lock, and
\* that of the others that close() has begun, failed or succeeded.
Life(n) ==
    IF ~node[n].made THEN "absent"
    ELSE IF node[n].status = "closed" THEN "closed"
    ELSE IF node[n].gone THEN "destroyed"
    ELSE IF node[n].status = "open" \/ Kind(n) = "dump" THEN "open" ELSE "ending"

Lives == INSTANCE Lifetimes WITH
    parent <- [n \in Nodes |-> Parent(n)],
    life   <- [n \in Nodes |-> Life(n)]

\* The trees implement Lifetimes: an object that close() has begun on never comes
\* back to life, also when close() failed, nothing is created below it, and each
\* step of each caller ends at most one life, from the leaves to the Client.
ImplementsLifetimes == Lives!Spec

\* Every close() and stop() returns, those of callbacks and those of threads
\* that wait for another's outcome too.
CallsReturn == \A t \in Callers : stack[t] # <<>> ~> stack[t] = <<>>

\* Failures are not permanent: a Client that is closed again after each failure
\* is closed in the end, although a recording or a dump below it has failed.
ClientClosesInTheEnd == <>(\A n \in Roots : node[n].status = "closed")
=============================================================================
