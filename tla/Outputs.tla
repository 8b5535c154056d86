------------------------------- MODULE Outputs -------------------------------
(***************************************************************************)
(* Outputs and the Connections they are bound to: _OutputBase and the part  *)
(* of Connection that keeps _outputs (src/tirtc/_core.py).  A binding has   *)
(* three records: _bound of the Output, _outputs of the Connection and the  *)
(* native one.  attach(), detach(), Output.close() and Connection.close()   *)
(* change them under different locks, on different threads.                 *)
(*                                                                         *)
(* A step is a critical section, one native call or the end of one wait.    *)
(* The Output's lock is kept because attach() holds it over a native call;  *)
(* the Connection's is never held between two of the steps below.  Callers  *)
(* are application threads and running callbacks of Outputs.  A call that   *)
(* raises before it changed anything is no step, nor is a second caller of   *)
(* Output.close(), which waits for the first (CloseCoordinator).             *)
(***************************************************************************)
EXTENDS FiniteSets

CONSTANTS
    Threads,         \* application threads
    Connections,
    OutputSet,       \* the Outputs
    Users,           \* <<u, o>>: caller u attaches, detaches and closes o
    CallbackClosers, \* Outputs whose callback may close a Connection
    NativeFails      \* may a native detach or destroy fail?

ASSUME OutputsAssumption ==
    /\ CallbackClosers \subseteq OutputSet
    /\ Users \subseteq Threads \X OutputSet
    /\ NativeFails \in BOOLEAN
    /\ "none" \notin Connections \cup OutputSet \cup Threads

VARIABLES
    out,    \* each Output: its fields, lock, Dispatcher and native half
    conn,   \* each Connection: close status, _outputs, native handle gone;
            \*   lost (history): see Forget
    call    \* each caller: where it is, the Output, the Connection, its loop

vars == <<out, conn, call>>

Callers == Threads \cup CallbackClosers
None    == "none"

Idle == [pc |-> "idle", o |-> None, c |-> None, todo |-> {}, parent |-> FALSE]

\* pending and busy name the Connection a queued frame, and the one a running
\* callback handles, came from.
NewOutput ==
    [status |-> "open", bound |-> None, detached |-> FALSE, detaching |-> FALSE,
     lock |-> None, shut |-> FALSE, pending |-> None, busy |-> None,
     native |-> None, gone |-> FALSE]

Init ==
    /\ out = [o \in OutputSet |-> NewOutput]
    /\ conn = [c \in Connections |-> [status |-> "open", outputs |-> {}, gone |-> FALSE,
                                   lost |-> {}]]
    /\ call = [u \in Callers |-> Idle]

-----------------------------------------------------------------------------
Goto(u, label) == call' = [call EXCEPT ![u].pc = label]
Return(u)      == call' = [call EXCEPT ![u] = Idle]

\* u may begin a call: a thread that is in none, a callback that is running.
Free(u) == call[u].pc = "idle" /\ (u \in OutputSet => out[u].busy # None)

Unlocked(o) == out[o].lock = None

\* Dispatcher.barrier(), and the wait of its close().
Drained(o) == out[o].pending = None /\ out[o].busy = None

\* The native detach: the SDK may or may not mind that nothing is attached; a
\* destroyed handle is refused by get_output.
NativeDetaches(o)    == ~out[o].gone
NativeDetachFails(o) == NativeFails \/ out[o].gone \/ out[o].native = None

-----------------------------------------------------------------------------
(* Connection._attach; _attach_failed and _detach.                          *)

\* Mutant: a closing Connection is not refused.
RegisterClosed(c, o) == conn' = [conn EXCEPT ![c].outputs = @ \cup {o}]

Register(c, o) ==
    /\ conn[c].status = "open"
    /\ conn' = [conn EXCEPT ![c].outputs = @ \cup {o}, ![c].lost = @ \ {o}]

Unregister(c, o) == conn' = [conn EXCEPT ![c].outputs = @ \ {o}]

-----------------------------------------------------------------------------
(* attach(): the lock of the Output is held from AttachRegister on.         *)

AttachRegister(u, o, c) ==
    /\ Free(u) /\ <<u, o>> \in Users
    /\ Unlocked(o)
    /\ out[o].status = "open" /\ out[o].bound = None
    /\ Register(c, o)
    /\ out' = [out EXCEPT ![o].lock = u]
    /\ call' = [call EXCEPT ![u] = [Idle EXCEPT !.pc = "attach", !.o = o, !.c = c]]

\* output_attach_rtc; frames may arrive from here on.
AttachNative(u) ==
    /\ call[u].pc = "attach"
    /\ out' = [out EXCEPT ![call[u].o].native = call[u].c]
    /\ Goto(u, "bind")
    /\ UNCHANGED conn

\* It refuses: _attach_failed.
AttachRefused(u) ==
    /\ call[u].pc = "attach"
    /\ Unregister(call[u].c, call[u].o)
    /\ out' = [out EXCEPT ![call[u].o].lock = None]
    /\ Return(u)

AttachBind(u) ==
    /\ call[u].pc = "bind"
    /\ out' = [out EXCEPT ![call[u].o].bound = call[u].c,
                          ![call[u].o].detached = FALSE,
                          ![call[u].o].lock = None]
    /\ Return(u)
    /\ UNCHANGED conn

-----------------------------------------------------------------------------
(* detach(), and the second half it shares with _detach_from_parent.        *)

\* Under the lock; a failing native detach raises and changes nothing.
Detach(u, o) ==
    /\ Free(u) /\ <<u, o>> \in Users
    /\ Unlocked(o)
    /\ out[o].status = "open"
    /\ out[o].bound # None
    /\ ~out[o].detaching
    /\ NativeDetaches(o)
    /\ out' = [out EXCEPT ![o].native = None, ![o].detaching = TRUE]
    /\ call' = [call EXCEPT ![u] = [Idle EXCEPT !.pc = "barrier", !.o = o,
                                                !.c = out[o].bound]]
    /\ UNCHANGED conn

\* Mutant: the callbacks already accepted are not waited for.
BarrierSkipped(u) ==
    /\ call[u].pc = "barrier"
    /\ Goto(u, "unbind")
    /\ UNCHANGED <<out, conn>>

Barrier(u) ==
    /\ call[u].pc = "barrier"
    /\ Drained(call[u].o)
    /\ Goto(u, "unbind")
    /\ UNCHANGED <<out, conn>>

Unbind(u) ==
    /\ call[u].pc = "unbind"
    /\ Unlocked(call[u].o)
    /\ out' = [out EXCEPT ![call[u].o].bound = None, ![call[u].o].detaching = FALSE]
    /\ Goto(u, "forget")
    /\ UNCHANGED conn

\* An attach() of o to c is under way or done.
Renewed(o, c) ==
    \/ out[o].bound = c
    \/ \E u \in Callers :
          call[u].pc \in {"attach", "bind"} /\ call[u].o = o /\ call[u].c = c

\* Connection._detach, after the lock of the Output was released.  If another
\* thread has attached the Output to the same Connection since, detach() takes
\* away the registration of that attach(): lost keeps it, until the next one.
Forget(u) ==
    /\ call[u].pc = "forget"
    /\ LET o == call[u].o
           c == call[u].c
       IN  conn' = [conn EXCEPT
                      ![c].outputs = @ \ {o},
                      ![c].lost = IF ~call[u].parent /\ Renewed(o, c)
                                    THEN @ \cup {o} ELSE @]
    /\ IF call[u].parent
         THEN call' = [call EXCEPT ![u].pc = "loop", ![u].o = None,
                                   ![u].todo = @ \ {call[u].o}]
         ELSE Return(u)
    /\ UNCHANGED out

-----------------------------------------------------------------------------
(* Connection.close().                                                     *)

\* The guard against a close() that would wait for its own callback.
Related(u, c) == u \in OutputSet /\ out[u].bound = c

\* Elected: mark it closing and copy _outputs, in one critical section.
CloseConnection(u, c) ==
    /\ Free(u)
    /\ ~Related(u, c)
    /\ conn[c].status \in {"open", "close_failed"}
    /\ conn' = [conn EXCEPT ![c].status = "closing"]
    /\ call' = [call EXCEPT ![u] = [Idle EXCEPT !.pc = "loop", !.c = c,
                                    !.todo = conn[c].outputs, !.parent = TRUE]]
    /\ UNCHANGED out

\* Another caller is closing it (CloseCoordinator).
JoinConnection(u, c) ==
    /\ Free(u)
    /\ ~Related(u, c)
    /\ conn[c].status = "closing"
    /\ call' = [call EXCEPT ![u] = [Idle EXCEPT !.pc = "join", !.c = c]]
    /\ UNCHANGED <<out, conn>>

\* _detach_from_parent: the Output has gone elsewhere meanwhile.
ParentSkips(u, o) ==
    /\ call[u].pc = "loop" /\ o \in call[u].todo
    /\ Unlocked(o)
    /\ out[o].bound # call[u].c
    /\ call' = [call EXCEPT ![u].todo = @ \ {o}]
    /\ UNCHANGED <<out, conn>>

ParentDetaches(u, o) ==
    /\ call[u].pc = "loop" /\ o \in call[u].todo
    /\ Unlocked(o)
    /\ out[o].bound = call[u].c
    /\ ~out[o].detaching /\ u # o
    /\ NativeDetaches(o)
    /\ out' = [out EXCEPT ![o].native = None, ![o].detaching = TRUE]
    /\ call' = [call EXCEPT ![u].pc = "barrier", ![u].o = o]
    /\ UNCHANGED conn

\* A detach() is under way, this is o's own callback, or the native call fails:
\* close() raises and can be repeated.
ParentDetachFails(u, o) ==
    /\ call[u].pc = "loop" /\ o \in call[u].todo
    /\ Unlocked(o)
    /\ out[o].bound = call[u].c
    /\ out[o].detaching \/ u = o \/ NativeDetachFails(o)
    /\ conn' = [conn EXCEPT ![call[u].c].status = "close_failed"]
    /\ Return(u)
    /\ UNCHANGED out

\* All Outputs are detached: the rest of the teardown (Connection models it)
\* destroys the native handle ...
ConnectionDestroyed(u) ==
    /\ call[u].pc = "loop" /\ call[u].todo = {}
    /\ conn' = [conn EXCEPT ![call[u].c].status = "closed", ![call[u].c].gone = TRUE]
    /\ Return(u)
    /\ UNCHANGED out

\* ... or fails.
ConnectionDestroyFails(u) ==
    /\ NativeFails
    /\ call[u].pc = "loop" /\ call[u].todo = {}
    /\ conn' = [conn EXCEPT ![call[u].c].status = "close_failed"]
    /\ Return(u)
    /\ UNCHANGED out

JoinReturns(u) ==
    /\ call[u].pc = "join"
    /\ conn[call[u].c].status # "closing"
    /\ Return(u)
    /\ UNCHANGED <<out, conn>>

-----------------------------------------------------------------------------
(* _close_output.                                                          *)

\* Elected; _bound is read here and used after the lock was released.
CloseOutput(u, o) ==
    /\ Free(u) /\ <<u, o>> \in Users
    /\ Unlocked(o)
    /\ ~out[o].detaching
    /\ out[o].status \in {"open", "close_failed"}
    /\ out' = [out EXCEPT ![o].status = "closing"]
    /\ call' = [call EXCEPT ![u] = [Idle EXCEPT !.pc = "shut", !.o = o, !.c = out[o].bound]]
    /\ UNCHANGED conn

\* Dispatcher.close(): refuse new events, then wait.
OutputShut(u) ==
    /\ call[u].pc = "shut"
    /\ out' = [out EXCEPT ![call[u].o].shut = TRUE]
    /\ Goto(u, "drain")
    /\ UNCHANGED conn

OutputDrained(u) ==
    /\ call[u].pc = "drain"
    /\ Drained(call[u].o)
    /\ Goto(u, "native")
    /\ UNCHANGED <<out, conn>>

MustDetach(u) == call[u].c # None /\ ~out[call[u].o].detached

OutputDetaches(u) ==
    /\ call[u].pc = "native"
    /\ MustDetach(u)
    /\ NativeDetaches(call[u].o)
    /\ out' = [out EXCEPT ![call[u].o].native = None, ![call[u].o].detached = TRUE]
    /\ Goto(u, "destroy")
    /\ UNCHANGED conn

OutputSkipsDetach(u) ==
    /\ call[u].pc = "native"
    /\ ~MustDetach(u)
    /\ Goto(u, "destroy")
    /\ UNCHANGED <<out, conn>>

\* Mutant: _native_detached is set before the call that may fail.
OutputDetachFailsMarked(u) ==
    /\ call[u].pc = "native"
    /\ MustDetach(u)
    /\ NativeDetachFails(call[u].o)
    /\ out' = [out EXCEPT ![call[u].o].status = "close_failed",
                          ![call[u].o].detached = TRUE]
    /\ Return(u)
    /\ UNCHANGED conn

OutputDetachFails(u) ==
    /\ call[u].pc = "native"
    /\ MustDetach(u)
    /\ NativeDetachFails(call[u].o)
    /\ out' = [out EXCEPT ![call[u].o].status = "close_failed"]
    /\ Return(u)
    /\ UNCHANGED conn

OutputDestroyed(u) ==
    /\ call[u].pc = "destroy"
    /\ out' = [out EXCEPT ![call[u].o].gone = TRUE]
    /\ Goto(u, "release")
    /\ UNCHANGED conn

OutputDestroyFails(u) ==
    /\ NativeFails
    /\ call[u].pc = "destroy"
    /\ out' = [out EXCEPT ![call[u].o].status = "close_failed"]
    /\ Return(u)
    /\ UNCHANGED conn

OutputRelease(u) ==
    /\ call[u].pc = "release"
    /\ Unlocked(call[u].o)
    /\ out' = [out EXCEPT ![call[u].o].bound = None]
    /\ Goto(u, "leave")
    /\ UNCHANGED conn

\* Connection._detach of the binding read at the start; then succeed().
OutputClosed(u) ==
    /\ call[u].pc = "leave"
    /\ IF call[u].c = None THEN UNCHANGED conn ELSE Unregister(call[u].c, call[u].o)
    /\ out' = [out EXCEPT ![call[u].o].status = "closed"]
    /\ Return(u)

-----------------------------------------------------------------------------
(* Frames and callbacks.                                                   *)

\* The SDK delivers a frame of the native binding to the Dispatcher.
Frame(o) ==
    /\ out[o].native # None
    /\ ~out[o].shut
    /\ out[o].pending = None
    /\ out' = [out EXCEPT ![o].pending = out[o].native]
    /\ UNCHANGED <<conn, call>>

\* The pool runs on_frame ...
CallbackBegins(o) ==
    /\ out[o].busy = None
    /\ out[o].pending # None
    /\ out' = [out EXCEPT ![o].busy = out[o].pending, ![o].pending = None]
    /\ UNCHANGED <<conn, call>>

\* ... which returns when the calls it made have.
CallbackEnds(o) ==
    /\ out[o].busy # None
    /\ o \in Callers => call[o].pc = "idle"
    /\ out' = [out EXCEPT ![o].busy = None]
    /\ UNCHANGED <<conn, call>>

-----------------------------------------------------------------------------
Binding(u) ==
    \/ \E o \in OutputSet, c \in Connections : AttachRegister(u, o, c)
    \/ AttachNative(u) \/ AttachRefused(u) \/ AttachBind(u)
    \/ \E o \in OutputSet : Detach(u, o)
    \/ Barrier(u) \/ Unbind(u) \/ Forget(u)

ClosingConnection(u) ==
    \/ \E c \in Connections : CloseConnection(u, c) \/ JoinConnection(u, c)
    \/ \E o \in OutputSet :
          ParentSkips(u, o) \/ ParentDetaches(u, o) \/ ParentDetachFails(u, o)
    \/ ConnectionDestroyed(u) \/ ConnectionDestroyFails(u) \/ JoinReturns(u)

ClosingOutput(u) ==
    \/ \E o \in OutputSet : CloseOutput(u, o)
    \/ OutputShut(u) \/ OutputDrained(u) \/ OutputDetaches(u) \/ OutputSkipsDetach(u)
    \/ OutputDetachFails(u) \/ OutputDestroyed(u) \/ OutputDestroyFails(u)
    \/ OutputRelease(u) \/ OutputClosed(u)

Next ==
    \/ \E u \in Callers : Binding(u) \/ ClosingConnection(u) \/ ClosingOutput(u)
    \/ \E o \in OutputSet : Frame(o) \/ CallbackBegins(o) \/ CallbackEnds(o)

Spec == Init /\ [][Next]_vars

-----------------------------------------------------------------------------
(* Properties.                                                             *)

CallLabels == {"idle", "attach", "bind", "barrier", "unbind", "forget", "loop", "join",
               "shut", "drain", "native", "destroy", "release", "leave"}
Statuses   == {"open", "closing", "close_failed", "closed"}
SomeOrNone == Connections \cup {None}

\* Type correctness of the Outputs, the Connections and the callers.
TypeOK ==
    /\ out \in [OutputSet ->
         [status : Statuses, bound : SomeOrNone, detached : BOOLEAN, detaching : BOOLEAN,
          lock : Callers \cup {None}, shut : BOOLEAN, pending : SomeOrNone,
          busy : SomeOrNone, native : SomeOrNone, gone : BOOLEAN]]
    /\ conn \in [Connections ->
         [status : Statuses, outputs : SUBSET OutputSet, gone : BOOLEAN,
          lost : SUBSET OutputSet]]
    /\ call \in [Callers ->
         [pc : CallLabels, o : OutputSet \cup {None}, c : SomeOrNone,
          todo : SUBSET OutputSet, parent : BOOLEAN]]

\* When close() of a Connection has worked through its copy of _outputs and goes on
\* to destroy the native half, the only Outputs natively attached to it are those
\* whose registration an earlier detach() took away (Forget), although Outputs
\* come, go and close on other threads meanwhile.
OutputsLeaveFirst ==
    \A u \in Callers : call[u].pc = "loop" /\ call[u].todo = {} =>
        \A o \in OutputSet \ conn[call[u].c].lost : out[o].native # call[u].c

\* README, line 144: closing a Connection detaches its Outputs, all of them.
AllOutputsLeave ==
    \A u \in Callers : call[u].pc = "loop" /\ call[u].todo = {} =>
        \A o \in OutputSet : out[o].native # call[u].c

\* attach() gives the SDK the handle it read in Connection._attach only while
\* that handle exists, or the Connection has lost the registration.
AttachHandleLives ==
    \A u \in Callers : call[u].pc = "attach" =>
        ~conn[call[u].c].gone \/ call[u].o \in conn[call[u].c].lost

\* A native Output is destroyed detached, also when earlier close() calls failed
\* half way or the Connection detached it on another thread.
DestroyedDetached == \A o \in OutputSet : out[o].gone => out[o].native = None

\* No native handle is used after its end or ended while it is used: attach()
\* reads a Connection's handle in one critical section and uses it later, and an
\* Output is destroyed by a close() that may have failed between detach and
\* destroy before.
HandlesOutliveUse == AttachHandleLives /\ DestroyedDetached

\* Somebody is between two steps that change the binding of o to c.
InTransit(o, c) == \E u \in Callers : call[u].o = o /\ call[u].c = c

\* The two ends of a binding agree: an open Connection knows every Output bound
\* to it whose registration it has not lost, and it keeps none that is not bound
\* to it, except while a call is changing that.
EndsAgree ==
    \A o \in OutputSet, c \in Connections :
        /\ out[o].bound = c /\ conn[c].status = "open" =>
              o \in conn[c].outputs \cup conn[c].lost
        /\ o \in conn[c].outputs => out[o].bound = c \/ InTransit(o, c)

\* The guards of close() and detach() look at _bound of the running callback's
\* Output.  It is the Connection the frame came from as long as a frame of that
\* binding is queued or handled, except inside attach().
BoundWhileHandled ==
    \A o \in OutputSet : \A c \in {out[o].pending, out[o].busy} \ {None} :
        \/ out[o].bound = c
        \/ \E u \in Callers : call[u].pc = "bind" /\ call[u].o = o /\ call[u].c = c

\* The records of a binding stay well formed and consistent: _bound of the
\* Output, _outputs of the Connection and the frames that are still queued.
RecordsAgree == TypeOK /\ EndsAgree /\ BoundWhileHandled
=============================================================================
