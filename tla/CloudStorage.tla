---------------------------- MODULE CloudStorage ----------------------------
(***************************************************************************)
(* CloudStorage with its list requests and export tasks                     *)
(* (src/tirtc/storage/__init__.py): list_recordings() on one thread,        *)
(* wait(), stop() and cancel() of an ExportTask on others, the events of    *)
(* the export on its Dispatcher, and CloudStorage.close(), which cancels    *)
(* and waits for all of it.                                                 *)
(*                                                                         *)
(* A step is a critical section, one native call or the end of one wait.    *)
(* The Replays close() also takes down are in Replay and ClientTree.  A     *)
(* call that raises before it changed anything is no step.  A second caller *)
(* of CloudStorage.close() waits for the first (CloseCoordinator); those of *)
(* stop() and wait() are kept, because the closer is one of them.           *)
(***************************************************************************)
EXTENDS Integers, Sequences, FiniteSets

CONSTANTS
    Listers,      \* threads that call list_recordings, list_recording_days
    Users,        \* threads that use the exports
    Closers,      \* threads that call close() of the CloudStorage
    Exports,      \* the ExportTasks they may start
    MaxFraction,  \* progress is counted in steps 0 .. MaxFraction
    Refusals      \* native calls that may fail, a subset of Refusable

Refusable == {"request_cancel", "request_close", "export_cancel", "export_report",
              "export_close", "delete", "close"}

ASSUME CloudAssumption ==
    /\ Listers \cap (Users \cup Closers) = {} /\ Users \cap Closers = {}
    /\ MaxFraction \in Nat
    /\ Refusals \subseteq Refusable

VARIABLES
    cloud,  \* status of close(), _requests, _exports, native handle gone
    req,    \* the _ListRequest of each lister
    exp,    \* each ExportTask, its Dispatcher and its native half
    call    \* each thread: where it is, the request or export, its loops

vars == <<cloud, req, exp, call>>

Threads == Listers \cup Users \cup Closers
None    == "none"
Outcomes == {"file", "error"}
Completed == 0      \* the completion event; the others are progress values

Idle == [pc |-> "idle", r |-> None, k |-> None, reqs |-> {}, exps |-> {},
         timed |-> FALSE, got |-> None]

\* native: not started, live, destroyed.  cancelled: the native cancel was
\* accepted.
NewRequest == [native |-> "none", started |-> FALSE, completed |-> FALSE,
               finished |-> FALSE, cancelStarted |-> FALSE,
               cancelFinished |-> FALSE, cancelled |-> FALSE]

\* _terminal and _done are set together; result stands for _file and _error.
\* events: progress values and Completed, queued on the Dispatcher; busy: the
\* Dispatcher runs one.  native, frac and end are the native task.
NewExport == [made |-> FALSE, status |-> "open", terminal |-> FALSE,
              result |-> None, deleted |-> FALSE, progress |-> 0,
              report |-> FALSE, shut |-> FALSE, events |-> <<>>, busy |-> FALSE,
              native |-> "none", frac |-> 0, end |-> None, cancelled |-> FALSE]

Init ==
    /\ cloud = [status |-> "open", requests |-> {}, exports |-> {}, gone |-> FALSE]
    /\ req = [t \in Listers |-> NewRequest]
    /\ exp = [k \in Exports |-> NewExport]
    /\ call = [t \in Threads |-> Idle]

At(t, label)   == call[t].pc = label
Goto(t, label) == call' = [call EXCEPT ![t].pc = label]
Return(t)      == call' = [call EXCEPT ![t] = Idle]

\* close() fails: the coordinator's fail(), and the error is raised.
CloseFails(t) ==
    /\ cloud' = [cloud EXCEPT !.status = "close_failed"]
    /\ Return(t)

-----------------------------------------------------------------------------
(* list_recordings() and list_recording_days(): _list.                      *)

\* One request at a time: another one is refused.
ListBegin(t, timed) ==
    /\ At(t, "idle")
    /\ cloud.status = "open" /\ cloud.requests = {}
    /\ cloud' = [cloud EXCEPT !.requests = {t}]
    /\ req' = [req EXCEPT ![t] = NewRequest]
    /\ call' = [call EXCEPT ![t] = [Idle EXCEPT !.pc = "list_start", !.timed = timed]]
    /\ UNCHANGED exp

\* storage_list_start and set_handle.
ListStart(t) ==
    /\ At(t, "list_start")
    /\ req' = [req EXCEPT ![t].native = "live", ![t].started = TRUE]
    /\ Goto(t, "list_wait")
    /\ UNCHANGED <<cloud, exp>>

\* It did not start: set_handle(None).
ListStartFails(t) ==
    /\ At(t, "list_start")
    /\ req' = [req EXCEPT ![t].started = TRUE]
    /\ Goto(t, "list_end")
    /\ UNCHANGED <<cloud, exp>>

\* The completion callback of the native request: on_completed.
RequestCompletes(t) ==
    /\ req[t].native = "live" /\ ~req[t].completed
    /\ req' = [req EXCEPT ![t].completed = TRUE]
    /\ UNCHANGED <<cloud, exp, call>>

\* completed.wait(deadline), then request_result.
ListCompleted(t) ==
    /\ At(t, "list_wait") \/ At(t, "list_drain")
    /\ req[t].completed
    /\ Goto(t, "list_destroy")
    /\ UNCHANGED <<cloud, req, exp>>

\* The deadline passed: cancel the request, then wait without a deadline.
ListTimesOut(t) ==
    /\ At(t, "list_wait") /\ call[t].timed
    /\ ~req[t].completed
    /\ call' = [call EXCEPT ![t].pc = "cancel", ![t].r = t]
    /\ UNCHANGED <<cloud, req, exp>>

\* finally: the handle is destroyed once the request has completed; if it does
\* not in five seconds (the cancel was refused), the handle is given up.
ListDestroy(t) ==
    /\ At(t, "list_destroy")
    /\ \/ req[t].completed /\ req' = [req EXCEPT ![t].native = "gone"]
       \/ ("request_close" \in Refusals \/ ~req[t].completed) /\ UNCHANGED req
    /\ Goto(t, "list_end")
    /\ UNCHANGED <<cloud, exp>>

\* The request is discarded, finished is set.
ListEnd(t) ==
    /\ At(t, "list_end")
    /\ cloud' = [cloud EXCEPT !.requests = @ \ {t}]
    /\ req' = [req EXCEPT ![t].finished = TRUE]
    /\ Return(t)
    /\ UNCHANGED exp

-----------------------------------------------------------------------------
(* _ListRequest.cancel(), by the lister after its deadline or by a closer.  *)

\* What its caller does next: the lister waits for the completion, or goes to
\* its finally when cancel() raised; the closer waits for finished, or fails.
Cancelled(t) == Goto(t, IF t \in Closers THEN "close_joins" ELSE "list_drain")

\* Under the request's lock: nothing to cancel, another caller is cancelling,
\* or this one will.
CancelCheck(t) ==
    /\ At(t, "cancel")
    /\ LET r == call[t].r IN
       /\ req[r].started
       /\ \/ (req[r].native = "none" \/ req[r].completed) /\ Cancelled(t) /\ UNCHANGED req
          \/ /\ req[r].native # "none" /\ ~req[r].completed
             /\ req' = [req EXCEPT ![r].cancelStarted = TRUE]
             /\ Goto(t, IF req[r].cancelStarted THEN "cancel_join" ELSE "cancel_native")
    /\ UNCHANGED <<cloud, exp>>

\* Mutant: _cancel_finished is never set.
CancelNativeUnset(t) ==
    /\ At(t, "cancel_native")
    /\ req' = [req EXCEPT ![call[t].r].cancelled = TRUE]
    /\ Cancelled(t)
    /\ UNCHANGED <<cloud, exp>>

\* request_cancel, outside the lock, then _cancel_finished.  The lister may
\* have completed and destroyed the handle meanwhile: the pointer is then NULL,
\* and what the SDK answers to it is not known.
CancelNative(t) ==
    /\ At(t, "cancel_native")
    /\ req' = [req EXCEPT ![call[t].r].cancelFinished = TRUE,
                          ![call[t].r].cancelled = TRUE]
    /\ Cancelled(t)
    /\ UNCHANGED <<cloud, exp>>

CancelRaises(t) ==
    /\ At(t, "cancel_native")
    /\ "request_cancel" \in Refusals \/ req[call[t].r].native = "gone"
    /\ req' = [req EXCEPT ![call[t].r].cancelFinished = TRUE]
    /\ IF t \in Closers THEN CloseFails(t) ELSE Goto(t, "list_destroy") /\ UNCHANGED cloud
    /\ UNCHANGED exp

CancelJoin(t) ==
    /\ At(t, "cancel_join")
    /\ req[call[t].r].cancelFinished
    /\ Cancelled(t)
    /\ UNCHANGED <<cloud, req, exp>>

-----------------------------------------------------------------------------
(* export_recording(), and the native export with its events.              *)

ExportRecording(t, k) ==
    /\ At(t, "idle") /\ ~exp[k].made
    /\ cloud.status = "open"
    /\ cloud' = [cloud EXCEPT !.exports = @ \cup {k}]
    /\ exp' = [exp EXCEPT ![k].made = TRUE, ![k].native = "live"]
    /\ UNCHANGED <<req, call>>

\* A native task is posted; a closed Dispatcher refuses it.
Posted(k, event) == IF exp[k].shut THEN exp[k].events ELSE Append(exp[k].events, event)

Running(k) == exp[k].native = "live" /\ exp[k].end = None

NativeProgress(k) ==
    /\ Running(k) /\ exp[k].frac < MaxFraction
    /\ exp' = [exp EXCEPT ![k].frac = @ + 1, ![k].events = Posted(k, exp[k].frac + 1)]
    /\ UNCHANGED <<cloud, req, call>>

\* The export is exhausted, fails or was cancelled.
NativeEnds(k, end) ==
    /\ Running(k)
    /\ exp[k].cancelled => end = "error"
    /\ exp' = [exp EXCEPT ![k].end = end, ![k].events = Posted(k, Completed)]
    /\ UNCHANGED <<cloud, req, call>>

\* Mutant: progress is taken as it comes.
ProgressStepAny(x, n) == IF x.terminal THEN x ELSE [x EXCEPT !.progress = n]

\* _handle_event("progress"): ignored when terminal or older.
ProgressStep(x, n) ==
    IF x.terminal \/ n < x.progress THEN x ELSE [x EXCEPT !.progress = n]

\* _handle_event("completed"): the first terminal result stands.
CompletedStep(x) ==
    IF x.terminal THEN x ELSE [x EXCEPT !.terminal = TRUE, !.result = x.end]

\* The Dispatcher runs the oldest event; the user's callback follows.
HandleEvent(k) ==
    /\ exp[k].events # <<>> /\ ~exp[k].busy
    /\ LET e == Head(exp[k].events)
           x == [exp[k] EXCEPT !.events = Tail(@), !.busy = TRUE]
       IN  exp' = [exp EXCEPT ![k] = IF e = Completed THEN CompletedStep(x)
                                                         ELSE ProgressStep(x, e)]
    /\ UNCHANGED <<cloud, req, call>>

CallbackReturns(k) ==
    /\ exp[k].busy
    /\ exp' = [exp EXCEPT ![k].busy = FALSE]
    /\ UNCHANGED <<cloud, req, call>>

-----------------------------------------------------------------------------
(* progress and report.                                                    *)

\* progress_detail: the native value is read only while the task is open.
ProgressDetail(t, k) ==
    /\ At(t, "idle") /\ exp[k].made
    /\ exp[k].status = "open"
    /\ exp[k].frac >= exp[k].progress
    /\ exp' = [exp EXCEPT ![k].progress = exp[k].frac]
    /\ UNCHANGED <<cloud, req, call>>

\* _load_report: read once, and the last progress with it.
Loaded(k) ==
    IF exp[k].report THEN exp[k]
    ELSE [exp[k] EXCEPT !.report = TRUE, !.progress = exp[k].frac]

Report(t, k) ==
    /\ At(t, "idle") /\ exp[k].terminal
    /\ exp' = [exp EXCEPT ![k] = Loaded(k)]
    /\ UNCHANGED <<cloud, req, call>>

-----------------------------------------------------------------------------
(* The end of an ExportTask: wait(), stop() and _finish.                    *)

\* What a caller of wait() or stop() does next: a user returns, close() deletes
\* the file or looks into the error.
AfterExport(t, k, closed) ==
    IF t \notin Closers THEN Idle
    ELSE [call[t] EXCEPT !.exps = @ \ {k},
                         !.pc = IF closed /\ exp[k].result = "file" THEN "delete"
                                ELSE "export_raised"]

\* succeed() and fail() of the task's coordinator: the caller, and every thread
\* that waits for this outcome, goes on.
Publish(t, k, closed) ==
    call' = [u \in Threads |->
               IF u = t \/ (At(u, "join") /\ call[u].k = k) THEN AfterExport(u, k, closed)
               ELSE call[u]]

Fail(t) ==
    /\ exp' = [exp EXCEPT ![call[t].k].status = "close_failed"]
    /\ Publish(t, call[t].k, FALSE)
    /\ UNCHANGED <<cloud, req>>

\* begin(): elected, or a wait for the thread that is, or closed already.
Begin(t, k, label) ==
    /\ exp' = [exp EXCEPT ![k].status = IF @ = "closed" THEN @ ELSE "closing"]
    /\ call' = [call EXCEPT ![t] =
          CASE exp[k].status = "closed" -> AfterExport(t, k, TRUE)
            [] exp[k].status = "closing" -> [@ EXCEPT !.pc = "join", !.k = k]
            [] OTHER -> [@ EXCEPT !.pc = label, !.k = k]]
    /\ UNCHANGED <<cloud, req>>

Wait(t, k) ==
    /\ At(t, "idle") /\ exp[k].made
    /\ call' = [call EXCEPT ![t].pc = "wait", ![t].k = k]
    /\ UNCHANGED <<cloud, req, exp>>

\* _done is set: _finish.
WaitDone(t) ==
    /\ At(t, "wait") /\ exp[call[t].k].terminal
    /\ Begin(t, call[t].k, "load")

\* The timeout of a user; close() gives none.
WaitTimesOut(t) ==
    /\ At(t, "wait") /\ t \in Users
    /\ Return(t)
    /\ UNCHANGED <<cloud, req, exp>>

\* stop() is refused in a callback of the task.
Stop(t, k) ==
    /\ At(t, "idle") /\ exp[k].made
    /\ Begin(t, k, IF exp[k].terminal THEN "load" ELSE "stop_native")

\* export_stop ends the export and may announce the completion, or it finds the
\* export ended and answers with its result or an error.  What it answers is
\* stored in the next step.
StopNative(t, end) ==
    /\ At(t, "stop_native")
    /\ LET k == call[t].k IN
       /\ ~exp[k].busy
       /\ exp[k].cancelled => end = "error"
       /\ IF exp[k].end = None
          THEN \E events \in {exp[k].events, Posted(k, Completed)} :
                   exp' = [exp EXCEPT ![k].end = end, ![k].events = events]
          ELSE end \in {exp[k].end, "error"} /\ UNCHANGED exp
       /\ call' = [call EXCEPT ![t].pc = "stop_store", ![t].got = end]
    /\ UNCHANGED <<cloud, req>>

\* Five seconds of "in use", because a callback does not return.
StopTimesOut(t) ==
    /\ At(t, "stop_native") /\ exp[call[t].k].busy
    /\ Fail(t)

\* Mutant: stop() forgets that the completion may have been handled meanwhile.
StopStoreOver(t) ==
    /\ At(t, "stop_store")
    /\ exp' = [exp EXCEPT ![call[t].k].terminal = TRUE,
                          ![call[t].k].result = call[t].got]
    /\ Goto(t, "load")
    /\ UNCHANGED <<cloud, req>>

StopStore(t) ==
    /\ At(t, "stop_store")
    /\ exp' = IF exp[call[t].k].terminal THEN exp
              ELSE [exp EXCEPT ![call[t].k].terminal = TRUE,
                               ![call[t].k].result = call[t].got]
    /\ Goto(t, "load")
    /\ UNCHANGED <<cloud, req>>

\* Mutant: the report is left for later.
LoadReportLater(t) ==
    /\ At(t, "load")
    /\ exp' = [exp EXCEPT ![call[t].k].shut = TRUE]
    /\ Goto(t, "drain")
    /\ UNCHANGED <<cloud, req>>

\* _load_report, while the handle lives; the Dispatcher takes no more events.
LoadReport(t) ==
    /\ At(t, "load")
    /\ exp' = [exp EXCEPT ![call[t].k] = [Loaded(call[t].k) EXCEPT !.shut = TRUE]]
    /\ Goto(t, "drain")
    /\ UNCHANGED <<cloud, req>>

\* Dispatcher.close() has waited for the accepted events.
Drained(t) ==
    /\ At(t, "drain")
    /\ exp[call[t].k].events = <<>> /\ ~exp[call[t].k].busy
    /\ Goto(t, "destroy")
    /\ UNCHANGED <<cloud, req, exp>>

DestroyExport(t) ==
    /\ At(t, "destroy")
    /\ exp' = [exp EXCEPT ![call[t].k].native = "gone"]
    /\ Goto(t, "finish")
    /\ UNCHANGED <<cloud, req>>

NativeRefuses(t) ==
    /\ \/ "export_report" \in Refusals /\ At(t, "load") /\ ~exp[call[t].k].report
       \/ "export_close" \in Refusals /\ At(t, "destroy")
    /\ Fail(t)

\* parent._finish_export and succeed().
FinishExport(t) ==
    /\ At(t, "finish")
    /\ cloud' = [cloud EXCEPT !.exports = @ \ {call[t].k}]
    /\ exp' = [exp EXCEPT ![call[t].k].status = "closed"]
    /\ Publish(t, call[t].k, TRUE)
    /\ UNCHANGED req

-----------------------------------------------------------------------------
(* ExportTask.cancel(), by a user or by close().                            *)

\* Mutant: close() waits for an export it has not cancelled.
CancelExportNot(t, k) ==
    /\ call' = [call EXCEPT ![t] = IF t \in Closers THEN [@ EXCEPT !.pc = "wait", !.k = k]
                                                    ELSE Idle]
    /\ UNCHANGED <<cloud, exp, req>>

\* Nothing to do when terminal; a task that is closing, or whose end failed,
\* refuses; otherwise the handle is read under the lock.
CancelExport(t, k) ==
    /\ \/ /\ exp[k].terminal
          /\ call' = [call EXCEPT ![t] = IF t \in Closers THEN [@ EXCEPT !.pc = "wait", !.k = k]
                                                          ELSE Idle]
          /\ UNCHANGED cloud
       \/ /\ ~exp[k].terminal /\ exp[k].status # "open"
          /\ IF t \in Closers THEN CloseFails(t) ELSE UNCHANGED <<cloud, call>>
       \/ /\ ~exp[k].terminal /\ exp[k].status = "open"
          /\ call' = [call EXCEPT ![t].pc = "export_cancel", ![t].k = k]
          /\ UNCHANGED cloud
    /\ UNCHANGED <<exp, req>>

Cancel(t, k) == At(t, "idle") /\ exp[k].made /\ CancelExport(t, k)

\* export_cancel, outside the lock.
ExportCancel(t) ==
    /\ At(t, "export_cancel") /\ exp[call[t].k].native = "live"
    /\ exp' = [exp EXCEPT ![call[t].k].cancelled = TRUE]
    /\ IF t \in Closers THEN Goto(t, "wait") ELSE Return(t)
    /\ UNCHANGED <<cloud, req>>

\* It fails, or stop() has destroyed the handle meanwhile.
ExportCancelRaises(t) ==
    /\ At(t, "export_cancel") /\ ("export_cancel" \in Refusals \/ exp[call[t].k].native = "gone")
    /\ IF t \in Closers THEN CloseFails(t) ELSE Return(t) /\ UNCHANGED cloud
    /\ UNCHANGED <<req, exp>>

-----------------------------------------------------------------------------
(* close(): _close_cloud.                                                   *)

\* begin() and the snapshots, in one critical section.
CloseBegin(t) ==
    /\ At(t, "idle")
    /\ cloud.status \in {"open", "close_failed"}
    /\ cloud' = [cloud EXCEPT !.status = "closing"]
    /\ call' = [call EXCEPT ![t] = [Idle EXCEPT !.pc = "close_requests",
                                      !.reqs = cloud.requests, !.exps = cloud.exports]]
    /\ UNCHANGED <<req, exp>>

\* cancel_and_wait of each request.
CloseRequest(t, r) ==
    /\ At(t, "close_requests") /\ r \in call[t].reqs
    /\ call' = [call EXCEPT ![t].pc = "cancel", ![t].r = r, ![t].reqs = @ \ {r}]
    /\ UNCHANGED <<cloud, req, exp>>

\* Mutant: the closer goes on when the request has completed.
CloseJoinsEarly(t) ==
    /\ At(t, "close_joins")
    /\ req[call[t].r].completed \/ req[call[t].r].finished
    /\ Goto(t, "close_requests")
    /\ UNCHANGED <<cloud, req, exp>>

CloseJoins(t) ==
    /\ At(t, "close_joins")
    /\ req[call[t].r].finished
    /\ Goto(t, "close_requests")
    /\ UNCHANGED <<cloud, req, exp>>

CloseRequestsDone(t) ==
    /\ At(t, "close_requests") /\ call[t].reqs = {}
    /\ Goto(t, "close_exports")
    /\ UNCHANGED <<cloud, req, exp>>

\* _close_from_parent of each export.  _terminal is read first; cancel() reads
\* it again, so that one step stands for both.
CloseExport(t, k) ==
    /\ At(t, "close_exports") /\ k \in call[t].exps
    /\ CancelExport(t, k)

\* result.delete(): a native call of its own.
DeleteFile(t) ==
    /\ At(t, "delete")
    /\ exp' = [exp EXCEPT ![call[t].k].deleted = TRUE]
    /\ Goto(t, "close_exports")
    /\ UNCHANGED <<cloud, req>>

DeleteRaises(t) ==
    /\ At(t, "delete") /\ "delete" \in Refusals
    /\ CloseFails(t)
    /\ UNCHANGED <<req, exp>>

\* wait() raised: no matter if the task is closed by now.
ExportRaised(t) ==
    /\ At(t, "export_raised")
    /\ IF exp[call[t].k].status = "closed"
       THEN Goto(t, "close_exports") /\ UNCHANGED cloud
       ELSE CloseFails(t)
    /\ UNCHANGED <<req, exp>>

\* The native CloudStorage is destroyed; client._finish_cloud.
CloseNative(t) ==
    /\ At(t, "close_exports") /\ call[t].exps = {}
    /\ \/ /\ cloud' = [cloud EXCEPT !.status = "closed", !.gone = TRUE]
          /\ Return(t)
       \/ "close" \in Refusals /\ CloseFails(t)
    /\ UNCHANGED <<req, exp>>

-----------------------------------------------------------------------------
\* The steps of a call that has begun, except the timeout of wait().
Step(t) ==
    \/ t \in Listers /\ (\/ ListStart(t) \/ ListStartFails(t) \/ ListCompleted(t)
                         \/ ListTimesOut(t) \/ ListDestroy(t) \/ ListEnd(t))
    \/ CancelCheck(t) \/ CancelNative(t) \/ CancelRaises(t) \/ CancelJoin(t)
    \/ WaitDone(t) \/ \E end \in Outcomes : StopNative(t, end)
    \/ StopTimesOut(t) \/ StopStore(t)
    \/ LoadReport(t) \/ Drained(t) \/ DestroyExport(t) \/ NativeRefuses(t) \/ FinishExport(t)
    \/ ExportCancel(t) \/ ExportCancelRaises(t)
    \/ \E r \in Listers : CloseRequest(t, r)
    \/ CloseJoins(t) \/ CloseRequestsDone(t)
    \/ \E k \in Exports : CloseExport(t, k)
    \/ DeleteFile(t) \/ DeleteRaises(t) \/ ExportRaised(t) \/ CloseNative(t)

Next ==
    \/ \E t \in Listers, timed \in BOOLEAN : ListBegin(t, timed)
    \/ \E t \in Users, k \in Exports :
          \/ ExportRecording(t, k) \/ ProgressDetail(t, k) \/ Report(t, k)
          \/ Wait(t, k) \/ Stop(t, k) \/ Cancel(t, k)
    \/ \E t \in Closers : CloseBegin(t)
    \/ \E t \in Threads : Step(t) \/ WaitTimesOut(t)
    \/ \E t \in Listers : RequestCompletes(t)
    \/ \E k \in Exports : \/ NativeProgress(k) \/ HandleEvent(k) \/ CallbackReturns(k)
                          \/ \E end \in Outcomes : NativeEnds(k, end)

Spec == Init /\ [][Next]_vars

\* Threads run, deadlines pass, callbacks return.  A native request or export
\* need not end by itself, but ends once its cancel was accepted.
Fairness ==
    /\ \A t \in Threads : WF_vars(Step(t))
    /\ \A t \in Listers : WF_vars(req[t].cancelled /\ RequestCompletes(t))
    /\ \A k \in Exports :
          /\ WF_vars(HandleEvent(k) \/ CallbackReturns(k))
          /\ WF_vars(exp[k].cancelled /\ \E end \in Outcomes : NativeEnds(k, end))

FairSpec == Spec /\ Fairness

-----------------------------------------------------------------------------
TypeOK ==
    /\ cloud \in [status : {"open", "closing", "close_failed", "closed"},
                  requests : SUBSET Listers, exports : SUBSET Exports, gone : BOOLEAN]
    /\ req \in [Listers -> [native : {"none", "live", "gone"}, started : BOOLEAN,
                            completed : BOOLEAN, finished : BOOLEAN,
                            cancelStarted : BOOLEAN, cancelFinished : BOOLEAN,
                            cancelled : BOOLEAN]]
    /\ \A k \in Exports :
          /\ exp[k].status \in {"open", "closing", "close_failed", "closed"}
          /\ exp[k].result \in Outcomes \cup {None} /\ exp[k].end \in Outcomes \cup {None}
          /\ exp[k].progress \in 0 .. MaxFraction /\ exp[k].frac \in 0 .. MaxFraction
          /\ \A i \in 1 .. Len(exp[k].events) :
                exp[k].events[i] \in (1 .. MaxFraction) \cup {Completed}

\* The native CloudStorage is destroyed by close() only when no list call and no
\* export is left that uses it, whatever began while close() was under way.
CloudDestroyedLast ==
    cloud.gone => /\ \A t \in Listers : At(t, "idle")
                  /\ \A k \in Exports : exp[k].made => exp[k].native = "gone"

\* The completion event and stop() race to end an export: the result that was
\* published first is never replaced.
ResultStands ==
    [][\A k \in Exports : exp[k].terminal => /\ exp'[k].terminal
                                             /\ exp'[k].result = exp[k].result]_vars

\* progress never goes back, although queued events, the progress property and
\* the final report write it in any order.
ProgressNeverGoesBack ==
    [][\A k \in Exports : exp'[k].progress >= exp[k].progress]_vars

\* Whoever destroys the native export has kept its report: report still
\* answers after wait(), stop() or close(), and reads no destroyed handle.
ReportKept == \A k \in Exports : exp[k].native = "gone" => exp[k].report

\* The records of the requests and exports keep their types, with ReportKept.
ExportsAreExact == TypeOK /\ ReportKept

\* close() returns: what it waits for it has cancelled, even while other
\* threads wait for, stop or cancel the same things.
CloseReturns == \A t \in Closers : ~At(t, "idle") ~> At(t, "idle")

\* A list call with a timeout returns, also when close() cancels its request
\* at the same time.
ListReturns == \A t \in Listers : (~At(t, "idle") /\ call[t].timed) ~> At(t, "idle")

\* close() "cancels the work in flight" (README.md:142): with a native SDK that
\* refuses nothing it does not fail.
CloseSucceeds == Refusals = {} => cloud.status # "close_failed"
=============================================================================
