# Verification of the TiRTC Python client

TLA+ models of the concurrent core of `tirtc-client-python`, with TLC runs on
small instances and TLAPS proofs for instances of any size. Paths below are
relative to the repository (`src/tirtc/...` is the Python package,
`native/extension.c` the CPython extension).

## 1. The system

The package wraps a native RTC and cloud-storage SDK. Python objects own native
handles; native threads deliver events; application threads call blocking
operations; everything may be closed from any thread, from a callback or from a
finalizer.

| Component | State | Operations | Made hard by |
|---|---|---|---|
| Callback pool, `_dispatch.py` | per object: event queue, frame count, dropped/scheduled/executing/closed flags, one Condition; process: a ready queue and two daemon workers | `post`, `post_native_task`, `_drain_one`, `barrier`, `close`, `discard` | flags changed under the lock and acted on after it; three kinds of waiters on one Condition; two queue limits; finalizers |
| Close coordinator, `_lifecycle.py` | status, generation, outcomes and waiter counts per generation | `begin`, `fail`, `succeed` | retries that overlap the waiters of the last try; interrupted waiters |
| Connection, `_core.py` | state, `_disconnect_finished`, the active attempt with its five events, children | `connect`, `disconnect`, `close`, event handler, managed completion | deadline against late success; three cancellers; event and completion in either order; failing native calls |
| Runtime leases, `_runtime.py` | active leases, RTC lease, storage count and configuration, shared configuration, fork and exit flags | `_acquire_rtc`, `_acquire_storage`, `_release`, fork and exit hooks | a lock held over native calls, re-entered by finalizers; fork half way |
| RTC Client, `_core.py`; Cloud Client, `storage/` | lease, set of connections or cloud storages | create or open a child, `close` | child errors; creation against close; callbacks that close what holds them |
| Outputs, `_core.py`, `storage/` | handle, binding, state, reference | `attach`, `detach`, `close`, parent's detach | both ends close at once; native call under the Output's lock |
| Recording, raw dump | handle, result or error, whether the native stop is done; a lock held over native calls (dump) | `stop`, `close` | stop by the application and by the parent at once; a stop that fails after the native stop; who deletes the file |
| Cloud storage, list requests, `storage/` | requests, replays, exports; per request five events and a cancel flag | list, cancel, create a replay or export, `close` | deadline, `close()` and completion meet; a handle destroyed under a cancel |
| Export task, `storage/` | terminal flag, result, progress, report, Dispatcher | events, `progress`, `report`, `wait`, `stop`, `cancel` | two sources of the result, three of the progress; the report must be read before the handle goes |
| Replay, `storage/` | operation lock, playback range, `_native_stopped`, children | play, seek, pause, speed, `stop`, start a recording or dump, `close` | a lock kept over native calls that answer "in use" while a callback runs, and callbacks that call back in |
| Native handles, `extension.c` | pointer, parent and callback references, creator process | new, get, close, destructor | destruction against use; the hand-off of callback tasks |

Interactions. Native threads enter Python through two sinks: `_native_sink`
posts events to the Dispatcher of the object, `_native_task_sink` hands tasks of
the native runtime to it. The pool calls `_handle_event` of the object, which
changes its state and calls the application. Every `close()` goes through a
CloseCoordinator; a Connection's teardown cancels its attempt, detaches its
Outputs, stops its dumps and recordings, closes its Dispatcher and only then
destroys the native handle. A Client closes its children and then releases its
lease.

What makes each part correct: callbacks of one object are serial, every accepted
event is delivered and every sleeper woken (pool); one teardown at a time, and
each caller is told the outcome of the one it joined (coordinator); no link
survives a failed `connect()` or a `close()`, and the state the application reads
settles on that of the link (Connection); the globals and the native runtime are
exactly those of the leases in force (leases); no parent is destroyed before what
was made from it, each recording is stopped once and its file has an owner or is
deleted, and a failed `close()` can be repeated until it succeeds (the trees); the
first result of an export stands and its progress only grows; a Replay's operations
are serial and never wait for themselves (storage). The hazards behind these are
listed, with their lines, in `PROJECT.json`.

## 2. Modules

| Module | What it is |
|---|---|
| `Dispatcher` | the callback pool; one action per critical section |
| `DispatcherProofs` | its inductive invariants and the theorems on all its safety properties |
| `CloseOnce` | abstract: what a `close()` promises |
| `CloseCoordinator` | `_CloseCoordinator`, shown to implement `CloseOnce` |
| `CloseCoordinatorProofs` | its inductive invariant and the refinement |
| `Connection` | connect / disconnect / close of one Connection; its `close()` is an instance of `CloseCoordinator` |
| `ConnectionProofs` | its `close()` implements `CloseCoordinator`; its inductive invariants and safety |
| `Outputs` | the bindings between Outputs and Connections: attach, detach and close at both ends |
| `OutputsProofs` | its inductive invariant and safety, whichever threads use which Output |
| `Runtime` | the leases, with fork, exit and finalizers |
| `RuntimeProofs` | its inductive invariant, safety and the order of giving back |
| `Lifetimes` | abstract: what the SDK promises about the lives of the objects of a tree |
| `ClientTree` | the teardown of the RTC tree (Client, Connection, recording, dump) and of the Cloud tree (Client, CloudStorage, Replay, recording, dump), shown to implement `Lifetimes` |
| `ClientTreeProofs` | its inductive invariant; parents outlive children, recordings are accounted for; the refinement |
| `CloudStorage` | list requests, export tasks and `close()` of a CloudStorage |
| `CloudStorageProofs` | its inductive invariant, safety and the finality of results and progress |
| `Replay` | the operations, callbacks and `close()` of one Replay |
| `ReplayProofs` | its inductive invariant and safety |
| `MC*` | instances for TLC |

Definitions whose comment begins with "Mutant" are deliberate mistakes, one per
checked property; replacing the definition that follows them must make TLC find
the property violated. `PROJECT.json` pairs them.

### Dispatcher

A queued event is its kind, a payload and, for a frame, the discontinuity flag;
the other data of an event is dropped. `closed`, `dropped`, `events`,
`executing`, `frameCount`, `scheduled` are the fields of `_Dispatcher`; `ready` is
the executor's queue. `asleep` holds whoever is inside `Condition.wait()`: only
`Notify`, which is `notify_all()`, takes them out, so a missing notification is
visible. `post()` is `PostReplace`, `PostDropFrame` or `PostAppend`; the call to
`schedule()` after the unlock is a step of its own (`PutReady`, `Reschedule`).
`Take`, `DrainEmpty`, `DrainPop`, `HandlerEnter` and `HandlerReturn` are the worker.
`HandlerEnter`/`HandlerReturn` bracket the user's callback, in which `NestedClose`
may close another object unless `Related` refuses it. `Collect` and `Discard` are
the finalizer: with cycle collection the weak handler is dead before it runs,
with plain deallocation it is not. A native task refused by the Dispatcher runs
in the destructor of its capsule on the SDK thread (`TaskReject`, `extension.c`
417-462), and its sink calls the handler there and then (`RefusedCallback`,
`RefusedReturn`; `inside` says whose callbacks a thread runs itself), where it may close
another object (`RefusedClose`). So callbacks run in the pool and outside it:
`SerialCallbacks` and `PoolQuietAfterClose` say what the pool guarantees, and that a
callback outside it belongs to a closed Dispatcher; `AllCallbacksSerial` and
`CloseAwaitsCallbacks` say what the README of the package promises of all callbacks, and
are violated (section 4). A task of which `extension.c` cannot allocate the capsule is
left out.
`newest`, `sinceLoss`, `dispatched` and `runs` are history variables.

### CloseOnce and CloseCoordinator

`CloseOnce` has no generations, counters or stored outcomes: callers join a
running attempt, its end fixes in one step what each of them is owed, and each
returns it later. The mapping sends a waiter whose outcome is stored to `owed` and
one whose outcome is missing to `joined`. `Leave` is the `finally` of the wait, run
by `Wake` and, for a thread that signals can reach, by `Interrupt`.

### Connection

One step is a critical section of the connection's lock, a native call, or the
end of a wait; `pc` names the place between two steps. `att` holds the
`_ConnectState` of each attempt: its three threading Events plus `done`, the
terminal code (absent, ok, failed), the cancel fields and the native side of a
managed attempt. `_cancel_connect` is one set of actions entered from three
callers; `ret` is the return address. Of the Dispatcher only its contract is kept:
one pending state event, the newest; one handler; `barrier()` and `close()` wait
for both. The native SDK (`NativeDisconnect`, `NativeRefuses`, `LinkUp`,
`LinkLost`) is external: modelled from how the code uses it.

`overlapped` records that a `connect()` began on a live link, with an event of the
last session unhandled, or while another thread was inside `disconnect()`. The
code then lets a stale DISCONNECTED fail the new attempt, or lets a late
`disconnect()` overwrite its state; no document says what should happen, so the
three properties about the link are stated for the other behaviours, and the
behaviours themselves stay in the model.

### Outputs

A binding is recorded three times: in `bound` of the Output, in `outputs` of the
Connection and in `native`. `call` says where each caller is: an application thread,
or the running callback of an Output. The Output's lock is explicit because
`attach()` holds it over the Connection's critical section and the native call
(`AttachRegister`, `AttachNative`, `AttachBind`); `detach()` and
`_detach_from_parent` share `Barrier`, `Unbind` and `Forget`, the last of which is
`Connection._detach`, outside the Output's lock. `Users` says which thread uses which
Output, and any number may share one. Where `Forget` takes away a registration that
another thread's `attach()` has made since, the history `lost` of the Connection keeps it
(number 5 of section 4); the binding properties except these registrations and no others.
`pending` and `busy` name the Connection a frame came from, which is what the guards
against self-waiting calls must recognise. Of `Connection.close()` only the
loop over `_outputs` is here; the rest is one step. The SDK may accept or refuse the
detach of an Output that is not attached: both happen in the model.

### Runtime

A lease is named by the Client that holds it and `Options` says what it was
created with. `lock` is `_lock`; the native calls run inside it without the GIL, so
every section is cut where another thread's `fork()`, or a finalizer on the holder
itself, can get in: before and after the native call, before and after
`_active_leases` changes. `Fork` continues the behaviour in the child: other
threads are gone, the hook renews the lock and looks at the leases, the native
state is inherited. `Collect` is `Client.__del__` run by the cycle collector on the
thread that holds the re-entrant lock. `torn` records that a fork hit a section of
another thread, `underway` what a creation cut by it had initialised already (`Started`),
and `reentered` that the finalizer of one storage Client with external tokens ran inside a
section that works on another, the only case in which a finalizer can do harm. A failing `_prepare_cache`, native creation or shutdown is an
alternative at each place; the retry loop of `_close_handle` is one step.

### Lifetimes and ClientTree

The objects are nodes; `Shapes` gives the trees, so that one module serves both
products, whose close loops are the same code twice. A caller (a thread, or the
running callback of a node) has a stack of frames, because `close()` of a Client is
inside it that of a Connection and inside that `stop()` of a recording: `Entry` is
`begin()` of the coordinator with the snapshot of the children, taken as `CloseOnce`
describes it (elected, joined, or closed); `CloseChild` calls down, `ret` is what the
call returned, and `ChildClosed`, `DeleteRaises` and `ChildRaised` are what the loop
makes of it. A recording keeps `_stopped`, its result and its error across a
repeated `stop()`; a dump has a plain lock instead of a coordinator (`LockDump`,
`StopFirst`, `CloseDump`). The end of a `close()` or `stop()` is two steps under different
locks: `Unregister`, which is the `_finish_*` of the parent, and `Succeed`, in the order
that `LeavesLast` says. Between them a recording or Replay is unregistered and not yet
closed, its parent may be closed around it, and the file is not yet handed out
(`HandingOut`). `Refused` is the set of guards against a callback that
would wait for itself. `given` and `stops` are history: the file was returned to
the application, how often the native stop took effect. The other waits inside a
`close()` (attempts, Outputs, requests, playback) are in the modules named after
them.

`Lifetimes` has no callers, stacks, snapshots or faults: each object is absent, open,
ending, destroyed or closed, in that order, and only its parent and children matter.
The mapping (`Life`) sends every status of a `close()` that is running or has failed to
"ending", so that a failed `close()` may not open the object again, and a native object
that is gone to "destroyed" until the coordinator says closed. A parent may be destroyed when its
children are, closed or not: that is when a child has left it. A dump has no such
states: its status only says who holds its lock, and it is open until it is closed.

### CloudStorage

`req` is the `_ListRequest` of each listing thread with its events `started`,
`completed`, `finished` and `_cancel_finished`; `cancel()` is one set of actions
(`CancelCheck`, `CancelNative`, `CancelRaises`, `CancelJoin`) entered by the lister
after its deadline and by `close()`. The lister may destroy the native request
between another thread's check and its `request_cancel`; the SDK is then handed a
null pointer and may answer either way. `exp` is an ExportTask, its Dispatcher queue
and its native half. `stop()` and `wait()` end in the same steps (`LoadReport`,
`Drained`, `DestroyExport`, `FinishExport`) under the task's coordinator; `Publish`
releases the threads that joined. The answer of `export_stop` is stored one step after
the call (`StopNative`, `StopStore`), so the completion event can come between.
Progress is counted in steps. `Refusals` names the native calls that may fail.

### Replay

`_operation_lock` is explicit: a thread waits for it, a callback takes it at once or is
refused (`CallFromCallback`). `Native` is the call under the lock, which gets through
only when no callback runs, and `Store` the assignments after it. `Retried`, `Once`
and `Blocking` say which operations repeat "in use", which raise it, and which are
refused in a callback. The callback is one more caller. `close()` gives the lock up
after `begin()` and goes on without it.

## 3. Runs

| Run | Instance | Shows |
|---|---|---|
| `dispatcher_policy` | one Output, 1 worker, 2 SDK threads, 1 application thread, capacity 3, frame capacity 2, 2 states | `QueueBounds`, `LossIsAnnounced`, `PendingStateIsNewest` at both limits |
| `dispatcher_pool` | a Connection and a Replay, 2 workers, 2 SDK threads, 1 application thread, capacity 1, 2 tasks, the Replay's callback may close the Connection | `SerialCallbacks`, `NothingStranded` (events and sleepers), `TaskRunsOnce`, `PoolQuietAfterClose`, and that tasks run and `close()` returns |
| `close_coordinator` | 3 threads, 1 interruptible, 2 errors, 3 generations | `CoordInv` (one teardown, outcomes kept as long as needed, no sleeper forgotten), `ImplementsCloseOnce`, `WaitersReturn` |
| `connection_safety` | 3 threads, 2 attempts, both credential modes | `NoLinkLeftBehind`, `StateMatchesLink`, `AttemptsAreExact` |
| `connection_failures` | 2 threads, 1 attempt, 2 teardowns; either no faults, or failing native calls and an interrupt | `HandleOutlivesConnect`, `CloseIsComplete`; without faults `CallsReturn` |
| `connection_interrupt` | 1 thread | violation: an interrupted `connect()` makes `close()` hang |
| `outputs_binding` | 2 Outputs, one of them used by both threads, 2 Connections, one callback that may close, failing native calls | `OutputsLeaveFirst`, `HandlesOutliveUse`, `RecordsAgree` |
| `runtime_leases` | 2 threads, 5 Clients, 2 forks, finalizers | `LeaseAccounts`, `NativeFollowsLeases`, `ForkedChildIsSafe`, `GivenBackFirst` |
| `client_tree` | 5 objects as an RTC or a Cloud tree, 2 threads and the callback of a Connection or Replay, recordings that fail, 1 native call that times out or is refused | `ParentOutlivesChildren`, `RecordingsAccountedFor`, `ImplementsLifetimes`, `CallsReturn`, `ClientClosesInTheEnd` |
| `replay_operations` | 2 threads, 2 callbacks, 2 ranges, 2 seek targets, 1 child, failing native calls | `StoppedBeforeDestroyed`, `SeekInsideRange`, `HandleOutlivesUse`, `CallsReturn` |
| `cloud_storage_work` | a lister, a user, a closer, 1 export with 2 steps of progress, failing native calls | `CloudDestroyedLast`, `ExportsAreExact`, `ResultStands`, `ProgressNeverGoesBack`, `CloseReturns`, `ListReturns` |
| `cloud_storage_closing` | the same, nothing is refused | violation: `close()` fails because of another thread's `stop()` |

Bounds. Two workers is the code's number. Capacity 3 with frame capacity 2 lets
one Output fill either limit first, evict a frame for an error or a state and keep
a terminal event that cannot be evicted; capacity 1 makes a task wait at the
smallest legal queue. Three generations let a waiter of the first be late by two.
Three threads let a timed-out `connect()`, a `disconnect()` and a `close()` cancel
one attempt; two attempts let one follow on another. Two Outputs and two
Connections let an Output move from one Connection to the other while the first is
being closed, and let the loop over `_outputs` stop half way; an Output of two threads
lets an `attach()` meet a `detach()` that has not ended. Two forks let a child of a torn
fork fork again. Two Cloud Clients share the
storage runtime, so that the count goes over one; a third differs in everything
shared, and two RTC Clients compete. Five nodes give each tree its full depth and a
Connection next to the one being closed; one fault is enough to make any `close()` stop
half way and be repeated, since a recording may fail besides. Two ranges let `play()`
replace the one a `seek()` was checked against, and each target lies in one of them; two
callbacks let one begin while `close()` waits for the other. Two steps of progress let the
`progress` property overtake a queued event. One export is enough: exports share
nothing but the set `close()` copies. `cloud_storage_work` leaves the refusal of
`request_cancel` out, without which a refused cancel leaves a request nobody ends, and
that of `export_report`, to keep the run short. Deadlock checking is off in the runs because
an application that has closed everything, or makes no call, is at rest; that calls
come back is checked as liveness instead.

Fairness. Workers are daemon threads that are always runnable, and callbacks are
assumed to return, as the README of the package asks (`WorkerStep`); a thread
inside a call continues when it can (`ThreadContinue`, `Continue`); the deadline of
`connect()` passes; a managed attempt that was cancelled completes, which is what
`connect_attempt_cancel` is for. In `CloudStorage` the deadline of a list call passes, and
a request or export ends once its cancel was accepted, but never by itself; the
timeouts of `wait()` are not assumed. In `Replay` no five-second retry is assumed to
run out: what returns does so without the help of a timeout. In `ClientTree` the
application closes a Client again while it is not closed (needed by
`ClientClosesInTheEnd` only, and bounded by `MaxFaults` failures of the SDK). Nothing makes the application call, the link come
up, or the sinks stop, and no fairness is assumed of `NestedClose`. All fairness is
weak.

## 4. Disagreements found

Two are runs that end in a violation:

1. **Hanging `close()`** (`connection_interrupt`). `attempt.done.wait()` and the
   cancel after it (`_core.py` 519-520) stand before the `try` that sets
   `attempt.finished`. After a KeyboardInterrupt there, as in
   `with client.create_connection() as c: c.connect(...)` and Ctrl-C, `close()`
   waits at line 778 for an event nobody sets. The same happens when the native
   cancel fails and a late event sets `terminal_code`: run `connection_interrupt`
   with `FaultSets` a definition of `{{"native"}}` to see it.
2. **`close()` fails while an export is being stopped** (`cloud_storage_closing`).
   `_close_from_parent` calls `cancel()`, whose `require_open()` (`storage/__init__.py`
   1263) raises ClosedError while another thread is inside `stop()` of the export, or
   after that `stop()` has timed out. `close()` of the CloudStorage, and of the Client,
   fails instead of waiting; README line 142 says that closing a Client cancels the
   work in flight and closes the tree.

The others are shown by the same modules, with another constant or with one property
more:

3. **A callback beside the pool.** A native task that arrives once
   `close()` has set `_closed` is refused, and the destructor of its capsule runs it on
   the SDK thread (`extension.c` 417-462). Its sink calls the handler, and with it the
   application's callback, without a look at `_closed` (`_dispatch.py` 281-284), while a
   worker may still be inside a callback of the same Replay or export. README line 146
   says that the callbacks of one object run serially. Add `AllCallbacksSerial` to the
   invariants of `Dispatcher_pool.cfg`: violated.
4. **A callback after `close()`.** Nothing counts that callback, so
   `close()` returns while it runs, or before. README line 148 says that `close()` stops
   new callbacks and waits for those that were entered before it releases the native half.
   Both need the SDK to dispatch a task after `close()` has begun, which is what the comment
   at `extension.c` 452 provides for. Add `CloseAwaitsCallbacks` to the invariants of
   `Dispatcher_pool.cfg`: violated.
5. **A binding is unregistered by the detach before it.** `detach()`
   clears `_bound`, releases the Output's lock and then calls `bound._detach(self)`
   (`_core.py` 1022-1026). An `attach()` to the same Connection on another thread in
   between is forgotten by the Connection, whose `close()` then destroys the native
   Connection with the Output attached; README line 144 says that closing a Connection
   detaches its Outputs. Add `AllOutputsLeave` to the invariants of
   `Outputs_binding.cfg`: violated.
6. **Mutual close in callbacks.** `close()` inside a callback is refused only for the
   callback's own object and the one bound to it (`_core.py` 763-765, 1064-1066). Two
   callbacks that close each other's objects block both workers for good, although
   README line 148 says that a self-waiting close raises `InUseError`. In `Dispatcher`:
   two dispatchers `a`, `b` with `CallbackCloses` `{<<a, b>>, <<b, a>>}`; `CloseReturns`
   fails for a thread that closes either.
7. **Storage runtime shut down under a new Client.** A dropped Cloud Client collected
   between lines 311 and 323 of `_acquire_storage` releases its lease through the
   re-entrant lock: the count is still one, so it calls `storage_shutdown`; the new
   Client has skipped `storage_initialize`. The mirror image in `_release` (lines
   359-365) leaves the runtime initialised with no Client. Both Clients have external
   tokens, the only leases that are counted. In `Runtime`: drop `~reentered` from
   `NativeFollowsLeases`.
8. **The self-close guard has a gap.** `attach()` sets `_bound` after the native attach
   (`_core.py` 997-1003). A frame handled in between runs a callback whose `close()` of
   the Connection passes the guard on line 764: it begins the teardown and fails in the
   middle, or waits for another thread's `close()` that waits for this callback. README
   line 148 promises `InUseError` before any part of the teardown. In `Outputs` it is
   the exception that `BoundWhileHandled` makes.

`barrier()` on an open Dispatcher, the last act of `connect()`, has no deadline and
waits for an instant of quiet while messages keep being accepted, although README
line 148 calls `connect()` bounded.

A fork that hits a section between the native initialisation and
`_active_leases.add` gives a child that is not refused although it inherited what the
creation had initialised; the package's README names only the cases before and after, so
it is listed as a hazard. `ChildIsRefused` speaks of every fork, torn or not: nothing but
that (`underway`) is in a child that is not refused.

Two more that no document decides are in `ClientTree` and listed as hazards: a file
whose deletion fails inside `close()` is deleted by nobody, and `close()` deletes the
file of a recording that the application's own `stop()` returns at the same moment. In
`CloudStorage`, a `request_cancel` that is refused once is never tried again.

## 5. Proofs

Every theorem holds for arbitrary constants that satisfy the named assumptions of the
modules; two about `Connection` have one hypothesis more, given below. The assumptions say that the sets are of the right
kind, that bounds are numbers and that a name such as `"none"` is not also the name of a
thread or object; `PayloadAssumption` says that a task, which is a capsule, is not a state,
which is a number; `EmitsAssumption` says that a sink has one kind of terminal event,
which is how `_dispatch.py` is used; `ShapeAssumption` that only containers have children
and that the Client, which nothing holds, is there at the start. Every inductive invariant was
checked with TLC on the instances of section 3 before it was proved.

`DispatcherProofs`. Two workers cannot be shown apart from "scheduled" alone,
because `discard()` clears it and `_drain_one` hands it on after the unlock. The
inductive invariant `DispatchInv` follows the right to drain, the token: it is in
at most one place (the ready queue, a poster about to append, a worker), it implies
`scheduled` or `closed`, and `executing` is exactly the unlocked section. A post
creates a token only when `scheduled` was false and the Dispatcher open, hence when
there was none. From it: `CallbacksAreSerial`; `EventsAreNotStranded` (`scheduled`
iff an event is queued or handled, and then the token exists); and, from that,
`NoWakeupLost`: the empty path of `_drain_one`, which does not notify, is only taken
when nobody can be waiting for it (`NothingIsStranded` is both). `ClosedIsQuiet` needs that `_executing` is exactly the
unlocked section, for then what `close()` tests is what the pool runs, and that only a
closed Dispatcher has callers waiting for its end (`ClosersShut`). The callbacks of
refused tasks are outside the pool and of the two: they are proved to belong to closed
Dispatchers (`CallbacksAreSerial`), and nothing more is true of them. `TypeCorrect` is proved first and used
throughout.

What the queue holds rests on four facts about its operations, stated as lemmas:
what `Append`, a replacement in place and a deletion at a position do to the positions
and the number of each kind (`AppendedPositions`, `ReplacedPositions`, `Shift`,
`CountDeleted`), and which events `discard()` keeps (`KeptEvents`). `QueuesAreBounded`
needs to know besides that a dispatcher queues only the kinds its sinks emit
(`KindsEmitted`, `TasksPosted`): a queue full of terminal events, which nothing may
evict, has one element. `NewestStatePends` is inductive with these.
`TasksRunOnce` follows a task: its invariant `TaskInv` says that a dispatched task is in
exactly one hand (the native thread that offers it, one position of one queue, one
worker) and has not run, or in none and has run once; in `discard()` with the handler
dead and in the refusal of a closed queue it is the destructor that runs it.
`LossesAreAnnounced` is not inductive in terms of the first frame after the loss, which
eviction moves. `LossInv` counts from the other end: the frame that `sinceLoss - 1`
others follow carries the mark, whether it is queued or held by the one worker that
`DispatchInv` allows; evicting a frame makes it a new loss, unreported, and sets `dropped`.

`CloseCoordinatorProofs`. `CoordInv` is `OneTeardown`, `OutcomesKept`,
`WaiterServed` and `NoLostWakeup` together: none is inductive alone, since the count
of waiters decides when an outcome is stored and removed, and its presence decides
who may sleep. With it, each step maps to a step of `CloseOnce` or to a stutter:
`CoordinatorImplementsCloseOnce`.

`ConnectionProofs`. The coordinator is not proved about again: every step of a
Connection is a step of `CloseCoordinator` or leaves it alone (`CloseIsCoordinated`),
so its theorems hold of a Connection, `CloseOnce` among them
(`ConnectionImplementsCloseOnce`). On that rests `ConnInv`, the invariant of control:
at most one thread is inside `connect()` and its attempt is the active one; the thread
that tears down is the one the coordinator elected; a cancel has one owner; once
`close()` has gone past the attempt it found, nobody is inside `connect()`. It gives
`AttemptsExact`, `ClosesCompletely` and `HandleOutlives`, whatever native calls fail.
`LinkInv` adds the data: as long as no `connect()` began before the last session was
over (`overlapped`, section 2), link, pending and handled event, `_state`,
`_disconnect_finished`, the latest attempt and the place of every thread tell one story. A
connect that raises leaves no link (`ConnectRaisesCleanly`), failing native calls or not.
`NothingLeftBehind` and `StateIsTheLinks` have the hypothesis that no native cancel or
disconnect fails: after one that does, the link is up and nothing in the client knows
how to take it down, so that neither property can hold.

`OutputsProofs`. `OutputsInv` says for every place of a caller what it may rely on:
`attach()` holds the lock of an Output bound to nothing and is already listed by the
Connection; one `detach()` owns `_detaching`, and one thread the `close()` of an Output
(`OneShutter`); what the native Output is attached to is `_bound` or what an `attach()` is
about to put there; and the loop of `Connection.close()` still has before it every Output
that is attached (`Covers`). Threads share Outputs freely. What makes the invariant
inductive with several of them is `Listed`: the Connection has the Output in `_outputs`
or has lost it to the end of an older `detach()`. `OutputsLeave`, `HandlesLive` and
`RecordsDoAgree` follow, without a hypothesis; what they except is exactly number 5 of
section 4.

`RuntimeProofs`. The globals are changed in several lines under the lock, with finalizers
and forks between them. `Agreed` says what every lease in force may rely on, also in the
child of a torn fork; `StillPermitted` that a creation let through by the checks is not
overtaken before it is registered; `Exact` and `NativeExact` that without a torn fork
nothing else is in the globals and, without a re-entrant finalizer of the harmful kind, in
the native runtime; `Bounded` that also after torn forks, in a child that is not refused,
the native runtime holds at most the leases in force and what a cut creation had
initialised. `LeasesAccounted`, `NativeFollows`, `ForkedChild`, and the action property
`LeasesGivenBackFirst`, which needs `GivenBack` only and so holds for re-entrant
finalizers too.

`CloudStorageProofs`. `CloudInv` ties the copies that `close()` works from to the sets
they were taken of: whatever a lister or an export still uses is in what is left of them
(`Covered`). `ReportKept`, that the native half is destroyed only with the report
loaded, is part of it. `CloudLast` and `ExportsExact` follow, and the two action properties
`ResultsStand` and `ProgressKept`: the first because the result is stored at one place,
guarded by `terminal`; the second because queued progress, the native progress and the
stored one are ordered (`Bounded`).

`ReplayProofs`. The argument is the lock: `LockExact` says that it is held by exactly the
caller between its checks and its assignments, and only while the Replay is open, so
`begin()` of `close()` cannot come between. `StoredExact` says that what the Replay has
stored is what the native half plays, unless a `play()` is about to store it. From it
`ReplayStopped`, `SeeksInside` and `HandleOutlives`.

`ClientTreeProofs`. The argument is the stack. `Linked` says that a frame in the middle
of a stack is the loop of a container's `close()`, and the frame above it is the call it
made; `Covered`, that every child of its object whose native half is not gone is still before
the loop, or is the child it waits for, so that a loop with nothing before it and nothing
to wait for has seen the end of them all. The snapshot covers the children because `Creates` refuses
a parent that is being closed, and stays a cover because a child leaves it only by the
call of its own `close()` or `stop()`, after its native half has gone. `OneWorker` (one frame works on an object, all others join it)
makes that call's return mean what it says, and `GoneExact` ties the native object to the
status, which follows it after one or two more steps. `Registered` says that a child stays
in the sets of its parent until its native half is gone, and that is what makes a repeated `close()` meet again what the
failed one left. `Recorded` adds, for the file: a closed recording whose file nobody was given has the `close()` of its parent about to
delete it (`Deletes`); one that is unregistered and not yet closed has the `stop()` that
will hand it out. `ParentsOutlive` and
`RecordingsAccounted` follow, for any tree, callers and failures. With the same invariant
and `Fresh` (what was not created yet has the record it started with), each step maps to a
step of `Lifetimes` or to a stutter: `TreesImplementLifetimes`. `OneLife` is its core: a
step that alters the record of one object is a step of that object's life, and an object
outlives what is below it because of `Covered`. For TLC the quantifiers
over positions and frames were written over the stacks there are.

`TypeOK` and `DispatchInv` of the Dispatcher and `TypeOK` of the coordinator are proved
and no longer part of a run.

Every invariant and action property of the passing runs is stated by a theorem. Only
model-checked:

- everything temporal with fairness, which is out of the prover's reach: `TasksRun` and
  `CloseReturns` of the Dispatcher, `WaitersReturn` of the coordinator, `CallsReturn` of
  Connection, ClientTree and Replay, `CloseReturns` and `ListReturns` of CloudStorage,
  `ClientClosesInTheEnd` (weak fairness also speaks of `ENABLED`);
- the two runs that end in a violation.

## 6. Not modelled, and the plan

Not modelled on purpose: argument validation, value conversion, error texts and
logging (no state); commands, messages, stream requests, `update_token` and
`upload_logs` (one native call under the object's lock, no state of their own); the
media path inside the native SDK; the raw dump file format (written by the SDK); the
examples. The finalizers are in Dispatcher and Runtime, where they interfere; those of
the other objects run when no other thread can reach the object, and then call its
`close()` or `stop()`.

Two steps of `CloudStorage` merge what the code does in a row: `ListEnd` is the discard of
the request, `finished.set()` and the return, `FinishExport` the same for an export; no
property tells the parts apart. A RawDump whose native close answers "in use" because a
callback of another object runs is not modelled.

Not modelled yet: signals inside `detach()`; the Replay twin of attach and detach, which
is the code of `Outputs` again; evictions of a Connection's state event by a flood of
messages (Dispatcher and Connection composed); the reference counts of `NativeHandle`
capsules.
