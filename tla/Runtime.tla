------------------------------ MODULE Runtime -------------------------------
(***************************************************************************)
(* The process-wide leases of src/tirtc/_runtime.py.  Every Client holds    *)
(* one lease: _acquire_rtc and _acquire_storage initialise the native       *)
(* runtime, _release shuts it down.  _lock is held over the native calls,   *)
(* which release the GIL, so a fork of another thread, or a finalizer that  *)
(* the cycle collector runs on the holder of this re-entrant lock, finds    *)
(* the globals half way.                                                    *)
(*                                                                         *)
(* A lease is named by the Client that asks for it; Options gives what that *)
(* Client was created with.  After Fork the behaviour goes on in the child. *)
(* The native runtime is external, modelled from how the code uses it.      *)
(***************************************************************************)
EXTENDS Integers, FiniteSets

CONSTANTS
    Threads,    \* application threads
    Leases,     \* the Clients of the application
    Options,    \* what each Client is created with
    Reentrant,  \* does the collector run finalizers on the holder of _lock?
    MaxForks    \* bound on fork()

Products == {"rtc", "storage"}
AuthModes == {"access_key", "external_token"}

\* shared: cache_dir and console_log_enabled; legacy: app_id and endpoint.
ASSUME OptionsAssumption ==
    /\ \A l \in Leases : /\ Options[l].product \in Products
                         /\ Options[l].mode \in AuthModes
                         /\ "none" \notin {Options[l].shared, Options[l].legacy}
    /\ "none" \notin Threads \cup Leases
    /\ Leases \cap Products = {}

ASSUME BoundsAssumption ==
    IsFiniteSet(Leases) /\ Reentrant \in BOOLEAN /\ MaxForks \in Nat

VARIABLES
    lock,           \* the holder of _lock
    active,         \* _active_leases
    rtcLease,       \* _rtc_lease
    extConfig,      \* _external_storage_configuration
    extCount,       \* _external_storage_count
    shared,         \* _shared_configuration
    forkedWithRuntime, finalizing,  \* _forked_with_runtime, _interpreter_finalizing
    lease,          \* the _RuntimeLease of each Client: none, open or closed
    garbage,        \* Clients dropped without close(): unreachable cycles
    handles,        \* native: clients created with access keys
    up,             \* native: the products initialised for external tokens
    inherited,      \* native: what the child of a fork found initialised
    underway,       \* history: what of it a creation cut by a fork had initialised
    pc, arg,        \* thread: where it is, the lease it works on
    forks, torn,    \* history: forks; one hit a critical section of another thread
    reentered       \* history: a finalizer ran inside a section, both of storage

moduleVars  == <<active, rtcLease, extConfig, extCount, shared>>
processVars == <<forkedWithRuntime, finalizing, inherited, underway, forks, torn,
                reentered>>
leaseVars   == <<lease, garbage>>
nativeVars  == <<handles, up>>
threadVars  == <<pc, arg>>
vars == <<lock, moduleVars, processVars, leaseVars, nativeVars, threadVars>>

None == "none"
External(l) == Options[l].mode = "external_token"
Rtc(l)      == Options[l].product = "rtc"
Counted(l)  == External(l) /\ ~Rtc(l)    \* shares the storage runtime

Init ==
    /\ lock = None
    /\ active = {}
    /\ rtcLease = None
    /\ extConfig = None
    /\ extCount = 0
    /\ shared = None
    /\ forkedWithRuntime = FALSE
    /\ finalizing = FALSE
    /\ lease = [l \in Leases |-> "none"]
    /\ garbage = {}
    /\ handles = {}
    /\ up = {}
    /\ inherited = {}
    /\ underway = {}
    /\ pc = [t \in Threads |-> "idle"]
    /\ arg = [t \in Threads |-> None]
    /\ forks = 0
    /\ torn = FALSE
    /\ reentered = FALSE

\* _check_process, at the head of every call and before the lock.
ProcessIsCurrent == ~forkedWithRuntime /\ ~finalizing

\* The call of t is over: the lock is free again.
Return(t) ==
    /\ pc' = [pc EXCEPT ![t] = "idle"]
    /\ arg' = [arg EXCEPT ![t] = None]
    /\ lock' = None

Goto(t, label) == pc' = [pc EXCEPT ![t] = label]

Enter(t, l, label) ==
    /\ pc[t] = "idle"
    /\ ProcessIsCurrent
    /\ Goto(t, label)
    /\ arg' = [arg EXCEPT ![t] = l]
    /\ UNCHANGED <<lock, moduleVars, processVars, nativeVars>>

-----------------------------------------------------------------------------
(* _acquire_rtc and _acquire_storage.                                      *)

\* A Client is created; the name of a closed one may be used again.
Acquire(t) ==
    \E l \in Leases \ garbage :
        /\ lease[l] # "open"
        /\ \A u \in Threads : arg[u] # l
        /\ Enter(t, l, "acquire")
        /\ UNCHANGED leaseVars

\* One RTC Client; one cache_dir and console setting; one app_id and endpoint
\* among the external-token storage Clients.
Permitted(l) ==
    /\ Rtc(l) => rtcLease = None
    /\ shared \in {None, Options[l].shared}
    /\ Counted(l) => extConfig \in {None, Options[l].legacy}

\* Refused, or _prepare_cache fails.
AcquireRefused(t) ==
    /\ pc[t] = "acquire"
    /\ lock = None
    /\ Return(t)
    /\ UNCHANGED <<moduleVars, processVars, leaseVars, nativeVars>>

AcquireChecked(t) ==
    /\ pc[t] = "acquire"
    /\ lock = None
    /\ Permitted(arg[t])
    /\ lock' = t
    /\ Goto(t, "create")
    /\ UNCHANGED <<moduleVars, processVars, leaseVars, nativeVars, arg>>

\* The native call fails.
CreateFails(t) ==
    /\ pc[t] = "create"
    /\ Counted(arg[t]) => extCount = 0
    /\ Return(t)
    /\ UNCHANGED <<moduleVars, processVars, leaseVars, nativeVars>>

\* It succeeds; the storage runtime is initialised by its first Client only.
Create(t) ==
    /\ pc[t] = "create"
    /\ LET l == arg[t]
       IN  /\ handles' = IF External(l) THEN handles ELSE handles \cup {l}
           /\ up' = IF External(l) /\ (Counted(l) => extCount = 0)
                      THEN up \cup {Options[l].product} ELSE up
           /\ Goto(t, IF Rtc(l) THEN "name" ELSE "register")
    /\ UNCHANGED <<lock, moduleVars, processVars, leaseVars, arg>>

NameRtcLease(t) ==
    /\ pc[t] = "name"
    /\ rtcLease' = arg[t]
    /\ Goto(t, "register")
    /\ UNCHANGED <<lock, active, extConfig, extCount, shared, processVars, leaseVars,
                   nativeVars, arg>>

\* Mutant: the configuration of the storage runtime is not kept.
RegisterNoConfig(t) ==
    /\ pc[t] = "register"
    /\ LET l == arg[t]
       IN  /\ active' = active \cup {l}
           /\ lease' = [lease EXCEPT ![l] = "open"]
           /\ extCount' = IF Counted(l) THEN extCount + 1 ELSE extCount
           /\ shared' = IF shared = None THEN Options[l].shared ELSE shared
    /\ Return(t)
    /\ UNCHANGED <<rtcLease, extConfig, processVars, garbage, nativeVars>>

Register(t) ==
    /\ pc[t] = "register"
    /\ LET l == arg[t]
       IN  /\ active' = active \cup {l}
           /\ lease' = [lease EXCEPT ![l] = "open"]
           /\ extConfig' = IF Counted(l) THEN Options[l].legacy ELSE extConfig
           /\ extCount' = IF Counted(l) THEN extCount + 1 ELSE extCount
           /\ shared' = IF shared = None THEN Options[l].shared ELSE shared
    /\ Return(t)
    /\ UNCHANGED <<rtcLease, processVars, garbage, nativeVars>>

-----------------------------------------------------------------------------
(* _release.                                                               *)

\* Client.close(), or the finalizer of a dropped Client on an idle thread.
Release(t) ==
    \E l \in Leases :
        /\ lease[l] # "none"
        /\ \A u \in Threads : arg[u] = l => pc[u] = "release"
        /\ Enter(t, l, "release")
        /\ garbage' = garbage \ {l}
        /\ UNCHANGED lease

ReleaseClosed(t) ==
    /\ pc[t] = "release"
    /\ lock = None
    /\ lease[arg[t]] = "closed"
    /\ Return(t)
    /\ UNCHANGED <<moduleVars, processVars, leaseVars, nativeVars>>

ReleaseBegin(t) ==
    /\ pc[t] = "release"
    /\ lock = None
    /\ lease[arg[t]] = "open"
    /\ arg[t] \in active
    /\ lock' = t
    /\ Goto(t, "destroy")
    /\ UNCHANGED <<moduleVars, processVars, leaseVars, nativeVars, arg>>

\* Mutant: the storage runtime is shut down with whichever Client closes first.
DestroyedEach(l) ==
    /\ handles' = IF External(l) THEN handles ELSE handles \ {l}
    /\ up' = IF External(l) THEN up \ {Options[l].product} ELSE up

\* The native call that gives back what lease l holds.
Destroyed(l) ==
    /\ handles' = IF External(l) THEN handles ELSE handles \ {l}
    /\ up' = IF External(l) /\ (Counted(l) => extCount = 1)
               THEN up \ {Options[l].product} ELSE up

\* Mutant: the error code of the native call is not looked at.
DestroyFailsIgnored(t) ==
    /\ pc[t] = "destroy"
    /\ Counted(arg[t]) => extCount = 1
    /\ Goto(t, "remove")
    /\ UNCHANGED <<lock, moduleVars, processVars, leaseVars, nativeVars, arg>>

\* It fails: the Client stays open and its close() may be called again.
DestroyFails(t) ==
    /\ pc[t] = "destroy"
    /\ Counted(arg[t]) => extCount = 1
    /\ Return(t)
    /\ UNCHANGED <<moduleVars, processVars, leaseVars, nativeVars>>

Destroy(t) ==
    /\ pc[t] = "destroy"
    /\ Destroyed(arg[t])
    /\ Goto(t, "remove")
    /\ UNCHANGED <<lock, moduleVars, processVars, leaseVars, arg>>

Remove(t) ==
    /\ pc[t] = "remove"
    /\ active' = active \ {arg[t]}
    /\ Goto(t, "forget")
    /\ UNCHANGED <<lock, rtcLease, extConfig, extCount, shared, processVars, leaseVars,
                   nativeVars, arg>>

\* The rest of _release(l), once the active leases are "left".
Forgotten(l, left) ==
    /\ rtcLease' = IF Rtc(l) THEN None ELSE rtcLease
    /\ extCount' = IF Counted(l) THEN extCount - 1 ELSE extCount
    /\ extConfig' = IF Counted(l) /\ extCount = 1 THEN None ELSE extConfig
    /\ lease' = [lease EXCEPT ![l] = "closed"]
    /\ shared' = IF left = {} THEN None ELSE shared

Forget(t) ==
    /\ pc[t] = "forget"
    /\ Forgotten(arg[t], active)
    /\ Return(t)
    /\ UNCHANGED <<active, processVars, garbage, nativeVars>>

-----------------------------------------------------------------------------
(* Around the calls: dropped Clients, the collector, fork and exit.         *)

\* The last reference to an open Client goes away; it is in a cycle with its
\* children and waits for the collector.
Drop ==
    \E l \in Leases :
        /\ lease[l] = "open"
        /\ l \notin garbage
        /\ \A u \in Threads : arg[u] # l
        /\ garbage' = garbage \cup {l}
        /\ UNCHANGED <<lock, moduleVars, processVars, lease, nativeVars, threadVars>>

Sections == {"create", "name", "register", "destroy", "remove", "forget"}

\* The collector interrupts the holder of _lock, whose finalizer enters the
\* re-entrant lock a second time and runs the whole of _release.
Collect(t) ==
    /\ Reentrant
    /\ pc[t] \in Sections
    /\ ProcessIsCurrent
    /\ \E l \in garbage :
          /\ l \in active
          /\ Destroyed(l)
          /\ Forgotten(l, active \ {l})
          /\ active' = active \ {l}
          /\ garbage' = garbage \ {l}
          /\ reentered' = (reentered \/ (Counted(l) /\ Counted(arg[t])))
    /\ UNCHANGED <<lock, forkedWithRuntime, finalizing, inherited, underway, forks, torn,
                   threadVars>>

\* Mutant: the child does not look at the leases it inherited.
ForkHookTrusts == lock' = None /\ UNCHANGED forkedWithRuntime

\* _after_fork_child.
ForkHook == lock' = None /\ forkedWithRuntime' = (active # {})

\* What the creations under way have got from the native runtime already.
Started ==
    LET begun == {l \in Leases : \E t \in Threads : pc[t] \in {"name", "register"} /\ arg[t] = l}
    IN  {l \in begun : ~External(l)} \cup {Options[l].product : l \in {k \in begun : External(k)}}

\* A thread that is not in the SDK forks; the child has no other thread.
Fork(t) ==
    /\ pc[t] = "idle"
    /\ forks < MaxForks
    /\ forks' = forks + 1
    /\ ForkHook
    /\ inherited' = inherited \cup up \cup handles
    /\ underway' = underway \cup Started
    /\ torn' = (torn \/ \E u \in Threads : pc[u] \in Sections)
    /\ pc' = [u \in Threads |-> IF u = t THEN "idle" ELSE "gone"]
    /\ arg' = [u \in Threads |-> None]
    /\ UNCHANGED <<moduleVars, finalizing, leaseVars, nativeVars, reentered>>

\* _mark_finalizing, from atexit.
MarkFinalizing ==
    /\ ~finalizing
    /\ finalizing' = TRUE
    /\ UNCHANGED <<lock, moduleVars, forkedWithRuntime, inherited, underway, forks, torn,
                   reentered, leaseVars, nativeVars, threadVars>>

-----------------------------------------------------------------------------
Step(t) ==
    \/ Acquire(t) \/ AcquireRefused(t) \/ AcquireChecked(t) \/ CreateFails(t)
    \/ Create(t) \/ NameRtcLease(t) \/ Register(t)
    \/ Release(t) \/ ReleaseClosed(t) \/ ReleaseBegin(t) \/ DestroyFails(t)
    \/ Destroy(t) \/ Remove(t) \/ Forget(t)
    \/ Collect(t) \/ Fork(t)

Next == (\E t \in Threads : Step(t)) \/ Drop \/ MarkFinalizing

Spec == Init /\ [][Next]_vars

-----------------------------------------------------------------------------
(* Properties.                                                             *)

\* Type correctness of the module's globals.
TypeOK ==
    /\ lock \in Threads \cup {None}
    /\ active \subseteq Leases
    /\ rtcLease \in Leases \cup {None}
    /\ extConfig \in {Options[l].legacy : l \in Leases} \cup {None}
    /\ extCount \in Nat
    /\ shared \in {Options[l].shared : l \in Leases} \cup {None}
    /\ forkedWithRuntime \in BOOLEAN
    /\ finalizing \in BOOLEAN
    /\ lease \in [Leases -> {"none", "open", "closed"}]
    /\ garbage \subseteq Leases
    /\ handles \subseteq Leases
    /\ up \subseteq Products
    /\ inherited \subseteq Products \cup Leases
    /\ underway \subseteq Products \cup Leases
    /\ pc \in [Threads -> Sections \cup {"idle", "acquire", "release", "gone"}]
    /\ arg \in [Threads -> Leases \cup {None}]
    /\ forks \in 0 .. MaxForks
    /\ torn \in BOOLEAN
    /\ reentered \in BOOLEAN

\* README: one RTC Client per process, and one cache directory and console
\* setting for all.  The leases in force agree with each other, however
\* creations, failed and repeated closes and finalizers interleave.
LeasesAgree ==
    \A k, l \in active :
        /\ Rtc(k) /\ Rtc(l) => k = l
        /\ Options[k].shared = Options[l].shared
        /\ Counted(k) /\ Counted(l) => Options[k].legacy = Options[l].legacy

\* Outside the critical sections the globals are exactly those of the leases in
\* force, so the next creation is judged by them, also in the child of a fork
\* that hit no section: _external_storage_count is their number (and tells who
\* initialises and who shuts down), _rtc_lease and the configurations are theirs.
GlobalsAreExact ==
    lock = None /\ ~torn =>
        /\ extCount = Cardinality({l \in active : Counted(l)})
        /\ active = {l \in Leases : lease[l] = "open"}
        /\ rtcLease = None <=> \A l \in active : ~Rtc(l)
        /\ shared = None <=> active = {}
        /\ extConfig = None <=> extCount = 0

\* The leases in force and the globals that describe them are well formed and
\* never disagree, so that every creation is permitted or refused rightly.
LeaseAccounts == TypeOK /\ LeasesAgree /\ GlobalsAreExact

\* Outside the critical sections the native runtime is initialised exactly for
\* the leases in force: none of them lacks it and nothing stays behind them.  The
\* finalizer of a storage Client inside a section that works on another, both with
\* external tokens, may have broken this (Collect); any other has not.
NativeFollowsLeases ==
    lock = None /\ ~torn /\ ~reentered =>
        /\ up = {Options[l].product : l \in {k \in active : External(k)}}
        /\ handles = {l \in active : ~External(l)}

\* README: the child of a fork with a Client in force is refused.  So a child that
\* is not has inherited, wherever the fork cut another thread, nothing but what a
\* creation under way had initialised and not yet registered.
ChildIsRefused == ~reentered /\ ~(inherited \subseteq underway) => forkedWithRuntime

\* The lock is held by a thread that will release it, in the child of a fork too.
LockHasOwner == lock # None => pc[lock] \in Sections

\* Inside a critical section of another thread or outside, when fork() happens the
\* child neither uses the native runtime of a Client of its parent nor waits for a
\* lock whose holder does not exist in it.
ForkedChildIsSafe == ChildIsRefused /\ LockHasOwner

\* A lease goes out of force only after the native runtime gave back what it
\* held for it; a failed shutdown leaves it in force.
GivenBackFirst ==
    [][\A l \in active \ active' :
          /\ l \notin handles'
          /\ Rtc(l) /\ External(l) => "rtc" \notin up']_vars
=============================================================================
