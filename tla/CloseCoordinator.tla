-------------------------- MODULE CloseCoordinator --------------------------
(***************************************************************************)
(* _CloseCoordinator (src/tirtc/_lifecycle.py), which every close() and     *)
(* stop() of the SDK goes through: begin() elects the thread that runs the  *)
(* teardown and makes the others wait for the outcome of that generation;   *)
(* fail() and succeed() publish it.  A step is one critical section of the  *)
(* coordinator's Condition.  begin()'s preflight_in_use is False in every   *)
(* call of the code and is left out.                                        *)
(***************************************************************************)
EXTENDS Integers, FiniteSets

CONSTANTS
    Threads,        \* callers of close()
    Interruptible,  \* those a KeyboardInterrupt may reach: the main thread
    Errors,         \* what a teardown may raise
    MaxGeneration   \* bound on _generation

ASSUME ThreadsAssumption == IsFiniteSet(Threads) /\ Interruptible \subseteq Threads

ASSUME ErrorsAssumption == Errors \cap {"ok", "absent", "none", "interrupted"} = {}

ASSUME GenerationAssumption == MaxGeneration \in Nat

VARIABLES
    status, generation, outcomes, waiters,  \* the coordinator
    caller, gen,    \* per thread: where it is in close(), its generation
    asleep,         \* threads inside Condition.wait()
    result          \* history: what the last call of each thread returned

coordVars == <<status, generation, outcomes, waiters>>
vars == <<status, generation, outcomes, waiters, caller, gen, asleep, result>>

Generations == 1 .. MaxGeneration
Verdicts    == Errors \cup {"ok"}
Absent      == "absent"     \* "generation not in self._outcomes"

Init ==
    /\ status = "open"
    /\ generation = 0
    /\ outcomes = [g \in Generations |-> Absent]
    /\ waiters = [g \in Generations |-> 0]
    /\ caller = [t \in Threads |-> "idle"]
    /\ gen = [t \in Threads |-> 0]
    /\ asleep = {}
    /\ result = [t \in Threads |-> "none"]

-----------------------------------------------------------------------------
(* begin().                                                                *)

\* The states begin() elects a caller in.
Electable == status \in {"open", "close_failed"}

\* Elected: the caller runs the teardown of a new generation.
BeginTeardown(t) ==
    /\ caller[t] = "idle"
    /\ Electable
    /\ generation < MaxGeneration
    /\ generation' = generation + 1
    /\ status' = "closing"
    /\ caller' = [caller EXCEPT ![t] = "teardown"]
    /\ gen' = [gen EXCEPT ![t] = generation + 1]
    /\ UNCHANGED <<outcomes, waiters, asleep, result>>

\* A teardown is running: register with its generation and wait.
BeginWait(t) ==
    /\ caller[t] = "idle"
    /\ status = "closing"
    /\ waiters' = [waiters EXCEPT ![generation] = @ + 1]
    /\ caller' = [caller EXCEPT ![t] = "waiting"]
    /\ gen' = [gen EXCEPT ![t] = generation]
    /\ asleep' = asleep \cup {t}
    /\ UNCHANGED <<status, generation, outcomes, result>>

BeginClosed(t) ==
    /\ caller[t] = "idle"
    /\ status = "closed"
    /\ result' = [result EXCEPT ![t] = "ok"]
    /\ UNCHANGED <<coordVars, caller, gen, asleep>>

\* Mutant: the outcome is never removed.
LastNever(g) == FALSE

\* One waiter of generation g remains.
Last(g) == waiters[g] = 1

\* The "finally" of the wait: the last waiter of a generation removes its
\* outcome.
Leave(t, verdict) ==
    /\ waiters' = [waiters EXCEPT ![gen[t]] = @ - 1]
    /\ outcomes' = [outcomes EXCEPT ![gen[t]] =
                      IF Last(gen[t]) THEN Absent ELSE @]
    /\ caller' = [caller EXCEPT ![t] = "idle"]
    /\ gen' = [gen EXCEPT ![t] = 0]
    /\ asleep' = asleep \ {t}
    /\ result' = [result EXCEPT ![t] = verdict]
    /\ UNCHANGED <<status, generation>>

\* A waiter that was notified finds the outcome of its own generation and
\* returns or raises it.  By NoLostWakeup it is always there: the loop around
\* wait() never goes round again.
Wake(t) ==
    /\ caller[t] = "waiting"
    /\ t \notin asleep
    /\ outcomes[gen[t]] # Absent
    /\ Leave(t, outcomes[gen[t]])

\* KeyboardInterrupt out of Condition.wait(): the "finally" still runs.
Interrupt(t) ==
    /\ t \in Interruptible
    /\ caller[t] = "waiting"
    /\ Leave(t, "interrupted")

-----------------------------------------------------------------------------
(* fail() and succeed(), by the elected thread.                            *)

\* Mutant: nobody is notified.
NotifyNone == asleep

\* notify_all(): who is still asleep after it.
NotifyAll == {}

Publish(t, verdict) ==
    /\ caller[t] = "teardown"
    /\ outcomes' = [outcomes EXCEPT ![gen[t]] =
                      IF waiters[gen[t]] > 0 THEN verdict ELSE @]
    /\ asleep' = NotifyAll
    /\ caller' = [caller EXCEPT ![t] = "idle"]
    /\ gen' = [gen EXCEPT ![t] = 0]
    /\ result' = [result EXCEPT ![t] = verdict]
    /\ UNCHANGED <<generation, waiters>>

\* Mutant: a failed teardown makes the object open again.
FailReopens(t, error) ==
    /\ Publish(t, error)
    /\ status' = "open"

Fail(t, error) ==
    /\ Publish(t, error)
    /\ status' = "close_failed"

\* The teardown is complete; it may still report a first error.
Succeed(t, verdict) ==
    /\ Publish(t, verdict)
    /\ status' = "closed"

-----------------------------------------------------------------------------
Begin(t) == BeginTeardown(t) \/ BeginWait(t) \/ BeginClosed(t)

Finish(t) == (\E e \in Errors : Fail(t, e)) \/ (\E v \in Verdicts : Succeed(t, v))

Next == \E t \in Threads : Begin(t) \/ Wake(t) \/ Interrupt(t) \/ Finish(t)

Spec == Init /\ [][Next]_vars

\* A teardown ends, and a notified waiter gets to run.
Fairness == \A t \in Threads : WF_vars(Wake(t)) /\ WF_vars(Finish(t))

FairSpec == Spec /\ Fairness

-----------------------------------------------------------------------------
(* Properties.                                                             *)

\* Type correctness of the coordinator's state.
TypeOK ==
    /\ status \in {"open", "closing", "close_failed", "closed"}
    /\ generation \in 0 .. MaxGeneration
    /\ outcomes \in [Generations -> Verdicts \cup {Absent}]
    /\ waiters \in [Generations -> Nat]
    /\ caller \in [Threads -> {"idle", "waiting", "teardown"}]
    /\ gen \in [Threads -> 0 .. MaxGeneration]
    /\ asleep \subseteq Threads
    /\ result \in [Threads -> Verdicts \cup {"none", "interrupted"}]

\* One teardown at a time: the status is "closing" exactly while one thread
\* runs the teardown of the current generation, also across a retry that
\* starts before the waiters of the failed generation have left.
OneTeardown ==
    /\ \A t \in Threads : caller[t] = "teardown" =>
          status = "closing" /\ gen[t] = generation
    /\ \A t, u \in Threads :
          caller[t] = "teardown" /\ caller[u] = "teardown" => t = u
    /\ status = "closing" =>
          generation > 0 /\ \E t \in Threads : caller[t] = "teardown"

WaitersOf(g) == {t \in Threads : caller[t] = "waiting" /\ gen[t] = g}

\* _waiters counts the waiters of each generation, and an outcome is kept
\* exactly as long as one of them still needs it: nothing leaks, nothing is
\* removed early, whoever leaves by a signal.
OutcomesKept ==
    \A g \in Generations :
        /\ waiters[g] = Cardinality(WaitersOf(g))
        /\ outcomes[g] # Absent => waiters[g] > 0

\* A waiter's generation is the one running, or an earlier one whose outcome is
\* still there to be read.
WaiterServed ==
    \A t \in Threads : caller[t] = "waiting" =>
        /\ gen[t] \in 1 .. generation
        /\ \/ outcomes[gen[t]] # Absent /\ ~(status = "closing" /\ gen[t] = generation)
           \/ outcomes[gen[t]] = Absent /\ status = "closing" /\ gen[t] = generation

\* A waiter sleeps exactly while the outcome of its generation is missing:
\* nobody sleeps through it, and nobody is woken for nothing.
NoLostWakeup ==
    /\ \A t \in asleep : caller[t] = "waiting"
    /\ \A t \in Threads : caller[t] = "waiting" =>
          (t \in asleep <=> outcomes[gen[t]] = Absent)

\* What the fields of _CloseCoordinator say about its callers, across retries and
\* signals: one of them runs the teardown, an outcome is kept while and only while
\* a waiter of its generation needs it, and each waiter sleeps until it is there.
CoordInv == OneTeardown /\ OutcomesKept /\ WaiterServed /\ NoLostWakeup

\* The coordinator implements CloseOnce: a waiter is owed a verdict from the
\* moment its generation's outcome is stored.
ClosePromise == INSTANCE CloseOnce WITH
    phase  <- status,
    leader <- {t \in Threads : caller[t] = "teardown"},
    joined <- {t \in Threads : caller[t] = "waiting" /\ outcomes[gen[t]] = Absent},
    owed   <- [t \in Threads |->
                 IF caller[t] = "waiting" /\ outcomes[gen[t]] # Absent
                   THEN outcomes[gen[t]] ELSE "none"]

\* Whoever joins a teardown gets the verdict of that very attempt, in all
\* interleavings with retries, further waiters and signals.
ImplementsCloseOnce == ClosePromise!Spec

\* A waiter is released once the teardown it waits for has ended.
WaitersReturn == \A t \in Threads : caller[t] = "waiting" ~> caller[t] # "waiting"
=============================================================================
