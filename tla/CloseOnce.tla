------------------------------ MODULE CloseOnce ------------------------------
(***************************************************************************)
(* What every close() and stop() of the SDK promises through               *)
(* _CloseCoordinator, without its bookkeeping.  One attempt at a teardown  *)
(* runs at a time.  Whoever calls while it runs joins it and is owed the   *)
(* verdict of that attempt, fixed for all of them in the step that ends    *)
(* it.  An attempt that failed may be tried again; a closed object stays   *)
(* closed.                                                                 *)
(***************************************************************************)
CONSTANTS Threads, Verdicts

VARIABLES
    phase,      \* "open", "closing", "close_failed" or "closed"
    leader,     \* the set holding the thread that runs the attempt
    joined,     \* threads waiting for the running attempt
    owed,       \* the verdict fixed for a thread that has not returned yet
    result      \* what the last call of each thread returned

vars == <<phase, leader, joined, owed, result>>

None == "none"      \* nothing owed

Free(t) == t \notin leader /\ t \notin joined /\ owed[t] = None

Init ==
    /\ phase = "open"
    /\ leader = {}
    /\ joined = {}
    /\ owed = [t \in Threads |-> None]
    /\ result = [t \in Threads |-> None]

Start(t) ==
    /\ Free(t)
    /\ phase \in {"open", "close_failed"}
    /\ phase' = "closing"
    /\ leader' = {t}
    /\ UNCHANGED <<joined, owed, result>>

Join(t) ==
    /\ Free(t)
    /\ phase = "closing"
    /\ joined' = joined \cup {t}
    /\ UNCHANGED <<phase, leader, owed, result>>

AlreadyClosed(t) ==
    /\ Free(t)
    /\ phase = "closed"
    /\ result' = [result EXCEPT ![t] = "ok"]
    /\ UNCHANGED <<phase, leader, joined, owed>>

End(t, verdict) ==
    /\ leader = {t}
    /\ phase' = "closed" \/ (verdict # "ok" /\ phase' = "close_failed")
    /\ leader' = {}
    /\ joined' = {}
    /\ owed' = [u \in Threads |-> IF u \in joined THEN verdict ELSE owed[u]]
    /\ result' = [result EXCEPT ![t] = verdict]

Return(t) ==
    /\ owed[t] # None
    /\ result' = [result EXCEPT ![t] = owed[t]]
    /\ owed' = [owed EXCEPT ![t] = None]
    /\ UNCHANGED <<phase, leader, joined>>

\* A signal ends the wait of one caller, and of no other.
Abandon(t) ==
    /\ t \in joined \/ owed[t] # None
    /\ joined' = joined \ {t}
    /\ owed' = [owed EXCEPT ![t] = None]
    /\ result' = [result EXCEPT ![t] = "interrupted"]
    /\ UNCHANGED <<phase, leader>>

Next ==
    \E t \in Threads :
        \/ Start(t) \/ Join(t) \/ AlreadyClosed(t) \/ Return(t) \/ Abandon(t)
        \/ \E verdict \in Verdicts : End(t, verdict)

Spec == Init /\ [][Next]_vars
=============================================================================
