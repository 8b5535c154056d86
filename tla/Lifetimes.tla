------------------------------ MODULE Lifetimes ------------------------------
(***************************************************************************)
(* What the SDK promises about the lives of a Client and of everything     *)
(* created below it, without saying who closes what and how.  An object is *)
(* created under a parent that is open.  Once it is ending it never opens  *)
(* again, so that nothing more is created below it; its native object is   *)
(* destroyed only when those of all that was created below it are, though  *)
(* their close() may have yet to say so; it is closed only after that.  A  *)
(* RawDump, which holds nothing, is closed at once or not at all.          *)
(***************************************************************************)
CONSTANT Nodes

VARIABLES
    parent,     \* what each object is created under
    life        \* "absent", "open", "ending", "destroyed" or "closed"

vars == <<parent, life>>

None == "none"      \* the parent of a Client

Init ==
    /\ parent \in [Nodes -> Nodes \cup {None}]
    /\ life \in [Nodes -> {"absent", "open"}]

Becomes(n, next) == life' = [life EXCEPT ![n] = next] /\ UNCHANGED parent

Create(n) ==
    /\ life[n] = "absent"
    /\ parent[n] \in Nodes /\ life[parent[n]] = "open"
    /\ Becomes(n, "open")

BeginEnd(n) == life[n] = "open" /\ Becomes(n, "ending")

Destroy(n) ==
    /\ life[n] = "ending"
    /\ \A m \in Nodes : parent[m] = n => life[m] \in {"absent", "destroyed", "closed"}
    /\ Becomes(n, "destroyed")

Close(n) == life[n] = "destroyed" /\ Becomes(n, "closed")

CloseAtOnce(n) ==
    /\ life[n] = "open"
    /\ \A m \in Nodes : parent[m] # n
    /\ Becomes(n, "closed")

Next ==
    \E n \in Nodes :
        Create(n) \/ BeginEnd(n) \/ Destroy(n) \/ Close(n) \/ CloseAtOnce(n)

Spec == Init /\ [][Next]_vars
=============================================================================
