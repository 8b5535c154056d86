---------------------------- MODULE OutputsProofs ----------------------------
(* Proofs about Outputs, for any number of them, their Connections, threads *)
(* and callbacks, whichever threads use which Output.  A registration that  *)
(* the end of an older detach() took away (lost) is all that may be missing. *)
EXTENDS Outputs, TLAPS

Attaching == {"attach", "bind"}
Detaching == {"barrier", "unbind", "forget"}
Shutting  == {"shut", "drain", "native", "destroy", "release", "leave"}

OutRecord ==
    [status : Statuses, bound : SomeOrNone, detached : BOOLEAN, detaching : BOOLEAN,
     lock : Callers \cup {None}, shut : BOOLEAN, pending : SomeOrNone,
     busy : SomeOrNone, native : SomeOrNone, gone : BOOLEAN]

ConnRecord == [status : Statuses, outputs : SUBSET OutputSet, gone : BOOLEAN,
               lost : SUBSET OutputSet]

CallRecord ==
    [pc : CallLabels, o : OutputSet \cup {None}, c : SomeOrNone,
     todo : SUBSET OutputSet, parent : BOOLEAN]

\* The arguments of a call.
Argued(u) ==
    /\ call[u].pc \in Attaching \cup Detaching \cup Shutting => call[u].o \in OutputSet
    /\ call[u].pc \in Attaching \cup Detaching \cup {"loop", "join"}
          => call[u].c \in Connections
    /\ call[u].parent => call[u].pc \in Detaching \cup {"loop"}
    /\ call[u].pc = "loop" => call[u].parent

\* close() of a Connection has one thread at a time, and ends the native half.
OneParent ==
    /\ \A u \in Callers : call[u].parent => conn[call[u].c].status = "closing"
    /\ \A u, v \in Callers :
          call[u].parent /\ call[v].parent /\ call[u].c = call[v].c => u = v
    /\ \A c \in Connections : conn[c].gone => conn[c].status = "closed"

\* The Connection lists the Output, or has lost the registration.
Listed(o, c) == o \in conn[c].outputs \cup conn[c].lost

\* attach() holds the lock, of an Output that is bound to nothing, and is listed.
LockHeld ==
    \A u \in Callers : \A o \in OutputSet :
        out[o].lock = u <=> call[u].pc \in Attaching /\ call[u].o = o

Attaches(u) ==
    call[u].pc \in Attaching =>
        /\ out[call[u].o].status = "open" /\ out[call[u].o].bound = None
        /\ ~out[call[u].o].detaching
        /\ Listed(call[u].o, call[u].c)
        /\ ~conn[call[u].c].gone \/ call[u].o \in conn[call[u].c].lost
        /\ call[u].pc = "attach" => out[call[u].o].native = None

\* attach() is on its way to binding o to c.
Attached(o, c) == out[o].lock # None /\ call[out[o].lock].c = c
Binds(o, c)    == Attached(o, c) /\ call[out[o].lock].pc = "bind"

\* The native half of a binding; it ends for good when the Output closes.
NativeBound(o) ==
    /\ out[o].native # None =>
          \/ out[o].bound = out[o].native /\ ~out[o].detaching
          \/ Binds(o, out[o].native)
    /\ out[o].detached \/ out[o].gone => out[o].native = None /\ out[o].status # "open"

Held(o, c) == out[o].native = c \/ Attached(o, c)

Detaches(u) ==
    call[u].pc \in {"barrier", "unbind"} =>
        /\ out[call[u].o].detaching /\ out[call[u].o].native = None
        /\ out[call[u].o].bound \in {call[u].c, None}
        /\ out[call[u].o].status = "open" => out[call[u].o].bound = call[u].c
        /\ call[u].pc = "unbind" => Drained(call[u].o)

\* _detaching is set by exactly one detach().
OneDetacher ==
    /\ \A u, v \in Callers :
          /\ call[u].pc \in {"barrier", "unbind"} /\ call[v].pc \in {"barrier", "unbind"}
          /\ call[u].o = call[v].o
          => u = v
    /\ \A o \in OutputSet : out[o].detaching =>
          \E u \in Callers : call[u].pc \in {"barrier", "unbind"} /\ call[u].o = o

\* What the close() of a Connection has yet to unregister does not come back
\* meanwhile; what a detach() has may, once it is no longer "detaching".
HasDetached(u) ==
    /\ call[u].pc = "forget" /\ call[u].parent => out[call[u].o].bound # call[u].c
    /\ \/ call[u].pc \in {"barrier", "unbind"}
       \/ call[u].pc = "forget" /\ call[u].parent
       => ~Held(call[u].o, call[u].c)

\* close() of an Output has one thread at a time.
OneShutter ==
    \A u, v \in Callers :
        call[u].pc \in Shutting /\ call[v].pc \in Shutting /\ call[u].o = call[v].o => u = v

Shuts(u) ==
    call[u].pc \in Shutting =>
        /\ out[call[u].o].status = "closing"
        /\ out[call[u].o].bound \in {call[u].c, None}
        /\ call[u].pc # "shut" => out[call[u].o].shut
        /\ call[u].pc \notin {"shut", "drain"} => Drained(call[u].o)
        /\ call[u].pc \in {"destroy", "release", "leave"} => out[call[u].o].native = None
        /\ call[u].pc = "leave" => out[call[u].o].bound = None

\* The two ends of a binding; unregistering comes last, registering first.
BoundListed ==
    \A o \in OutputSet : \A c \in Connections : out[o].bound = c => Listed(o, c)

ListedBound ==
    \A o \in OutputSet : \A c \in Connections : o \in conn[c].outputs =>
        \/ out[o].bound = c
        \/ \E u \in Callers : /\ call[u].pc \in Attaching \cup {"forget", "leave"}
                              /\ call[u].o = o /\ call[u].c = c

\* A frame comes from the Connection the Output is bound to, or is being bound to.
FrameOf(o) ==
    \A c \in {out[o].pending, out[o].busy} \ {None} :
        out[o].bound = c \/ Binds(o, c)

\* What close() of a Connection has not come to yet includes all that is attached.
Covers(u) ==
    call[u].parent => \A o \in OutputSet :
        Held(o, call[u].c) => o \in call[u].todo \cup conn[call[u].c].lost

CallerHolds(u) ==
    Argued(u) /\ Attaches(u) /\ Detaches(u) /\ HasDetached(u) /\ Shuts(u) /\ Covers(u)

OutputHolds(o) == NativeBound(o) /\ FrameOf(o)

OutputsInv ==
    /\ TypeOK
    /\ \A u \in Callers : CallerHolds(u)
    /\ \A o \in OutputSet : OutputHolds(o)
    /\ LockHeld /\ OneParent /\ OneDetacher /\ OneShutter /\ BoundListed /\ ListedBound
-----------------------------------------------------------------------------
LEMMA Names ==
    /\ None \notin Connections /\ None \notin OutputSet /\ None \notin Callers
    /\ CallbackClosers \subseteq OutputSet /\ Users \subseteq Threads \X OutputSet
BY OutputsAssumption DEF None, Callers

LEMMA Types ==
    ASSUME TypeOK
    PROVE  /\ out \in [OutputSet -> OutRecord] /\ conn \in [Connections -> ConnRecord]
           /\ call \in [Callers -> CallRecord]
BY DEF TypeOK, OutRecord, ConnRecord, CallRecord

LEMMA TypesBack ==
    ASSUME out' \in [OutputSet -> OutRecord], conn' \in [Connections -> ConnRecord],
           call' \in [Callers -> CallRecord]
    PROVE  TypeOK'
BY DEF TypeOK, OutRecord, ConnRecord, CallRecord

\* One Output, one Connection, one caller changes.
LEMMA OutStep ==
    ASSUME out \in [OutputSet -> OutRecord], NEW o \in OutputSet, NEW y \in OutRecord,
           out' = [out EXCEPT ![o] = y]
    PROVE  /\ out' \in [OutputSet -> OutRecord] /\ out'[o] = y
           /\ \A p \in OutputSet : p # o => out'[p] = out[p]
OBVIOUS

LEMMA ConnStep ==
    ASSUME conn \in [Connections -> ConnRecord], NEW c \in Connections, NEW y \in ConnRecord,
           conn' = [conn EXCEPT ![c] = y]
    PROVE  /\ conn' \in [Connections -> ConnRecord] /\ conn'[c] = y
           /\ \A d \in Connections : d # c => conn'[d] = conn[d]
OBVIOUS

LEMMA CallStep ==
    ASSUME call \in [Callers -> CallRecord], NEW u \in Callers, NEW y \in CallRecord,
           call' = [call EXCEPT ![u] = y]
    PROVE  /\ call' \in [Callers -> CallRecord] /\ call'[u] = y
           /\ \A v \in Callers : v # u => call'[v] = call[v]
OBVIOUS

Moved(u, label) ==
    /\ call' \in [Callers -> CallRecord]
    /\ call'[u].pc = label /\ call'[u].o = call[u].o /\ call'[u].c = call[u].c
    /\ call'[u].todo = call[u].todo /\ call'[u].parent = call[u].parent
    /\ \A v \in Callers : v # u => call'[v] = call[v]

LEMMA GotoStep ==
    ASSUME call \in [Callers -> CallRecord], NEW u \in Callers, NEW label \in CallLabels,
           Goto(u, label)
    PROVE  Moved(u, label)
<1>1. PICK x \in CallRecord : x = call[u]
  OBVIOUS
<1> DEFINE y == [x EXCEPT !.pc = label]
<1>2. /\ y \in CallRecord /\ y.pc = label /\ y.o = x.o /\ y.c = x.c
      /\ y.todo = x.todo /\ y.parent = x.parent
  BY DEF CallRecord
<1>3. call' = [call EXCEPT ![u] = y]
  BY <1>1 DEF Goto
<1> HIDE DEF y
<1> QED BY <1>1, <1>2, <1>3, CallStep DEF Moved

Returned(u) ==
    /\ call' \in [Callers -> CallRecord]
    /\ call'[u].pc = "idle" /\ call'[u].o = None /\ call'[u].c = None
    /\ call'[u].todo = {} /\ ~call'[u].parent
    /\ \A v \in Callers : v # u => call'[v] = call[v]

LEMMA ReturnStep ==
    ASSUME call \in [Callers -> CallRecord], NEW u \in Callers, Return(u)
    PROVE  Returned(u)
<1>1. /\ Idle \in CallRecord /\ Idle.pc = "idle" /\ Idle.o = None /\ Idle.c = None
      /\ Idle.todo = {} /\ ~Idle.parent
  BY DEF Idle, CallRecord, CallLabels, SomeOrNone
<1>2. call' = [call EXCEPT ![u] = Idle]
  BY DEF Return
<1> QED BY <1>1, <1>2, CallStep DEF Returned

LEMMA Known ==
    ASSUME OutputsInv, NEW u \in Callers
    PROVE  Argued(u) /\ Attaches(u) /\ Detaches(u) /\ HasDetached(u) /\ Shuts(u) /\ Covers(u)
BY DEF OutputsInv, CallerHolds

LEMMA KnownOf ==
    ASSUME OutputsInv, NEW o \in OutputSet
    PROVE  /\ NativeBound(o) /\ FrameOf(o)
           /\ out[o].lock \in Callers \cup {None}
           /\ out[o].native \in SomeOrNone /\ out[o].bound \in SomeOrNone
           /\ \A u \in Callers : out[o].lock = u <=> call[u].pc \in Attaching /\ call[u].o = o
BY Types DEF OutputsInv, OutputHolds, LockHeld, OutRecord

Others(u) == \A v \in Callers : v # u => call'[v] = call[v]

\* A step of a caller that is not attaching leaves the locks alone.
LEMMA LocksKept ==
    ASSUME OutputsInv, NEW u \in Callers, Others(u),
           call[u].pc \notin Attaching, call'[u].pc \notin Attaching,
           \A o \in OutputSet : out'[o].lock = out[o].lock
    PROVE  /\ LockHeld'
           /\ \A o \in OutputSet : \A c :
                (Attached(o, c)' <=> Attached(o, c)) /\ (Binds(o, c)' <=> Binds(o, c))
<1>1. LockHeld'
  BY DEF OutputsInv, LockHeld, Others
<1>2. ASSUME NEW o \in OutputSet, NEW c
      PROVE  (Attached(o, c)' <=> Attached(o, c)) /\ (Binds(o, c)' <=> Binds(o, c))
  <2>1. out'[o].lock = out[o].lock /\ (out[o].lock # None => call'[out[o].lock] = call[out[o].lock])
    BY KnownOf DEF Others
  <2> QED BY <2>1 DEF Attached, Binds
<1> QED BY <1>1, <1>2

\* A step of a caller that does not begin to close an Output.
LEMMA ShutterKept ==
    ASSUME OutputsInv, NEW u \in Callers, Others(u),
           call'[u].pc \in Shutting => call[u].pc \in Shutting /\ call'[u].o = call[u].o
    PROVE  OneShutter'
BY DEF OutputsInv, OneShutter, Others

\* The call changes, and perhaps the status of a Connection.
LEMMA OutKept ==
    ASSUME OutputsInv, NEW u \in Callers, Others(u),
           \A c \in Connections : conn[c].lost \subseteq conn'[c].lost,
           call[u].pc \notin Attaching, call'[u].pc \notin Attaching, out' = out,
           \A v \in Callers : v # u => Attaches(v)'
    PROVE  /\ LockHeld'
           /\ \A v \in Callers : v # u => CallerHolds(v)'
           /\ \A o \in OutputSet : OutputHolds(o)'
           /\ \A o \in OutputSet : \A c : Held(o, c)' <=> Held(o, c)
<1>1. /\ LockHeld'
      /\ \A o \in OutputSet : \A c :
           (Attached(o, c)' <=> Attached(o, c)) /\ (Binds(o, c)' <=> Binds(o, c))
  BY LocksKept
<1>2. \A o \in OutputSet : \A c : Held(o, c)' <=> Held(o, c)
  BY <1>1 DEF Held
<1>3. ASSUME NEW v \in Callers, v # u PROVE CallerHolds(v)'
  <2>1. call'[v] = call[v] /\ Attaches(v)'
    BY <1>3 DEF Others
  <2>2. Argued(v)' /\ HasDetached(v)'
    BY <1>2, <2>1, Known DEF Argued, HasDetached, Detaching
  <2>4. Covers(v)'
    <3>1. Covers(v) /\ (call[v].parent => call[v].c \in Connections)
      BY Known DEF Argued, Detaching
    <3> QED BY <1>2, <2>1, <3>1 DEF Covers
  <2>3. Detaches(v)' /\ Shuts(v)'
    BY <2>1, Known DEF Detaches, Shuts, Drained
  <2> QED BY <2>1, <2>2, <2>3, <2>4 DEF CallerHolds
<1>4. ASSUME NEW o \in OutputSet PROVE OutputHolds(o)'
  BY <1>1, KnownOf DEF OutputHolds, NativeBound, FrameOf
<1> QED BY <1>1, <1>2, <1>3, <1>4

LEMMA NoCall ==
    ASSUME NEW u \in Callers, Returned(u)
    PROVE  CallerHolds(u)'
BY DEF Returned, CallerHolds, Argued, Attaches, Detaches, HasDetached, Shuts, Covers,
       Attaching, Detaching, Shutting

\* Only the call of u changes, and no detach() begins or ends.
LEMMA CallOnly ==
    ASSUME OutputsInv, NEW u \in Callers, Others(u), call' \in [Callers -> CallRecord],
           out' = out, conn' = conn,
           call[u].pc \notin Attaching \cup {"forget", "leave"}, call'[u].pc \notin Attaching,
           call[u].pc \in {"barrier", "unbind"} <=> call'[u].pc \in {"barrier", "unbind"},
           call[u].pc \in {"barrier", "unbind"} => call'[u].o = call[u].o,
           call'[u].pc \in Shutting => call[u].pc \in Shutting /\ call'[u].o = call[u].o,
           call'[u].parent => call[u].parent /\ call'[u].c = call[u].c,
           CallerHolds(u)'
    PROVE  OutputsInv'
<1>1. ASSUME NEW v \in Callers, v # u PROVE Attaches(v)'
  BY <1>1, Known DEF Attaches, Others, Listed
<1>2. /\ LockHeld' /\ \A v \in Callers : CallerHolds(v)'
      /\ \A o \in OutputSet : OutputHolds(o)'
  BY <1>1, OutKept
<1>3. OneParent'
  BY DEF OutputsInv, OneParent, Others
<1>4. OneDetacher'
  BY DEF OutputsInv, OneDetacher, Others
<1>7. OneShutter'
  BY ShutterKept
<1>5. BoundListed' /\ ListedBound'
  <2>1. BoundListed'
    BY DEF OutputsInv, BoundListed, Listed
  <2>2. ListedBound'
    BY DEF OutputsInv, ListedBound, Others, Attaching
  <2> QED BY <2>1, <2>2
<1>6. TypeOK'
  BY Types, TypesBack DEF OutputsInv
<1> QED BY <1>2, <1>3, <1>4, <1>5, <1>6, <1>7 DEF OutputsInv

LEMMA JoinSteps ==
    ASSUME OutputsInv, NEW u \in Callers,
           JoinReturns(u) \/ \E c \in Connections : JoinConnection(u, c)
    PROVE  OutputsInv'
<1>1. CASE JoinReturns(u)
  <2>1. Returned(u) /\ call[u].pc = "join" /\ out' = out /\ conn' = conn
    BY <1>1, ReturnStep, Types DEF OutputsInv, JoinReturns
  <2>2. CallerHolds(u)'
    BY <2>1, NoCall
  <2> QED BY <2>1, <2>2, CallOnly DEF Returned, Others, Attaching, Shutting
<1>2. CASE \E c \in Connections : JoinConnection(u, c)
  <2>1. PICK c \in Connections : JoinConnection(u, c)
    BY <1>2
  <2>2. /\ call[u].pc = "idle" /\ out' = out /\ conn' = conn /\ Others(u)
        /\ call'[u].pc = "join" /\ call'[u].c = c /\ ~call'[u].parent
        /\ call' \in [Callers -> CallRecord]
    BY <2>1, Types, Names DEF OutputsInv, JoinConnection, Free, Idle, CallRecord, CallLabels, SomeOrNone, Others
  <2>3. CallerHolds(u)'
    BY <2>2 DEF CallerHolds, Argued, Attaches, Detaches, HasDetached, Shuts, Covers,
                Attaching, Detaching, Shutting
  <2> QED BY <2>2, <2>3, CallOnly DEF Attaching, Shutting
<1> QED BY <1>1, <1>2

LEMMA SkipSteps ==
    ASSUME OutputsInv, NEW u \in Callers, NEW o \in OutputSet, ParentSkips(u, o)
    PROVE  OutputsInv'
<1>1. PICK c \in Connections : call[u].c = c
  BY Known DEF ParentSkips, Argued
<1>2. /\ call[u].pc = "loop" /\ call[u].parent /\ out[o].lock = None /\ out[o].bound # c
      /\ out' = out /\ conn' = conn /\ Covers(u)
  BY <1>1, Known DEF ParentSkips, Argued, Unlocked
<1>3. /\ call'[u].pc = "loop" /\ call'[u].c = c /\ call'[u].parent
      /\ call'[u].todo = call[u].todo \ {o}
      /\ call' \in [Callers -> CallRecord] /\ Others(u)
  BY <1>1, <1>2, Types DEF OutputsInv, ParentSkips, CallRecord, Others
<1>4. ~Held(o, c)
  BY <1>1, <1>2, KnownOf, Names DEF NativeBound, Held, Attached, Binds
<1>5. CallerHolds(u)'
  <2>1. \A p \in OutputSet : Held(p, c)' => Held(p, c)
    <3>1. \A p \in OutputSet : \A d : Attached(p, d)' <=> Attached(p, d)
      BY <1>2, <1>3, LocksKept DEF Attaching
    <3> QED BY <1>2, <3>1 DEF Held
  <2>2. Covers(u)'
    BY <1>1, <1>2, <1>3, <1>4, <2>1 DEF Covers
  <2> QED BY <1>3, <2>2 DEF CallerHolds, Argued, Attaches, Detaches, HasDetached, Shuts,
                Attaching, Detaching, Shutting
<1> QED BY <1>1, <1>2, <1>3, <1>5, CallOnly DEF Attaching, Shutting

LEMMA WaitSteps ==
    ASSUME OutputsInv, NEW u \in Callers,
           Barrier(u) \/ OutputDrained(u) \/ OutputSkipsDetach(u)
    PROVE  OutputsInv'
<1>1. PICK o \in OutputSet : call[u].o = o
  BY Known DEF Argued, Barrier, OutputDrained, OutputSkipsDetach, Detaching, Shutting
<1>2. PICK label \in {"unbind", "native", "destroy"} :
        /\ Moved(u, label) /\ out' = out /\ conn' = conn
        /\ label = "unbind" => call[u].pc = "barrier" /\ Drained(o)
        /\ label = "native" => call[u].pc = "drain" /\ Drained(o)
        /\ label = "destroy" => call[u].pc = "native" /\ (call[u].c = None \/ out[o].detached)
  BY <1>1, GotoStep, Types
     DEF OutputsInv, Barrier, OutputDrained, OutputSkipsDetach, MustDetach, CallLabels
<1>3. label = "destroy" => out[o].native = None
  BY <1>1, <1>2, Known, KnownOf, Names DEF NativeBound, Shuts, Shutting, Binds, Attached, Attaches, Attaching
<1>4. CallerHolds(u)'
  <2>1. \A d : Held(o, d)' <=> Held(o, d)
    BY <1>2, LocksKept DEF Held, Moved, Others, Attaching
  <2>2. Argued(u)' /\ Attaches(u)' /\ Detaches(u)' /\ Shuts(u)'
    BY <1>1, <1>2, <1>3, Known DEF Moved, Argued, Attaches, Detaches, Shuts, Drained,
                                    Attaching, Detaching, Shutting
  <2>3. HasDetached(u)'
    BY <1>1, <1>2, <2>1, Known DEF Moved, HasDetached, Detaching
  <2>4. Covers(u)'
    <3>1. \A p \in OutputSet : \A d : Held(p, d)' <=> Held(p, d)
      BY <1>2, LocksKept DEF Held, Moved, Others, Attaching
    <3> QED BY <1>2, <3>1, Known DEF Moved, Covers
  <2> QED BY <2>2, <2>3, <2>4 DEF CallerHolds
<1> QED BY <1>2, <1>4, CallOnly DEF Moved, Others, Attaching, Shutting

\* Frames and callbacks: no caller moves.
LEMMA FrameSteps ==
    ASSUME OutputsInv, NEW o \in OutputSet, Frame(o) \/ CallbackBegins(o) \/ CallbackEnds(o)
    PROVE  OutputsInv'
<1>1. /\ out' \in [OutputSet -> OutRecord] /\ \A p \in OutputSet : p # o => out'[p] = out[p]
      /\ \A p \in OutputSet :
           /\ out'[p].status = out[p].status /\ out'[p].bound = out[p].bound
           /\ out'[p].detached = out[p].detached /\ out'[p].detaching = out[p].detaching
           /\ out'[p].lock = out[p].lock /\ out'[p].shut = out[p].shut
           /\ out'[p].native = out[p].native /\ out'[p].gone = out[p].gone
  BY Types DEF OutputsInv, Frame, CallbackBegins, CallbackEnds, OutRecord, SomeOrNone
<1>2. /\ {out'[o].pending, out'[o].busy} \subseteq {out[o].pending, out[o].busy, out[o].native, None}
      /\ Drained(o) /\ (out[o].shut \/ out[o].native = None) => Drained(o)'
  BY Types DEF OutputsInv, Frame, CallbackBegins, CallbackEnds, OutRecord, SomeOrNone, Drained
<1>3. call' = call /\ conn' = conn
  BY DEF Frame, CallbackBegins, CallbackEnds
<1>4. \A p \in OutputSet : \A c :
        /\ (Attached(p, c)' <=> Attached(p, c)) /\ (Binds(p, c)' <=> Binds(p, c))
        /\ Held(p, c)' <=> Held(p, c)
  BY <1>1, <1>3 DEF Attached, Binds, Held
<1>5. ASSUME NEW v \in Callers PROVE CallerHolds(v)'
  <2>1. Argued(v)' /\ Covers(v)' /\ HasDetached(v)'
    BY <1>1, <1>3, <1>4, Known DEF Argued, Covers, HasDetached, Detaching
  <2>2. Attaches(v)'
    <3>1. Attaches(v) /\ (call[v].pc \in Attaching => call[v].o \in OutputSet)
      BY Known DEF Argued
    <3> QED BY <1>1, <1>3, <3>1 DEF Attaches, Listed
  <2>3. \A p \in OutputSet :
          Drained(p) /\ (out[p].shut \/ out[p].native = None) => Drained(p)'
    BY <1>1, <1>2 DEF Drained
  <2>4. Detaches(v)' /\ Shuts(v)'
    <3>1. /\ Detaches(v) /\ Shuts(v)
          /\ call[v].pc \in {"barrier", "unbind"} \cup Shutting => call[v].o \in OutputSet
      BY Known DEF Argued, Detaching
    <3> QED BY <1>1, <1>3, <2>3, <3>1 DEF Detaches, Shuts, Shutting
  <2> QED BY <2>1, <2>2, <2>4 DEF CallerHolds
<1>6. ASSUME NEW p \in OutputSet PROVE OutputHolds(p)'
  <2>1. NativeBound(p)'
    BY <1>1, <1>4, KnownOf DEF NativeBound
  <2>2. FrameOf(p)'
    BY <1>1, <1>2, <1>4, KnownOf DEF NativeBound, FrameOf
  <2> QED BY <2>1, <2>2 DEF OutputHolds
<1>7. LockHeld' /\ OneParent' /\ OneDetacher' /\ OneShutter'
  BY <1>1, <1>3 DEF OutputsInv, LockHeld, OneParent, OneDetacher, OneShutter
<1>8. BoundListed' /\ ListedBound'
  BY <1>1, <1>3 DEF OutputsInv, BoundListed, ListedBound, Listed
<1>9. TypeOK'
  BY <1>1, <1>3, Types, TypesBack DEF OutputsInv
<1> QED BY <1>5, <1>6, <1>7, <1>8, <1>9 DEF OutputsInv

\* What is attached to a Connection is listed by it.
LEMMA HeldListed ==
    ASSUME OutputsInv, NEW o \in OutputSet, NEW c \in Connections, Held(o, c)
    PROVE  Listed(o, c)
<1>1. CASE Attached(o, c)
  <2>1. PICK w \in Callers : out[o].lock = w
    BY <1>1, KnownOf DEF Attached
  <2> QED BY <1>1, <2>1, Known, KnownOf DEF Attached, Attaches
<1>2. CASE out[o].native = c
  BY <1>1, <1>2, KnownOf, Names DEF OutputsInv, BoundListed, NativeBound, Binds
<1> QED BY <1>1, <1>2 DEF Held

\* The status of a Connection changes with the call of its close().
LEMMA StatusOnly ==
    ASSUME OutputsInv, NEW u \in Callers, Others(u), NEW c \in Connections,
           call' \in [Callers -> CallRecord], out' = out, conn' \in [Connections -> ConnRecord],
           \A d \in Connections : conn'[d].outputs = conn[d].outputs /\ conn'[d].lost = conn[d].lost,
           call[u].pc \in {"idle", "loop"}, call'[u].pc \in {"idle", "loop"},
           \A v \in Callers : v # u => Attaches(v)',
           CallerHolds(u)', OneParent'
    PROVE  OutputsInv'
<1>1. /\ LockHeld' /\ \A v \in Callers : CallerHolds(v)'
      /\ \A o \in OutputSet : OutputHolds(o)'
  BY OutKept DEF Attaching
<1>5. OneShutter'
  BY ShutterKept DEF Shutting
<1>2. OneDetacher'
  BY DEF OutputsInv, OneDetacher, Others
<1>3. BoundListed' /\ ListedBound'
  <2>1. BoundListed'
    BY DEF OutputsInv, BoundListed, Listed
  <2>2. ListedBound'
    BY DEF OutputsInv, ListedBound, Others, Attaching
  <2> QED BY <2>1, <2>2
<1>4. TypeOK'
  BY Types, TypesBack DEF OutputsInv
<1> QED BY <1>1, <1>2, <1>3, <1>4, <1>5 DEF OutputsInv

LEMMA CloseConnectionStep ==
    ASSUME OutputsInv, NEW u \in Callers, NEW c \in Connections, CloseConnection(u, c)
    PROVE  OutputsInv'
<1>1. /\ call[u].pc = "idle" /\ conn[c].status \in {"open", "close_failed"} /\ out' = out
  BY DEF CloseConnection, Free
<1>2. /\ conn' \in [Connections -> ConnRecord] /\ conn'[c].status = "closing"
      /\ \A d \in Connections : d # c => conn'[d] = conn[d]
      /\ \A d \in Connections : 
           /\ conn'[d].outputs = conn[d].outputs /\ conn'[d].gone = conn[d].gone
           /\ conn'[d].lost = conn[d].lost
  BY Types DEF OutputsInv, CloseConnection, ConnRecord, Statuses
<1>3. /\ call'[u].pc = "loop" /\ call'[u].c = c /\ call'[u].todo = conn[c].outputs
      /\ call'[u].parent /\ call' \in [Callers -> CallRecord] /\ Others(u)
  BY Types DEF OutputsInv, CloseConnection, Idle, CallRecord, ConnRecord, CallLabels, SomeOrNone, Others
<1>4. \A v \in Callers : v # u => Attaches(v)'
  <2> SUFFICES ASSUME NEW v \in Callers, v # u PROVE Attaches(v)'
    OBVIOUS
  <2>1. Attaches(v) /\ call'[v] = call[v] /\ (call[v].pc \in Attaching => call[v].c \in Connections)
    BY <1>3, Known DEF Argued, Others
  <2> QED BY <1>1, <1>2, <2>1 DEF Attaches, Listed
<1>5. Covers(u)'
  <2>1. \A o \in OutputSet : Held(o, c)' => Held(o, c)
    BY <1>1, <1>2, <1>3, <1>4, OutKept DEF Attaching
  <2> QED BY <1>2, <1>3, <2>1, HeldListed DEF Covers, Listed
<1>6. CallerHolds(u)'
  BY <1>3, <1>5 DEF CallerHolds, Argued, Attaches, Detaches, HasDetached, Shuts,
                    Attaching, Detaching, Shutting
<1>7. OneParent'
  <2>1. \A v \in Callers : v # u => call'[v] = call[v]
    BY <1>3 DEF Others
  <2>2. \A v \in Callers : call[v].parent => call[v].c \in Connections
    BY Known DEF Argued, Detaching
  <2>3. OneParent
    BY DEF OutputsInv
  <2>4. /\ \A d \in Connections : conn'[d].gone => conn'[d].status = "closed"
        /\ \A v \in Callers : call'[v].parent => conn'[call'[v].c].status = "closing"
    BY <1>1, <1>2, <1>3, <2>1, <2>2, <2>3 DEF OneParent
  <2>5. \A v \in Callers : v # u /\ call'[v].parent => call'[v].c # c
    BY <1>1, <2>1, <2>3 DEF OneParent
  <2> QED BY <1>3, <2>1, <2>3, <2>4, <2>5 DEF OneParent
<1> QED BY <1>1, <1>2, <1>3, <1>4, <1>6, <1>7, StatusOnly

LEMMA ConnectionEndSteps ==
    ASSUME OutputsInv, NEW u \in Callers,
           \/ \E o \in OutputSet : ParentDetachFails(u, o)
           \/ ConnectionDestroyed(u) \/ ConnectionDestroyFails(u)
    PROVE  OutputsInv'
<1>1. PICK c \in Connections : call[u].c = c
  BY Known DEF Argued, ParentDetachFails, ConnectionDestroyed, ConnectionDestroyFails
<1>2. /\ call[u].pc = "loop" /\ call[u].parent /\ out' = out /\ Returned(u) /\ Others(u)
  <2>1. call[u].pc = "loop" /\ out' = out /\ Return(u)
    BY DEF ParentDetachFails, ConnectionDestroyed, ConnectionDestroyFails
  <2> QED BY <2>1, Known, ReturnStep, Types DEF OutputsInv, Argued, Returned, Others
<1>3. /\ conn' \in [Connections -> ConnRecord] /\ conn'[c].status \in {"close_failed", "closed"}
      /\ \A d \in Connections : d # c => conn'[d] = conn[d]
      /\ \A d \in Connections : conn'[d].outputs = conn[d].outputs /\ conn'[d].lost = conn[d].lost
      /\ \/ conn'[c].gone = conn[c].gone
         \/ conn'[c].gone /\ conn'[c].status = "closed" /\ call[u].todo = {}
  BY <1>1, Types
     DEF OutputsInv, ParentDetachFails, ConnectionDestroyed, ConnectionDestroyFails, ConnRecord, Statuses
<1>4. \A v \in Callers : v # u => Attaches(v)'
  <2> SUFFICES ASSUME NEW v \in Callers, v # u, call[v].pc \in Attaching PROVE Attaches(v)'
    BY <1>2 DEF Others, Attaches
  <2>1. /\ Attaches(v) /\ call'[v] = call[v]
        /\ call[v].c \in Connections /\ call[v].o \in OutputSet
    BY <1>2, Known DEF Argued, Others
  <2>2. ~conn'[call[v].c].gone \/ call[v].o \in conn[call[v].c].lost
    <3>1. Held(call[v].o, call[v].c)
      BY <2>1, KnownOf, Names DEF Held, Attached
    <3>2. call[v].c = c => call[u].todo # {} \/ call[v].o \in conn[c].lost
      BY <1>1, <1>2, <2>1, <3>1, Known DEF Covers
    <3> QED BY <1>3, <2>1, <3>2 DEF Attaches
  <2> QED BY <1>2, <1>3, <2>1, <2>2 DEF Attaches, Listed
<1>5. OneParent'
  <2>1. OneParent
    BY DEF OutputsInv
  <2>2. \A v \in Callers : call'[v].parent => v # u /\ call'[v] = call[v] /\ call[v].c \in Connections
    BY <1>2, Known DEF Argued, Detaching, Returned, Others
  <2>3. \A v \in Callers : call'[v].parent => call'[v].c # c
    BY <1>1, <1>2, <2>1, <2>2 DEF OneParent
  <2>4. \A d \in Connections : conn'[d].gone => conn'[d].status = "closed"
    <3>1. ~conn[c].gone
      BY <1>1, <1>2, <2>1 DEF OneParent
    <3> QED BY <1>3, <2>1, <3>1 DEF OneParent
  <2> QED BY <1>3, <2>1, <2>2, <2>3, <2>4 DEF OneParent
<1> QED BY <1>2, <1>3, <1>4, <1>5, NoCall, StatusOnly DEF Returned

\* A step of u that takes from the binding of o and hands out nothing.
LEMMA OutChanges ==
    ASSUME OutputsInv, NEW u \in Callers, Others(u), NEW o \in OutputSet,
           call' \in [Callers -> CallRecord], out' \in [OutputSet -> OutRecord],
           conn' \in [Connections -> ConnRecord],
           call[u].pc \notin Attaching, call'[u].pc \notin Attaching,
           call'[u].parent => call[u].parent /\ call'[u].c = call[u].c,
           \A p \in OutputSet : p # o => out'[p] = out[p],
           out[o].lock = None, out'[o].lock = None,
           out'[o].native \in {out[o].native, None}, out'[o].bound \in {out[o].bound, None},
           out'[o].pending = out[o].pending, out'[o].busy = out[o].busy,
           out[o].shut => out'[o].shut,
           out'[o].bound = out[o].bound \/ Drained(o),
           out'[o].status = out[o].status
             \/ (out'[o].status # "open"
                   /\ \A v \in Callers : v # u /\ call[v].pc \in Shutting => call[v].o # o),
           \/ \A v \in Callers : v # u /\ call[v].pc \in {"barrier", "unbind"} => call[v].o # o
           \/ /\ out'[o].detaching = out[o].detaching
              /\ out'[o].bound = out[o].bound \/ out'[o].status # "open",
           \A c \in Connections :
             /\ conn'[c].status = conn[c].status /\ conn'[c].gone = conn[c].gone
             /\ conn'[c].lost = conn[c].lost
             /\ conn'[c].outputs \subseteq conn[c].outputs
             /\ \A p \in conn[c].outputs :
                  p \in conn'[c].outputs \/ (p = o /\ out'[o].bound # c),
           NativeBound(o)', CallerHolds(u)', OneDetacher', OneShutter', ListedBound'
    PROVE  OutputsInv'
<1>1. /\ LockHeld'
      /\ \A p \in OutputSet : \A c :
           (Attached(p, c)' <=> Attached(p, c)) /\ (Binds(p, c)' <=> Binds(p, c))
  <2>1. \A p \in OutputSet : out'[p].lock = out[p].lock
    OBVIOUS
  <2> QED BY <2>1, LocksKept
<1>2. \A p \in OutputSet : \A c \in Connections : Held(p, c)' => Held(p, c)
  BY <1>1, Names DEF Held
<1>3. ASSUME NEW v \in Callers, v # u PROVE CallerHolds(v)'
  <2> DEFINE w == call[v].o
  <2>1. call'[v] = call[v]
    BY <1>3 DEF Others
  <2>2. /\ Argued(v) /\ Attaches(v) /\ Detaches(v) /\ HasDetached(v) /\ Shuts(v) /\ Covers(v)
        /\ call[v].pc \in Attaching => w \in OutputSet /\ w # o /\ call[v].c \in Connections
        /\ call[v].pc \in Detaching => w \in OutputSet /\ call[v].c \in Connections
        /\ call[v].pc \in Shutting => w \in OutputSet
        /\ call[v].parent => call[v].c \in Connections
    BY Known, KnownOf, Names DEF Argued, Detaching
  <2>3. Argued(v)' /\ Covers(v)'
    BY <1>2, <2>1, <2>2 DEF Argued, Covers, Detaching
  <2>4. Attaches(v)'
    BY <2>1, <2>2 DEF Attaches, Listed
  <2>5. Detaches(v)'
    <3>1. CASE w = o
      BY <1>3, <2>1, <2>2, <3>1 DEF Detaches, Drained, Detaching
    <3>2. CASE w # o
      BY <2>1, <2>2, <3>2 DEF Detaches, Drained, Detaching
    <3> QED BY <3>1, <3>2
  <2>6. HasDetached(v)'
    BY <1>2, <2>1, <2>2, Names DEF HasDetached, Detaching
  <2>7. Shuts(v)'
    <3>1. CASE w = o
      BY <1>3, <2>1, <2>2, <3>1 DEF Shuts, Drained
    <3>2. CASE w # o
      BY <2>1, <2>2, <3>2 DEF Shuts, Drained
    <3> QED BY <3>1, <3>2
  <2> QED BY <2>3, <2>4, <2>5, <2>6, <2>7 DEF CallerHolds
<1>4. ASSUME NEW p \in OutputSet PROVE OutputHolds(p)'
  <2>1. CASE p = o
    BY <1>1, <2>1, KnownOf DEF OutputHolds, FrameOf, Drained
  <2>2. CASE p # o
    BY <1>1, <2>2, KnownOf DEF OutputHolds, NativeBound, FrameOf
  <2> QED BY <2>1, <2>2
<1>5. OneParent'
  <2>1. OneParent /\ \A v \in Callers : v # u => call'[v] = call[v]
    BY DEF OutputsInv, Others
  <2>2. \A v \in Callers : call'[v].parent =>
          call[v].parent /\ call'[v].c = call[v].c /\ call[v].c \in Connections
    BY <2>1, Known DEF Argued, Detaching
  <2> QED BY <2>1, <2>2 DEF OneParent
<1>6. BoundListed'
  BY Names DEF OutputsInv, BoundListed, Listed
<1>7. TypeOK'
  BY TypesBack
<1> QED BY <1>1, <1>3, <1>4, <1>5, <1>6, <1>7 DEF OutputsInv

\* A close() of an Output finds it unlocked, and is the only one.
LEMMA ShutAlone ==
    ASSUME OutputsInv, NEW u \in Callers, call[u].pc \in Shutting
    PROVE  /\ call[u].o \in OutputSet /\ ~call[u].parent /\ out[call[u].o].lock = None
           /\ call[u].c \in SomeOrNone
           /\ \A v \in Callers : v # u /\ call[v].pc \in Shutting => call[v].o # call[u].o
<1>1. call[u].o \in OutputSet /\ ~call[u].parent
  BY Known DEF Argued, Shutting, Detaching
<1>2. out[call[u].o].lock = None
  <2>1. ASSUME NEW w \in Callers, out[call[u].o].lock = w PROVE FALSE
    <3>1. call[w].pc \in Attaching /\ call[w].o = call[u].o
      BY <1>1, <2>1, KnownOf
    <3> QED BY <3>1, Known DEF Attaches, Shuts
  <2> QED BY <1>1, <2>1, KnownOf
<1>3. \A v \in Callers : v # u /\ call[v].pc \in Shutting => call[v].o # call[u].o
  BY <1>1 DEF OutputsInv, OneShutter
<1> QED BY <1>1, <1>2, <1>3, Types DEF OutputsInv, CallRecord

\* A step of close() of o before the last, which unregisters it.
LEMMA ShutChanges ==
    ASSUME OutputsInv, NEW u \in Callers, NEW o \in OutputSet, call[u].o = o,
           call[u].pc \in Shutting \ {"leave"}, conn' = conn,
           Returned(u) \/ \E label \in Shutting : Moved(u, label),
           out' \in [OutputSet -> OutRecord], \A p \in OutputSet : p # o => out'[p] = out[p],
           out'[o].lock = out[o].lock, out'[o].detaching = out[o].detaching,
           out'[o].pending = out[o].pending, out'[o].busy = out[o].busy,
           out[o].shut => out'[o].shut, out'[o].status # "open",
           out'[o].native \in {out[o].native, None},
           out'[o].bound = out[o].bound
             \/ (out'[o].bound = None /\ call'[u].pc = "leave" /\ Drained(o)),
           NativeBound(o)', Shuts(u)'
    PROVE  OutputsInv'
<1>1. /\ call' \in [Callers -> CallRecord] /\ Others(u) /\ ~call'[u].parent
      /\ call'[u].pc \in Shutting \cup {"idle"} /\ call[u].pc \in Shutting
      /\ call'[u].pc = "idle" \/ (call'[u].o = o /\ call'[u].c = call[u].c)
  BY ShutAlone DEF Returned, Moved, Others
<1>2. /\ out[o].lock = None /\ call[u].c \in SomeOrNone
      /\ out[o].bound \in {call[u].c, None}
      /\ \A v \in Callers : v # u /\ call[v].pc \in Shutting => call[v].o # o
  BY <1>1, ShutAlone, Known DEF Shuts
<1>3. CallerHolds(u)'
  BY <1>1, <1>2 DEF CallerHolds, Argued, Attaches, Detaches, HasDetached, Covers,
                    Attaching, Detaching, Shutting
<1>4. OneDetacher'
  BY <1>1 DEF OutputsInv, OneDetacher, Others, Shutting
<1>8. OneShutter'
  BY <1>1, ShutterKept DEF Shutting
<1>5. ListedBound'
  <2> SUFFICES ASSUME NEW p \in OutputSet, NEW c \in Connections, p \in conn[c].outputs
               PROVE  \/ out'[p].bound = c
                      \/ \E v \in Callers : /\ call'[v].pc \in Attaching \cup {"forget", "leave"}
                                            /\ call'[v].o = p /\ call'[v].c = c
    BY DEF ListedBound
  <2>1. CASE out[p].bound = c
    BY <1>1, <1>2, <2>1, Names DEF Shutting
  <2>2. ASSUME NEW v \in Callers, call[v].pc \in Attaching \cup {"forget", "leave"},
               call[v].o = p, call[v].c = c
        PROVE  v # u /\ call'[v] = call[v]
    BY <1>1, <2>2 DEF Others, Shutting, Attaching
  <2> QED BY <2>1, <2>2 DEF OutputsInv, ListedBound
<1>6. conn' \in [Connections -> ConnRecord]
  BY Types DEF OutputsInv
<1>7. /\ out'[o].bound \in {out[o].bound, None}
      /\ out'[o].bound = out[o].bound \/ Drained(o)
      /\ out'[o].bound = out[o].bound \/ out'[o].status # "open"
      /\ out'[o].lock = None /\ call[u].pc \notin Attaching /\ call'[u].pc \notin Attaching
  BY <1>1, <1>2 DEF Shutting, Attaching
<1> QED BY <1>1, <1>2, <1>3, <1>4, <1>5, <1>6, <1>7, <1>8, OutChanges

LEMMA ShutState ==
    ASSUME OutputsInv, NEW u \in Callers, call[u].pc \in Shutting,
           NEW o, o = call[u].o
    PROVE  /\ o \in OutputSet /\ out[o].lock = None /\ out[o].status = "closing"
           /\ out[o].native # None => out[o].bound = out[o].native /\ ~out[o].detaching
           /\ out[o].detached \/ out[o].gone => out[o].native = None
           /\ out[o].bound \in {call[u].c, None}
           /\ call[u].pc # "shut" => out[o].shut
           /\ call[u].pc \notin {"shut", "drain"} => Drained(o)
           /\ call[u].pc \in {"destroy", "release", "leave"} => out[o].native = None
           /\ call[u].pc = "leave" => out[o].bound = None
<1>1. o \in OutputSet /\ out[o].lock = None /\ NativeBound(o) /\ Shuts(u)
  BY ShutAlone, Known, KnownOf
<1> QED BY <1>1 DEF NativeBound, Binds, Attached, Shuts

LEMMA OutputShutStep ==
    ASSUME OutputsInv, NEW u \in Callers, OutputShut(u)
    PROVE  OutputsInv'
<1>1. call[u].pc = "shut" /\ conn' = conn /\ Moved(u, "drain") /\ "drain" \in Shutting
  BY GotoStep, Types DEF OutputsInv, OutputShut, CallLabels, Shutting
<1>2. PICK o \in OutputSet : o = call[u].o
  BY <1>1, ShutAlone DEF Shutting
<1>3. /\ out' \in [OutputSet -> OutRecord] /\ \A p \in OutputSet : p # o => out'[p] = out[p]
      /\ out'[o].shut
      /\ out'[o].status = out[o].status /\ out'[o].bound = out[o].bound
      /\ out'[o].detached = out[o].detached /\ out'[o].detaching = out[o].detaching
      /\ out'[o].lock = out[o].lock /\ out'[o].pending = out[o].pending
      /\ out'[o].busy = out[o].busy /\ out'[o].native = out[o].native
      /\ out'[o].gone = out[o].gone
  <2> DEFINE x == out[o]
             y == [x EXCEPT !.shut = TRUE]
  <2>1. x \in OutRecord /\ out \in [OutputSet -> OutRecord]
    BY Types DEF OutputsInv
  <2>2. out' = [out EXCEPT ![o] = y]
    BY <1>2, <2>1 DEF OutputShut
  <2>3. /\ y \in OutRecord /\ y.shut
        /\ \A f \in {"status", "bound", "detached", "detaching", "lock", "shut", "pending",
                      "busy", "native", "gone"} \ {"shut"} : y[f] = x[f]
    <3> HIDE DEF x
    <3> QED BY <2>1 DEF OutRecord
  <2> HIDE DEF y
  <2> QED BY <2>1, <2>2, <2>3, OutStep
<1>4. NativeBound(o)' /\ Shuts(u)'
  BY <1>1, <1>2, <1>3, ShutState
     DEF NativeBound, Binds, Attached, Shuts, Drained, Moved, Returned, Shutting
<1>5. /\ out'[o].status # "open"
      /\ out[o].shut => out'[o].shut
      /\ out'[o].native \in {out[o].native, None}
      /\ \/ out'[o].bound = out[o].bound
         \/ out'[o].bound = None /\ call'[u].pc = "leave" /\ Drained(o)
  BY <1>1, <1>2, <1>3, ShutState DEF Moved, Shutting
<1> QED BY <1>1, <1>2, <1>3, <1>4, <1>5, ShutChanges DEF Shutting

LEMMA OutputDetachesStep ==
    ASSUME OutputsInv, NEW u \in Callers, OutputDetaches(u)
    PROVE  OutputsInv'
<1>1. call[u].pc = "native" /\ conn' = conn /\ Moved(u, "destroy") /\ "destroy" \in Shutting
  BY GotoStep, Types DEF OutputsInv, OutputDetaches, CallLabels, Shutting
<1>2. PICK o \in OutputSet : o = call[u].o
  BY <1>1, ShutAlone DEF Shutting
<1>3. /\ out' \in [OutputSet -> OutRecord] /\ \A p \in OutputSet : p # o => out'[p] = out[p]
      /\ out'[o].native = None /\ out'[o].detached
      /\ out'[o].status = out[o].status /\ out'[o].bound = out[o].bound
      /\ out'[o].detaching = out[o].detaching /\ out'[o].lock = out[o].lock
      /\ out'[o].shut = out[o].shut /\ out'[o].pending = out[o].pending
      /\ out'[o].busy = out[o].busy /\ out'[o].gone = out[o].gone
  BY <1>2, Types DEF OutputsInv, OutputDetaches, OutRecord, SomeOrNone, Statuses
<1>4. NativeBound(o)' /\ Shuts(u)'
  BY <1>1, <1>2, <1>3, ShutState
     DEF NativeBound, Binds, Attached, Shuts, Drained, Moved, Returned, Shutting
<1>5. /\ out'[o].status # "open"
      /\ out[o].shut => out'[o].shut
      /\ out'[o].native \in {out[o].native, None}
      /\ \/ out'[o].bound = out[o].bound
         \/ out'[o].bound = None /\ call'[u].pc = "leave" /\ Drained(o)
  BY <1>1, <1>2, <1>3, ShutState DEF Moved, Shutting
<1> QED BY <1>1, <1>2, <1>3, <1>4, <1>5, ShutChanges DEF Shutting

LEMMA OutputDetachFailsStep ==
    ASSUME OutputsInv, NEW u \in Callers, OutputDetachFails(u)
    PROVE  OutputsInv'
<1>1. call[u].pc = "native" /\ conn' = conn /\ Returned(u)
  BY ReturnStep, Types DEF OutputsInv, OutputDetachFails, CallLabels, Shutting
<1>2. PICK o \in OutputSet : o = call[u].o
  BY <1>1, ShutAlone DEF Shutting
<1>3. /\ out' \in [OutputSet -> OutRecord] /\ \A p \in OutputSet : p # o => out'[p] = out[p]
      /\ out'[o].status = "close_failed"
      /\ out'[o].bound = out[o].bound /\ out'[o].detached = out[o].detached
      /\ out'[o].detaching = out[o].detaching /\ out'[o].lock = out[o].lock
      /\ out'[o].shut = out[o].shut /\ out'[o].pending = out[o].pending
      /\ out'[o].busy = out[o].busy /\ out'[o].native = out[o].native
      /\ out'[o].gone = out[o].gone
  BY <1>2, Types DEF OutputsInv, OutputDetachFails, OutRecord, SomeOrNone, Statuses
<1>4. NativeBound(o)' /\ Shuts(u)'
  BY <1>1, <1>2, <1>3, ShutState
     DEF NativeBound, Binds, Attached, Shuts, Drained, Moved, Returned, Shutting
<1>5. /\ out'[o].status # "open"
      /\ out[o].shut => out'[o].shut
      /\ out'[o].native \in {out[o].native, None}
      /\ \/ out'[o].bound = out[o].bound
         \/ out'[o].bound = None /\ call'[u].pc = "leave" /\ Drained(o)
  BY <1>1, <1>2, <1>3, ShutState DEF Moved, Shutting
<1> QED BY <1>1, <1>2, <1>3, <1>4, <1>5, ShutChanges DEF Shutting

LEMMA OutputDestroyedStep ==
    ASSUME OutputsInv, NEW u \in Callers, OutputDestroyed(u)
    PROVE  OutputsInv'
<1>1. call[u].pc = "destroy" /\ conn' = conn /\ Moved(u, "release") /\ "release" \in Shutting
  BY GotoStep, Types DEF OutputsInv, OutputDestroyed, CallLabels, Shutting
<1>2. PICK o \in OutputSet : o = call[u].o
  BY <1>1, ShutAlone DEF Shutting
<1>3. /\ out' \in [OutputSet -> OutRecord] /\ \A p \in OutputSet : p # o => out'[p] = out[p]
      /\ out'[o].gone
      /\ out'[o].status = out[o].status /\ out'[o].bound = out[o].bound
      /\ out'[o].detached = out[o].detached /\ out'[o].detaching = out[o].detaching
      /\ out'[o].lock = out[o].lock /\ out'[o].shut = out[o].shut
      /\ out'[o].pending = out[o].pending /\ out'[o].busy = out[o].busy
      /\ out'[o].native = out[o].native
  <2> DEFINE x == out[o]
             y == [x EXCEPT !.gone = TRUE]
  <2>1. x \in OutRecord /\ out \in [OutputSet -> OutRecord]
    BY Types DEF OutputsInv
  <2>2. out' = [out EXCEPT ![o] = y]
    BY <1>2, <2>1 DEF OutputDestroyed
  <2>3. /\ y \in OutRecord /\ y.gone
        /\ \A f \in {"status", "bound", "detached", "detaching", "lock", "shut", "pending",
                      "busy", "native", "gone"} \ {"gone"} : y[f] = x[f]
    <3> HIDE DEF x
    <3> QED BY <2>1 DEF OutRecord
  <2> HIDE DEF y
  <2> QED BY <2>1, <2>2, <2>3, OutStep
<1>4. NativeBound(o)' /\ Shuts(u)'
  BY <1>1, <1>2, <1>3, ShutState
     DEF NativeBound, Binds, Attached, Shuts, Drained, Moved, Returned, Shutting
<1>5. /\ out'[o].status # "open"
      /\ out[o].shut => out'[o].shut
      /\ out'[o].native \in {out[o].native, None}
      /\ \/ out'[o].bound = out[o].bound
         \/ out'[o].bound = None /\ call'[u].pc = "leave" /\ Drained(o)
  BY <1>1, <1>2, <1>3, ShutState DEF Moved, Shutting
<1> QED BY <1>1, <1>2, <1>3, <1>4, <1>5, ShutChanges DEF Shutting

LEMMA OutputDestroyFailsStep ==
    ASSUME OutputsInv, NEW u \in Callers, OutputDestroyFails(u)
    PROVE  OutputsInv'
<1>1. call[u].pc = "destroy" /\ conn' = conn /\ Returned(u)
  BY ReturnStep, Types DEF OutputsInv, OutputDestroyFails, CallLabels, Shutting
<1>2. PICK o \in OutputSet : o = call[u].o
  BY <1>1, ShutAlone DEF Shutting
<1>3. /\ out' \in [OutputSet -> OutRecord] /\ \A p \in OutputSet : p # o => out'[p] = out[p]
      /\ out'[o].status = "close_failed"
      /\ out'[o].bound = out[o].bound /\ out'[o].detached = out[o].detached
      /\ out'[o].detaching = out[o].detaching /\ out'[o].lock = out[o].lock
      /\ out'[o].shut = out[o].shut /\ out'[o].pending = out[o].pending
      /\ out'[o].busy = out[o].busy /\ out'[o].native = out[o].native
      /\ out'[o].gone = out[o].gone
  BY <1>2, Types DEF OutputsInv, OutputDestroyFails, OutRecord, SomeOrNone, Statuses
<1>4. NativeBound(o)' /\ Shuts(u)'
  BY <1>1, <1>2, <1>3, ShutState
     DEF NativeBound, Binds, Attached, Shuts, Drained, Moved, Returned, Shutting
<1>5. /\ out'[o].status # "open"
      /\ out[o].shut => out'[o].shut
      /\ out'[o].native \in {out[o].native, None}
      /\ \/ out'[o].bound = out[o].bound
         \/ out'[o].bound = None /\ call'[u].pc = "leave" /\ Drained(o)
  BY <1>1, <1>2, <1>3, ShutState DEF Moved, Shutting
<1> QED BY <1>1, <1>2, <1>3, <1>4, <1>5, ShutChanges DEF Shutting

LEMMA OutputReleaseStep ==
    ASSUME OutputsInv, NEW u \in Callers, OutputRelease(u)
    PROVE  OutputsInv'
<1>1. call[u].pc = "release" /\ conn' = conn /\ Moved(u, "leave") /\ "leave" \in Shutting
  BY GotoStep, Types DEF OutputsInv, OutputRelease, CallLabels, Shutting
<1>2. PICK o \in OutputSet : o = call[u].o
  BY <1>1, ShutAlone DEF Shutting
<1>3. /\ out' \in [OutputSet -> OutRecord] /\ \A p \in OutputSet : p # o => out'[p] = out[p]
      /\ out'[o].bound = None
      /\ out'[o].status = out[o].status /\ out'[o].detached = out[o].detached
      /\ out'[o].detaching = out[o].detaching /\ out'[o].lock = out[o].lock
      /\ out'[o].shut = out[o].shut /\ out'[o].pending = out[o].pending
      /\ out'[o].busy = out[o].busy /\ out'[o].native = out[o].native
      /\ out'[o].gone = out[o].gone
  BY <1>2, Types DEF OutputsInv, OutputRelease, OutRecord, SomeOrNone, Statuses
<1>4. NativeBound(o)' /\ Shuts(u)'
  BY <1>1, <1>2, <1>3, ShutState
     DEF NativeBound, Binds, Attached, Shuts, Drained, Moved, Returned, Shutting
<1>5. /\ out'[o].status # "open"
      /\ out[o].shut => out'[o].shut
      /\ out'[o].native \in {out[o].native, None}
      /\ \/ out'[o].bound = out[o].bound
         \/ out'[o].bound = None /\ call'[u].pc = "leave" /\ Drained(o)
  BY <1>1, <1>2, <1>3, ShutState DEF Moved, Shutting
<1> QED BY <1>1, <1>2, <1>3, <1>4, <1>5, ShutChanges DEF Shutting

\* The last step of close() unregisters the Output, which is bound to nothing.
LEMMA OutputClosedStep ==
    ASSUME OutputsInv, NEW u \in Callers, OutputClosed(u)
    PROVE  OutputsInv'
<1>1. call[u].pc = "leave" /\ Returned(u) /\ call[u].pc \in Shutting
  BY ReturnStep, Types DEF OutputsInv, OutputClosed, Shutting
<1>2. PICK o \in OutputSet : o = call[u].o
  BY <1>1, ShutAlone
<1>3. /\ out' \in [OutputSet -> OutRecord] /\ \A p \in OutputSet : p # o => out'[p] = out[p]
      /\ out'[o].status = "closed"
      /\ out'[o].bound = out[o].bound /\ out'[o].detached = out[o].detached
      /\ out'[o].detaching = out[o].detaching /\ out'[o].lock = out[o].lock
      /\ out'[o].shut = out[o].shut /\ out'[o].pending = out[o].pending
      /\ out'[o].busy = out[o].busy /\ out'[o].native = out[o].native
      /\ out'[o].gone = out[o].gone
  BY <1>2, Types DEF OutputsInv, OutputClosed, OutRecord, Statuses
<1>4. /\ out[o].lock = None /\ out[o].native = None /\ out[o].bound = None /\ Drained(o)
      /\ call[u].c \in SomeOrNone
      /\ \A v \in Callers : v # u /\ call[v].pc \in Shutting => call[v].o # o
  BY <1>1, <1>2, ShutAlone, ShutState
<1>5. /\ conn' \in [Connections -> ConnRecord]
      /\ \A c \in Connections :
           /\ conn'[c].status = conn[c].status /\ conn'[c].gone = conn[c].gone
           /\ conn'[c].lost = conn[c].lost
           /\ conn'[c].outputs = IF c = call[u].c THEN conn[c].outputs \ {o} ELSE conn[c].outputs
  <2>1. CASE call[u].c = None
    BY <1>4, <2>1, Types, Names DEF OutputsInv, OutputClosed
  <2>2. CASE call[u].c # None
    <3>1. PICK d \in Connections : d = call[u].c
      BY <1>4, <2>2 DEF SomeOrNone
    <3> DEFINE x == conn[d]
               y == [x EXCEPT !.outputs = x.outputs \ {o}]
    <3>2. conn \in [Connections -> ConnRecord] /\ x \in ConnRecord
      BY Types DEF OutputsInv
    <3>3. conn' = [conn EXCEPT ![d] = y]
      BY <1>2, <2>2, <3>1, <3>2 DEF OutputClosed, Unregister
    <3>4. /\ y \in ConnRecord /\ y.status = x.status /\ y.gone = x.gone
          /\ y.outputs = x.outputs \ {o} /\ y.lost = x.lost
      <4> HIDE DEF x
      <4> QED BY <3>2 DEF ConnRecord
    <3> HIDE DEF y
    <3>5. /\ conn' \in [Connections -> ConnRecord] /\ conn'[d] = y
          /\ \A c \in Connections : c # d => conn'[c] = conn[c]
      BY <3>2, <3>3, <3>4, ConnStep
    <3> QED BY <3>1, <3>4, <3>5
  <2> QED BY <2>1, <2>2
<1>6. NativeBound(o)'
  BY <1>3, <1>4 DEF NativeBound
<1>7. CallerHolds(u)' /\ Others(u) /\ ~call'[u].parent /\ call' \in [Callers -> CallRecord]
      /\ call[u].pc \notin Attaching /\ call'[u].pc \notin Attaching
  BY <1>1, NoCall DEF Returned, Others, Attaching
<1>8. OneDetacher'
  BY <1>1, <1>3 DEF OutputsInv, OneDetacher, Returned
<1>11. OneShutter'
  BY <1>1, <1>7, ShutterKept DEF Returned, Shutting
<1>9. ListedBound'
  <2> SUFFICES ASSUME NEW p \in OutputSet, NEW c \in Connections, p \in conn'[c].outputs
               PROVE  \/ out'[p].bound = c
                      \/ \E v \in Callers : /\ call'[v].pc \in Attaching \cup {"forget", "leave"}
                                            /\ call'[v].o = p /\ call'[v].c = c
    BY DEF ListedBound
  <2>1. p \in conn[c].outputs /\ ~(p = o /\ c = call[u].c) /\ out'[p].bound = out[p].bound
    BY <1>3, <1>5
  <2>2. ASSUME NEW v \in Callers, call[v].pc \in Attaching \cup {"forget", "leave"},
               call[v].o = p, call[v].c = c
        PROVE  call'[v] = call[v]
    BY <1>2, <1>7, <2>1, <2>2 DEF Others
  <2> QED BY <2>1, <2>2 DEF OutputsInv, ListedBound
<1>10. \A c \in Connections :
         /\ conn'[c].outputs \subseteq conn[c].outputs
         /\ \A p \in conn[c].outputs : p \in conn'[c].outputs \/ (p = o /\ out'[o].bound # c)
  <2> SUFFICES ASSUME NEW c \in Connections
               PROVE  /\ conn'[c].outputs \subseteq conn[c].outputs
                      /\ \A p \in conn[c].outputs : p \in conn'[c].outputs \/ (p = o /\ out'[o].bound # c)
    OBVIOUS
  <2>1. out'[o].bound # c
    BY <1>3, <1>4, Names
  <2> QED BY <1>5, <2>1
<1> QED BY <1>3, <1>4, <1>5, <1>6, <1>7, <1>8, <1>9, <1>10, <1>11, OutChanges, ZenonT(60)

LEMMA CloseOutputStep ==
    ASSUME OutputsInv, NEW u \in Callers, NEW o \in OutputSet, CloseOutput(u, o)
    PROVE  OutputsInv'
<1>1. /\ call[u].pc = "idle" /\ out[o].lock = None
      /\ ~out[o].detaching /\ out[o].status # "closing" /\ conn' = conn
      /\ out[o].bound \in SomeOrNone
  BY KnownOf DEF CloseOutput, Free, Unlocked
<1>2. /\ out' \in [OutputSet -> OutRecord] /\ \A p \in OutputSet : p # o => out'[p] = out[p]
      /\ out'[o].status = "closing"
      /\ out'[o].bound = out[o].bound /\ out'[o].detached = out[o].detached
      /\ out'[o].detaching = out[o].detaching /\ out'[o].lock = out[o].lock
      /\ out'[o].shut = out[o].shut /\ out'[o].pending = out[o].pending
      /\ out'[o].busy = out[o].busy /\ out'[o].native = out[o].native
      /\ out'[o].gone = out[o].gone
  BY Types DEF OutputsInv, CloseOutput, OutRecord, Statuses
<1>3. /\ call'[u].pc = "shut" /\ call'[u].o = o /\ call'[u].c = out[o].bound /\ ~call'[u].parent
      /\ call' \in [Callers -> CallRecord] /\ Others(u)
  BY <1>1, Types DEF OutputsInv, CloseOutput, Idle, CallRecord, CallLabels, Others
<1>4. \A v \in Callers : v # u /\ call[v].pc \in Shutting => call[v].o # o
  BY <1>1, Known DEF Shuts
<1>5. NativeBound(o)'
  BY <1>1, <1>2, KnownOf DEF NativeBound, Binds, Attached
<1>6. CallerHolds(u)'
  BY <1>1, <1>2, <1>3 DEF CallerHolds, Argued, Attaches, Detaches, HasDetached, Shuts, Covers,
                          Attaching, Detaching, Shutting
<1>7. OneDetacher'
  BY <1>1, <1>2, <1>3 DEF OutputsInv, OneDetacher, Others
<1>10. OneShutter'
  BY <1>3, <1>4 DEF OutputsInv, OneShutter, Others
<1>8. ListedBound'
  BY <1>1, <1>2, <1>3 DEF OutputsInv, ListedBound, Others, Attaching
<1>9. /\ conn' \in [Connections -> ConnRecord]
      /\ call[u].pc \notin Attaching /\ call'[u].pc \notin Attaching
  BY <1>1, <1>3, Types DEF OutputsInv, Attaching
<1> QED BY <1>1, <1>2, <1>3, <1>4, <1>5, <1>6, <1>7, <1>8, <1>9, <1>10, OutChanges

\* The native detach, by detach() or by close() of the Connection.
LEMMA DetachSteps ==
    ASSUME OutputsInv, NEW u \in Callers, NEW o \in OutputSet, Detach(u, o) \/ ParentDetaches(u, o)
    PROVE  OutputsInv'
<1>1. /\ call[u].pc \in {"idle", "loop"} /\ out[o].lock = None /\ out[o].bound # None
      /\ out[o].bound \in Connections /\ ~out[o].detaching /\ conn' = conn
      /\ NativeBound(o)
  <2>1. /\ call[u].pc \in {"idle", "loop"} /\ out[o].lock = None /\ ~out[o].detaching
        /\ conn' = conn /\ NativeBound(o) /\ out[o].bound \in SomeOrNone
    BY KnownOf DEF Detach, ParentDetaches, Free, Unlocked
  <2>2. out[o].bound # None
    BY Known, Names DEF Detach, ParentDetaches, Argued
  <2> QED BY <2>1, <2>2 DEF SomeOrNone
<1>2. /\ out' \in [OutputSet -> OutRecord] /\ \A p \in OutputSet : p # o => out'[p] = out[p]
      /\ out'[o].native = None /\ out'[o].detaching
      /\ out'[o].status = out[o].status /\ out'[o].bound = out[o].bound
      /\ out'[o].detached = out[o].detached /\ out'[o].lock = out[o].lock
      /\ out'[o].shut = out[o].shut /\ out'[o].pending = out[o].pending
      /\ out'[o].busy = out[o].busy /\ out'[o].gone = out[o].gone
  <2>1. out' = [out EXCEPT ![o].native = None, ![o].detaching = TRUE]
    BY DEF Detach, ParentDetaches
  <2> DEFINE x == out[o]
             y == [x EXCEPT !.native = None, !.detaching = TRUE]
  <2>2. x \in OutRecord /\ out \in [OutputSet -> OutRecord]
    BY Types DEF OutputsInv
  <2>3. out' = [out EXCEPT ![o] = y]
    BY <2>1, <2>2
  <2>4. /\ y \in OutRecord /\ y.native = None /\ y.detaching
        /\ \A f \in {"status", "bound", "detached", "lock", "shut", "pending", "busy",
                      "gone"} : y[f] = x[f]
    <3> HIDE DEF x
    <3> QED BY <2>2 DEF OutRecord, SomeOrNone
  <2> HIDE DEF y
  <2> QED BY <2>2, <2>3, <2>4, OutStep
<1>3. /\ call'[u].pc = "barrier" /\ call'[u].o = o /\ call'[u].c = out[o].bound
      /\ call' \in [Callers -> CallRecord] /\ Others(u)
      /\ \/ ~call'[u].parent
         \/ call'[u].parent /\ call[u].parent /\ Covers(u)
            /\ call'[u].c = call[u].c /\ call'[u].todo = call[u].todo
  <2>1. CASE Detach(u, o)
    BY <1>1, <2>1, Types DEF OutputsInv, Detach, Idle, CallRecord, CallLabels, SomeOrNone, Others
  <2>2. CASE ParentDetaches(u, o)
    <3>1. call[u].parent /\ Covers(u)
      BY <2>2, Known DEF ParentDetaches, Argued
    <3> DEFINE x == call[u]
               y == [x EXCEPT !.pc = "barrier", !.o = o]
    <3>2. call \in [Callers -> CallRecord] /\ x \in CallRecord
      BY Types DEF OutputsInv
    <3>3. call' = [call EXCEPT ![u] = y] /\ out[o].bound = x.c
      BY <2>2, <3>2 DEF ParentDetaches
    <3>4. /\ y \in CallRecord /\ y.pc = "barrier" /\ y.o = o /\ y.c = x.c
          /\ y.todo = x.todo /\ y.parent = x.parent
      <4> HIDE DEF x
      <4> QED BY <3>2 DEF CallRecord, CallLabels
    <3> HIDE DEF y
    <3>5. /\ call' \in [Callers -> CallRecord] /\ call'[u] = y
          /\ \A v \in Callers : v # u => call'[v] = call[v]
      BY <3>2, <3>3, <3>4, CallStep
    <3> QED BY <3>1, <3>3, <3>4, <3>5 DEF Others
  <2> QED BY <2>1, <2>2
<1>4. \A v \in Callers : v # u /\ call[v].pc \in {"barrier", "unbind"} => call[v].o # o
  BY <1>1, Known DEF Detaches
<1>5. NativeBound(o)'
  BY <1>1, <1>2 DEF NativeBound
<1>6. CallerHolds(u)'
  <2>1. \A p \in OutputSet : \A c \in Connections : Held(p, c)' => Held(p, c)
    <3>1. \A p \in OutputSet : \A c : Attached(p, c)' <=> Attached(p, c)
      BY <1>1, <1>2, <1>3, LocksKept DEF Attaching
    <3> QED BY <1>2, <3>1, Names DEF Held
  <2>2. Covers(u)'
    BY <1>1, <1>3, <2>1 DEF Covers
  <2>3. HasDetached(u)'
    BY <1>1, <1>2, <1>3 DEF HasDetached, Held, Attached
  <2> QED BY <1>1, <1>2, <1>3, <2>2, <2>3
          DEF CallerHolds, Argued, Attaches, Detaches, Shuts, Attaching, Detaching, Shutting
<1>7. OneDetacher'
  <2>1. OneDetacher /\ \A v \in Callers : v # u => call'[v] = call[v]
    BY <1>3 DEF OutputsInv, Others
  <2> QED BY <1>1, <1>2, <1>3, <1>4, <2>1 DEF OneDetacher
<1>10. OneShutter'
  BY <1>3, ShutterKept DEF Shutting
<1>8. ListedBound'
  BY <1>1, <1>2, <1>3 DEF OutputsInv, ListedBound, Others, Attaching
<1>9. /\ conn' \in [Connections -> ConnRecord]
      /\ call[u].pc \notin Attaching /\ call'[u].pc \notin Attaching
  BY <1>1, <1>3, Types DEF OutputsInv, Attaching
<1> QED BY <1>1, <1>2, <1>3, <1>4, <1>5, <1>6, <1>7, <1>8, <1>9, <1>10, OutChanges

LEMMA UnbindStep ==
    ASSUME OutputsInv, NEW u \in Callers, Unbind(u)
    PROVE  OutputsInv'
<1>1. PICK o \in OutputSet : o = call[u].o /\ call[u].pc = "unbind" /\ out[o].lock = None
  BY Known DEF Unbind, Argued, Detaching, Unlocked
<1>2. /\ out' \in [OutputSet -> OutRecord] /\ \A p \in OutputSet : p # o => out'[p] = out[p]
      /\ out'[o].bound = None /\ ~out'[o].detaching
      /\ out'[o].status = out[o].status /\ out'[o].detached = out[o].detached
      /\ out'[o].lock = out[o].lock /\ out'[o].shut = out[o].shut
      /\ out'[o].pending = out[o].pending /\ out'[o].busy = out[o].busy
      /\ out'[o].native = out[o].native /\ out'[o].gone = out[o].gone
  BY <1>1, Types DEF OutputsInv, Unbind, OutRecord, SomeOrNone
<1>3. conn' = conn /\ conn' \in [Connections -> ConnRecord] /\ Moved(u, "forget") /\ Others(u)
  BY GotoStep, Types DEF OutputsInv, Unbind, CallLabels, Moved, Others
<1>4. /\ out[o].native = None /\ Drained(o) /\ out[o].bound \in {call[u].c, None}
      /\ call[u].c \in Connections
      /\ \A v \in Callers : v # u /\ call[v].pc \in {"barrier", "unbind"} => call[v].o # o
  <2>1. \A v \in Callers : v # u /\ call[v].pc \in {"barrier", "unbind"} => call[v].o # o
    BY <1>1 DEF OutputsInv, OneDetacher
  <2> QED BY <1>1, <2>1, Known DEF Detaches, Argued, Detaching
<1>5. NativeBound(o)'
  BY <1>2, <1>4, KnownOf DEF NativeBound
<1>6. CallerHolds(u)'
  <2>1. \A p \in OutputSet : \A c \in Connections : Held(p, c)' => Held(p, c)
    <3>1. \A p \in OutputSet : \A c : Attached(p, c)' <=> Attached(p, c)
      BY <1>1, <1>2, <1>3, LocksKept DEF Attaching, Moved
    <3> QED BY <1>2, <3>1 DEF Held
  <2>2. Covers(u)'
    BY <1>3, <1>4, <2>1, Known DEF Covers, Moved
  <2>3. HasDetached(u)'
    BY <1>1, <1>2, <1>3, <1>4, Names DEF HasDetached, Held, Attached, Moved
  <2>4. Argued(u)'
    BY <1>1, <1>3, Known DEF Argued, Moved, Attaching, Detaching, Shutting
  <2> QED BY <1>3, <2>2, <2>3, <2>4
          DEF CallerHolds, Attaches, Detaches, Shuts, Attaching, Shutting, Moved
<1>7. OneDetacher'
  <2>1. OneDetacher /\ \A v \in Callers : v # u => call'[v] = call[v]
    BY <1>3 DEF OutputsInv, Others
  <2> QED BY <1>1, <1>2, <1>3, <1>4, <2>1 DEF OneDetacher, Moved
<1>11. OneShutter'
  BY <1>3, ShutterKept DEF Shutting, Moved
<1>8. ListedBound'
  <2>1. ListedBound /\ \A v \in Callers : v # u => call'[v] = call[v]
    BY <1>3 DEF OutputsInv, Others
  <2>2. call'[u].pc = "forget" /\ call'[u].o = o /\ call'[u].c = call[u].c
    BY <1>1, <1>3 DEF Moved
  <2> QED BY <1>1, <1>2, <1>3, <1>4, <2>1, <2>2, Names DEF ListedBound, Attaching
<1>9. /\ call[u].pc \notin Attaching /\ call'[u].pc \notin Attaching
      /\ call'[u].parent => call[u].parent /\ call'[u].c = call[u].c
      /\ call' \in [Callers -> CallRecord]
  BY <1>1, <1>3 DEF Attaching, Moved
<1>10. \A c \in Connections :
         /\ conn'[c].outputs \subseteq conn[c].outputs
         /\ \A p \in conn[c].outputs : p \in conn'[c].outputs \/ (p = o /\ out'[o].bound # c)
  BY <1>3
<1> QED BY <1>1, <1>2, <1>3, <1>4, <1>5, <1>6, <1>7, <1>8, <1>9, <1>10, <1>11, OutChanges

LEMMA ForgetStep ==
    ASSUME OutputsInv, NEW u \in Callers, Forget(u)
    PROVE  OutputsInv'
<1>1. PICK o \in OutputSet, c \in Connections :
        o = call[u].o /\ c = call[u].c /\ call[u].pc = "forget" /\ out' = out
  BY Known DEF Forget, Argued, Detaching
<1>2. /\ Covers(u)
      /\ call[u].parent => out[o].bound # c /\ ~Held(o, c)
  BY <1>1, Known DEF HasDetached
<1>3. /\ conn' \in [Connections -> ConnRecord]
      /\ \A d \in Connections :
           /\ conn'[d].status = conn[d].status /\ conn'[d].gone = conn[d].gone
           /\ conn'[d].outputs = IF d = c THEN conn[d].outputs \ {o} ELSE conn[d].outputs
           /\ conn'[d].lost = IF d = c /\ ~call[u].parent /\ Renewed(o, c)
                               THEN conn[d].lost \cup {o} ELSE conn[d].lost
  <2> DEFINE x == conn[c]
             z == IF ~call[u].parent /\ Renewed(o, c) THEN x.lost \cup {o} ELSE x.lost
             y == [x EXCEPT !.outputs = x.outputs \ {o}, !.lost = z]
  <2>1. conn \in [Connections -> ConnRecord] /\ x \in ConnRecord
    BY <1>1, Types DEF OutputsInv
  <2>2. conn' = [conn EXCEPT ![c] = y]
    BY <1>1, <2>1 DEF Forget
  <2>3. z \in SUBSET OutputSet
    BY <2>1 DEF ConnRecord
  <2>4. /\ y \in ConnRecord /\ y.status = x.status /\ y.gone = x.gone
        /\ y.outputs = x.outputs \ {o} /\ y.lost = z
    <3> HIDE DEF x, z
    <3> QED BY <2>1, <2>3 DEF ConnRecord
  <2> HIDE DEF y
  <2>5. /\ conn' \in [Connections -> ConnRecord] /\ conn'[c] = y
        /\ \A d \in Connections : d # c => conn'[d] = conn[d]
    BY <2>1, <2>2, <2>4, ConnStep
  <2> QED BY <2>4, <2>5
<1>4. /\ call' \in [Callers -> CallRecord] /\ Others(u)
      /\ call'[u].parent = call[u].parent
      /\ \/ Returned(u)
         \/ /\ call'[u].pc = "loop" /\ call'[u].o = None /\ call'[u].c = c
            /\ call'[u].todo = call[u].todo \ {o} /\ call'[u].parent
  <2>1. CASE call[u].parent
    <3>1. /\ call' = [call EXCEPT ![u].pc = "loop", ![u].o = None, ![u].todo = @ \ {o}]
          /\ call \in [Callers -> CallRecord]
      BY <1>1, <2>1, Types DEF OutputsInv, Forget
    <3>2. /\ call'[u].pc = "loop" /\ call'[u].o = None /\ call'[u].c = c
          /\ call'[u].todo = call[u].todo \ {o} /\ call'[u].parent = call[u].parent
          /\ Others(u)
      BY <1>1, <3>1 DEF CallRecord, Others
    <3>3. call' \in [Callers -> CallRecord]
      <4>1. PICK x \in CallRecord : x = call[u]
        BY <3>1
      <4>2. [x EXCEPT !.pc = "loop", !.o = None, !.todo = @ \ {o}] \in CallRecord
        BY DEF CallRecord, CallLabels
      <4>3. call' = [call EXCEPT ![u] = [x EXCEPT !.pc = "loop", !.o = None, !.todo = @ \ {o}]]
        BY <3>1, <4>1
      <4> QED BY <3>1, <4>2, <4>3
    <3> QED BY <2>1, <3>2, <3>3
  <2>2. CASE ~call[u].parent
    <3>1. Returned(u)
      BY <2>2, ReturnStep, Types DEF OutputsInv, Forget
    <3> QED BY <2>2, <3>1, Types DEF OutputsInv, Returned, Others, CallRecord
  <2> QED BY <2>1, <2>2
<1>5. \A v \in Callers : v # u => Attaches(v)'
  <2> SUFFICES ASSUME NEW v \in Callers, v # u, call[v].pc \in Attaching PROVE Attaches(v)'
    BY <1>4 DEF Attaches, Others
  <2>1. /\ Attaches(v) /\ call'[v] = call[v]
        /\ call[v].o \in OutputSet /\ call[v].c \in Connections /\ out[call[v].o].lock = v
    BY <1>4, Known, KnownOf DEF Argued, Others
  <2>2. CASE call[v].o = o /\ call[v].c = c
    <3>1. ~call[u].parent
      BY <1>2, <2>1, <2>2, Names DEF Held, Attached
    <3>2. Renewed(o, c)
      BY <2>2 DEF Renewed, Attaching
    <3>3. o \in conn'[c].lost
      BY <1>3, <3>1, <3>2
    <3> QED BY <1>1, <2>1, <2>2, <3>3 DEF Attaches, Listed
  <2>3. CASE ~(call[v].o = o /\ call[v].c = c)
    <3>1. /\ call[v].o \in conn'[call[v].c].outputs <=> call[v].o \in conn[call[v].c].outputs
          /\ call[v].o \in conn'[call[v].c].lost <=> call[v].o \in conn[call[v].c].lost
          /\ conn'[call[v].c].gone = conn[call[v].c].gone
      BY <1>3, <2>1, <2>3
    <3> QED BY <1>1, <2>1, <3>1 DEF Attaches, Listed
  <2> QED BY <2>2, <2>3
<1>13. \A d \in Connections : conn[d].lost \subseteq conn'[d].lost
  BY <1>3
<1>14. OneShutter'
  BY <1>1, <1>4, ShutterKept DEF Returned, Shutting
<1>6. /\ LockHeld' /\ \A v \in Callers : v # u => CallerHolds(v)'
      /\ \A p \in OutputSet : OutputHolds(p)'
      /\ \A p \in OutputSet : \A d : Held(p, d)' <=> Held(p, d)
  BY <1>1, <1>4, <1>5, <1>13, OutKept DEF Returned, Attaching
<1>7. CallerHolds(u)'
  <2>1. CASE Returned(u)
    BY <2>1, NoCall
  <2>2. CASE ~Returned(u)
    BY <1>1, <1>2, <1>4, <1>6, <1>13, <2>2
       DEF CallerHolds, Argued, Attaches, Detaches, HasDetached, Shuts, Covers,
           Attaching, Detaching, Shutting
  <2> QED BY <2>1, <2>2
<1>8. OneParent'
  <2>1. OneParent /\ \A v \in Callers : v # u => call'[v] = call[v]
    BY <1>4 DEF OutputsInv, Others
  <2>2. \A v \in Callers : call'[v].parent =>
          call[v].parent /\ call'[v].c = call[v].c /\ call[v].c \in Connections
    <3>1. call'[u].parent => call[u].parent /\ call'[u].c = c
      BY <1>4 DEF Returned
    <3> QED BY <1>1, <2>1, <3>1, Known DEF Argued, Detaching
  <2>3. \A d \in Connections : conn'[d].status = conn[d].status /\ conn'[d].gone = conn[d].gone
    BY <1>3
  <2> QED BY <2>1, <2>2, <2>3 DEF OneParent
<1>9. OneDetacher'
  BY <1>1, <1>4 DEF OutputsInv, OneDetacher, Others, Returned
<1>10. BoundListed'
  <2> SUFFICES ASSUME NEW p \in OutputSet, NEW d \in Connections, out[p].bound = d
               PROVE  Listed(p, d)'
    BY <1>1 DEF BoundListed
  <2>1. Listed(p, d)
    BY DEF OutputsInv, BoundListed
  <2>2. CASE p = o /\ d = c
    <3>1. ~call[u].parent /\ Renewed(o, c)
      BY <1>2, <2>2 DEF Renewed
    <3> QED BY <1>3, <2>2, <3>1 DEF Listed
  <2>3. CASE ~(p = o /\ d = c)
    BY <1>3, <1>13, <2>1, <2>3 DEF Listed
  <2> QED BY <2>2, <2>3
<1>11. ListedBound'
  <2> SUFFICES ASSUME NEW p \in OutputSet, NEW d \in Connections, p \in conn'[d].outputs
               PROVE  \/ out'[p].bound = d
                      \/ \E v \in Callers : /\ call'[v].pc \in Attaching \cup {"forget", "leave"}
                                            /\ call'[v].o = p /\ call'[v].c = d
    BY DEF ListedBound
  <2>1. p \in conn[d].outputs /\ ~(p = o /\ d = c)
    BY <1>3
  <2>2. ASSUME NEW v \in Callers, call[v].pc \in Attaching \cup {"forget", "leave"},
               call[v].o = p, call[v].c = d
        PROVE  call'[v] = call[v]
    BY <1>1, <1>4, <2>1, <2>2 DEF Others
  <2> QED BY <1>1, <2>1, <2>2 DEF OutputsInv, ListedBound
<1>12. TypeOK'
  BY <1>1, <1>3, <1>4, Types, TypesBack DEF OutputsInv
<1> QED BY <1>6, <1>7, <1>8, <1>9, <1>10, <1>11, <1>12, <1>14 DEF OutputsInv

\* A step of attach(): u holds, takes or gives up the lock of o.
LEMMA AttachChanges ==
    ASSUME OutputsInv, NEW u \in Callers, Others(u), NEW o \in OutputSet,
           call' \in [Callers -> CallRecord], out' \in [OutputSet -> OutRecord],
           conn' \in [Connections -> ConnRecord],
           ~call[u].parent, ~call'[u].parent,
           call[u].pc \in Attaching => call[u].o = o,
           call'[u].pc \in Attaching => call'[u].o = o,
           out[o].lock \in {u, None},
           out'[o].lock = IF call'[u].pc \in Attaching THEN u ELSE None,
           call[u].pc \notin Detaching \cup Shutting,
           call'[u].pc \notin Detaching \cup Shutting,
           \A p \in OutputSet : p # o => out'[p] = out[p],
           out[o].status = "open", ~out[o].detaching, ~out'[o].detaching,
           \A d : Held(o, d)' => Held(o, d)
             \/ \A v \in Callers : v # u => ~(call[v].parent /\ call[v].c = d),
           out'[o].bound # None => Held(o, out'[o].bound),
           \A c \in Connections :
             /\ conn'[c].status = conn[c].status /\ conn'[c].gone = conn[c].gone
             /\ out'[o].bound = c => Listed(o, c)'
             /\ \A p \in OutputSet : p # o =>
                  (p \in conn'[c].outputs <=> p \in conn[c].outputs)
             /\ \A p \in conn[c].lost : p \in conn'[c].lost
                  \/ (p = o /\ \A v \in Callers : v # u => ~(call[v].parent /\ call[v].c = c))
             /\ \A p \in conn'[c].lost : p # o => p \in conn[c].lost,
           OutputHolds(o)', CallerHolds(u)', ListedBound'
    PROVE  OutputsInv'
<1>1. ASSUME NEW p \in OutputSet, p # o, NEW c
      PROVE  /\ Held(p, c)' <=> Held(p, c)
             /\ Binds(p, c)' <=> Binds(p, c)
  <2>1. out'[p] = out[p] /\ (out[p].lock # None => call'[out[p].lock] = call[out[p].lock])
    BY <1>1, KnownOf DEF Others
  <2> QED BY <2>1 DEF Held, Attached, Binds
<1>2. ASSUME NEW v \in Callers, v # u PROVE CallerHolds(v)'
  <2> DEFINE w == call[v].o
  <2>1. call'[v] = call[v]
    BY <1>2 DEF Others
  <2>2. /\ Argued(v) /\ Attaches(v) /\ Detaches(v) /\ HasDetached(v) /\ Shuts(v) /\ Covers(v)
        /\ call[v].pc \in Attaching => w \in OutputSet /\ w # o /\ call[v].c \in Connections
        /\ call[v].pc \in Detaching => w \in OutputSet /\ call[v].c \in Connections
        /\ call[v].pc \in {"barrier", "unbind"} => w # o
        /\ call[v].pc \in Shutting => w \in OutputSet /\ w # o
        /\ call[v].parent => call[v].c \in Connections
    BY <1>2, Known, KnownOf, Names DEF Argued, Detaching, Detaches, Shuts
  <2>3. Argued(v)'
    BY <2>1, <2>2 DEF Argued
  <2>4. Attaches(v)'
    BY <2>1, <2>2 DEF Attaches, Listed
  <2>5. Detaches(v)'
    BY <2>1, <2>2 DEF Detaches, Drained, Detaching
  <2>6. Shuts(v)'
    BY <2>1, <2>2 DEF Shuts, Drained
  <2>7. HasDetached(v)'
    <3>1. CASE w = o
      <4>1. call[v].pc = "forget" /\ call[v].parent => ~Held(o, call[v].c)'
        BY <1>2, <2>1, <2>2, <3>1 DEF HasDetached
      <4>2. call[v].pc = "forget" /\ call[v].parent => out'[o].bound # call[v].c
        BY <2>2, <3>1, Names DEF HasDetached, Detaching
      <4> QED BY <2>1, <2>2, <3>1, <4>1, <4>2 DEF HasDetached
    <3>2. CASE w # o
      BY <1>1, <2>1, <2>2, <3>2 DEF HasDetached, Detaching
    <3> QED BY <3>1, <3>2
  <2>8. Covers(v)'
    <3>1. PICK d : d = call[v].c
      OBVIOUS
    <3>2. ASSUME call[v].parent, NEW p \in OutputSet, Held(p, d)'
          PROVE  p \in call[v].todo \cup conn'[d].lost
      <4>1. Held(p, d)
        BY <1>1, <1>2, <3>1, <3>2
      <4>2. d \in Connections /\ p \in call[v].todo \cup conn[d].lost
        BY <2>2, <3>1, <3>2, <4>1 DEF Covers
      <4>3. conn[d].lost \subseteq conn'[d].lost
        BY <1>2, <3>1, <3>2, <4>2
      <4> QED BY <4>2, <4>3
    <3> QED BY <2>1, <3>1, <3>2 DEF Covers
  <2> QED BY <2>3, <2>4, <2>5, <2>6, <2>7, <2>8 DEF CallerHolds
<1>3. ASSUME NEW p \in OutputSet PROVE OutputHolds(p)'
  BY <1>1, KnownOf DEF OutputHolds, NativeBound, FrameOf
<1>4. LockHeld'
  <2> SUFFICES ASSUME NEW v \in Callers, NEW p \in OutputSet
               PROVE  out'[p].lock = v <=> call'[v].pc \in Attaching /\ call'[v].o = p
    BY DEF LockHeld
  <2>1. out[p].lock = v <=> call[v].pc \in Attaching /\ call[v].o = p
    BY KnownOf
  <2>2. CASE p = o
    BY <2>1, <2>2, Names DEF Others
  <2>3. CASE p # o
    BY <2>1, <2>3 DEF Others
  <2> QED BY <2>2, <2>3
<1>5. OneParent'
  <2>1. OneParent /\ \A v \in Callers : v # u => call'[v] = call[v]
    BY DEF OutputsInv, Others
  <2>2. \A v \in Callers : call'[v].parent =>
          call[v].parent /\ call'[v].c = call[v].c /\ call[v].c \in Connections
    BY <2>1, Known DEF Argued, Detaching
  <2> QED BY <2>1, <2>2 DEF OneParent
<1>6. OneDetacher'
  BY DEF OutputsInv, OneDetacher, Others, Detaching
<1>7. BoundListed'
  <2> SUFFICES ASSUME NEW p \in OutputSet, NEW c \in Connections, p # o, out[p].bound = c
               PROVE  Listed(p, c)'
    BY DEF BoundListed
  <2>1. Listed(p, c)
    BY DEF OutputsInv, BoundListed
  <2> QED BY <2>1 DEF Listed
<1>9. OneShutter'
  BY ShutterKept
<1>8. TypeOK'
  BY TypesBack
<1> QED BY <1>2, <1>3, <1>4, <1>5, <1>6, <1>7, <1>8, <1>9 DEF OutputsInv

LEMMA AttachRegisterStep ==
    ASSUME OutputsInv, NEW u \in Callers, NEW o \in OutputSet, NEW c \in Connections,
           AttachRegister(u, o, c)
    PROVE  OutputsInv'
<1>1. /\ call[u].pc = "idle" /\ out[o].lock = None
      /\ out[o].status = "open" /\ out[o].bound = None /\ conn[c].status = "open"
  BY DEF AttachRegister, Free, Unlocked, Register
<1>2. out[o].native = None /\ ~out[o].detaching /\ ~conn[c].gone /\ ~call[u].parent
  <2>1. out[o].native = None
    BY <1>1, KnownOf DEF NativeBound, Binds, Attached
  <2>2. ASSUME out[o].detaching PROVE FALSE
    <3>1. PICK v \in Callers : call[v].pc \in {"barrier", "unbind"} /\ call[v].o = o
      BY <2>2 DEF OutputsInv, OneDetacher
    <3>2. Argued(v) /\ Detaches(v)
      BY Known
    <3>3. call[v].c \in Connections /\ out[o].bound = call[v].c
      BY <1>1, <3>1, <3>2 DEF Detaches, Argued, Detaching
    <3> QED BY <1>1, <3>3, Names
  <2>3. ~conn[c].gone /\ ~call[u].parent
    BY <1>1, Known DEF OutputsInv, OneParent, Argued, Detaching
  <2> QED BY <2>1, <2>2, <2>3
<1>3. \A v \in Callers : ~(call[v].parent /\ call[v].c = c)
  BY <1>1 DEF OutputsInv, OneParent
<1>4. /\ out' \in [OutputSet -> OutRecord] /\ \A p \in OutputSet : p # o => out'[p] = out[p]
      /\ out'[o].lock = u
      /\ out'[o].status = out[o].status /\ out'[o].bound = out[o].bound
      /\ out'[o].detached = out[o].detached /\ out'[o].detaching = out[o].detaching
      /\ out'[o].shut = out[o].shut /\ out'[o].pending = out[o].pending
      /\ out'[o].busy = out[o].busy /\ out'[o].native = out[o].native
      /\ out'[o].gone = out[o].gone
  BY Types DEF OutputsInv, AttachRegister, OutRecord
<1>5. /\ call'[u].pc = "attach" /\ call'[u].o = o /\ call'[u].c = c /\ ~call'[u].parent
      /\ call' \in [Callers -> CallRecord] /\ Others(u)
  BY Types DEF OutputsInv, AttachRegister, Idle, CallRecord, CallLabels, SomeOrNone, Others
<1>6. /\ conn' \in [Connections -> ConnRecord]
      /\ \A d \in Connections :
           /\ conn'[d].status = conn[d].status /\ conn'[d].gone = conn[d].gone
           /\ \A p \in OutputSet :
                /\ p \in conn'[d].outputs <=> p \in conn[d].outputs \/ (p = o /\ d = c)
                /\ p \in conn'[d].lost <=> p \in conn[d].lost /\ ~(p = o /\ d = c)
           /\ conn[d].lost \subseteq OutputSet /\ conn'[d].lost \subseteq OutputSet
  <2>1. /\ conn' = [conn EXCEPT ![c].outputs = @ \cup {o}, ![c].lost = @ \ {o}]
        /\ conn \in [Connections -> ConnRecord]
    BY Types DEF OutputsInv, AttachRegister, Register
  <2> QED BY <2>1 DEF ConnRecord
<1>7. \A d : Held(o, d)' <=> d = None \/ d = c
  BY <1>2, <1>4, <1>5, Names DEF Held, Attached
<1>8. OutputHolds(o)'
  <2>1. NativeBound(o)'
    BY <1>1, <1>2, <1>4, KnownOf, Names DEF NativeBound
  <2>2. FrameOf(o)'
    BY <1>1, <1>4, KnownOf DEF FrameOf, Binds, Attached
  <2> QED BY <2>1, <2>2 DEF OutputHolds
<1>9. CallerHolds(u)'
  BY <1>1, <1>2, <1>4, <1>5, <1>6
     DEF CallerHolds, Argued, Attaches, Detaches, HasDetached, Shuts, Covers,
         Attaching, Detaching, Shutting, Listed
<1>10. ListedBound'
  <2> SUFFICES ASSUME NEW p \in OutputSet, NEW d \in Connections, p \in conn'[d].outputs
               PROVE  \/ out'[p].bound = d
                      \/ \E v \in Callers : /\ call'[v].pc \in Attaching \cup {"forget", "leave"}
                                            /\ call'[v].o = p /\ call'[v].c = d
    BY DEF ListedBound
  <2>1. CASE p = o /\ d = c
    BY <1>5, <2>1 DEF Attaching
  <2>2. CASE ~(p = o /\ d = c)
    <3>1. p \in conn[d].outputs /\ out'[p].bound = out[p].bound
      BY <1>4, <1>6, <2>2
    <3>2. ASSUME NEW v \in Callers, call[v].pc \in Attaching \cup {"forget", "leave"}
          PROVE  call'[v] = call[v]
      BY <1>1, <1>5, <3>2 DEF Others, Attaching
    <3> QED BY <3>1, <3>2 DEF OutputsInv, ListedBound
  <2> QED BY <2>1, <2>2
<1>11. /\ call[u].pc \notin Attaching \cup Detaching \cup Shutting
       /\ call'[u].pc \in Attaching /\ call'[u].pc \notin Detaching \cup Shutting
  BY <1>1, <1>5 DEF Attaching, Detaching, Shutting
<1>12. \A d : Held(o, d)' => Held(o, d)
             \/ \A v \in Callers : v # u => ~(call[v].parent /\ call[v].c = d)
  BY <1>2, <1>3, <1>7 DEF Held
<1>13. /\ out[o].lock \in {u, None} /\ out'[o].bound = None /\ ~out'[o].detaching
       /\ out'[o].lock = IF call'[u].pc \in Attaching THEN u ELSE None
       /\ \A d \in Connections :
             /\ conn'[d].status = conn[d].status /\ conn'[d].gone = conn[d].gone
             /\ out'[o].bound = d => Listed(o, d)'
             /\ \A p \in OutputSet : p # o =>
                  (p \in conn'[d].outputs <=> p \in conn[d].outputs)
             /\ \A p \in conn[d].lost : p \in conn'[d].lost
                  \/ (p = o /\ \A v \in Callers : v # u => ~(call[v].parent /\ call[v].c = d))
             /\ \A p \in conn'[d].lost : p # o => p \in conn[d].lost
  BY <1>1, <1>2, <1>3, <1>4, <1>6, <1>11, Names
<1> QED BY <1>1, <1>2, <1>4, <1>5, <1>6, <1>8, <1>9, <1>10, <1>11, <1>12, <1>13, AttachChanges

\* What attach() knows while it holds the lock.
LEMMA AttachState ==
    ASSUME OutputsInv, NEW u \in Callers, call[u].pc \in Attaching,
           NEW o, o = call[u].o, NEW c, c = call[u].c
    PROVE  /\ o \in OutputSet /\ c \in Connections /\ ~call[u].parent
           /\ out[o].lock = u /\ out[o].status = "open" /\ out[o].bound = None
           /\ ~out[o].detaching /\ out[o].native \in {None, c} /\ Held(o, c)
           /\ Listed(o, c) /\ (~conn[c].gone \/ o \in conn[c].lost)
           /\ call[u].pc = "attach" => out[o].native = None
           /\ out[o].pending \in {None, c} /\ out[o].busy \in {None, c}
           /\ call[u].pc = "attach" => out[o].pending = None /\ out[o].busy = None
           /\ ~out[o].detached /\ ~out[o].gone
<1>1. /\ Argued(u) /\ Attaches(u) /\ o \in OutputSet /\ c \in Connections
      /\ ~call[u].parent
  BY Known DEF Argued, Attaching, Detaching
<1>2. NativeBound(o) /\ FrameOf(o) /\ out[o].lock = u
  BY <1>1, KnownOf
<1>3. Attached(o, c) /\ \A d : Binds(o, d) <=> d = c /\ call[u].pc = "bind"
  BY <1>2, Names DEF Attached, Binds
<1>4. out[o].status = "open" /\ out[o].bound = None /\ ~out[o].detaching
  BY <1>1 DEF Attaches
<1> QED BY <1>1, <1>2, <1>3, <1>4 DEF Attaches, NativeBound, FrameOf, Held

LEMMA AttachNativeStep ==
    ASSUME OutputsInv, NEW u \in Callers, AttachNative(u)
    PROVE  OutputsInv'
<1>1. call[u].pc = "attach" /\ call[u].pc \in Attaching
  BY DEF AttachNative, Attaching
<1>2. PICK o \in OutputSet, c \in Connections : o = call[u].o /\ c = call[u].c
  BY <1>1, Known DEF Argued
<1>3. /\ out' \in [OutputSet -> OutRecord] /\ \A p \in OutputSet : p # o => out'[p] = out[p]
      /\ out'[o].native = c
      /\ out'[o].status = out[o].status /\ out'[o].bound = out[o].bound
      /\ out'[o].detached = out[o].detached /\ out'[o].detaching = out[o].detaching
      /\ out'[o].lock = out[o].lock /\ out'[o].shut = out[o].shut
      /\ out'[o].pending = out[o].pending /\ out'[o].busy = out[o].busy
      /\ out'[o].gone = out[o].gone
  BY <1>2, Types DEF OutputsInv, AttachNative, OutRecord, SomeOrNone
<1>4. conn' = conn /\ Moved(u, "bind")
  BY GotoStep, Types DEF OutputsInv, AttachNative, CallLabels
<1>5. /\ call[u].pc \notin Detaching \cup Shutting
      /\ call'[u].pc \notin Detaching \cup Shutting
      /\ call' \in [Callers -> CallRecord] /\ Others(u)
      /\ call[u].pc \in Attaching => call[u].o = o
      /\ call'[u].pc \in Attaching => call'[u].o = o
      /\ out'[o].lock = IF call'[u].pc \in Attaching THEN u ELSE None
  <2>1. out[o].lock = u
    BY <1>1, <1>2, AttachState
  <2> QED BY <1>1, <1>2, <1>3, <1>4, <2>1
     DEF Moved, Returned, Others, Attaching, Detaching, Shutting
<1>6. /\ out[o].lock = u /\ out[o].status = "open" /\ out[o].bound = None
      /\ ~out[o].detaching /\ ~out[o].detached /\ ~out[o].gone /\ ~call[u].parent
      /\ out[o].pending = None /\ out[o].busy = None
      /\ Listed(o, c) /\ (~conn[c].gone \/ o \in conn[c].lost) /\ Held(o, c)
      /\ u # None
  BY <1>1, <1>2, AttachState, Names
<1>7. \A d : Held(o, d)' => Held(o, d)
             \/ \A v \in Callers : v # u => ~(call[v].parent /\ call[v].c = d)
  BY <1>2, <1>3, <1>4, <1>6 DEF Held, Attached, Moved
<1>8. OutputHolds(o)'
  <2>1. Binds(o, c)'
    BY <1>2, <1>3, <1>4, <1>6 DEF Binds, Attached, Moved
  <2> QED BY <1>3, <1>6, <2>1 DEF OutputHolds, NativeBound, FrameOf
<1>9. CallerHolds(u)'
  BY <1>2, <1>3, <1>4, <1>6
     DEF CallerHolds, Argued, Attaches, Detaches, HasDetached, Shuts, Covers, Moved,
         Attaching, Detaching, Shutting, Listed
<1>10. ListedBound'
  BY <1>1, <1>3, <1>4 DEF OutputsInv, ListedBound, Moved, Attaching
<1>11. \A d \in Connections :
         /\ conn'[d].status = conn[d].status /\ conn'[d].gone = conn[d].gone
         /\ out'[o].bound = d => Listed(o, d)'
         /\ \A p \in OutputSet : p # o => (p \in conn'[d].outputs <=> p \in conn[d].outputs)
         /\ conn'[d].lost = conn[d].lost
  BY <1>3, <1>4, <1>6, Names
<1>12. conn' \in [Connections -> ConnRecord] /\ ~call'[u].parent /\ out'[o].bound = None
       /\ ~out'[o].detaching /\ out[o].lock \in {u, None}
  BY <1>3, <1>4, <1>6, Types DEF OutputsInv, Moved
<1> QED BY <1>3, <1>5, <1>6, <1>7, <1>8, <1>9, <1>10, <1>11, <1>12, AttachChanges

LEMMA AttachBindStep ==
    ASSUME OutputsInv, NEW u \in Callers, AttachBind(u)
    PROVE  OutputsInv'
<1>1. call[u].pc = "bind" /\ call[u].pc \in Attaching
  BY DEF AttachBind, Attaching
<1>2. PICK o \in OutputSet, c \in Connections : o = call[u].o /\ c = call[u].c
  BY <1>1, Known DEF Argued
<1>3. /\ out' \in [OutputSet -> OutRecord] /\ \A p \in OutputSet : p # o => out'[p] = out[p]
      /\ out'[o].bound = c /\ ~out'[o].detached /\ out'[o].lock = None
      /\ out'[o].status = out[o].status /\ out'[o].detaching = out[o].detaching
      /\ out'[o].shut = out[o].shut /\ out'[o].pending = out[o].pending
      /\ out'[o].busy = out[o].busy /\ out'[o].native = out[o].native
      /\ out'[o].gone = out[o].gone
  BY <1>2, Types DEF OutputsInv, AttachBind, OutRecord, SomeOrNone
<1>4. conn' = conn /\ Returned(u)
  BY ReturnStep, Types DEF OutputsInv, AttachBind
<1>5. /\ call[u].pc \notin Detaching \cup Shutting
      /\ call'[u].pc \notin Detaching \cup Shutting
      /\ call' \in [Callers -> CallRecord] /\ Others(u)
      /\ call[u].pc \in Attaching => call[u].o = o
      /\ call'[u].pc \in Attaching => call'[u].o = o
      /\ out'[o].lock = IF call'[u].pc \in Attaching THEN u ELSE None
  <2>1. out[o].lock = u
    BY <1>1, <1>2, AttachState
  <2> QED BY <1>1, <1>2, <1>3, <1>4, <2>1
     DEF Moved, Returned, Others, Attaching, Detaching, Shutting
<1>6. /\ out[o].lock = u /\ out[o].status = "open"
      /\ ~out[o].detaching /\ ~out[o].gone /\ ~call[u].parent
      /\ out[o].pending \in {None, c} /\ out[o].busy \in {None, c} /\ out[o].native \in {None, c}
      /\ Listed(o, c) /\ Held(o, c) /\ out[o].bound = None
  <2>1. call[u].pc \in Attaching
    BY <1>1
  <2> QED BY <1>2, <2>1, AttachState
<1>7. \A d : Held(o, d)' => Held(o, d)
             \/ \A v \in Callers : v # u => ~(call[v].parent /\ call[v].c = d)
  BY <1>3 DEF Held, Attached
<1>8. OutputHolds(o)'
  BY <1>3, <1>6 DEF OutputHolds, NativeBound, FrameOf
<1>9. CallerHolds(u)'
  BY <1>4, NoCall
<1>10. ListedBound'
  <2> SUFFICES ASSUME NEW p \in OutputSet, NEW d \in Connections, p \in conn[d].outputs
               PROVE  \/ out'[p].bound = d
                      \/ \E v \in Callers : /\ call'[v].pc \in Attaching \cup {"forget", "leave"}
                                            /\ call'[v].o = p /\ call'[v].c = d
    BY <1>4 DEF ListedBound
  <2>1. CASE p = o /\ d = c
    BY <1>3, <2>1
  <2>2. CASE ~(p = o /\ d = c)
    <3>1. out[p].bound = d => out'[p].bound = d
      BY <1>3, <1>6, <2>2, Names
    <3>2. ASSUME NEW v \in Callers, call[v].pc \in Attaching \cup {"forget", "leave"},
                 call[v].o = p, call[v].c = d
          PROVE  call'[v] = call[v]
      <4>1. v # u
        BY <1>2, <2>2, <3>2
      <4> QED BY <1>5, <4>1 DEF Others
    <3> QED BY <3>1, <3>2 DEF OutputsInv, ListedBound
  <2> QED BY <2>1, <2>2
<1>11. \A d \in Connections :
         /\ conn'[d].status = conn[d].status /\ conn'[d].gone = conn[d].gone
         /\ out'[o].bound = d => Listed(o, d)'
         /\ \A p \in OutputSet : p # o => (p \in conn'[d].outputs <=> p \in conn[d].outputs)
         /\ conn'[d].lost = conn[d].lost
  BY <1>3, <1>4, <1>6 DEF Listed
<1>12. conn' \in [Connections -> ConnRecord] /\ ~call'[u].parent /\ Held(o, out'[o].bound)
       /\ ~out'[o].detaching /\ out[o].lock \in {u, None}
  BY <1>3, <1>4, <1>6, Types DEF OutputsInv, Returned
<1> QED BY <1>3, <1>5, <1>6, <1>7, <1>8, <1>9, <1>10, <1>11, <1>12, AttachChanges

LEMMA AttachRefusedStep ==
    ASSUME OutputsInv, NEW u \in Callers, AttachRefused(u)
    PROVE  OutputsInv'
<1>1. call[u].pc = "attach" /\ call[u].pc \in Attaching
  BY DEF AttachRefused, Attaching
<1>2. PICK o \in OutputSet, c \in Connections : o = call[u].o /\ c = call[u].c
  BY <1>1, Known DEF Argued
<1>3. /\ out' \in [OutputSet -> OutRecord] /\ \A p \in OutputSet : p # o => out'[p] = out[p]
      /\ out'[o].lock = None
      /\ out'[o].status = out[o].status /\ out'[o].bound = out[o].bound
      /\ out'[o].detached = out[o].detached /\ out'[o].detaching = out[o].detaching
      /\ out'[o].shut = out[o].shut /\ out'[o].pending = out[o].pending
      /\ out'[o].busy = out[o].busy /\ out'[o].native = out[o].native
      /\ out'[o].gone = out[o].gone
  BY <1>2, Types DEF OutputsInv, AttachRefused, OutRecord, SomeOrNone
<1>4. Returned(u)
  BY ReturnStep, Types DEF OutputsInv, AttachRefused
<1>5. /\ call[u].pc \notin Detaching \cup Shutting
      /\ call'[u].pc \notin Detaching \cup Shutting
      /\ call' \in [Callers -> CallRecord] /\ Others(u)
      /\ call[u].pc \in Attaching => call[u].o = o
      /\ call'[u].pc \in Attaching => call'[u].o = o
      /\ out'[o].lock = IF call'[u].pc \in Attaching THEN u ELSE None
  <2>1. out[o].lock = u
    BY <1>1, <1>2, AttachState
  <2> QED BY <1>1, <1>2, <1>3, <1>4, <2>1
     DEF Moved, Returned, Others, Attaching, Detaching, Shutting
<1>6. /\ out[o].lock = u /\ out[o].status = "open" /\ out[o].bound = None
      /\ ~out[o].detaching /\ ~out[o].detached /\ ~out[o].gone /\ ~call[u].parent
      /\ out[o].pending = None /\ out[o].busy = None /\ out[o].native = None
  BY <1>1, <1>2, AttachState
<1>7. \A d : Held(o, d)' => Held(o, d)
             \/ \A v \in Callers : v # u => ~(call[v].parent /\ call[v].c = d)
  BY <1>3 DEF Held, Attached
<1>8. OutputHolds(o)'
  BY <1>3, <1>6 DEF OutputHolds, NativeBound, FrameOf
<1>9. CallerHolds(u)'
  BY <1>4, NoCall
<1>10. /\ conn' \in [Connections -> ConnRecord]
       /\ \A d \in Connections :
            /\ conn'[d].status = conn[d].status /\ conn'[d].gone = conn[d].gone
            /\ conn'[d].lost = conn[d].lost
            /\ \A p \in OutputSet :
                 p \in conn'[d].outputs <=> p \in conn[d].outputs /\ ~(p = o /\ d = c)
  <2>1. conn' = [conn EXCEPT ![c].outputs = @ \ {o}] /\ conn \in [Connections -> ConnRecord]
    BY <1>2, Types DEF OutputsInv, AttachRefused, Unregister
  <2> QED BY <2>1 DEF ConnRecord
<1>11. ListedBound'
  <2> SUFFICES ASSUME NEW p \in OutputSet, NEW d \in Connections, p \in conn'[d].outputs
               PROVE  \/ out'[p].bound = d
                      \/ \E v \in Callers : /\ call'[v].pc \in Attaching \cup {"forget", "leave"}
                                            /\ call'[v].o = p /\ call'[v].c = d
    BY DEF ListedBound
  <2>1. p \in conn[d].outputs /\ ~(p = o /\ d = c) /\ out'[p].bound = out[p].bound
    BY <1>3, <1>10
  <2>2. ASSUME NEW v \in Callers, call[v].pc \in Attaching \cup {"forget", "leave"},
               call[v].o = p, call[v].c = d
        PROVE  call'[v] = call[v]
    <3>1. v # u
      BY <1>2, <2>1, <2>2
    <3> QED BY <1>5, <3>1 DEF Others
  <2> QED BY <2>1, <2>2 DEF OutputsInv, ListedBound
<1>12. \A d \in Connections :
         /\ conn'[d].status = conn[d].status /\ conn'[d].gone = conn[d].gone
         /\ out'[o].bound = d => Listed(o, d)'
         /\ \A p \in OutputSet : p # o => (p \in conn'[d].outputs <=> p \in conn[d].outputs)
         /\ conn'[d].lost = conn[d].lost
  BY <1>3, <1>6, <1>10, Names
<1>13. ~call'[u].parent /\ out'[o].bound = None /\ ~out'[o].detaching /\ out[o].lock \in {u, None}
  BY <1>3, <1>4, <1>6 DEF Returned
<1> QED BY <1>3, <1>5, <1>6, <1>7, <1>8, <1>9, <1>10, <1>11, <1>12, <1>13, AttachChanges

-----------------------------------------------------------------------------
LEMMA OutputsInit == Init => OutputsInv
<1> SUFFICES ASSUME Init PROVE OutputsInv
  OBVIOUS
<1>1. /\ \A o \in OutputSet :
           /\ out[o].status = "open" /\ out[o].bound = None /\ out[o].native = None
           /\ out[o].lock = None /\ ~out[o].detaching /\ ~out[o].detached /\ ~out[o].gone
           /\ out[o].pending = None /\ out[o].busy = None
      /\ \A c \in Connections : conn[c].outputs = {} /\ ~conn[c].gone
      /\ \A u \in Callers : call[u].pc = "idle" /\ ~call[u].parent
  BY DEF Init, NewOutput, Idle
<1>2. TypeOK
  BY DEF Init, NewOutput, Idle, TypeOK, Statuses, CallLabels, SomeOrNone
<1>3. \A u \in Callers : CallerHolds(u)
  BY <1>1 DEF CallerHolds, Argued, Attaches, Detaches, HasDetached, Shuts, Covers,
              Attaching, Detaching, Shutting
<1>4. \A o \in OutputSet : OutputHolds(o)
  BY <1>1 DEF OutputHolds, NativeBound, FrameOf
<1>5. LockHeld /\ OneParent /\ OneDetacher /\ OneShutter /\ BoundListed /\ ListedBound
  BY <1>1, Names DEF LockHeld, OneParent, OneDetacher, OneShutter, BoundListed,
                      ListedBound, Attaching, Shutting
<1> QED BY <1>2, <1>3, <1>4, <1>5 DEF OutputsInv

LEMMA OutputsNext ==
    ASSUME OutputsInv, [Next]_vars
    PROVE  OutputsInv'
<1>1. CASE UNCHANGED vars
  BY <1>1 DEF vars, OutputsInv, TypeOK, CallerHolds, Argued, Attaches, Detaches, HasDetached,
              Held, Attached, Binds, Shuts, Drained, Covers, OutputHolds, NativeBound, FrameOf,
              LockHeld, OneParent, OneDetacher, OneShutter, BoundListed, ListedBound, Listed
<1>2. ASSUME NEW u \in Callers, Binding(u) PROVE OutputsInv'
  BY <1>2, AttachRegisterStep, AttachNativeStep, AttachRefusedStep, AttachBindStep,
     DetachSteps, WaitSteps, UnbindStep, ForgetStep DEF Binding
<1>3. ASSUME NEW u \in Callers, ClosingConnection(u) PROVE OutputsInv'
  BY <1>3, CloseConnectionStep, JoinSteps, SkipSteps, DetachSteps, ConnectionEndSteps
     DEF ClosingConnection
<1>4. ASSUME NEW u \in Callers, ClosingOutput(u) PROVE OutputsInv'
  BY <1>4, CloseOutputStep, OutputShutStep, WaitSteps, OutputDetachesStep,
     OutputDetachFailsStep, OutputDestroyedStep, OutputDestroyFailsStep, OutputReleaseStep,
     OutputClosedStep DEF ClosingOutput
<1> QED BY <1>1, <1>2, <1>3, <1>4, FrameSteps DEF Next

\* Every reachable state satisfies the inductive invariant.
THEOREM OutputsInvariant ==
    Spec => []OutputsInv
<1>1. OutputsInv /\ [Next]_vars => OutputsInv'
  BY OutputsNext
<1> QED BY <1>1, OutputsInit, PTL DEF Spec

\* README: closing a Connection detaches its Outputs.  Whatever attach(),
\* detach() and close() do on other threads meanwhile, Connection.close() goes on
\* to the native destroy only when no Output is attached to it but those whose
\* registration the end of an older detach() on another thread took away.
THEOREM OutputsLeave ==
    Spec => []OutputsLeaveFirst
<1>1. OutputsInv => OutputsLeaveFirst
  <2> SUFFICES ASSUME OutputsInv, NEW u \in Callers, call[u].pc = "loop", call[u].todo = {},
                      NEW o \in OutputSet \ conn[call[u].c].lost
               PROVE  out[o].native # call[u].c
    BY DEF OutputsLeaveFirst
  <2> QED BY Known DEF Argued, Covers, Held
<1> QED BY <1>1, OutputsInvariant, PTL

\* attach() uses the native Connection only while it exists, unless it has lost the
\* registration to an older detach(); an Output is destroyed detached, whoever else
\* uses it, also after a close() that failed half way.
THEOREM HandlesLive ==
    Spec => []HandlesOutliveUse
<1>1. OutputsInv => HandlesOutliveUse
  <2> SUFFICES ASSUME OutputsInv PROVE HandlesOutliveUse
    OBVIOUS
  <2>1. AttachHandleLives
    BY Known DEF AttachHandleLives, Attaches, Attaching
  <2>2. DestroyedDetached
    BY KnownOf DEF DestroyedDetached, NativeBound
  <2> QED BY <2>1, <2>2 DEF HandlesOutliveUse
<1> QED BY <1>1, OutputsInvariant, PTL

\* _bound of an Output, _outputs of the Connections and the frames still queued
\* agree, except while a call is changing them; a lost registration is the only one
\* that an open Connection may lack.
THEOREM RecordsDoAgree ==
    Spec => []RecordsAgree
<1>1. OutputsInv => RecordsAgree
  <2> SUFFICES ASSUME OutputsInv PROVE RecordsAgree
    OBVIOUS
  <2>1. EndsAgree
    BY DEF OutputsInv, BoundListed, ListedBound, Listed, EndsAgree, InTransit
  <2>2. BoundWhileHandled
    <3> SUFFICES ASSUME NEW o \in OutputSet, NEW c \in {out[o].pending, out[o].busy} \ {None},
                        out[o].bound # c
                 PROVE  \E u \in Callers : call[u].pc = "bind" /\ call[u].o = o /\ call[u].c = c
      BY DEF BoundWhileHandled
    <3>1. Binds(o, c) /\ out[o].lock \in Callers
      BY KnownOf DEF FrameOf, Binds, Attached
    <3> QED BY <3>1, KnownOf DEF Binds, Attached
  <2> QED BY <2>1, <2>2 DEF OutputsInv, RecordsAgree
<1> QED BY <1>1, OutputsInvariant, PTL
=============================================================================
