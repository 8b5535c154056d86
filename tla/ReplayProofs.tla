---------------------------- MODULE ReplayProofs ----------------------------
(* Proofs about Replay for every value of its constants.                   *)
EXTENDS Replay, TLAPS

Labels == {"idle", "lock", "native", "store", "close_children", "close_shut",
           "close_native"}
CallRecord == [pc : Labels, op : Retried \cup Once \cup {"close", None},
               arg : Ranges \cup Times \cup Children \cup {None},
               todo : SUBSET Children]
Records ==
    /\ replay \in [status : {"open", "closing", "close_failed", "closed"},
                   lock : Callers \cup {None}, range : Ranges \cup {NoRange},
                   stopped : BOOLEAN, children : SUBSET Children, shut : BOOLEAN]
    /\ native \in [playing : Ranges \cup {NoRange}, gone : BOOLEAN]
    /\ callbacks \in [busy : BOOLEAN, begun : 0 .. MaxCallbacks]
    /\ call \in [Callers -> CallRecord]

ReplayRecord ==
    [status : {"open", "closing", "close_failed", "closed"},
     lock : Callers \cup {None}, range : Ranges \cup {NoRange},
     stopped : BOOLEAN, children : SUBSET Children, shut : BOOLEAN]
NativeRecord == [playing : Ranges \cup {NoRange}, gone : BOOLEAN]

LEMMA SameRecords ==
    /\ Records => replay \in ReplayRecord /\ native \in NativeRecord
    /\ replay' \in ReplayRecord /\ native' \in NativeRecord
         /\ callbacks' \in [busy : BOOLEAN, begun : 0 .. MaxCallbacks]
         /\ call' \in [Callers -> CallRecord] => Records'
BY DEF Records, ReplayRecord, NativeRecord

LEMMA RecordFields ==
    ASSUME NEW r \in ReplayRecord, NEW n \in NativeRecord
    PROVE  /\ \A b \in BOOLEAN : /\ [r EXCEPT !.stopped = b] \in ReplayRecord
                                  /\ [r EXCEPT !.shut = b] \in ReplayRecord
                                  /\ [n EXCEPT !.gone = b] \in NativeRecord
           /\ \A u \in Callers : [r EXCEPT !.lock = u] \in ReplayRecord
           /\ [r EXCEPT !.status = "closed"] \in ReplayRecord
           /\ [r EXCEPT !.status = "close_failed"] \in ReplayRecord
           /\ [n EXCEPT !.playing = NoRange] \in NativeRecord
BY DEF ReplayRecord, NativeRecord

\* play() is given a range and start() a child.
Arguments ==
    \A u \in Callers : /\ call[u].op = "play" => call[u].arg \in Ranges
                       /\ call[u].op = "start" => call[u].arg \in Children

Holds(u)   == call[u].pc \in {"native", "store"}
Closing(u) == call[u].pc \in {"close_children", "close_shut", "close_native"}

\* _lock is held exactly by the caller that is between its checks and its
\* assignments, and only in a Replay that is open.
LockExact ==
    /\ \A u \in Callers : Holds(u) <=> replay.lock = u
    /\ replay.lock # None => replay.status = "open"

\* One caller closes, and only it ends the status "closing"; the handle is gone
\* once close() has succeeded.
OneCloser ==
    /\ \A u \in Callers : Closing(u) => replay.status = "closing"
    /\ \A u, v \in Callers : Closing(u) /\ Closing(v) => u = v
    /\ native.gone => replay.status = "closed"

\* play() has passed its native call and not yet stored what it did.
PlayStoring == \E u \in Callers : call[u].pc = "store" /\ call[u].op = "play"

\* What the Replay has stored is what the native half does, unless a play() is
\* about to store it.
StoredExact ==
    /\ replay.stopped /\ ~PlayStoring => native.playing = NoRange
    /\ native.playing # NoRange =>
          \/ replay.range = native.playing
          \/ PlayStoring
    /\ \A u \in Callers : call[u].pc = "store" =>
          /\ call[u].op = "stop" => native.playing = NoRange
          /\ call[u].op = "play" => native.playing \in {NoRange, call[u].arg}
    /\ \A u \in Callers :
          /\ call[u].pc \in {"close_shut", "close_native"} => replay.stopped
          /\ call[u].pc = "native" /\ call[u].op = "seek" =>
                replay.range = NoRange \/ Inside(call[u].arg, replay.range)
    /\ replay.status = "closed" => replay.stopped

ReplayInv == Records /\ Arguments /\ LockExact /\ OneCloser /\ StoredExact

-----------------------------------------------------------------------------
LEMMA Names == /\ None \notin Callers /\ Callback \in Callers /\ Callback \notin Threads
               /\ Threads \subseteq Callers /\ NoRange \notin Ranges
BY ReplayAssumption DEF None, Callers, Callback, NoRange

LEMMA ReplayInit == Init => ReplayInv
<1> SUFFICES ASSUME Init PROVE ReplayInv
  OBVIOUS
<1>1. Records
  BY ReplayAssumption DEF Init, Records, CallRecord, Idle, Labels
<1>2. \A u \in Callers : call[u] = Idle
  BY DEF Init
<1> QED BY <1>1, <1>2, Names
    DEF Init, ReplayInv, Arguments, LockExact, OneCloser, StoredExact, Holds, Closing,
        Idle, None, PlayStoring


LEMMA ReplayUnchanged ==
    ASSUME ReplayInv, UNCHANGED vars
    PROVE  ReplayInv'
BY DEF vars, ReplayInv, Records, Arguments, LockExact, OneCloser, StoredExact, Holds,
   Closing, PlayStoring, Inside

LEMMA CallbackStep ==
    ASSUME ReplayInv, PlaybackEnds \/ CallbackBegins \/ CallbackReturns
    PROVE  ReplayInv'
<1> USE Names, ReplayAssumption DEF ReplayInv, Records, Arguments, LockExact, OneCloser,
        StoredExact, Holds, Closing, PlayStoring, Inside
<1>1. CASE PlaybackEnds
  BY <1>1 DEF PlaybackEnds
<1>2. CASE CallbackBegins
  BY <1>2 DEF CallbackBegins
<1>3. CASE CallbackReturns
  BY <1>3 DEF CallbackReturns
<1> QED BY <1>1, <1>2, <1>3

\* What a caller becomes when it begins a call, and when it returns.
LEMMA CallRecords ==
    ASSUME NEW label, NEW op, NEW arg
    PROVE  /\ [Idle EXCEPT !.pc = label, !.op = op, !.arg = arg]
                = [pc |-> label, op |-> op, arg |-> arg, todo |-> {}]
           /\ Idle.pc = "idle" /\ Idle.op = None
           /\ Idle \in CallRecord
<1>1. Idle = [pc |-> "idle", op |-> None, arg |-> None, todo |-> {}]
  BY DEF Idle
<1>2. [Idle EXCEPT !.pc = label, !.op = op, !.arg = arg]
         = [pc |-> label, op |-> op, arg |-> arg, todo |-> {}]
  <2> DEFINE S == [pc : {label, "idle"}, op : {op, None}, arg : {arg, None}, todo : {{}}]
             r == [Idle EXCEPT !.pc = label, !.op = op, !.arg = arg]
  <2>1. Idle \in S
    BY <1>1
  <2>2. r \in S /\ r.pc = label /\ r.op = op /\ r.arg = arg /\ r.todo = {}
    BY <2>1
  <2> HIDE DEF r
  <2>3. r = [pc |-> label, op |-> op, arg |-> arg, todo |-> {}]
    BY <2>2
  <2> QED BY <2>3 DEF r
<1> QED BY <1>1, <1>2 DEF Labels, CallRecord

\* A call goes on, or ends.
LEMMA GotoRecords ==
    ASSUME call \in [Callers -> CallRecord], NEW u \in Callers, NEW label \in Labels,
           Goto(u, label)
    PROVE  call' \in [Callers -> CallRecord] /\ \A v \in Callers \ {u} : call'[v] = call[v]
<1> DEFINE y == [call[u] EXCEPT !.pc = label]
<1>1. y \in CallRecord
  BY DEF CallRecord
<1>2. call' = [call EXCEPT ![u] = y]
  BY DEF Goto
<1> HIDE DEF y
<1> QED BY <1>1, <1>2

LEMMA ReturnRecords ==
    ASSUME call \in [Callers -> CallRecord], NEW u \in Callers, Return(u)
    PROVE  /\ call' \in [Callers -> CallRecord]
           /\ \A v \in Callers \ {u} : call'[v] = call[v]
           /\ call'[u].pc = "idle" /\ call'[u].op = None
BY CallRecords DEF Return

LEMMA CallStep ==
    ASSUME ReplayInv, NEW u \in Callers, NEW op \in Retried \cup Once \cup {"close"},
           NEW arg \in Ranges \cup Times \cup Children \cup {None},
           op = "play" => arg \in Ranges,
           op = "start" => arg \in Children,
           CallFromCallback(op, arg) \/ Call(u, op, arg)
    PROVE  ReplayInv'
<1> USE Names DEF ReplayInv
<1>1. CASE CallFromCallback(op, arg)
  <2>1. /\ call' = [call EXCEPT ![Callback] = [pc |-> "native", op |-> op, arg |-> arg, todo |-> {}]]
        /\ replay' = [replay EXCEPT !.lock = Callback]
        /\ native' = native /\ callbacks' = callbacks
    <3>1. [Idle EXCEPT !.pc = "native", !.op = op, !.arg = arg]
            = [pc |-> "native", op |-> op, arg |-> arg, todo |-> {}]
      BY CallRecords
    <3> QED BY <1>1, <3>1 DEF CallFromCallback
  <2>2. Records'
    BY <2>1 DEF Records, CallRecord, Labels
  <2>3. /\ \A v \in Callers \ {Callback} : call'[v] = call[v]
        /\ call'[Callback] = [pc |-> "native", op |-> op, arg |-> arg, todo |-> {}]
    BY <2>1 DEF Records
  <2>4. /\ op # "seek" /\ replay.lock = None /\ replay.status = "open"
        /\ call[Callback].pc = "idle"
    BY <1>1 DEF CallFromCallback, Blocking, At
  <2>5. Arguments'
    BY <2>3 DEF Arguments
  <2>6. LockExact'
    BY <2>1, <2>3, <2>4 DEF Records, LockExact, Holds
  <2>7. OneCloser'
    BY <2>1, <2>3, <2>4 DEF Records, OneCloser, Closing
  <2>8. StoredExact'
    BY <2>1, <2>3, <2>4 DEF Records, StoredExact, PlayStoring, Inside
  <2> QED BY <2>2, <2>5, <2>6, <2>7, <2>8
<1>2. CASE Call(u, op, arg)
  <2>1. /\ call' = [call EXCEPT ![u] = [pc |-> "lock", op |-> op, arg |-> arg, todo |-> {}]]
        /\ UNCHANGED <<replay, native, callbacks>>
    BY <1>2, CallRecords, Zenon DEF Call
  <2>2. Records'
    BY <2>1 DEF Records, CallRecord, Labels
  <2>3. /\ \A v \in Callers \ {u} : call'[v] = call[v]
        /\ call'[u] = [pc |-> "lock", op |-> op, arg |-> arg, todo |-> {}]
        /\ call[u].pc = "idle"
    BY <1>2, <2>1 DEF Records, Call, At
  <2>5. Arguments'
    BY <2>3 DEF Arguments
  <2>6. LockExact'
    BY <2>1, <2>3 DEF Records, LockExact, Holds
  <2>7. OneCloser'
    BY <2>1, <2>3 DEF Records, OneCloser, Closing
  <2>8. StoredExact'
    BY <2>1, <2>3 DEF Records, StoredExact, PlayStoring, Inside
  <2> QED BY <2>2, <2>5, <2>6, <2>7, <2>8
<1> QED BY <1>1, <1>2

LEMMA LockStep ==
    ASSUME ReplayInv, NEW u \in Callers, Lock(u)
    PROVE  ReplayInv'
<1> USE Names DEF ReplayInv
<1>0. call[u].pc = "lock" /\ replay.lock = None /\ UNCHANGED <<native, callbacks>>
  BY DEF Lock, At, Unlocked
<1>1. CASE Return(u) /\ UNCHANGED replay
  <2>1. Records'
    BY <1>0, <1>1, CallRecords DEF Records, Return
  <2>2. /\ \A v \in Callers \ {u} : call'[v] = call[v]
        /\ call'[u].pc = "idle" /\ call'[u].op = None
    BY <1>1, CallRecords DEF Records, Return
  <2> QED BY <1>0, <1>1, <2>1, <2>2
      DEF Arguments, LockExact, OneCloser, StoredExact, Holds, Closing, PlayStoring,
          Inside, None
<1>2. CASE ~Refused(u) /\ replay' = [replay EXCEPT !.lock = u] /\ Goto(u, "native")
  <2>1. Records'
    <3>1. call' \in [Callers -> CallRecord]
      BY <1>2, GotoRecords DEF Records, Labels
    <3>2. replay' \in ReplayRecord
      BY <1>2, SameRecords, RecordFields
    <3> QED BY <1>0, <3>1, <3>2, SameRecords DEF Records
  <2>2. /\ \A v \in Callers \ {u} : call'[v] = call[v]
        /\ call'[u].pc = "native" /\ call'[u].op = call[u].op /\ call'[u].arg = call[u].arg
        /\ replay.status = "open"
        /\ call[u].op = "seek" => replay.range = NoRange \/ Inside(call[u].arg, replay.range)
    BY <1>2 DEF Records, Goto, Refused
  <2>3. /\ replay'.lock = u /\ replay'.status = replay.status /\ replay'.range = replay.range
        /\ replay'.stopped = replay.stopped
    BY <1>2 DEF Records
  <2>4. Arguments'
    BY <2>2 DEF Arguments
  <2>5. LockExact'
    BY <1>0, <2>2, <2>3 DEF LockExact, Holds
  <2>6. OneCloser'
    BY <1>0, <2>2, <2>3 DEF OneCloser, Closing
  <2>7. StoredExact'
    BY <1>0, <2>2, <2>3 DEF StoredExact, PlayStoring, Inside
  <2> QED BY <2>1, <2>4, <2>5, <2>6, <2>7
<1> QED BY <1>1, <1>2 DEF Lock

LEMMA NativeStep ==
    ASSUME ReplayInv, NEW u \in Callers, Native(u) \/ NativeRaises(u)
    PROVE  ReplayInv'
<1> USE Names DEF ReplayInv
<1>0. call[u].pc = "native" /\ UNCHANGED callbacks
  BY DEF Native, NativeRaises, At
<1>1. CASE Native(u)
  <2>1. Played(u) \in Ranges \cup {NoRange}
    BY DEF Played, Records, Arguments
  <2>2. Records' /\ UNCHANGED replay
    BY <1>1, <2>1 DEF Native, Records, CallRecord, Goto, Labels
  <2>3. /\ \A v \in Callers \ {u} : call'[v] = call[v]
        /\ call'[u].pc = "store" /\ call'[u].op = call[u].op /\ call'[u].arg = call[u].arg
        /\ native'.playing = Played(u) /\ native'.gone = native.gone
    BY <1>1 DEF Native, Records, Goto
  <2>4. Arguments'
    BY <2>3 DEF Arguments
  <2>5. LockExact'
    BY <1>0, <2>2, <2>3 DEF LockExact, Holds
  <2>6. OneCloser'
    BY <1>0, <2>2, <2>3 DEF OneCloser, Closing
  <2>7. ~PlayStoring
    BY <1>0 DEF LockExact, Holds, PlayStoring
  <2>8. StoredExact'
    <3>1. /\ call[u].op = "stop" => Played(u) = NoRange
          /\ call[u].op = "play" => Played(u) = call[u].arg
          /\ call[u].op \notin {"stop", "play"} => Played(u) = native.playing
      BY DEF Played
    <3>3. \A v \in Callers \ {u} : call[v].pc \notin {"native", "store"}
      BY <1>0 DEF LockExact, Holds
    <3>2. call[u].op = "play" => PlayStoring'
      BY <2>3 DEF PlayStoring
    <3> QED BY <1>0, <2>2, <2>3, <2>7, <3>1, <3>2, <3>3 DEF StoredExact, Inside
  <2> QED BY <2>2, <2>4, <2>5, <2>6, <2>8
<1>2. CASE NativeRaises(u)
  <2>1. Records' /\ UNCHANGED native
    BY <1>2, CallRecords DEF NativeRaises, Released, Records, Return
  <2>2. /\ \A v \in Callers \ {u} : call'[v] = call[v]
        /\ call'[u].pc = "idle" /\ call'[u].op = None
        /\ replay' = [replay EXCEPT !.lock = None]
    BY <1>2, CallRecords DEF NativeRaises, Released, Records, Return
  <2>3. /\ replay'.lock = None /\ replay'.status = replay.status
        /\ replay'.range = replay.range /\ replay'.stopped = replay.stopped
    BY <2>2 DEF Records
  <2>4. replay.lock = u
    BY <1>0 DEF LockExact, Holds
  <2>5. LockExact'
    BY <2>2, <2>3, <2>4 DEF LockExact, Holds
  <2>6. Arguments' /\ OneCloser'
    BY <1>0, <2>1, <2>2, <2>3 DEF Arguments, OneCloser, Closing, None
  <2>7. StoredExact'
    BY <1>0, <2>1, <2>2, <2>3 DEF StoredExact, PlayStoring, Inside
  <2> QED BY <2>1, <2>5, <2>6, <2>7
<1> QED BY <1>1, <1>2

LEMMA StoreStep ==
    ASSUME ReplayInv, NEW u \in Callers, Store(u)
    PROVE  ReplayInv'
<1> USE Names DEF ReplayInv
<1>0. call[u].pc = "store" /\ UNCHANGED <<native, callbacks>>
  BY DEF Store, At
<1>1. /\ replay'.lock = None /\ replay'.status = replay.status
      /\ replay'.range = IF call[u].op = "play" THEN call[u].arg ELSE replay.range
      /\ replay'.stopped = IF call[u].op = "play" THEN FALSE
                           ELSE call[u].op = "stop" \/ replay.stopped
  BY DEF Store, Stored, Released, Records
<1>2. Records'
  <2>1. call' \in [Callers -> CallRecord]
    BY CallRecords DEF Store, Records, Return
  <2>2. call[u].op = "play" => call[u].arg \in Ranges
    BY DEF Arguments
  <2>3. call[u].op = "start" => call[u].arg \in Children
    BY DEF Arguments
  <2>4. CASE call[u].op = "start"
    BY <1>0, <2>1, <2>3, <2>4 DEF Store, Stored, Released, Records
  <2>5. CASE call[u].op = "play"
    BY <1>0, <2>1, <2>2, <2>5 DEF Store, Stored, Released, Records
  <2>6. CASE call[u].op \notin {"start", "play"}
    BY <1>0, <2>1, <2>6 DEF Store, Stored, Released, Records
  <2> QED BY <2>4, <2>5, <2>6
<1>3. /\ \A v \in Callers \ {u} : call'[v] = call[v]
      /\ call'[u].pc = "idle" /\ call'[u].op = None
  BY CallRecords DEF Store, Records, Return
<1>4. replay.lock = u /\ replay.status = "open"
  BY <1>0 DEF LockExact, Holds
<1>5. LockExact'
  BY <1>1, <1>3, <1>4 DEF LockExact, Holds
<1>6. Arguments' /\ OneCloser'
  BY <1>0, <1>1, <1>3 DEF Arguments, OneCloser, Closing, None
<1>7. \A v \in Callers \ {u} : call[v].pc \notin {"native", "store"}
  BY <1>4 DEF LockExact, Holds
<1>8. StoredExact'
  <2>1. ~PlayStoring' /\ \A v \in Callers : call'[v].pc \notin {"native", "store"}
    BY <1>3, <1>7 DEF PlayStoring
  <2>2. PlayStoring <=> call[u].op = "play"
    BY <1>0, <1>7 DEF PlayStoring
  <2>3. replay'.stopped => native.playing = NoRange
    BY <1>0, <1>1, <2>2 DEF StoredExact
  <2>4. native.playing # NoRange => replay'.range = native.playing
    BY <1>0, <1>1, <2>2 DEF StoredExact
  <2>5. \A v \in Callers : call'[v].pc \notin {"close_shut", "close_native"}
    BY <1>3, <1>4 DEF OneCloser, Closing
  <2> QED BY <1>0, <1>1, <1>4, <2>1, <2>3, <2>4, <2>5 DEF StoredExact
<1> QED BY <1>2, <1>5, <1>6, <1>8

LEMMA ChildStep ==
    ASSUME ReplayInv, NEW k \in Children, ChildEnds(k)
    PROVE  ReplayInv'
<1>1. Records'
  BY DEF ReplayInv, Records, ChildEnds
<1>2. /\ replay'.lock = replay.lock /\ replay'.status = replay.status
      /\ replay'.range = replay.range /\ replay'.stopped = replay.stopped
      /\ UNCHANGED <<native, callbacks, call>>
  BY DEF ReplayInv, Records, ChildEnds
<1> QED BY <1>1, <1>2 DEF ReplayInv, Arguments, LockExact, OneCloser, StoredExact, Holds,
        Closing, PlayStoring, Inside

LEMMA CloseBeginStep ==
    ASSUME ReplayInv, NEW u \in Callers, CloseBegin(u) \/ CloseJoins(u)
    PROVE  ReplayInv'
<1> USE Names DEF ReplayInv
<1>0. call[u].pc = "lock" /\ UNCHANGED <<native, callbacks>>
  BY DEF CloseBegin, CloseJoins, At
<1>1. CASE CloseBegin(u)
  <2>1. Records'
    <3>1. replay.children \in SUBSET Children
      BY DEF Records
    <3>2. [call[u] EXCEPT !.pc = "close_children", !.todo = replay.children] \in CallRecord
      <4>1. ASSUME NEW r \in CallRecord, NEW S \in SUBSET Children
            PROVE  [r EXCEPT !.pc = "close_children", !.todo = S] \in CallRecord
        BY DEF CallRecord, Labels
      <4> QED BY <3>1, <4>1 DEF Records
    <3>3. call' = [call EXCEPT ![u] =
                     [call[u] EXCEPT !.pc = "close_children", !.todo = replay.children]]
      BY <1>1 DEF CloseBegin, Records
    <3>4. call' \in [Callers -> CallRecord]
      BY <3>2, <3>3 DEF Records
    <3> QED BY <1>1, <3>4 DEF CloseBegin, Records
  <2>2. /\ \A v \in Callers \ {u} : call'[v] = call[v]
        /\ call'[u].pc = "close_children" /\ call'[u].op = call[u].op
        /\ call'[u].arg = call[u].arg
        /\ replay.lock = None /\ replay.status \in {"open", "close_failed"}
    BY <1>1 DEF CloseBegin, Records
  <2>3. /\ replay'.lock = replay.lock /\ replay'.status = "closing"
        /\ replay'.range = replay.range /\ replay'.stopped = replay.stopped
    BY <1>1 DEF CloseBegin, Records
  <2>4. Arguments' /\ LockExact'
    BY <1>0, <2>2, <2>3 DEF Arguments, LockExact, Holds
  <2>5. OneCloser'
    BY <1>0, <2>2, <2>3 DEF OneCloser, Closing
  <2>6. StoredExact'
    BY <1>0, <2>2, <2>3 DEF StoredExact, PlayStoring, Inside
  <2> QED BY <2>1, <2>4, <2>5, <2>6
<1>2. CASE CloseJoins(u)
  <2>1. Records' /\ UNCHANGED replay
    BY <1>2, CallRecords DEF CloseJoins, Records, Return
  <2>2. /\ \A v \in Callers \ {u} : call'[v] = call[v]
        /\ call'[u].pc = "idle" /\ call'[u].op = None
    BY <1>2, CallRecords DEF CloseJoins, Records, Return
  <2>3. Arguments' /\ LockExact' /\ OneCloser'
    BY <1>0, <2>1, <2>2 DEF Arguments, LockExact, OneCloser, Holds, Closing, None
  <2>4. StoredExact'
    BY <1>0, <2>1, <2>2 DEF StoredExact, PlayStoring, Inside
  <2> QED BY <2>1, <2>3, <2>4
<1> QED BY <1>1, <1>2

\* The steps of the caller that closes, up to the destruction of the handle.
LEMMA CloseStep ==
    ASSUME ReplayInv, NEW u \in Callers,
           (\E k \in Children : CloseChild(u, k)) \/ CloseStops(u) \/ CloseShuts(u)
    PROVE  ReplayInv'
<1> USE Names DEF ReplayInv
<1>1. Records'
  <2>1. CASE \E k \in Children : CloseChild(u, k)
    BY <2>1 DEF CloseChild, Records, CallRecord
  <2>2. CASE CloseStops(u)
    <3>1. call' \in [Callers -> CallRecord]
      BY <2>2 DEF CloseStops, Goto, Records, CallRecord, Labels
    <3>2. replay' \in ReplayRecord /\ native' \in NativeRecord /\ callbacks' = callbacks
      BY <2>2, SameRecords, RecordFields DEF CloseStops
    <3> QED BY <3>1, <3>2, SameRecords DEF Records
  <2>3. CASE CloseShuts(u)
    <3>1. call' \in [Callers -> CallRecord]
      BY <2>3 DEF CloseShuts, Goto, Records, CallRecord, Labels
    <3>2. replay' \in ReplayRecord /\ UNCHANGED <<native, callbacks>>
      BY <2>3, SameRecords, RecordFields DEF CloseShuts
    <3> QED BY <3>1, <3>2, SameRecords DEF Records
  <2> QED BY <2>1, <2>2, <2>3
<1>2. /\ \A v \in Callers \ {u} : call'[v] = call[v]
      /\ call'[u].op = call[u].op /\ call'[u].arg = call[u].arg
      /\ Closing(u) /\ Closing(u)'
      /\ replay'.lock = replay.lock /\ replay'.status = replay.status
      /\ replay'.range = replay.range /\ native'.gone = native.gone
  <2>1. CASE \E k \in Children : CloseChild(u, k)
    BY <2>1 DEF CloseChild, Records, CallRecord, At, Closing
  <2>2. CASE CloseStops(u)
    BY <2>2 DEF CloseStops, Goto, Records, CallRecord, At, Closing
  <2>3. CASE CloseShuts(u)
    BY <2>3 DEF CloseShuts, Goto, Records, CallRecord, At, Closing
  <2> QED BY <2>1, <2>2, <2>3
<1>3. \/ native'.playing = native.playing /\ replay'.stopped = replay.stopped
      \/ native'.playing = NoRange /\ replay'.stopped = TRUE
  BY DEF CloseChild, CloseStops, CloseShuts, Records
<1>4. call'[u].pc \in {"close_shut", "close_native"} => replay'.stopped
  <2>1. CASE \E k \in Children : CloseChild(u, k)
    BY <2>1 DEF CloseChild, Records, CallRecord, At
  <2>2. CASE CloseStops(u)
    BY <2>2 DEF CloseStops, Records
  <2>3. CASE CloseShuts(u)
    BY <2>3 DEF CloseShuts, Records, At, StoredExact
  <2> QED BY <2>1, <2>2, <2>3
<1>5. LockExact' /\ Arguments'
  BY <1>2 DEF Arguments, LockExact, Holds, Closing
<1>6. OneCloser'
  BY <1>2 DEF OneCloser, Closing
<1>7. PlayStoring' <=> PlayStoring
  BY <1>2 DEF PlayStoring, Closing
<1>8. StoredExact'
  BY <1>2, <1>3, <1>4, <1>7 DEF StoredExact, Closing, Inside
<1> QED BY <1>1, <1>5, <1>6, <1>8

\* close() ends: the handle is destroyed, or a step of it failed.
LEMMA CloseEndStep ==
    ASSUME ReplayInv, NEW u \in Callers, CloseNative(u) \/ CloseFails(u)
    PROVE  ReplayInv'
<1> USE Names DEF ReplayInv
<1>1. Records'
  <2>1. call' \in [Callers -> CallRecord]
    BY ReturnRecords DEF CloseNative, CloseFails, Records
  <2>2. replay' \in ReplayRecord /\ native' \in NativeRecord /\ callbacks' = callbacks
    BY SameRecords, RecordFields DEF CloseNative, CloseFails
  <2> QED BY <2>1, <2>2, SameRecords DEF Records
<1>2. /\ \A v \in Callers \ {u} : call'[v] = call[v]
      /\ call'[u].pc = "idle" /\ call'[u].op = None
      /\ replay'.lock = replay.lock /\ replay'.range = replay.range
      /\ replay'.stopped = replay.stopped /\ native'.playing = native.playing
      /\ replay'.status \in {"closed", "close_failed"}
      /\ Closing(u)
  <2>1. /\ \A v \in Callers \ {u} : call'[v] = call[v]
        /\ call'[u].pc = "idle" /\ call'[u].op = None
    BY ReturnRecords DEF CloseNative, CloseFails, Records
  <2>2. Closing(u)
    BY DEF CloseNative, CloseFails, At, Closing
  <2>3. /\ replay' = [replay EXCEPT !.status = "closed"]
             \/ replay' = [replay EXCEPT !.status = "close_failed"]
        /\ native' = native \/ native' = [native EXCEPT !.gone = TRUE]
    BY DEF CloseNative, CloseFails
  <2> QED BY <2>1, <2>2, <2>3 DEF Records
<1>3. /\ replay'.status = "closed" => replay.stopped
      /\ native'.gone => replay'.status = "closed"
  BY <1>2 DEF CloseNative, CloseFails, Records, At, StoredExact, OneCloser
<1>4. replay.lock = None /\ \A v \in Callers \ {u} : ~Closing(v)
  BY <1>2 DEF LockExact, OneCloser
<1>5. Arguments' /\ LockExact'
  BY <1>2, <1>4 DEF Arguments, LockExact, Holds, Closing, None
<1>6. OneCloser'
  BY <1>2, <1>3, <1>4 DEF OneCloser, Closing
<1>7. PlayStoring' <=> PlayStoring
  BY <1>2 DEF PlayStoring, Closing
<1>8. StoredExact'
  BY <1>2, <1>3, <1>4, <1>7 DEF StoredExact, Closing, Inside
<1> QED BY <1>1, <1>5, <1>6, <1>8

LEMMA ReplayStep == ReplayInv /\ [Next]_vars => ReplayInv'
<1> SUFFICES ASSUME ReplayInv, [Next]_vars PROVE ReplayInv'
  OBVIOUS
<1>1. CASE UNCHANGED vars
  BY <1>1, ReplayUnchanged
<1>2. CASE PlaybackEnds \/ CallbackBegins \/ CallbackReturns
  BY <1>2, CallbackStep
<1>3. ASSUME NEW op \in Retried \cup Once, NEW arg \in Args(op),
             CallFromCallback(op, arg) \/ \E t \in Threads : Call(t, op, arg)
      PROVE  ReplayInv'
  <2>1. /\ arg \in Ranges \cup Times \cup Children \cup {None}
        /\ op = "play" => arg \in Ranges
        /\ op = "start" => arg \in Children
    BY DEF Args, Retried, Once
  <2> QED BY <1>3, <2>1, CallStep, Names
<1>4. ASSUME NEW t \in Threads, Call(t, "close", None) \/ CloseFails(t)
      PROVE  ReplayInv'
  <2>1. CASE Call(t, "close", None)
    BY <2>1, CallStep, Names
  <2>2. CASE CloseFails(t)
    BY <2>2, CloseEndStep, Names
  <2> QED BY <1>4, <2>1, <2>2
<1>5. ASSUME NEW u \in Callers, Step(u) \/ NativeRaises(u)
      PROVE  ReplayInv'
  BY <1>5, LockStep, NativeStep, StoreStep, CloseBeginStep, CloseStep, CloseEndStep DEF Step
<1>6. ASSUME NEW k \in Children, ChildEnds(k)
      PROVE  ReplayInv'
  BY <1>6, ChildStep
<1> QED BY <1>1, <1>2, <1>3, <1>4, <1>5, <1>6 DEF Next

\* Operations, callbacks and close() keep the invariant, whatever they interleave to.
THEOREM ReplayInvariant == Spec => []ReplayInv
BY ReplayInit, ReplayStep, PTL DEF Spec

\* The handle close() destroys is not playing.
THEOREM ReplayStopped == Spec => []StoppedBeforeDestroyed
<1>1. ReplayInv => StoppedBeforeDestroyed
  BY Names DEF ReplayInv, OneCloser, StoredExact, LockExact, PlayStoring, Holds,
     StoppedBeforeDestroyed
<1> QED BY <1>1, ReplayInvariant, PTL

\* seek() reaches the native SDK only with a target inside what is playing.
THEOREM SeeksInside == Spec => []SeekInsideRange
<1>1. ReplayInv => SeekInsideRange
  <2> SUFFICES ASSUME ReplayInv, NEW u \in Callers, call[u].pc = "native",
                      call[u].op = "seek", native.playing # NoRange
               PROVE  Inside(call[u].arg, native.playing)
    BY DEF SeekInsideRange, At
  <2>1. ~PlayStoring
    BY DEF ReplayInv, LockExact, Holds, PlayStoring
  <2> QED BY <2>1 DEF ReplayInv, StoredExact
<1> QED BY <1>1, ReplayInvariant, PTL

\* No operation that passed its checks meets a destroyed handle.
THEOREM HandleOutlives == Spec => []HandleOutlivesUse
<1>1. ReplayInv => HandleOutlivesUse
  BY Names DEF ReplayInv, Records, LockExact, OneCloser, Holds, HandleOutlivesUse, TypeOK,
     HandleLives, At
<1> QED BY <1>1, ReplayInvariant, PTL
=============================================================================
