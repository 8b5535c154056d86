-------------------------- MODULE CloudStorageProofs -------------------------
(* Proofs about CloudStorage for every value of its constants.             *)
EXTENDS CloudStorage, SequenceTheorems, TLAPS

CancelLabels == {"cancel", "cancel_native", "cancel_join"}
ExportLabels == {"wait", "join", "load", "drain", "destroy", "finish", "export_cancel",
                 "delete", "export_raised", "stop_native", "stop_store"}
ListLabels   == CancelLabels \cup {"idle", "list_start", "list_wait", "list_drain",
                                   "list_destroy", "list_end"}
UserLabels   == {"idle"} \cup (ExportLabels \ {"delete", "export_raised"})
CloserLabels == CancelLabels \cup (ExportLabels \ {"stop_native", "stop_store"})
                \cup {"idle", "close_requests", "close_joins", "close_exports"}
Labels       == ListLabels \cup UserLabels \cup CloserLabels
Statuses     == {"open", "closing", "close_failed", "closed"}

CallRecord ==
    [pc : Labels, r : Listers \cup {None},
     k : Exports \cup {None}, reqs : SUBSET Listers, exps : SUBSET Exports,
     timed : BOOLEAN, got : Outcomes \cup {None}]

RequestRecord ==
    [native : {"none", "live", "gone"}, started : BOOLEAN, completed : BOOLEAN,
     finished : BOOLEAN, cancelStarted : BOOLEAN, cancelFinished : BOOLEAN,
     cancelled : BOOLEAN]

ExportRecord ==
    [made : BOOLEAN, status : Statuses, terminal : BOOLEAN,
     result : Outcomes \cup {None}, deleted : BOOLEAN, progress : 0 .. MaxFraction,
     report : BOOLEAN, shut : BOOLEAN, events : Seq(0 .. MaxFraction), busy : BOOLEAN,
     native : {"none", "live", "gone"}, frac : 0 .. MaxFraction,
     end : Outcomes \cup {None}, cancelled : BOOLEAN]

CloudRecord ==
    [status : Statuses, requests : SUBSET Listers, exports : SUBSET Exports, gone : BOOLEAN]

Records ==
    /\ cloud \in CloudRecord
    /\ req \in [Listers -> RequestRecord]
    /\ exp \in [Exports -> ExportRecord]
    /\ call \in [Threads -> CallRecord]

\* A thread is only in the calls it makes, and a call has its arguments.
InRole(t, z, e) ==
    /\ t \in Listers => z.pc \in ListLabels
    /\ t \in Users => z.pc \in UserLabels
    /\ t \in Closers => z.pc \in CloserLabels
    /\ z.pc \in CancelLabels \cup {"close_joins"} => z.r \in Listers
    /\ z.pc \in ExportLabels => z.k \in Exports /\ e[z.k].made
    /\ \A k \in z.exps : e[k].made
    /\ z.pc \in {"drain", "destroy", "finish"} => e[z.k].report
    /\ z.pc = "finish" => e[z.k].native = "gone"

Roles == \A t \in Threads : InRole(t, call[t], exp)

\* Neither the progress that is kept nor one that is queued is ahead of the task.
Bounded(x) == /\ x.progress <= x.frac
              /\ \A i \in 1 .. Len(x.events) : x.events[i] <= x.frac

ExportsKept ==
    /\ \A k \in Exports :
          /\ Bounded(exp[k])
          /\ exp[k].made <=> exp[k].native # "none"
          /\ exp[k].native = "live" => k \in cloud.exports
          /\ exp[k].native = "gone" => exp[k].report
          /\ exp[k].status = "closed" => exp[k].native = "gone"
    /\ \A k \in cloud.exports : exp[k].made

RequestsKept ==
    \A r \in Listers : ~At(r, "idle") => r \in cloud.requests /\ ~req[r].finished

\* One thread is inside close(), and it has marked the CloudStorage closing.
OneCloser ==
    /\ \A t \in Closers : ~At(t, "idle") => /\ cloud.status = "closing"
                                            /\ \A u \in Closers \ {t} : At(u, "idle")
    /\ cloud.gone => cloud.status = "closed"

\* What close() still has to wait for includes everything that is in use.
CoveredBy(z, e) ==
    /\ \A r \in Listers : ~At(r, "idle") =>
          \/ z.pc \in CancelLabels \cup {"close_joins"} /\ r \in z.reqs \cup {z.r}
          \/ z.pc = "close_requests" /\ r \in z.reqs
    /\ \A k \in Exports : e[k].native = "live" =>
          k \in z.exps \/ (z.pc = "export_raised" /\ z.k = k)

Covered == \A t \in Closers : ~At(t, "idle") => CoveredBy(call[t], exp)

CloudInv == /\ Records /\ Roles /\ ExportsKept /\ RequestsKept /\ OneCloser /\ Covered
            /\ CloudDestroyedLast
-----------------------------------------------------------------------------
(* One ExportTask.                                                         *)

\* What every step but its creation, the end of its native half and the end of
\* its _finish does to an ExportTask.
Kept(x, y) ==
    /\ y \in ExportRecord /\ Bounded(y)
    /\ y.made = x.made /\ y.native = x.native
    /\ x.report => y.report
    /\ y.status = "closed" => x.status = "closed"
    /\ x.terminal => y.terminal /\ y.result = x.result
    /\ y.progress >= x.progress

Tasks == exp \in [Exports -> ExportRecord] /\ \A k \in Exports : Bounded(exp[k])

LEMMA Bounds == MaxFraction \in Nat /\ Completed = 0
BY CloudAssumption DEF Completed

LEMMA KeptSame ==
    ASSUME Tasks, exp' = exp
    PROVE  exp' \in [Exports -> ExportRecord] /\ \A k \in Exports : Kept(exp[k], exp'[k])
<1> SUFFICES ASSUME NEW k \in Exports PROVE Kept(exp[k], exp[k])
  BY DEF Tasks
<1>1. exp[k].progress \in 0 .. MaxFraction
  BY DEF Tasks, ExportRecord
<1> QED BY <1>1, Bounds DEF Kept, Tasks

LEMMA KeptOne ==
    ASSUME Tasks, NEW k \in Exports, NEW y, Kept(exp[k], y), exp' = [exp EXCEPT ![k] = y]
    PROVE  /\ exp' \in [Exports -> ExportRecord]
           /\ \A j \in Exports : Kept(exp[j], exp'[j])
<1>1. y \in ExportRecord
  BY DEF Kept
<1>2. exp' \in [Exports -> ExportRecord]
  BY <1>1 DEF Tasks
<1>3. ASSUME NEW j \in Exports PROVE Kept(exp[j], exp'[j])
  <2>1. exp[j].progress \in 0 .. MaxFraction
    BY DEF Tasks, ExportRecord
  <2>2. CASE j = k
    BY <2>2 DEF Tasks
  <2>3. CASE j # k
    <3>1. exp'[j] = exp[j]
      BY <2>3 DEF Tasks
    <3> QED BY <2>1, <3>1, Bounds DEF Kept, Tasks
  <2> QED BY <2>2, <2>3
<1> QED BY <1>2, <1>3

\* An event is queued, unless the Dispatcher is shut.
LEMMA PostedBounded ==
    ASSUME Tasks, NEW k \in Exports, NEW n \in 0 .. MaxFraction, NEW m \in 0 .. MaxFraction,
           n <= m, exp[k].frac <= m
    PROVE  /\ Posted(k, n) \in Seq(0 .. MaxFraction)
           /\ \A i \in 1 .. Len(Posted(k, n)) : Posted(k, n)[i] <= m
<1>1. /\ exp[k].events \in Seq(0 .. MaxFraction) /\ exp[k].frac \in 0 .. MaxFraction
      /\ \A i \in 1 .. Len(exp[k].events) : exp[k].events[i] <= exp[k].frac
      /\ \A i \in 1 .. Len(exp[k].events) : exp[k].events[i] \in 0 .. MaxFraction
  <2>1. exp[k].events \in Seq(0 .. MaxFraction) /\ exp[k].frac \in 0 .. MaxFraction
    BY DEF Tasks, ExportRecord
  <2>2. \A i \in 1 .. Len(exp[k].events) : exp[k].events[i] \in 0 .. MaxFraction
    BY <2>1, ElementOfSeq
  <2> QED BY <2>1, <2>2 DEF Tasks, Bounded
<1>2. \A i \in 1 .. Len(exp[k].events) : exp[k].events[i] <= m
  BY <1>1, Bounds
<1>3. CASE exp[k].shut
  BY <1>1, <1>2, <1>3 DEF Posted
<1>4. CASE ~exp[k].shut
  <2> DEFINE e == exp[k].events
  <2>1. /\ Append(e, n) \in Seq(0 .. MaxFraction) /\ Len(Append(e, n)) = Len(e) + 1
        /\ \A i \in 1 .. Len(e) : Append(e, n)[i] = e[i]
        /\ Append(e, n)[Len(e) + 1] = n /\ Len(e) \in Nat
    BY <1>1
  <2>2. Posted(k, n) = Append(e, n)
    BY <1>4 DEF Posted
  <2> HIDE DEF e
  <2>3. ASSUME NEW i \in 1 .. Len(e) + 1 PROVE Append(e, n)[i] <= m
    <3>1. i \in 1 .. Len(e) \/ i = Len(e) + 1
      BY <2>1
    <3> QED BY <1>2, <2>1, <3>1 DEF e
  <2> QED BY <2>1, <2>2, <2>3
<1> QED BY <1>3, <1>4

LEMMA NativeSteps ==
    ASSUME Tasks, NEW k \in Exports,
           NativeProgress(k) \/ (\E end \in Outcomes : NativeEnds(k, end))
    PROVE  exp' \in [Exports -> ExportRecord] /\ \A j \in Exports : Kept(exp[j], exp'[j])
<1> DEFINE x == exp[k]
<1>1. /\ x \in ExportRecord /\ Bounded(x) /\ x.frac \in 0 .. MaxFraction
      /\ x.progress \in 0 .. MaxFraction /\ x.progress <= x.frac
  BY DEF Tasks, ExportRecord, Bounded
<1>2. CASE NativeProgress(k)
  <2> DEFINE n == x.frac + 1
             ev == Posted(k, n)
             y == [x EXCEPT !.frac = n, !.events = ev]
  <2>1. exp' = [exp EXCEPT ![k] = y] /\ n \in 0 .. MaxFraction /\ x.frac <= n
    <3>1. exp' = [exp EXCEPT ![k] = y]
      BY <1>2 DEF NativeProgress, Tasks
    <3>2. n \in 0 .. MaxFraction /\ x.frac <= n
      BY <1>1, <1>2, Bounds DEF NativeProgress
    <3> QED BY <3>1, <3>2
  <2>2. ev \in Seq(0 .. MaxFraction) /\ \A i \in 1 .. Len(ev) : ev[i] <= n
    BY <2>1, PostedBounded, Bounds
  <2>3. Kept(x, y)
    <3> HIDE DEF x, n, ev
    <3>1. y \in ExportRecord /\ y.frac = n /\ y.events = ev /\ y.progress = x.progress
          /\ y.made = x.made /\ y.native = x.native /\ y.report = x.report
          /\ y.status = x.status /\ y.terminal = x.terminal /\ y.result = x.result
      BY <1>1, <2>1, <2>2 DEF ExportRecord
    <3>2. x.progress <= n
      BY <1>1, <2>1, Bounds
    <3> HIDE DEF y
    <3> QED BY <1>1, <2>2, <3>1, <3>2, Bounds DEF Kept, Bounded
  <2> QED BY <2>1, <2>3, KeptOne
<1>3. CASE \E end \in Outcomes : NativeEnds(k, end)
  <2>1. PICK end \in Outcomes : NativeEnds(k, end)
    BY <1>3
  <2> DEFINE ev == Posted(k, Completed)
             y == [x EXCEPT !.end = end, !.events = ev]
  <2>2. exp' = [exp EXCEPT ![k] = y]
    BY <2>1 DEF NativeEnds, Tasks
  <2>3. ev \in Seq(0 .. MaxFraction) /\ \A i \in 1 .. Len(ev) : ev[i] <= x.frac
    BY <1>1, PostedBounded, Bounds
  <2>4. Kept(x, y)
    <3> HIDE DEF x, ev
    <3>1. y \in ExportRecord /\ y.frac = x.frac /\ y.events = ev /\ y.progress = x.progress
          /\ y.made = x.made /\ y.native = x.native /\ y.report = x.report
          /\ y.status = x.status /\ y.terminal = x.terminal /\ y.result = x.result
      BY <1>1, <2>1, <2>3 DEF ExportRecord
    <3> HIDE DEF y
    <3> QED BY <1>1, <2>3, <3>1, Bounds DEF Kept, Bounded
  <2> QED BY <2>2, <2>4, KeptOne
<1> QED BY <1>2, <1>3

LEMMA HandleSteps ==
    ASSUME Tasks, NEW k \in Exports, HandleEvent(k) \/ CallbackReturns(k)
    PROVE  exp' \in [Exports -> ExportRecord] /\ \A j \in Exports : Kept(exp[j], exp'[j])
<1> DEFINE x == exp[k]
<1>1. /\ x \in ExportRecord /\ Bounded(x) /\ x.frac \in 0 .. MaxFraction
      /\ x.progress \in 0 .. MaxFraction /\ x.progress <= x.frac
      /\ x.events \in Seq(0 .. MaxFraction)
  BY DEF Tasks, ExportRecord, Bounded
<1>2. CASE HandleEvent(k)
  <2> DEFINE e == Head(x.events)
             z == [x EXCEPT !.events = Tail(@), !.busy = TRUE]
             y == IF e = Completed THEN CompletedStep(z) ELSE ProgressStep(z, e)
  <2>1. exp' = [exp EXCEPT ![k] = y] /\ x.events # <<>>
    BY <1>2 DEF HandleEvent
  <2>2. /\ e \in 0 .. MaxFraction /\ e <= x.frac
        /\ Tail(x.events) \in Seq(0 .. MaxFraction)
        /\ \A i \in 1 .. Len(Tail(x.events)) : Tail(x.events)[i] <= x.frac
    <3>1. e = x.events[1] /\ 1 \in 1 .. Len(x.events) /\ e \in 0 .. MaxFraction
      <4>1. Len(x.events) \in Nat \ {0} /\ e \in 0 .. MaxFraction
        BY <1>1, <2>1, EmptySeq, HeadTailProperties
      <4> QED BY <1>1, <2>1, <4>1
    <3>2. /\ Tail(x.events) \in Seq(0 .. MaxFraction)
          /\ Len(Tail(x.events)) = Len(x.events) - 1 /\ Len(x.events) \in Nat
          /\ \A i \in 1 .. Len(Tail(x.events)) : Tail(x.events)[i] = x.events[i + 1]
      BY <1>1, <2>1, HeadTailProperties, LenProperties
    <3>3. \A i \in 1 .. Len(Tail(x.events)) : Tail(x.events)[i] <= x.frac
      BY <1>1, <3>2 DEF Bounded
    <3> QED BY <1>1, <3>1, <3>2, <3>3 DEF Bounded
  <2>3. /\ z \in ExportRecord /\ Bounded(z)
        /\ z.progress = x.progress /\ z.frac = x.frac /\ z.end \in Outcomes \cup {None}
        /\ z.made = x.made /\ z.native = x.native /\ z.report = x.report
        /\ z.status = x.status /\ z.terminal = x.terminal /\ z.result = x.result
    <3> HIDE DEF x
    <3>1. z \in ExportRecord /\ z.events = Tail(x.events)
          /\ z.progress = x.progress /\ z.frac = x.frac /\ z.end = x.end
          /\ z.made = x.made /\ z.native = x.native /\ z.report = x.report
          /\ z.status = x.status /\ z.terminal = x.terminal /\ z.result = x.result
      BY <1>1, <2>2 DEF ExportRecord
    <3> HIDE DEF z
    <3>2. z.end \in Outcomes \cup {None}
      BY <3>1 DEF ExportRecord
    <3> QED BY <1>1, <2>2, <3>1, <3>2 DEF Bounded
  <2>4. Kept(x, y)
    <3> HIDE DEF x, e, z
    <3>1. Kept(x, z)
      BY <1>1, <2>3, Bounds DEF Kept
    <3>2. CASE y = z
      BY <3>1, <3>2
    <3>3. CASE ~z.terminal /\ y = [z EXCEPT !.terminal = TRUE, !.result = z.end]
      <4>1. y \in ExportRecord /\ y.events = z.events /\ y.progress = z.progress
            /\ y.frac = z.frac /\ y.made = z.made /\ y.native = z.native
            /\ y.report = z.report /\ y.status = z.status
        BY <2>3, <3>3 DEF ExportRecord
      <4> HIDE DEF y
      <4> QED BY <1>1, <2>3, <3>3, <4>1, Bounds DEF Kept, Bounded
    <3>4. CASE ~z.terminal /\ ~(e < z.progress) /\ y = [z EXCEPT !.progress = e]
      <4>1. y \in ExportRecord /\ y.events = z.events /\ y.progress = e
            /\ y.frac = z.frac /\ y.made = z.made /\ y.native = z.native
            /\ y.report = z.report /\ y.status = z.status
        BY <2>2, <2>3, <3>4 DEF ExportRecord
      <4>2. e >= x.progress /\ e <= z.frac
        BY <1>1, <2>2, <2>3, <3>4, Bounds
      <4> HIDE DEF y
      <4> QED BY <1>1, <2>3, <3>4, <4>1, <4>2, Bounds DEF Kept, Bounded
    <3> QED BY <3>2, <3>3, <3>4 DEF CompletedStep, ProgressStep
  <2> QED BY <2>1, <2>4, KeptOne
<1>3. CASE CallbackReturns(k)
  <2> DEFINE y == [x EXCEPT !.busy = FALSE]
  <2>1. exp' = [exp EXCEPT ![k] = y]
    BY <1>3 DEF CallbackReturns, Tasks
  <2>2. Kept(x, y)
    <3> HIDE DEF x
    <3>1. y \in ExportRecord /\ y.frac = x.frac /\ y.events = x.events
          /\ y.progress = x.progress
          /\ y.made = x.made /\ y.native = x.native /\ y.report = x.report
          /\ y.status = x.status /\ y.terminal = x.terminal /\ y.result = x.result
      BY <1>1 DEF ExportRecord
    <3> HIDE DEF y
    <3> QED BY <1>1, <3>1, Bounds DEF Kept, Bounded
  <2> QED BY <2>1, <2>2, KeptOne
<1> QED BY <1>2, <1>3

\* progress and report are read.
LEMMA ReadSteps ==
    ASSUME Tasks, NEW k \in Exports, NEW t,
           ProgressDetail(t, k) \/ exp' = [exp EXCEPT ![k] = Loaded(k)]
                \/ exp' = [exp EXCEPT ![k] = [Loaded(k) EXCEPT !.shut = TRUE]]
    PROVE  /\ exp' \in [Exports -> ExportRecord] /\ \A j \in Exports : Kept(exp[j], exp'[j])
           /\ ~ProgressDetail(t, k) => exp'[k].report
<1> DEFINE x == exp[k]
<1>1. /\ x \in ExportRecord /\ Bounded(x) /\ x.frac \in 0 .. MaxFraction
      /\ x.progress \in 0 .. MaxFraction /\ x.progress <= x.frac
      /\ x.events \in Seq(0 .. MaxFraction) /\ x.frac >= x.progress
  <2>1. x \in ExportRecord /\ Bounded(x)
    BY DEF Tasks
  <2> HIDE DEF x
  <2> QED BY <2>1, Bounds DEF ExportRecord, Bounded
<1>2. PICK sh \in BOOLEAN, rp \in BOOLEAN, p \in {x.progress, x.frac} :
         /\ exp' = [exp EXCEPT ![k] = [x EXCEPT !.shut = sh, !.report = rp, !.progress = p]]
         /\ x.report => rp
         /\ ~ProgressDetail(t, k) => rp
  <2>1. /\ x.shut \in BOOLEAN /\ x.report \in BOOLEAN
        /\ x = [x EXCEPT !.shut = x.shut, !.report = x.report, !.progress = x.progress]
    <3> HIDE DEF x
    <3> QED BY <1>1 DEF ExportRecord
  <2>2. CASE ProgressDetail(t, k)
    <3>1. exp' = [exp EXCEPT ![k] = [x EXCEPT !.progress = x.frac]]
      BY <2>2 DEF ProgressDetail, Tasks
    <3>2. [x EXCEPT !.progress = x.frac]
            = [x EXCEPT !.shut = x.shut, !.report = x.report, !.progress = x.frac]
      <4> HIDE DEF x
      <4> QED BY <1>1 DEF ExportRecord
    <3> QED BY <2>1, <2>2, <3>1, <3>2
  <2>3. PICK rp \in {TRUE}, p \in {x.progress, x.frac} :
           Loaded(k) = [x EXCEPT !.shut = x.shut, !.report = rp, !.progress = p]
    <3>1. CASE x.report
      BY <2>1, <3>1 DEF Loaded
    <3>2. CASE ~x.report
      <4>1. [x EXCEPT !.report = TRUE, !.progress = x.frac]
               = [x EXCEPT !.shut = x.shut, !.report = TRUE, !.progress = x.frac]
        <5> HIDE DEF x
        <5> QED BY <1>1 DEF ExportRecord
      <4> QED BY <3>2, <4>1 DEF Loaded
    <3> QED BY <3>1, <3>2
  <2>4. CASE exp' = [exp EXCEPT ![k] = Loaded(k)]
    BY <2>1, <2>3, <2>4
  <2>5. CASE exp' = [exp EXCEPT ![k] = [Loaded(k) EXCEPT !.shut = TRUE]]
    <3>1. [Loaded(k) EXCEPT !.shut = TRUE]
             = [x EXCEPT !.shut = TRUE, !.report = rp, !.progress = p]
      <4>1. Loaded(k) = [x EXCEPT !.shut = x.shut, !.report = rp, !.progress = p]
        BY <2>3
      <4> HIDE DEF x
      <4> QED BY <1>1, <4>1 DEF ExportRecord
    <3> QED BY <2>3, <2>5, <3>1
  <2> QED BY <2>2, <2>4, <2>5
<1> DEFINE y == [x EXCEPT !.shut = sh, !.report = rp, !.progress = p]
<1>3. Kept(x, y) /\ y.report = rp
  <2> HIDE DEF x
  <2>1. /\ y \in ExportRecord /\ y.frac = x.frac /\ y.events = x.events
        /\ y.progress = p /\ y.report = rp
        /\ y.made = x.made /\ y.native = x.native
        /\ y.status = x.status /\ y.terminal = x.terminal /\ y.result = x.result
    BY <1>1, <1>2 DEF ExportRecord
  <2>2. p <= x.frac /\ p >= x.progress
    BY <1>1, Bounds
  <2> HIDE DEF y
  <2> QED BY <1>1, <1>2, <2>1, <2>2, Bounds DEF Kept, Bounded
<1> QED BY <1>2, <1>3, KeptOne DEF Tasks
-----------------------------------------------------------------------------
(* The initial states, and what a step has to show.                        *)

LEMMA CloudInit == Init => CloudInv
<1> SUFFICES ASSUME Init PROVE CloudInv
  OBVIOUS
<1>1. Idle \in CallRecord /\ Idle.pc = "idle" /\ Idle.exps = {}
  BY DEF Idle, CallRecord, Labels, ListLabels
<1>2. NewRequest \in RequestRecord
  BY DEF NewRequest, RequestRecord
<1>3. /\ NewExport \in ExportRecord /\ Bounded(NewExport)
      /\ NewExport.made = FALSE /\ NewExport.native = "none" /\ NewExport.status = "open"
  <2>1. <<>> \in Seq(0 .. MaxFraction) /\ Len(<<>>) = 0 /\ 0 \in 0 .. MaxFraction
    BY EmptySeq, Bounds
  <2>2. NewExport \in ExportRecord
    BY <2>1 DEF NewExport, ExportRecord, Statuses
  <2> QED BY <2>1, <2>2 DEF NewExport, Bounded
<1>4. /\ cloud \in CloudRecord /\ cloud.exports = {} /\ ~cloud.gone
  BY DEF Init, CloudRecord, Statuses
<1>5. Records
  BY <1>1, <1>2, <1>3, <1>4 DEF Init, Records
<1>6. \A t \in Threads : At(t, "idle") /\ call[t].exps = {}
  BY <1>1 DEF Init, At
<1>7. Roles
  BY <1>6 DEF Roles, InRole, At, ListLabels, UserLabels, CloserLabels, CancelLabels,
     ExportLabels
<1>8. ExportsKept /\ RequestsKept /\ OneCloser /\ Covered /\ CloudDestroyedLast
  BY <1>3, <1>4, <1>6 DEF Init, ExportsKept, RequestsKept, OneCloser, Covered,
     CloudDestroyedLast, Threads
<1> QED BY <1>5, <1>7, <1>8 DEF CloudInv

\* How an ExportTask may change under the threads that work on others.
Continues(x, y) ==
    /\ y \in ExportRecord /\ Bounded(y) /\ y.made = x.made
    /\ \/ y.native = x.native
       \/ x.native # "none" /\ y.native = "gone" /\ y.report
    /\ x.report => y.report
    /\ y.status = "closed" => y.native = "gone"

LEMMA KeptContinues ==
    ASSUME CloudInv, \A k \in Exports : Kept(exp[k], exp'[k])
    PROVE  \A k \in Exports : Continues(exp[k], exp'[k])
BY DEF CloudInv, ExportsKept, Kept, Continues

\* Nothing comes into use, and whoever goes on inside close() still waits for
\* everything that is.
LEMMA Preserved ==
    ASSUME CloudInv,
           cloud' \in CloudRecord,
           cloud'.requests = cloud.requests, cloud'.gone = cloud.gone,
           cloud'.exports \subseteq cloud.exports,
           \A k \in cloud.exports \ cloud'.exports : exp'[k].native # "live",
           req' \in [Listers -> RequestRecord],
           \A r \in Listers : req'[r].finished = req[r].finished,
           exp' \in [Exports -> ExportRecord],
           \A k \in Exports : Continues(exp[k], exp'[k]),
           call' \in [Threads -> CallRecord],
           \A t \in Threads : call'[t] = call[t] \/ InRole(t, call'[t], exp'),
           \A t \in Listers : call'[t].pc = "idle" <=> call[t].pc = "idle",
           \A t \in Closers :
              \/ call'[t] = call[t]
              \/ call[t].pc # "idle" /\ call'[t].pc # "idle" /\ CoveredBy(call'[t], exp')
              \/ call[t].pc # "idle" /\ call'[t].pc = "idle",
           \/ cloud'.status = cloud.status
           \/ /\ cloud'.status = "close_failed"
              /\ \E t \in Closers : call[t].pc # "idle" /\ call'[t].pc = "idle"
    PROVE  CloudInv'
<1> USE DEF CloudInv
<1>0. \A k \in Exports : /\ exp'[k].made = exp[k].made
                         /\ exp'[k].native = "live" => exp[k].native = "live"
                         /\ exp[k].native = "gone" => exp'[k].native = "gone"
                         /\ exp[k].report => exp'[k].report
  BY DEF Continues
<1>1. Records'
  BY DEF Records
<1>2. Roles'
  <2> SUFFICES ASSUME NEW t \in Threads PROVE InRole(t, call'[t], exp')
    BY DEF Roles
  <2>1. CASE call'[t] = call[t]
    <3>1. InRole(t, call[t], exp) /\ call[t].exps \subseteq Exports
      BY DEF Roles, Records, CallRecord
    <3>2. call[t].pc \in {"drain", "destroy", "finish"} => call[t].pc \in ExportLabels
      BY DEF ExportLabels
    <3> QED BY <1>0, <2>1, <3>1, <3>2 DEF InRole
  <2> QED BY <2>1
<1>3. ExportsKept'
  <2>1. ASSUME NEW k \in Exports
        PROVE  /\ Bounded(exp[k])'
               /\ exp'[k].made <=> exp'[k].native # "none"
               /\ exp'[k].native = "live" => k \in cloud'.exports
               /\ exp'[k].native = "gone" => exp'[k].report
               /\ exp'[k].status = "closed" => exp'[k].native = "gone"
    <3>1. Continues(exp[k], exp'[k])
      OBVIOUS
    <3>2. Bounded(exp[k])'
      BY <3>1 DEF Continues, Bounded
    <3>3. exp'[k].native = "live" => k \in cloud'.exports
      BY <1>0 DEF ExportsKept
    <3> QED BY <3>1, <3>2, <3>3 DEF Continues, ExportsKept
  <2>2. \A k \in cloud'.exports : exp'[k].made
    BY <1>0 DEF ExportsKept, Records, CloudRecord
  <2> QED BY <2>1, <2>2 DEF ExportsKept
<1>4. RequestsKept'
  BY DEF RequestsKept, At
<1>5. OneCloser'
  BY DEF OneCloser, At
<1>6. Covered'
  <2> SUFFICES ASSUME NEW t \in Closers, call'[t].pc # "idle"
               PROVE  CoveredBy(call[t], exp)'
    BY DEF Covered, At
  <2>1. CoveredBy(call'[t], exp')
    <3>1. CASE call'[t] = call[t]
      <4>1. CoveredBy(call[t], exp)
        BY <3>1 DEF Covered, At
      <4> QED BY <1>0, <3>1, <4>1 DEF CoveredBy
    <3> QED BY <3>1
  <2> QED BY <2>1 DEF CoveredBy, At
<1>7. CloudDestroyedLast'
  BY <1>0 DEF CloudDestroyedLast, At
<1> QED BY <1>1, <1>2, <1>3, <1>4, <1>5, <1>6, <1>7

\* No thread moves.
LEMMA QuietStep ==
    ASSUME CloudInv, cloud' = cloud, call' = call, req' \in [Listers -> RequestRecord],
           \A r \in Listers : req'[r].finished = req[r].finished,
           exp' \in [Exports -> ExportRecord],
           \A k \in Exports : Continues(exp[k], exp'[k])
    PROVE  CloudInv'
BY Preserved DEF CloudInv, Records

\* One thread moves.
LEMMA CallStep ==
    ASSUME CloudInv, NEW t \in Threads, NEW z \in CallRecord,
           call' = [call EXCEPT ![t] = z], cloud' = cloud,
           req' \in [Listers -> RequestRecord],
           \A r \in Listers : req'[r].finished = req[r].finished,
           exp' \in [Exports -> ExportRecord],
           \A k \in Exports : Continues(exp[k], exp'[k]),
           InRole(t, z, exp'),
           t \in Listers => (z.pc = "idle" <=> call[t].pc = "idle"),
           t \in Closers => call[t].pc # "idle" /\ z.pc # "idle" /\ CoveredBy(z, exp')
    PROVE  CloudInv'
<1>1. /\ call' \in [Threads -> CallRecord] /\ call'[t] = z
      /\ \A u \in Threads \ {t} : call'[u] = call[u]
  BY DEF CloudInv, Records
<1>2. cloud' \in CloudRecord
  BY DEF CloudInv, Records
<1>3. \A u \in Threads : call'[u] = call[u] \/ InRole(u, call'[u], exp')
  BY <1>1
<1>4. \A u \in Listers : call'[u].pc = "idle" <=> call[u].pc = "idle"
  BY <1>1 DEF Threads
<1>5. \A u \in Closers :
         \/ call'[u] = call[u]
         \/ call[u].pc # "idle" /\ call'[u].pc # "idle" /\ CoveredBy(call'[u], exp')
  BY <1>1 DEF Threads
<1> QED BY <1>1, <1>2, <1>3, <1>4, <1>5, Preserved

\* close() fails.
LEMMA FailStep ==
    ASSUME CloudInv, NEW t \in Closers, call[t].pc # "idle", CloseFails(t),
           req' \in [Listers -> RequestRecord],
           \A r \in Listers : req'[r].finished = req[r].finished,
           exp' \in [Exports -> ExportRecord],
           \A k \in Exports : Continues(exp[k], exp'[k])
    PROVE  CloudInv'
<1>1. Idle \in CallRecord /\ Idle.pc = "idle" /\ Idle.exps = {}
  BY DEF Idle, CallRecord, Labels, ListLabels
<1>2. /\ call' \in [Threads -> CallRecord] /\ call'[t] = Idle
      /\ \A u \in Threads \ {t} : call'[u] = call[u]
  BY <1>1 DEF CloudInv, Records, CloseFails, Return, Threads
<1>3. /\ cloud' \in CloudRecord /\ cloud'.status = "close_failed"
      /\ cloud'.requests = cloud.requests /\ cloud'.gone = cloud.gone
      /\ cloud'.exports = cloud.exports
  BY DEF CloudInv, Records, CloseFails, CloudRecord, Statuses
<1>4. \A u \in Threads : call'[u] = call[u] \/ InRole(u, call'[u], exp')
  BY <1>1, <1>2 DEF InRole, ListLabels, UserLabels, CloserLabels, CancelLabels, ExportLabels
<1>5. t \notin Listers
  BY CloudAssumption
<1>6. \A u \in Listers : call'[u].pc = "idle" <=> call[u].pc = "idle"
  BY <1>2, <1>5 DEF Threads
<1>7. \A u \in Closers :
         \/ call'[u] = call[u]
         \/ call[u].pc # "idle" /\ call'[u].pc = "idle"
  BY <1>1, <1>2 DEF Threads
<1> QED BY <1>1, <1>2, <1>3, <1>4, <1>6, <1>7, Preserved
LEMMA CallFields ==
    ASSUME NEW c \in CallRecord, NEW label \in Labels
    PROVE  LET z == [c EXCEPT !.pc = label]
           IN  /\ z \in CallRecord /\ z.pc = label /\ z.r = c.r /\ z.k = c.k
               /\ z.reqs = c.reqs /\ z.exps = c.exps
BY DEF CallRecord

\* A thread goes on to another step of its call.
LEMMA LabelStep ==
    ASSUME CloudInv, NEW t \in Threads, NEW label \in Labels \ {"idle"}, Goto(t, label),
           cloud' = cloud, req' \in [Listers -> RequestRecord],
           \A r \in Listers : req'[r].finished = req[r].finished,
           exp' \in [Exports -> ExportRecord],
           \A k \in Exports : Continues(exp[k], exp'[k]),
           call[t].pc # "idle",
           t \in Listers => label \in ListLabels,
           t \in Users => label \in UserLabels,
           t \in Closers => label \in CloserLabels,
           label \in CancelLabels \cup {"close_joins"} => call[t].pc \in CancelLabels,
           label \in ExportLabels => call[t].pc \in ExportLabels,
           label \in {"drain", "destroy", "finish"} => exp'[call[t].k].report,
           label = "finish" => exp'[call[t].k].native = "gone",
           t \in Closers =>
              \/ call[t].pc \in CancelLabels /\ label \in CancelLabels \cup {"close_joins"}
              \/ /\ call[t].pc \in ExportLabels \ {"export_raised"}
                 /\ label \in ExportLabels \cup {"close_exports"}
              \/ CoveredBy([call[t] EXCEPT !.pc = label], exp')
    PROVE  CloudInv'
<1> DEFINE c == call[t]
           z == [c EXCEPT !.pc = label]
<1>1. c \in CallRecord
  BY DEF CloudInv, Records
<1>2. /\ z \in CallRecord /\ z.pc = label /\ z.r = c.r /\ z.k = c.k
      /\ z.reqs = c.reqs /\ z.exps = c.exps
  BY <1>1, CallFields
<1>3. call' = [call EXCEPT ![t] = z]
  BY DEF Goto, CloudInv, Records
<1>4. \A k \in Exports : /\ exp'[k].made = exp[k].made
                         /\ exp'[k].native = "live" => exp[k].native = "live"
  BY DEF Continues
<1>5. InRole(t, z, exp')
  <2>1. InRole(t, c, exp) /\ c.exps \subseteq Exports
    BY <1>1 DEF CloudInv, Roles, CallRecord
  <2> HIDE DEF z, c
  <2>2. z.pc \in ExportLabels => z.k \in Exports /\ exp'[z.k].made
    BY <1>2, <1>4, <2>1 DEF InRole, c
  <2>3. \A k \in z.exps : exp'[k].made
    BY <1>2, <1>4, <2>1 DEF InRole
  <2>4. z.pc \in CancelLabels \cup {"close_joins"} => z.r \in Listers
    BY <1>2, <2>1 DEF InRole, c
  <2> QED BY <1>2, <2>2, <2>3, <2>4 DEF InRole, c
<1>6. t \in Closers => CoveredBy(z, exp')
  <2> SUFFICES ASSUME t \in Closers, ~CoveredBy([c EXCEPT !.pc = label], exp')
               PROVE  CoveredBy(z, exp')
    OBVIOUS
  <2>1. CoveredBy(c, exp)
    BY DEF CloudInv, Covered, At
  <2> HIDE DEF z, c
  <2> QED BY <1>2, <1>4, <2>1 DEF CoveredBy, CancelLabels, ExportLabels, z, c
<1> HIDE DEF z
<1> QED BY <1>2, <1>3, <1>5, <1>6, CallStep

-----------------------------------------------------------------------------
(* The steps of the list requests.                                         *)

LEMMA ExpSame ==
    ASSUME CloudInv, exp' = exp
    PROVE  /\ exp' \in [Exports -> ExportRecord]
           /\ \A k \in Exports : Continues(exp[k], exp'[k])
<1>1. Tasks
  BY DEF CloudInv, Records, ExportsKept, Tasks
<1> QED BY <1>1, KeptSame, KeptContinues

LEMMA RequestFields ==
    ASSUME NEW x \in RequestRecord
    PROVE  /\ [x EXCEPT !.native = "live", !.started = TRUE] \in RequestRecord
           /\ [x EXCEPT !.native = "live", !.started = TRUE].finished = x.finished
           /\ [x EXCEPT !.started = TRUE] \in RequestRecord
           /\ [x EXCEPT !.started = TRUE].finished = x.finished
           /\ [x EXCEPT !.completed = TRUE] \in RequestRecord
           /\ [x EXCEPT !.completed = TRUE].finished = x.finished
           /\ [x EXCEPT !.native = "gone"] \in RequestRecord
           /\ [x EXCEPT !.native = "gone"].finished = x.finished
           /\ [x EXCEPT !.cancelStarted = TRUE] \in RequestRecord
           /\ [x EXCEPT !.cancelStarted = TRUE].finished = x.finished
           /\ [x EXCEPT !.cancelFinished = TRUE] \in RequestRecord
           /\ [x EXCEPT !.cancelFinished = TRUE].finished = x.finished
           /\ [x EXCEPT !.cancelFinished = TRUE, !.cancelled = TRUE] \in RequestRecord
           /\ [x EXCEPT !.cancelFinished = TRUE, !.cancelled = TRUE].finished = x.finished
           /\ [x EXCEPT !.finished = TRUE] \in RequestRecord
BY DEF RequestRecord

LEMMA RequestOne ==
    ASSUME CloudInv, NEW r \in Listers, NEW y \in RequestRecord,
           y.finished = req[r].finished, req' = [req EXCEPT ![r] = y]
    PROVE  /\ req' \in [Listers -> RequestRecord]
           /\ \A q \in Listers : req'[q].finished = req[q].finished
BY DEF CloudInv, Records

LEMMA RequestSame ==
    ASSUME CloudInv, req' = req
    PROVE  /\ req' \in [Listers -> RequestRecord]
           /\ \A q \in Listers : req'[q].finished = req[q].finished
BY DEF CloudInv, Records

LEMMA ListStep ==
    ASSUME CloudInv, NEW t \in Listers,
           \/ ListStart(t) \/ ListStartFails(t) \/ ListCompleted(t) \/ ListTimesOut(t)
           \/ ListDestroy(t) \/ RequestCompletes(t)
    PROVE  CloudInv'
<1> DEFINE x == req[t]
           c == call[t]
<1>1. /\ x \in RequestRecord /\ c \in CallRecord /\ t \in Threads
      /\ t \notin Users /\ t \notin Closers
  BY CloudAssumption DEF CloudInv, Records, Threads
<1>2. exp' = exp /\ cloud' = cloud
  BY DEF ListStart, ListStartFails, ListCompleted, ListTimesOut, ListDestroy,
     RequestCompletes
<1>3. /\ exp' \in [Exports -> ExportRecord]
      /\ \A k \in Exports : Continues(exp[k], exp'[k])
  BY <1>2, ExpSame
<1>4. /\ req' \in [Listers -> RequestRecord]
      /\ \A q \in Listers : req'[q].finished = req[q].finished
  <2>1. CASE ListStart(t)
    <3>1. req' = [req EXCEPT ![t] = [x EXCEPT !.native = "live", !.started = TRUE]]
      BY <2>1 DEF ListStart, CloudInv, Records
    <3> QED BY <1>1, <3>1, RequestFields, RequestOne
  <2>2. CASE ListStartFails(t)
    <3>1. req' = [req EXCEPT ![t] = [x EXCEPT !.started = TRUE]]
      BY <2>2 DEF ListStartFails, CloudInv, Records
    <3> QED BY <1>1, <3>1, RequestFields, RequestOne
  <2>3. CASE ListCompleted(t) \/ ListTimesOut(t)
    <3>1. req' = req
      BY <2>3 DEF ListCompleted, ListTimesOut
    <3> QED BY <3>1, RequestSame
  <2>4. CASE ListDestroy(t)
    <3>1. req' = req \/ req' = [req EXCEPT ![t] = [x EXCEPT !.native = "gone"]]
      BY <2>4 DEF ListDestroy, CloudInv, Records
    <3> QED BY <1>1, <3>1, RequestSame, RequestFields, RequestOne
  <2>5. CASE RequestCompletes(t)
    <3>1. req' = [req EXCEPT ![t] = [x EXCEPT !.completed = TRUE]]
      BY <2>5 DEF RequestCompletes, CloudInv, Records
    <3> QED BY <1>1, <3>1, RequestFields, RequestOne
  <2> QED BY <2>1, <2>2, <2>3, <2>4, <2>5
<1>5. CASE RequestCompletes(t)
  BY <1>2, <1>3, <1>4, <1>5, QuietStep DEF RequestCompletes
<1>6. CASE ListTimesOut(t)
  <2> DEFINE z == [c EXCEPT !.pc = "cancel", !.r = t]
  <2>1. call' = [call EXCEPT ![t] = z] /\ c.pc = "list_wait"
    BY <1>6 DEF ListTimesOut, At, CloudInv, Records
  <2>2. z \in CallRecord /\ z.pc = "cancel" /\ z.r = t /\ z.exps = c.exps
    <3>1. "cancel" \in Labels
      BY DEF Labels, ListLabels, CancelLabels
    <3> QED BY <1>1, <3>1 DEF CallRecord
  <2>3. InRole(t, z, exp')
    <3>1. InRole(t, c, exp) /\ "cancel" \notin ExportLabels /\ "cancel" \in ListLabels
      BY <1>1 DEF CloudInv, Roles, ExportLabels, ListLabels, CancelLabels
    <3> HIDE DEF z
    <3> QED BY <1>1, <1>2, <2>2, <3>1 DEF InRole
  <2> HIDE DEF z
  <2> QED BY <1>1, <1>2, <1>3, <1>4, <2>1, <2>2, <2>3, CallStep
<1>7. CASE ListStart(t) \/ ListStartFails(t) \/ ListCompleted(t) \/ ListDestroy(t)
  <2>1. PICK label \in {"list_wait", "list_end", "list_destroy"} :
           Goto(t, label) /\ c.pc # "idle"
    BY <1>7 DEF ListStart, ListStartFails, ListCompleted, ListDestroy, At
  <2>2. /\ label \in ListLabels /\ label \in Labels \ {"idle"}
        /\ label \notin CancelLabels \cup ExportLabels \cup {"close_joins"}
    BY DEF ListLabels, Labels, CancelLabels, ExportLabels
  <2> QED BY <1>1, <1>2, <1>3, <1>4, <2>1, <2>2, LabelStep DEF ExportLabels
<1> QED BY <1>5, <1>6, <1>7

\* cancel() of a list request.
LEMMA CancelStep ==
    ASSUME CloudInv, NEW t \in Threads,
           CancelCheck(t) \/ CancelNative(t) \/ CancelRaises(t) \/ CancelJoin(t)
    PROVE  CloudInv'
<1> DEFINE c == call[t]
           r == c.r
           x == req[r]
<1>1. c \in CallRecord /\ c.pc \in CancelLabels /\ c.pc # "idle"
  BY DEF CancelCheck, CancelNative, CancelRaises, CancelJoin, At, CancelLabels, CloudInv,
     Records
<1>2. r \in Listers /\ x \in RequestRecord /\ t \notin Users
  BY <1>1 DEF CloudInv, Roles, InRole, Records, UserLabels, ExportLabels, CancelLabels
<1>3. exp' = exp
  BY DEF CancelCheck, CancelNative, CancelRaises, CancelJoin
<1>4. /\ exp' \in [Exports -> ExportRecord]
      /\ \A k \in Exports : Continues(exp[k], exp'[k])
  BY <1>3, ExpSame
<1>5. /\ req' \in [Listers -> RequestRecord]
      /\ \A q \in Listers : req'[q].finished = req[q].finished
  <2>1. PICK y \in {x, [x EXCEPT !.cancelStarted = TRUE], [x EXCEPT !.cancelFinished = TRUE],
                    [x EXCEPT !.cancelFinished = TRUE, !.cancelled = TRUE]} :
           req' = [req EXCEPT ![r] = y]
    <3>1. req \in [Listers -> RequestRecord]
      BY DEF CloudInv, Records
    <3>2. CASE CancelCheck(t) \/ CancelJoin(t)
      BY <1>2, <3>1, <3>2 DEF CancelCheck, CancelJoin
    <3>3. CASE CancelNative(t)
      BY <1>2, <3>1, <3>3 DEF CancelNative
    <3>4. CASE CancelRaises(t)
      BY <1>2, <3>1, <3>4 DEF CancelRaises
    <3> QED BY <3>2, <3>3, <3>4
  <2>2. y \in RequestRecord /\ y.finished = x.finished
    BY <1>2, RequestFields
  <2> HIDE DEF x, r
  <2> QED BY <1>2, <2>1, <2>2, RequestOne DEF x
<1>6. CASE CancelRaises(t) /\ t \in Closers
  BY <1>1, <1>4, <1>5, <1>6, FailStep DEF CancelRaises
<1>7. CASE ~(CancelRaises(t) /\ t \in Closers)
  <2>1. PICK label \in {"close_joins", "list_drain", "list_destroy", "cancel_join",
                        "cancel_native"} :
           /\ Goto(t, label)
           /\ label = "close_joins" => t \in Closers
           /\ label \in {"list_drain", "list_destroy"} => t \notin Closers
    BY <1>7 DEF CancelCheck, CancelNative, CancelRaises, CancelJoin, Cancelled
  <2>2. cloud' = cloud
    BY <1>7 DEF CancelCheck, CancelNative, CancelRaises, CancelJoin
  <2>3. /\ label \in Labels \ {"idle"} /\ label \notin ExportLabels
        /\ label \notin {"drain", "destroy", "finish"}
        /\ t \in Listers => label \in ListLabels
        /\ t \in Closers => /\ label \in CloserLabels
                            /\ label \in CancelLabels \cup {"close_joins"}
    BY <1>2, <2>1, CloudAssumption DEF Labels, ListLabels, CloserLabels, CancelLabels,
       ExportLabels
  <2> QED BY <1>1, <1>2, <1>4, <1>5, <2>1, <2>2, <2>3, LabelStep
<1> QED BY <1>6, <1>7
LEMMA IdleFacts ==
    /\ Idle \in CallRecord /\ Idle.pc = "idle" /\ Idle.exps = {} /\ Idle.reqs = {}
    /\ \A t \in Threads : \A e : InRole(t, Idle, e)
<1>1. Idle \in CallRecord /\ Idle.pc = "idle" /\ Idle.exps = {} /\ Idle.reqs = {}
  BY DEF Idle, CallRecord, Labels, ListLabels
<1> QED BY <1>1 DEF InRole, ListLabels, UserLabels, CloserLabels, CancelLabels, ExportLabels

\* A list call begins, while close() has not.
LEMMA ListBeginStep ==
    ASSUME CloudInv, NEW t \in Listers, NEW timed \in BOOLEAN, ListBegin(t, timed)
    PROVE  CloudInv'
<1> USE DEF CloudInv
<1> DEFINE z == [Idle EXCEPT !.pc = "list_start", !.timed = timed]
<1>1. /\ t \in Threads /\ t \notin Closers /\ t \notin Users /\ cloud.status = "open"
      /\ cloud' = [cloud EXCEPT !.requests = {t}] /\ cloud.requests = {}
      /\ req' = [req EXCEPT ![t] = NewRequest] /\ call' = [call EXCEPT ![t] = z]
      /\ exp' = exp
  BY CloudAssumption DEF ListBegin, Threads
<1>2. z \in CallRecord /\ z.pc = "list_start" /\ z.exps = {}
  <2>1. "list_start" \in Labels
    BY DEF Labels, ListLabels
  <2>2. Idle \in CallRecord /\ Idle.exps = {}
    BY IdleFacts
  <2> HIDE DEF Idle
  <2> QED BY <2>1, <2>2 DEF CallRecord
<1> HIDE DEF z
<1>3. NewRequest \in RequestRecord /\ ~NewRequest.finished
  BY DEF NewRequest, RequestRecord
<1>4. /\ cloud' \in CloudRecord /\ cloud'.requests = {t} /\ cloud'.exports = cloud.exports
      /\ cloud'.status = "open" /\ cloud'.gone = cloud.gone
  BY <1>1 DEF Records, CloudRecord
<1>5. Records'
  BY <1>1, <1>2, <1>3, <1>4 DEF Records
<1>6. /\ call'[t] = z /\ \A u \in Threads \ {t} : call'[u] = call[u]
      /\ req'[t] = NewRequest
  BY <1>1, <1>2, <1>3 DEF Records
<1>7. Roles'
  <2>1. InRole(t, z, exp)
    BY <1>1, <1>2 DEF InRole, ListLabels, CancelLabels, ExportLabels
  <2> QED BY <1>1, <1>6, <2>1 DEF Roles, InRole
<1>8. ExportsKept'
  BY <1>1, <1>4 DEF ExportsKept, Bounded
<1>9. \A r \in Listers \ {t} : At(r, "idle") /\ At(r, "idle")'
  BY <1>1, <1>6 DEF RequestsKept, At, Threads
<1>10. RequestsKept'
  BY <1>3, <1>4, <1>6, <1>9 DEF RequestsKept
<1>11. \A u \in Closers : At(u, "idle") /\ At(u, "idle")'
  BY <1>1, <1>6 DEF OneCloser, At, Threads
<1>12. OneCloser' /\ Covered' /\ CloudDestroyedLast'
  BY <1>1, <1>4, <1>11 DEF OneCloser, Covered, CloudDestroyedLast
<1> QED BY <1>5, <1>7, <1>8, <1>10, <1>12

\* It ends: the request is discarded before the thread returns.
LEMMA ListEndStep ==
    ASSUME CloudInv, NEW t \in Listers, ListEnd(t)
    PROVE  CloudInv'
<1> USE DEF CloudInv
<1> DEFINE y == [req[t] EXCEPT !.finished = TRUE]
<1>1. /\ t \in Threads /\ t \notin Closers
      /\ cloud' = [cloud EXCEPT !.requests = @ \ {t}]
      /\ req' = [req EXCEPT ![t] = y] /\ call' = [call EXCEPT ![t] = Idle]
      /\ exp' = exp
  <2>1. t \in Threads /\ t \notin Closers
    BY CloudAssumption DEF Threads
  <2>2. req' = [req EXCEPT ![t] = y]
    BY DEF ListEnd, Records
  <2> HIDE DEF y
  <2> QED BY <2>1, <2>2 DEF ListEnd, Return
<1>2. y \in RequestRecord
  BY RequestFields DEF Records
<1> HIDE DEF y
<1>3. /\ cloud' \in CloudRecord /\ cloud'.requests = cloud.requests \ {t}
      /\ cloud'.exports = cloud.exports
      /\ cloud'.status = cloud.status /\ cloud'.gone = cloud.gone
  BY <1>1 DEF Records, CloudRecord
<1>4. Records'
  BY <1>1, <1>2, <1>3, IdleFacts DEF Records
<1>5. /\ call'[t] = Idle /\ \A u \in Threads \ {t} : call'[u] = call[u]
      /\ \A r \in Listers \ {t} : req'[r] = req[r]
  BY <1>1, <1>2 DEF Records
<1>6. Roles'
  BY <1>1, <1>5, IdleFacts DEF Roles, InRole
<1>7. ExportsKept'
  BY <1>1, <1>3 DEF ExportsKept, Bounded
<1>8. At(t, "idle")' /\ \A u \in Threads \ {t} : At(u, "idle")' <=> At(u, "idle")
  BY <1>5, IdleFacts DEF At
<1>9. RequestsKept'
  BY <1>3, <1>5, <1>8 DEF RequestsKept, Threads
<1>10. \A u \in Closers : call'[u] = call[u] /\ (At(u, "idle")' <=> At(u, "idle"))
  BY <1>1, <1>5, <1>8 DEF Threads
<1>11. OneCloser'
  BY <1>3, <1>10 DEF OneCloser
<1>12. Covered'
  <2>1. \A r \in Listers : ~At(r, "idle")' => ~At(r, "idle")
    BY <1>8 DEF Threads
  <2> QED BY <1>1, <1>10, <2>1 DEF Covered, CoveredBy
<1>13. CloudDestroyedLast'
  BY <1>1, <1>3, <1>8 DEF CloudDestroyedLast, Threads
<1> QED BY <1>4, <1>6, <1>7, <1>9, <1>11, <1>12, <1>13

\* An export begins, while close() has not.
LEMMA ExportStep ==
    ASSUME CloudInv, NEW t \in Users, NEW k \in Exports, ExportRecording(t, k)
    PROVE  CloudInv'
<1> USE DEF CloudInv
<1> DEFINE x == exp[k]
           y == [x EXCEPT !.made = TRUE, !.native = "live"]
<1>1. /\ ~x.made /\ cloud.status = "open"
      /\ cloud' = [cloud EXCEPT !.exports = @ \cup {k}]
      /\ exp' = [exp EXCEPT ![k] = y] /\ call' = call /\ req' = req
  BY DEF ExportRecording, Records
<1>2. x \in ExportRecord
  BY DEF Records
<1>3. /\ y \in ExportRecord /\ y.made /\ y.native = "live" /\ y.status = x.status
      /\ y.progress = x.progress /\ y.frac = x.frac /\ y.events = x.events
      /\ y.report = x.report
  <2> HIDE DEF x
  <2> QED BY <1>2 DEF ExportRecord
<1> HIDE DEF y
<1>4. /\ cloud' \in CloudRecord /\ cloud'.requests = cloud.requests
      /\ cloud'.exports = cloud.exports \cup {k}
      /\ cloud'.status = "open" /\ cloud'.gone = cloud.gone
  BY <1>1 DEF Records, CloudRecord
<1>5. Records'
  BY <1>1, <1>3, <1>4 DEF Records
<1>6. exp'[k] = y /\ \A j \in Exports \ {k} : exp'[j] = exp[j]
  BY <1>1, <1>3 DEF Records
<1>7. ASSUME NEW u \in Threads PROVE InRole(u, call[u], exp')
  <2>1. InRole(u, call[u], exp) /\ call[u].exps \subseteq Exports
    BY DEF Roles, Records, CallRecord
  <2>2. \A j \in Exports : exp[j].made => exp'[j] = exp[j]
    BY <1>1, <1>6
  <2>3. call[u].pc \in {"drain", "destroy", "finish"} => call[u].pc \in ExportLabels
    BY DEF ExportLabels
  <2> QED BY <2>1, <2>2, <2>3 DEF InRole
<1>8. Roles'
  BY <1>1, <1>7 DEF Roles
<1>9. ExportsKept'
  <2>1. Bounded(y) /\ y.status # "closed"
    BY <1>1, <1>3 DEF ExportsKept, Bounded
  <2>2. Bounded(y) = Bounded(exp[k])'
    BY <1>6 DEF Bounded
  <2>3. \A j \in Exports \ {k} : Bounded(exp[j])'
    BY <1>6 DEF ExportsKept, Bounded
  <2> HIDE DEF x
  <2> QED BY <1>3, <1>4, <1>6, <2>1, <2>2, <2>3 DEF ExportsKept, Records, CloudRecord
<1>10. RequestsKept' /\ OneCloser' /\ Covered' /\ CloudDestroyedLast'
  BY <1>1, <1>4 DEF RequestsKept, OneCloser, Covered, CloudDestroyedLast, At
<1> QED BY <1>5, <1>8, <1>9, <1>10

\* close() begins: no other thread is in it, and its snapshots hold all in use.
LEMMA CloseBeginStep ==
    ASSUME CloudInv, NEW t \in Closers, CloseBegin(t)
    PROVE  CloudInv'
<1> USE DEF CloudInv
<1> DEFINE z == [Idle EXCEPT !.pc = "close_requests", !.reqs = cloud.requests,
                             !.exps = cloud.exports]
<1>1. /\ t \in Threads /\ t \notin Listers /\ t \notin Users
      /\ cloud.status \in {"open", "close_failed"}
      /\ cloud' = [cloud EXCEPT !.status = "closing"]
      /\ call' = [call EXCEPT ![t] = z] /\ exp' = exp /\ req' = req
  BY CloudAssumption DEF CloseBegin, Threads
<1>2. /\ z \in CallRecord /\ z.pc = "close_requests" /\ z.exps = cloud.exports
      /\ z.reqs = cloud.requests
  <2>1. "close_requests" \in Labels
    BY DEF Labels, CloserLabels
  <2>2. cloud.requests \in SUBSET Listers /\ cloud.exports \in SUBSET Exports
    BY DEF Records, CloudRecord
  <2> HIDE DEF Idle
  <2> QED BY <2>1, <2>2, IdleFacts DEF CallRecord
<1> HIDE DEF z
<1>3. /\ cloud' \in CloudRecord /\ cloud'.requests = cloud.requests
      /\ cloud'.exports = cloud.exports
      /\ cloud'.status = "closing" /\ cloud'.gone = cloud.gone /\ ~cloud.gone
  BY <1>1 DEF Records, CloudRecord, Statuses, OneCloser
<1>4. Records'
  BY <1>1, <1>2, <1>3 DEF Records
<1>5. call'[t] = z /\ \A u \in Threads \ {t} : call'[u] = call[u]
  BY <1>1, <1>2 DEF Records
<1>6. Roles'
  <2>1. InRole(t, z, exp)
    BY <1>1, <1>2 DEF InRole, CloserLabels, CancelLabels, ExportLabels, ExportsKept
  <2> QED BY <1>1, <1>5, <2>1 DEF Roles, InRole
<1>7. ExportsKept'
  BY <1>1, <1>3 DEF ExportsKept, Bounded
<1>8. \A r \in Listers : call'[r] = call[r]
  BY <1>1, <1>5 DEF Threads
<1>9. RequestsKept'
  BY <1>1, <1>3, <1>8 DEF RequestsKept, At
<1>10. \A u \in Closers \ {t} : call'[u] = call[u] /\ call[u].pc = "idle"
  BY <1>1, <1>5 DEF OneCloser, At, Threads
<1>11. OneCloser'
  BY <1>3, <1>10 DEF OneCloser, At
<1>12. Covered'
  <2>1. CoveredBy(call[t], exp)'
    <3>1. \A r \in Listers : call'[r].pc # "idle" => r \in z.reqs
      BY <1>2, <1>8 DEF RequestsKept, At
    <3>2. \A k \in Exports : exp'[k].native = "live" => k \in z.exps
      BY <1>1, <1>2 DEF ExportsKept
    <3> QED BY <1>2, <1>5, <3>1, <3>2 DEF CoveredBy, At
  <2> QED BY <1>10, <2>1 DEF Covered, At
<1>13. CloudDestroyedLast'
  BY <1>3 DEF CloudDestroyedLast
<1> QED BY <1>4, <1>6, <1>7, <1>9, <1>11, <1>12, <1>13

\* It ends: nothing is in use any more.
LEMMA CloseNativeStep ==
    ASSUME CloudInv, NEW t \in Closers, CloseNative(t)
    PROVE  CloudInv'
<1> USE DEF CloudInv
<1>1. /\ t \in Threads /\ t \notin Listers /\ call[t].pc = "close_exports"
      /\ call[t].exps = {} /\ exp' = exp /\ req' = req
  BY CloudAssumption DEF CloseNative, Threads, At
<1>2. CASE CloseFails(t)
  BY <1>1, <1>2, ExpSame, RequestSame, FailStep
<1>3. CASE /\ cloud' = [cloud EXCEPT !.status = "closed", !.gone = TRUE]
           /\ Return(t)
  <2>1. /\ cloud' \in CloudRecord /\ cloud'.requests = cloud.requests
        /\ cloud'.exports = cloud.exports /\ cloud'.status = "closed" /\ cloud'.gone
    BY <1>3 DEF Records, CloudRecord, Statuses
  <2>2. call'[t] = Idle /\ \A u \in Threads \ {t} : call'[u] = call[u]
    BY <1>1, <1>3 DEF Records, Return
  <2>3. Records'
    BY <1>1, <1>3, <2>1, IdleFacts DEF Records, Return
  <2>4. Roles'
    BY <1>1, <2>2, IdleFacts DEF Roles, InRole
  <2>5. ExportsKept'
    BY <1>1, <2>1 DEF ExportsKept, Bounded
  <2>6. CoveredBy(call[t], exp)
    BY <1>1 DEF Covered, At
  <2>7. \A r \in Listers : call[r].pc = "idle" /\ call'[r] = call[r]
    BY <1>1, <2>2, <2>6 DEF CoveredBy, CancelLabels, At, Threads
  <2>8. \A k \in Exports : exp[k].made => exp[k].native = "gone"
    BY <1>1, <2>6 DEF CoveredBy, ExportsKept, Records, ExportRecord
  <2>9. \A u \in Closers : call'[u].pc = "idle"
    BY <1>1, <2>2, IdleFacts DEF OneCloser, At, Threads
  <2>10. RequestsKept' /\ OneCloser' /\ Covered' /\ CloudDestroyedLast'
    BY <1>1, <2>1, <2>7, <2>8, <2>9 DEF RequestsKept, OneCloser, Covered,
       CloudDestroyedLast, At
  <2> QED BY <2>3, <2>4, <2>5, <2>10
<1> QED BY <1>2, <1>3 DEF CloseNative
-----------------------------------------------------------------------------
(* The steps of the exports.                                               *)

LEMMA InvTasks == CloudInv => Tasks
BY DEF CloudInv, Records, ExportsKept, Tasks

\* Events of the native task and reads of it.
LEMMA TaskStep ==
    ASSUME CloudInv, NEW k \in Exports, NEW t,
           \/ NativeProgress(k) \/ (\E end \in Outcomes : NativeEnds(k, end))
           \/ HandleEvent(k) \/ CallbackReturns(k) \/ ProgressDetail(t, k) \/ Report(t, k)
    PROVE  CloudInv' /\ \A j \in Exports : Kept(exp[j], exp'[j])
<1>1. exp' \in [Exports -> ExportRecord] /\ \A j \in Exports : Kept(exp[j], exp'[j])
  BY InvTasks, NativeSteps, HandleSteps, ReadSteps DEF Report
<1>2. cloud' = cloud /\ call' = call /\ req' = req
  BY DEF NativeProgress, NativeEnds, HandleEvent, CallbackReturns, ProgressDetail, Report
<1> QED BY <1>1, <1>2, KeptContinues, RequestSame, QuietStep

\* A step that neither the progress nor the native half depends on.
Similar(x, y) ==
    /\ y \in ExportRecord /\ y.made = x.made /\ y.native = x.native /\ y.report = x.report
    /\ y.progress = x.progress /\ y.frac = x.frac

LEMMA FieldKept ==
    ASSUME CloudInv, NEW k \in Exports, NEW y, Similar(exp[k], y),
           y.status = "closed" => exp[k].status = "closed",
           exp[k].terminal => y.terminal /\ y.result = exp[k].result,
           y.events = exp[k].events \/ y.events = Posted(k, Completed),
           exp' = [exp EXCEPT ![k] = y]
    PROVE  /\ exp' \in [Exports -> ExportRecord]
           /\ \A j \in Exports : Kept(exp[j], exp'[j])
<1>1. Tasks /\ exp[k] \in ExportRecord /\ Bounded(exp[k])
  BY InvTasks DEF Tasks
<1>2. /\ exp[k].frac \in 0 .. MaxFraction /\ exp[k].progress \in 0 .. MaxFraction
      /\ 0 \in 0 .. MaxFraction /\ 0 <= exp[k].frac /\ exp[k].frac <= exp[k].frac
  BY <1>1, Bounds DEF ExportRecord
<1>3. \A i \in 1 .. Len(y.events) : y.events[i] <= exp[k].frac
  <2>1. CASE y.events = exp[k].events
    BY <1>1, <2>1 DEF Bounded
  <2>2. CASE y.events = Posted(k, Completed)
    BY <1>1, <1>2, <2>2, Bounds, PostedBounded
  <2> QED BY <2>1, <2>2
<1>4. Kept(exp[k], y)
  BY <1>1, <1>2, <1>3 DEF Kept, Bounded, Similar
<1> QED BY <1>1, <1>4, KeptOne

\* The records that stop(), cancel() and close() leave.
LEMMA EndFacts ==
    ASSUME NEW x \in ExportRecord, NEW end \in Outcomes, NEW events \in Seq(0 .. MaxFraction)
    PROVE  LET y == [x EXCEPT !.end = end, !.events = events]
           IN  /\ Similar(x, y) /\ y.events = events /\ y.status = x.status
               /\ y.terminal = x.terminal /\ y.result = x.result
BY DEF ExportRecord, Similar

LEMMA ResultFacts ==
    ASSUME NEW x \in ExportRecord, NEW got \in Outcomes \cup {None}
    PROVE  LET y == [x EXCEPT !.terminal = TRUE, !.result = got]
           IN  Similar(x, y) /\ y.events = x.events /\ y.status = x.status
BY DEF ExportRecord, Similar

LEMMA StatusFacts ==
    ASSUME NEW x \in ExportRecord, NEW st \in Statuses
    PROVE  LET y == [x EXCEPT !.status = st]
           IN  /\ Similar(x, y) /\ y.events = x.events /\ y.status = st
               /\ y.terminal = x.terminal /\ y.result = x.result
BY DEF ExportRecord, Similar

LEMMA FlagFacts ==
    ASSUME NEW x \in ExportRecord, NEW y,
           y = [x EXCEPT !.cancelled = TRUE] \/ y = [x EXCEPT !.deleted = TRUE]
    PROVE  /\ Similar(x, y) /\ y.events = x.events /\ y.status = x.status
           /\ y.terminal = x.terminal /\ y.result = x.result
BY DEF ExportRecord, Similar
\* A thread that works on an export.
LEMMA InTask ==
    ASSUME CloudInv, NEW t \in Threads, call[t].pc \in ExportLabels
    PROVE  /\ call[t] \in CallRecord /\ call[t].pc # "idle"
           /\ call[t].k \in Exports /\ exp[call[t].k].made
           /\ exp[call[t].k] \in ExportRecord
           /\ t \notin Listers
           /\ t \in Users => call[t].pc \in UserLabels /\ t \notin Closers
           /\ t \in Closers => call[t].pc \in CloserLabels
<1>1. call[t] \in CallRecord /\ InRole(t, call[t], exp)
  BY DEF CloudInv, Records, Roles
<1>2. t \notin Listers
  BY <1>1 DEF InRole, ListLabels, CancelLabels, ExportLabels
<1> QED BY <1>1, <1>2, CloudAssumption DEF InRole, CloudInv, Records, ExportLabels

\* The call of a user is over.
LEMMA UserReturns ==
    ASSUME CloudInv, NEW t \in Users, Return(t), cloud' = cloud, req' = req,
           exp' \in [Exports -> ExportRecord],
           \A k \in Exports : Continues(exp[k], exp'[k])
    PROVE  CloudInv'
<1>1. t \in Threads /\ t \notin Listers /\ t \notin Closers
  BY CloudAssumption DEF Threads
<1>2. call' = [call EXCEPT ![t] = Idle]
  BY DEF Return
<1> QED BY <1>1, <1>2, IdleFacts, RequestSame, CallStep

\* A thread turns to export k.
LEMMA TurnStep ==
    ASSUME CloudInv, NEW t \in Users \cup Closers, NEW k \in Exports, exp[k].made,
           NEW label \in {"wait", "export_cancel", "join", "load", "stop_native"},
           label = "stop_native" => t \in Users,
           t \in Closers => call[t].pc \in (ExportLabels \ {"export_raised"})
                                           \cup {"close_exports"},
           call' = [call EXCEPT ![t] = [call[t] EXCEPT !.pc = label, !.k = k]],
           cloud' = cloud, req' = req,
           exp' \in [Exports -> ExportRecord],
           \A j \in Exports : Continues(exp[j], exp'[j])
    PROVE  CloudInv'
<1> DEFINE c == call[t]
           z == [c EXCEPT !.pc = label, !.k = k]
<1>1. t \in Threads /\ t \notin Listers /\ (t \in Closers => t \notin Users)
  BY CloudAssumption DEF Threads
<1>2. c \in CallRecord /\ InRole(t, c, exp) /\ c.exps \subseteq Exports
  BY <1>1 DEF CloudInv, Records, Roles, CallRecord
<1>3. /\ label \in Labels /\ label \in ExportLabels /\ label \in UserLabels
      /\ t \in Closers => label \in CloserLabels
      /\ label \notin CancelLabels \cup {"close_joins", "drain", "destroy", "finish", "idle"}
  BY <1>1 DEF Labels, UserLabels, CloserLabels, CancelLabels, ExportLabels
<1>4. /\ z \in CallRecord /\ z.pc = label /\ z.k = k /\ z.exps = c.exps /\ z.reqs = c.reqs
  <2> HIDE DEF c
  <2> QED BY <1>2, <1>3 DEF CallRecord
<1> HIDE DEF z
<1>5. \A j \in Exports : /\ exp'[j].made = exp[j].made
                         /\ exp'[j].native = "live" => exp[j].native = "live"
  BY DEF Continues
<1>6. InRole(t, z, exp')
  BY <1>1, <1>2, <1>3, <1>4, <1>5 DEF InRole
<1>7. t \in Closers => c.pc # "idle" /\ CoveredBy(z, exp')
  <2> SUFFICES ASSUME t \in Closers PROVE c.pc # "idle" /\ CoveredBy(z, exp')
    OBVIOUS
  <2>1. c.pc # "idle" /\ c.pc # "export_raised" /\ c.pc # "close_requests"
        /\ c.pc \notin CancelLabels \cup {"close_joins"}
    BY DEF ExportLabels, CancelLabels
  <2>2. CoveredBy(c, exp)
    BY <2>1 DEF CloudInv, Covered, At
  <2> QED BY <1>4, <1>5, <2>1, <2>2 DEF CoveredBy
<1> QED BY <1>1, <1>3, <1>4, <1>6, <1>7, RequestSame, CallStep DEF z

\* close() after its wait for an export.
LEMMA AfterFacts ==
    ASSUME CloudInv, NEW u \in Closers, call[u].pc \in ExportLabels \ {"export_raised"},
           NEW closed \in BOOLEAN, closed => exp'[call[u].k].native = "gone",
           \A j \in Exports : Continues(exp[j], exp'[j])
    PROVE  LET z == AfterExport(u, call[u].k, closed)
           IN  z \in CallRecord /\ InRole(u, z, exp') /\ CoveredBy(z, exp') /\ z.pc # "idle"
<1> DEFINE c == call[u]
           k == c.k
           z == AfterExport(u, k, closed)
<1>1. u \in Threads /\ u \notin Users /\ u \notin Listers
  BY CloudAssumption DEF Threads
<1>2. /\ c \in CallRecord /\ c.pc # "idle" /\ k \in Exports /\ exp[k].made
      /\ InRole(u, c, exp) /\ c.exps \subseteq Exports
  BY <1>1, InTask DEF CloudInv, Roles, CallRecord
<1>3. PICK label \in {"delete", "export_raised"} :
         /\ z = [c EXCEPT !.exps = @ \ {k}, !.pc = label]
         /\ label = "delete" => closed
  BY DEF AfterExport
<1>4. /\ label \in Labels /\ label \in ExportLabels /\ label \in CloserLabels
      /\ label \notin CancelLabels \cup {"close_joins", "drain", "destroy", "finish", "idle"}
  BY DEF Labels, CloserLabels, CancelLabels, ExportLabels
<1>5. /\ z \in CallRecord /\ z.pc = label /\ z.k = k /\ z.exps = c.exps \ {k}
  <2>1. c.exps \ {k} \in SUBSET Exports
    BY <1>2
  <2> HIDE DEF c
  <2> QED BY <1>2, <1>3, <1>4, <2>1 DEF CallRecord, k
<1>6. \A j \in Exports : /\ exp'[j].made = exp[j].made
                         /\ exp'[j].native = "live" => exp[j].native = "live"
  BY DEF Continues
<1> HIDE DEF z
<1>7. InRole(u, z, exp')
  BY <1>1, <1>2, <1>4, <1>5, <1>6 DEF InRole
<1>8. CoveredBy(z, exp')
  <2>1. /\ c.pc # "export_raised" /\ c.pc # "close_requests"
        /\ c.pc \notin CancelLabels \cup {"close_joins"}
    BY DEF ExportLabels, CancelLabels
  <2>2. CoveredBy(c, exp)
    BY <1>2 DEF CloudInv, Covered, At
  <2>3. \A j \in Exports : exp'[j].native = "live" =>
           j \in z.exps \/ (z.pc = "export_raised" /\ z.k = j)
    BY <1>3, <1>5, <1>6, <2>1, <2>2 DEF CoveredBy
  <2> QED BY <2>1, <2>2, <2>3 DEF CoveredBy
<1> QED BY <1>4, <1>5, <1>7, <1>8 DEF z

\* begin(): a thread is elected, waits or finds the export closed.
LEMMA BeginStep ==
    ASSUME CloudInv, NEW t \in Users \cup Closers, NEW k \in Exports, exp[k].made,
           NEW label \in {"load", "stop_native"}, label = "stop_native" => t \in Users,
           t \in Closers => call[t].pc \in ExportLabels \ {"export_raised"} /\ call[t].k = k,
           Begin(t, k, label)
    PROVE  CloudInv' /\ \A j \in Exports : Kept(exp[j], exp'[j])
<1> DEFINE x == exp[k]
           st == IF x.status = "closed" THEN "closed" ELSE "closing"
           y == [x EXCEPT !.status = st]
<1>1. x \in ExportRecord /\ t \in Threads
  BY DEF CloudInv, Records, Threads
<1>2. exp' = [exp EXCEPT ![k] = y] /\ cloud' = cloud /\ req' = req
  BY DEF Begin, CloudInv, Records
<1>3. /\ Similar(x, y) /\ y.events = x.events /\ y.status = st
      /\ y.terminal = x.terminal /\ y.result = x.result
  <2>1. st \in Statuses
    BY DEF Statuses
  <2> HIDE DEF x, st
  <2> QED BY <1>1, <2>1, StatusFacts
<1> HIDE DEF y
<1>4. exp' \in [Exports -> ExportRecord] /\ \A j \in Exports : Kept(exp[j], exp'[j])
  BY <1>2, <1>3, FieldKept
<1>5. \A j \in Exports : Continues(exp[j], exp'[j])
  BY <1>4, KeptContinues
<1>6. CASE x.status = "closed"
  <2>1. call' = [call EXCEPT ![t] = AfterExport(t, k, TRUE)]
    BY <1>6 DEF Begin
  <2>2. exp'[k].native = "gone"
    BY <1>4, <1>6 DEF CloudInv, ExportsKept, Kept
  <2>3. CASE t \in Closers
    <3>1. LET z == AfterExport(t, k, TRUE)
          IN  z \in CallRecord /\ InRole(t, z, exp') /\ CoveredBy(z, exp') /\ z.pc # "idle"
      BY <1>5, <2>2, <2>3, AfterFacts
    <3>2. t \notin Listers /\ call[t].pc # "idle"
      BY <2>3, CloudAssumption DEF ExportLabels
    <3> QED BY <1>1, <1>2, <1>4, <1>5, <2>1, <2>3, <3>1, <3>2, RequestSame, CallStep
  <2>4. CASE t \notin Closers
    BY <1>2, <1>4, <1>5, <2>1, <2>4, UserReturns DEF AfterExport, Return
  <2> QED BY <1>4, <2>3, <2>4
<1>7. CASE x.status # "closed"
  <2>1. PICK l \in {"join", "load", "stop_native"} :
           /\ call' = [call EXCEPT ![t] = [call[t] EXCEPT !.pc = l, !.k = k]]
           /\ l = "stop_native" => t \in Users
    BY <1>1, <1>7 DEF Begin, CloudInv, Records
  <2> QED BY <1>2, <1>4, <1>5, <2>1, TurnStep
<1> QED BY <1>6, <1>7

\* succeed() and fail() of an export: its thread and those that joined it go on.
LEMMA PublishStep ==
    ASSUME CloudInv, NEW t \in Threads,
           call[t].pc \in {"stop_native", "load", "destroy", "finish"},
           NEW closed \in BOOLEAN, closed => exp'[call[t].k].native = "gone",
           Publish(t, call[t].k, closed), req' = req,
           cloud' \in CloudRecord,
           cloud'.requests = cloud.requests, cloud'.gone = cloud.gone,
           cloud'.status = cloud.status, cloud'.exports \subseteq cloud.exports,
           \A k \in cloud.exports \ cloud'.exports : exp'[k].native # "live",
           exp' \in [Exports -> ExportRecord],
           \A j \in Exports : Continues(exp[j], exp'[j])
    PROVE  CloudInv'
<1> DEFINE k == call[t].k
           Moves(u) == u = t \/ (At(u, "join") /\ call[u].k = k)
<1>1. \A u \in Threads : call'[u] = IF Moves(u) THEN AfterExport(u, k, closed) ELSE call[u]
  BY DEF Publish
<1>2. \A u \in Threads : Moves(u) => /\ call[u].pc \in ExportLabels \ {"export_raised"}
                                     /\ call[u].k = k
  BY DEF At, ExportLabels
<1>3. \A u \in Threads : Moves(u) => u \notin Listers
  BY <1>2, InTask
<1>4. ASSUME NEW u \in Threads, Moves(u)
      PROVE  /\ call'[u] \in CallRecord /\ InRole(u, call'[u], exp')
             /\ u \in Closers => call[u].pc # "idle" /\ call'[u].pc # "idle"
                                 /\ CoveredBy(call'[u], exp')
  <2>1. CASE u \in Closers
    <3>1. call[u].pc \in ExportLabels \ {"export_raised"} /\ call[u].k = k
      BY <1>2, <1>4
    <3>2. LET z == AfterExport(u, k, closed)
          IN  z \in CallRecord /\ InRole(u, z, exp') /\ CoveredBy(z, exp') /\ z.pc # "idle"
      BY <2>1, <3>1, AfterFacts
    <3> QED BY <1>1, <1>4, <3>1, <3>2 DEF ExportLabels
  <2>2. CASE u \notin Closers
    BY <1>1, <1>4, <2>2, IdleFacts DEF AfterExport
  <2> QED BY <2>1, <2>2
<1> HIDE DEF Moves
<1>5. call' \in [Threads -> CallRecord]
  <2>1. \A u \in Threads : call'[u] \in CallRecord
    BY <1>1, <1>4 DEF CloudInv, Records
  <2> QED BY <2>1 DEF Publish
<1>6. \A u \in Threads : call'[u] = call[u] \/ InRole(u, call'[u], exp')
  BY <1>1, <1>4
<1>7. \A u \in Listers : call'[u] = call[u]
  BY <1>1, <1>3 DEF Threads
<1>8. \A u \in Closers :
         \/ call'[u] = call[u]
         \/ call[u].pc # "idle" /\ call'[u].pc # "idle" /\ CoveredBy(call'[u], exp')
  BY <1>1, <1>4 DEF Threads
<1> QED BY <1>5, <1>6, <1>7, <1>8, RequestSame, Preserved
\* What was published stands, and progress does not go back.
Monotone(x, y) ==
    /\ x.terminal => y.terminal /\ y.result = x.result
    /\ y.progress >= x.progress

LEMMA KeptMonotone ==
    ASSUME \A j \in Exports : Kept(exp[j], exp'[j])
    PROVE  \A j \in Exports : Monotone(exp[j], exp'[j])
BY DEF Kept, Monotone

LEMMA SameMonotone ==
    ASSUME CloudInv, exp' = exp
    PROVE  /\ exp' \in [Exports -> ExportRecord]
           /\ \A j \in Exports : Continues(exp[j], exp'[j]) /\ Monotone(exp[j], exp'[j])
BY ExpSame, InvTasks, KeptSame, KeptMonotone

\* wait(), stop() and what cancel() decides under the lock.
LEMMA TurnSteps ==
    ASSUME CloudInv, NEW t \in Users \cup Closers, NEW k \in Exports,
           \/ t \in Users /\ (Wait(t, k) \/ Stop(t, k) \/ Cancel(t, k))
           \/ t \in Closers /\ CloseExport(t, k)
           \/ WaitDone(t)
    PROVE  CloudInv' /\ \A j \in Exports : Monotone(exp[j], exp'[j])
<1>0. t \in Threads /\ (t \in Users => t \notin Closers)
  BY CloudAssumption DEF Threads
<1>1. CASE t \in Users /\ Wait(t, k)
  <2>1. /\ call' = [call EXCEPT ![t] = [call[t] EXCEPT !.pc = "wait", !.k = k]]
        /\ cloud' = cloud /\ req' = req /\ exp' = exp /\ exp[k].made
    BY <1>0, <1>1 DEF Wait, CloudInv, Records
  <2> QED BY <1>0, <1>1, <2>1, SameMonotone, TurnStep
<1>2. CASE t \in Users /\ Stop(t, k)
  <2>1. PICK label \in {"load", "stop_native"} : Begin(t, k, label) /\ exp[k].made
    BY <1>2 DEF Stop
  <2> QED BY <1>0, <1>2, <2>1, BeginStep, KeptMonotone
<1>3. CASE WaitDone(t)
  <2>1. call[t].pc = "wait" /\ Begin(t, call[t].k, "load")
    BY <1>3 DEF WaitDone, At
  <2>2. call[t].k \in Exports /\ exp[call[t].k].made
    BY <1>0, <2>1, InTask DEF ExportLabels
  <2>3. call[t].pc \in ExportLabels \ {"export_raised"}
    BY <2>1 DEF ExportLabels
  <2> QED BY <2>1, <2>2, <2>3, BeginStep, KeptMonotone
<1>4. CASE \/ t \in Users /\ Cancel(t, k)
           \/ t \in Closers /\ CloseExport(t, k)
  <2>1. /\ CancelExport(t, k) /\ exp' = exp /\ req' = req /\ exp[k].made
        /\ t \in Closers => call[t].pc = "close_exports" /\ call[t].pc # "idle"
    <3>1. t \in Closers => InRole(t, call[t], exp)
      BY <1>0 DEF CloudInv, Roles
    <3> QED BY <1>0, <1>4, <3>1 DEF Cancel, CloseExport, CancelExport, At, InRole
  <2>2. CASE \E label \in {"wait", "export_cancel"} :
                /\ call' = [call EXCEPT ![t] = [call[t] EXCEPT !.pc = label, !.k = k]]
                /\ cloud' = cloud
    <3>1. PICK label \in {"wait", "export_cancel"} :
             call' = [call EXCEPT ![t] = [call[t] EXCEPT !.pc = label, !.k = k]]
      BY <2>2
    <3>2. /\ exp' \in [Exports -> ExportRecord]
          /\ \A j \in Exports : Continues(exp[j], exp'[j]) /\ Monotone(exp[j], exp'[j])
      BY <2>1, SameMonotone
    <3>3. CloudInv'
      BY <2>1, <2>2, <3>1, <3>2, TurnStep
    <3> QED BY <3>2, <3>3
  <2>3. CASE t \in Users /\ Return(t) /\ cloud' = cloud
    BY <2>1, <2>3, SameMonotone, UserReturns
  <2>4. CASE t \in Closers /\ CloseFails(t)
    BY <2>1, <2>4, SameMonotone, RequestSame, FailStep
  <2>5. CASE t \in Users /\ cloud' = cloud /\ call' = call
    BY <2>1, <2>5, SameMonotone, RequestSame, QuietStep
  <2>6. call \in [Threads -> CallRecord]
    BY DEF CloudInv, Records
  <2> QED BY <1>0, <2>1, <2>2, <2>3, <2>4, <2>5, <2>6 DEF CancelExport, Return
<1> QED BY <1>1, <1>2, <1>3, <1>4

\* The end of a wait for the export, and the steps of _finish.
LEMMA FinishSteps ==
    ASSUME CloudInv, NEW t \in Threads,
           \/ (\E end \in Outcomes : StopNative(t, end)) \/ StopStore(t) \/ LoadReport(t)
           \/ Drained(t) \/ DestroyExport(t) \/ ExportCancel(t) \/ DeleteFile(t)
    PROVE  CloudInv' /\ \A j \in Exports : Monotone(exp[j], exp'[j])
<1> DEFINE c == call[t]
           k == c.k
           x == exp[k]
<1>0. /\ call[t].pc \in {"stop_native", "stop_store", "load", "drain", "destroy",
                         "export_cancel", "delete"}
      /\ cloud' = cloud /\ req' = req
  BY DEF StopNative, StopStore, LoadReport, Drained, DestroyExport, ExportCancel,
     DeleteFile, At, CloseFails, Return
<1>1. call[t].pc \in ExportLabels /\ call[t].pc # "export_raised"
  BY <1>0 DEF ExportLabels
<1>2. /\ c \in CallRecord /\ k \in Exports /\ x \in ExportRecord /\ x.made
      /\ t \notin Listers /\ c.pc # "idle"
      /\ t \in Users => c.pc \in UserLabels /\ t \notin Closers
      /\ t \in Closers => c.pc \in CloserLabels
      /\ InRole(t, c, exp)
  BY <1>1, InTask DEF CloudInv, Roles
<1>3. /\ "stop_store" \in UserLabels /\ "load" \in UserLabels /\ "drain" \in UserLabels
      /\ "destroy" \in UserLabels /\ "finish" \in UserLabels /\ "stop_store" \in Labels
      /\ {"load", "drain", "destroy", "finish", "wait", "close_exports"}
            \subseteq CloserLabels \cap Labels
      /\ {"stop_store", "load", "drain", "destroy", "finish", "wait"} \subseteq ExportLabels
      /\ "close_exports" \notin ExportLabels
      /\ {"stop_store", "load", "drain", "destroy", "finish", "wait", "close_exports"}
            \cap (CancelLabels \cup {"close_joins"}) = {}
      /\ {"stop_native", "stop_store"} \cap CloserLabels = {}
      /\ "delete" \notin UserLabels
  BY DEF UserLabels, CloserLabels, ExportLabels, Labels, CancelLabels
<1>4. CASE \E end \in Outcomes : StopNative(t, end)
  <2>1. PICK end \in Outcomes : StopNative(t, end)
    BY <1>4
  <2>2. c.pc = "stop_native" /\ t \in Users
    BY <1>2, <1>3, <2>1 DEF StopNative, At, Threads
  <2> DEFINE z == [c EXCEPT !.pc = "stop_store", !.got = end]
  <2>3. call' = [call EXCEPT ![t] = z]
    BY <2>1 DEF StopNative, CloudInv, Records
  <2>4. z \in CallRecord /\ z.pc = "stop_store" /\ z.k = k /\ z.exps = c.exps
    <3> HIDE DEF c
    <3> QED BY <1>2, <1>3 DEF CallRecord, k
  <2>5. exp' \in [Exports -> ExportRecord] /\ \A j \in Exports : Kept(exp[j], exp'[j])
    <3>1. CASE exp' = exp
      BY <3>1, InvTasks, KeptSame
    <3>2. CASE exp' # exp
      <4>1. PICK events \in {x.events, Posted(k, Completed)} :
               exp' = [exp EXCEPT ![k].end = end, ![k].events = events]
        BY <2>1, <3>2 DEF StopNative
      <4>2. events \in Seq(0 .. MaxFraction)
        <5>1. Tasks /\ x.events \in Seq(0 .. MaxFraction) /\ x.frac \in 0 .. MaxFraction
          BY <1>2, InvTasks DEF ExportRecord
        <5>2. 0 \in 0 .. MaxFraction /\ 0 <= x.frac /\ x.frac <= x.frac
          BY <5>1, Bounds
        <5> QED BY <1>2, <5>1, <5>2, Bounds, PostedBounded
      <4> DEFINE y == [x EXCEPT !.end = end, !.events = events]
      <4>3. exp' = [exp EXCEPT ![k] = y]
        BY <4>1 DEF CloudInv, Records
      <4>4. /\ Similar(x, y) /\ y.events = events /\ y.status = x.status
            /\ y.terminal = x.terminal /\ y.result = x.result
        <5>1. x \in ExportRecord
          BY <1>2
        <5> HIDE DEF x, z, k, c
        <5> QED BY <4>2, <5>1 DEF ExportRecord, Similar
      <4> HIDE DEF y
      <4> QED BY <1>2, <4>3, <4>4, FieldKept
    <3> QED BY <3>1, <3>2
  <2>6. \A j \in Exports : Continues(exp[j], exp'[j])
    BY <2>5, KeptContinues
  <2>7. exp'[k].made
    BY <1>2, <2>5 DEF Kept
  <2>8. \A j \in Exports : exp'[j].made = exp[j].made
    BY <2>5 DEF Kept
  <2> HIDE DEF z
  <2>9. InRole(t, z, exp')
    BY <1>2, <1>3, <2>2, <2>4, <2>7, <2>8 DEF InRole, CallRecord
  <2> QED BY <1>0, <1>2, <2>2, <2>3, <2>4, <2>5, <2>6, <2>9, RequestSame, KeptMonotone,
             CallStep
<1>5. CASE StopStore(t)
  <2>1. Goto(t, "load") /\ t \in Users
    BY <1>2, <1>3, <1>5 DEF StopStore, At, Threads
  <2>2. exp' \in [Exports -> ExportRecord] /\ \A j \in Exports : Kept(exp[j], exp'[j])
    <3>1. CASE x.terminal
      BY <1>5, <3>1, InvTasks, KeptSame DEF StopStore
    <3>2. CASE ~x.terminal
      <4> DEFINE y == [x EXCEPT !.terminal = TRUE, !.result = c.got]
      <4>1. exp' = [exp EXCEPT ![k] = y]
        BY <1>5, <3>2 DEF StopStore, CloudInv, Records
      <4>2. c.got \in Outcomes \cup {None}
        BY <1>2 DEF CallRecord
      <4>3. Similar(x, y) /\ y.events = x.events /\ y.status = x.status
        <5> HIDE DEF x, c
        <5> QED BY <1>2, <4>2, ResultFacts
      <4> HIDE DEF y
      <4> QED BY <1>2, <3>2, <4>1, <4>3, FieldKept
    <3> QED BY <3>1, <3>2
  <2> QED BY <1>0, <1>1, <1>2, <1>3, <2>1, <2>2, KeptContinues, KeptMonotone, RequestSame,
             LabelStep
<1>6. CASE LoadReport(t)
  <2>1. Goto(t, "drain") /\ c.pc = "load"
    BY <1>6 DEF LoadReport, At
  <2>2. /\ exp' \in [Exports -> ExportRecord] /\ \A j \in Exports : Kept(exp[j], exp'[j])
        /\ exp'[k].report
    <3>1. exp' = [exp EXCEPT ![k] = [Loaded(k) EXCEPT !.shut = TRUE]]
      BY <1>6 DEF LoadReport
    <3>2. exp'[k].progress = [Loaded(k) EXCEPT !.shut = TRUE].progress
      BY <1>2, <3>1 DEF CloudInv, Records
    <3>3. [Loaded(k) EXCEPT !.shut = TRUE].report
      <4>1. Loaded(k) \in ExportRecord /\ Loaded(k).report
        <5>1. x.frac \in 0 .. MaxFraction
          BY <1>2 DEF ExportRecord
        <5> HIDE DEF x
        <5> QED BY <1>2, <5>1 DEF Loaded, ExportRecord, x
      <4> QED BY <4>1 DEF ExportRecord
    <3>4. exp'[k].report
      BY <1>2, <3>1, <3>3 DEF CloudInv, Records
    <3> QED BY <1>2, <3>1, <3>4, InvTasks, ReadSteps
  <2> QED BY <1>0, <1>1, <1>2, <1>3, <2>1, <2>2, KeptContinues, KeptMonotone, RequestSame,
             LabelStep
<1>7. CASE Drained(t)
  <2>1. Goto(t, "destroy") /\ exp' = exp /\ exp[k].report /\ c.pc = "drain"
    BY <1>2, <1>7 DEF Drained, At, InRole
  <2> QED BY <1>0, <1>1, <1>2, <1>3, <2>1, SameMonotone, RequestSame, LabelStep
<1>8. CASE DestroyExport(t)
  <2> DEFINE y == [x EXCEPT !.native = "gone"]
  <2>1. Goto(t, "finish") /\ exp' = [exp EXCEPT ![k] = y] /\ x.report
    BY <1>2, <1>8 DEF DestroyExport, At, InRole, CloudInv, Records
  <2>2. /\ y \in ExportRecord /\ y.native = "gone" /\ y.made = x.made /\ y.report = x.report
        /\ y.progress = x.progress /\ y.frac = x.frac /\ y.events = x.events
        /\ y.terminal = x.terminal /\ y.result = x.result
    <3> HIDE DEF x
    <3> QED BY <1>2 DEF ExportRecord
  <2>3. x.native # "none" /\ Bounded(x) /\ x.progress \in 0 .. MaxFraction
    BY <1>2 DEF CloudInv, ExportsKept, ExportRecord
  <2>4. Continues(x, y) /\ Monotone(x, y)
    <3> HIDE DEF x, y
    <3> QED BY <2>1, <2>2, <2>3, Bounds DEF Continues, Bounded, Monotone
  <2>5. exp'[k] = y /\ \A j \in Exports \ {k} : exp'[j] = exp[j]
    BY <1>2, <2>1, <2>2 DEF CloudInv, Records
  <2>6. exp' \in [Exports -> ExportRecord]
    BY <2>1, <2>2 DEF CloudInv, Records
  <2> HIDE DEF y
  <2>7. \A j \in Exports : Continues(exp[j], exp'[j]) /\ Monotone(exp[j], exp'[j])
    <3>1. ASSUME NEW j \in Exports \ {k}
          PROVE  Continues(exp[j], exp[j]) /\ Monotone(exp[j], exp[j])
      <4>1. /\ exp[j] \in ExportRecord /\ Bounded(exp[j])
            /\ exp[j].progress \in 0 .. MaxFraction
            /\ exp[j].status = "closed" => exp[j].native = "gone"
        BY DEF CloudInv, Records, ExportsKept, ExportRecord
      <4> QED BY <4>1, Bounds DEF Continues, Monotone
    <3> QED BY <2>4, <2>5, <3>1
  <2>8. exp'[k].native = "gone" /\ exp'[k].report
    BY <2>1, <2>2, <2>5
  <2> QED BY <1>0, <1>1, <1>2, <1>3, <2>1, <2>6, <2>7, <2>8, RequestSame, LabelStep
<1>9. CASE ExportCancel(t) \/ DeleteFile(t)
  <2>1. PICK y \in {[x EXCEPT !.cancelled = TRUE], [x EXCEPT !.deleted = TRUE]} :
           exp' = [exp EXCEPT ![k] = y]
    BY <1>9 DEF ExportCancel, DeleteFile, CloudInv, Records
  <2>2. /\ Similar(x, y) /\ y.events = x.events /\ y.status = x.status
        /\ y.terminal = x.terminal /\ y.result = x.result
    <3> HIDE DEF x
    <3> QED BY <1>2, <2>1, FlagFacts
  <2>3. exp' \in [Exports -> ExportRecord] /\ \A j \in Exports : Kept(exp[j], exp'[j])
    BY <1>2, <2>1, <2>2, FieldKept
  <2>4. CASE t \in Closers
    <3>1. PICK label \in {"wait", "close_exports"} : Goto(t, label)
      BY <1>9, <2>4 DEF ExportCancel, DeleteFile
    <3> QED BY <1>0, <1>1, <1>2, <1>3, <2>3, <2>4, <3>1, KeptContinues, KeptMonotone,
               RequestSame, LabelStep
  <2>5. CASE t \notin Closers
    <3>1. t \in Users /\ Return(t)
      BY <1>2, <1>3, <1>9, <2>5 DEF ExportCancel, DeleteFile, At, Threads
    <3> QED BY <1>0, <2>3, <3>1, KeptContinues, KeptMonotone, UserReturns
  <2> QED BY <2>4, <2>5
<1> QED BY <1>4, <1>5, <1>6, <1>7, <1>8, <1>9
\* The outcome of _finish is published.
LEMMA PublishSteps ==
    ASSUME CloudInv, NEW t \in Threads, StopTimesOut(t) \/ NativeRefuses(t) \/ FinishExport(t)
    PROVE  CloudInv' /\ \A j \in Exports : Monotone(exp[j], exp'[j])
<1> DEFINE k == call[t].k
           x == exp[k]
           st == IF FinishExport(t) THEN "closed" ELSE "close_failed"
           y == [x EXCEPT !.status = st]
<1>0. call[t].pc \in {"stop_native", "load", "destroy", "finish"}
  BY DEF StopTimesOut, NativeRefuses, FinishExport, At
<1>1. /\ k \in Exports /\ x \in ExportRecord /\ x.made /\ InRole(t, call[t], exp)
  BY <1>0, InTask DEF ExportLabels, CloudInv, Roles
<1>2. /\ exp' = [exp EXCEPT ![k] = y] /\ req' = req
      /\ FinishExport(t) => /\ cloud' = [cloud EXCEPT !.exports = @ \ {k}]
                            /\ x.native = "gone"
      /\ ~FinishExport(t) => cloud' = cloud
  <2>1. CASE FinishExport(t)
    BY <1>1, <2>1 DEF FinishExport, CloudInv, Records, At, InRole
  <2>2. CASE ~FinishExport(t)
    BY <1>1, <2>2 DEF StopTimesOut, NativeRefuses, Fail, CloudInv, Records
  <2> QED BY <2>1, <2>2
<1>3. PICK closed \in BOOLEAN : /\ closed <=> FinishExport(t)
                                /\ Publish(t, k, closed)
  <2>1. CASE FinishExport(t)
    BY <2>1 DEF FinishExport
  <2>2. CASE ~FinishExport(t)
    BY <2>2 DEF StopTimesOut, NativeRefuses, Fail
  <2> QED BY <2>1, <2>2
<1>4. /\ Similar(x, y) /\ y.events = x.events /\ y.status = st
      /\ y.terminal = x.terminal /\ y.result = x.result
  <2>1. st \in Statuses
    BY DEF Statuses
  <2> HIDE DEF x, st
  <2> QED BY <1>1, <2>1, StatusFacts
<1>5. /\ st = "closed" => x.native = "gone" /\ closed
      /\ closed => x.native = "gone"
  BY <1>2, <1>3
<1> HIDE DEF y, st
<1>6. exp'[k] = y /\ \A j \in Exports \ {k} : exp'[j] = exp[j]
  BY <1>1, <1>2, <1>4 DEF CloudInv, Records
<1>7. exp' \in [Exports -> ExportRecord]
  BY <1>2, <1>4 DEF CloudInv, Records, Similar
<1>8. \A j \in Exports : Continues(exp[j], exp'[j]) /\ Monotone(exp[j], exp'[j])
  <2>1. ASSUME NEW j \in Exports
        PROVE  /\ exp[j] \in ExportRecord /\ Bounded(exp[j])
               /\ exp[j].progress \in 0 .. MaxFraction
               /\ exp[j].status = "closed" => exp[j].native = "gone"
    BY DEF CloudInv, Records, ExportsKept, ExportRecord
  <2>2. \A j \in Exports \ {k} : Continues(exp[j], exp[j]) /\ Monotone(exp[j], exp[j])
    BY <2>1, Bounds DEF Continues, Monotone
  <2>3. Continues(x, y) /\ Monotone(x, y)
    <3>1. Bounded(y)
      BY <1>1, <1>4, <2>1 DEF Bounded, Similar
    <3> HIDE DEF x
    <3> QED BY <1>1, <1>4, <1>5, <2>1, <3>1, Bounds DEF Continues, Monotone, Similar, x
  <2> QED BY <1>6, <2>2, <2>3
<1>9. closed => exp'[k].native = "gone"
  BY <1>4, <1>5, <1>6 DEF Similar
<1>10. /\ cloud' \in CloudRecord /\ cloud'.requests = cloud.requests
       /\ cloud'.gone = cloud.gone /\ cloud'.status = cloud.status
       /\ cloud'.exports \subseteq cloud.exports
       /\ \A j \in cloud.exports \ cloud'.exports : j = k /\ closed
  <2>1. cloud \in CloudRecord
    BY DEF CloudInv, Records
  <2>2. CASE FinishExport(t)
    BY <1>2, <1>3, <2>1, <2>2 DEF CloudRecord
  <2>3. CASE ~FinishExport(t)
    BY <1>2, <2>1, <2>3
  <2> QED BY <2>2, <2>3
<1> QED BY <1>0, <1>2, <1>3, <1>7, <1>8, <1>9, <1>10, PublishStep

\* The remaining steps of close(), and calls that end without an outcome.
LEMMA CloseSteps ==
    ASSUME CloudInv, NEW t \in Threads,
           \/ WaitTimesOut(t) \/ ExportCancelRaises(t)
           \/ (\E r \in Listers : CloseRequest(t, r))
           \/ CloseJoins(t) \/ CloseRequestsDone(t) \/ DeleteRaises(t) \/ ExportRaised(t)
    PROVE  CloudInv' /\ exp' = exp
<1> DEFINE c == call[t]
<1>1. exp' = exp /\ req' = req /\ c \in CallRecord /\ InRole(t, c, exp)
  BY DEF WaitTimesOut, ExportCancelRaises, CloseRequest, CloseJoins, CloseRequestsDone,
     DeleteRaises, ExportRaised, CloudInv, Records, Roles
<1>2. /\ exp' \in [Exports -> ExportRecord]
      /\ \A k \in Exports : Continues(exp[k], exp'[k])
      /\ req' \in [Listers -> RequestRecord]
      /\ \A r \in Listers : req'[r].finished = req[r].finished
  BY <1>1, ExpSame, RequestSame
<1>3. CASE t \in Closers /\ c.pc # "idle" /\ CloseFails(t)
  BY <1>1, <1>2, <1>3, FailStep
<1>4. CASE t \in Users /\ Return(t) /\ cloud' = cloud
  BY <1>1, <1>2, <1>4, UserReturns
<1>5. /\ t \notin Users /\ t \notin Listers
      => t \in Closers /\ (c.pc # "idle" => CoveredBy(c, exp))
  BY DEF Threads, CloudInv, Covered, At
<1>6. CASE \E r \in Listers : CloseRequest(t, r)
  <2>1. PICK r \in Listers : CloseRequest(t, r)
    BY <1>6
  <2> DEFINE z == [c EXCEPT !.pc = "cancel", !.r = r, !.reqs = @ \ {r}]
  <2>2. /\ call' = [call EXCEPT ![t] = z] /\ c.pc = "close_requests" /\ r \in c.reqs
        /\ cloud' = cloud
    BY <2>1 DEF CloseRequest, At, CloudInv, Records
  <2>3. /\ z \in CallRecord /\ z.pc = "cancel" /\ z.r = r /\ z.exps = c.exps
        /\ z.reqs = c.reqs \ {r}
    <3>1. "cancel" \in Labels
      BY DEF Labels, CancelLabels, ListLabels
    <3>2. c.reqs \ {r} \in SUBSET Listers
      BY <1>1 DEF CallRecord
    <3> HIDE DEF c
    <3> QED BY <1>1, <3>1, <3>2 DEF CallRecord
  <2>4. t \in Closers /\ t \notin Users /\ t \notin Listers
    BY <1>1, <2>2, CloudAssumption DEF InRole, ListLabels, UserLabels, CancelLabels,
       ExportLabels, Threads
  <2> HIDE DEF z
  <2>5. InRole(t, z, exp')
    BY <1>1, <2>3, <2>4 DEF InRole, CloserLabels, CancelLabels, ExportLabels
  <2>6. CoveredBy(z, exp')
    <3>1. CoveredBy(c, exp)
      BY <1>5, <2>2, <2>4
    <3> QED BY <1>1, <2>2, <2>3, <3>1 DEF CoveredBy, CancelLabels
  <2> QED BY <1>1, <1>2, <2>2, <2>3, <2>4, <2>5, <2>6, CallStep
<1>7. CASE \/ CloseJoins(t) \/ CloseRequestsDone(t)
           \/ ExportRaised(t) /\ Goto(t, "close_exports") /\ cloud' = cloud
                              /\ exp[c.k].status = "closed"
  <2>1. PICK label \in {"close_requests", "close_exports"} :
           /\ Goto(t, label) /\ cloud' = cloud
           /\ \/ c.pc = "close_joins" /\ label = "close_requests" /\ req[c.r].finished
              \/ c.pc = "close_requests" /\ label = "close_exports" /\ c.reqs = {}
              \/ /\ c.pc = "export_raised" /\ label = "close_exports"
                 /\ exp[c.k].status = "closed"
    BY <1>7 DEF CloseJoins, CloseRequestsDone, ExportRaised, At
  <2>2. t \in Closers /\ t \notin Users /\ t \notin Listers /\ c.pc # "idle"
    BY <1>1, <2>1, CloudAssumption DEF InRole, ListLabels, UserLabels, CancelLabels,
       ExportLabels, Threads
  <2>3. /\ label \in Labels \ {"idle"} /\ label \in CloserLabels
        /\ label \notin ExportLabels /\ label \notin CancelLabels \cup {"close_joins"}
        /\ label \notin {"drain", "destroy", "finish"}
    BY DEF Labels, CloserLabels, CancelLabels, ExportLabels
  <2>4. CoveredBy([c EXCEPT !.pc = label], exp')
    <3> DEFINE z == [c EXCEPT !.pc = label]
    <3>1. z.pc = label /\ z.r = c.r /\ z.k = c.k /\ z.reqs = c.reqs /\ z.exps = c.exps
      BY <1>1, <2>3, CallFields
    <3>2. CoveredBy(c, exp)
      BY <1>5, <2>2
    <3>3. c.pc = "close_joins" => call[c.r].pc = "idle" /\ c.r \in Listers
      BY <1>1, <2>1 DEF InRole, CloudInv, RequestsKept, At
    <3>4. c.pc = "export_raised" => c.k \in Exports /\ exp[c.k].native # "live"
      <4>1. c.pc = "export_raised" => c.k \in Exports
        BY <1>1 DEF InRole, ExportLabels
      <4> QED BY <2>1, <4>1 DEF CloudInv, ExportsKept
    <3> HIDE DEF z, c
    <3>5. \A r \in Listers : ~At(r, "idle") => z.pc = "close_requests" /\ r \in z.reqs
      BY <2>1, <3>1, <3>2, <3>3 DEF CoveredBy, CancelLabels, At
    <3>6. \A k \in Exports : exp'[k].native = "live" => k \in z.exps
      BY <1>1, <2>1, <3>1, <3>2, <3>4 DEF CoveredBy
    <3> QED BY <3>5, <3>6 DEF CoveredBy, z
  <2> QED BY <1>1, <1>2, <2>1, <2>2, <2>3, <2>4, LabelStep
<1>8. WaitTimesOut(t) => t \in Users /\ Return(t) /\ cloud' = cloud
  BY DEF WaitTimesOut
<1>9. ExportCancelRaises(t) => \/ t \in Closers /\ c.pc # "idle" /\ CloseFails(t)
                               \/ t \in Users /\ Return(t) /\ cloud' = cloud
  <2> SUFFICES ASSUME ExportCancelRaises(t)
               PROVE  \/ t \in Closers /\ c.pc # "idle" /\ CloseFails(t)
                      \/ t \in Users /\ Return(t) /\ cloud' = cloud
    OBVIOUS
  <2>1. c.pc = "export_cancel"
    BY DEF ExportCancelRaises, At
  <2>2. t \notin Listers
    BY <2>1, InTask DEF ExportLabels
  <2> QED BY <2>1, <2>2 DEF ExportCancelRaises, Threads
<1>10. DeleteRaises(t) \/ (ExportRaised(t) /\ exp[c.k].status # "closed")
       => t \in Closers /\ c.pc # "idle" /\ CloseFails(t)
  <2> SUFFICES ASSUME DeleteRaises(t) \/ (ExportRaised(t) /\ exp[c.k].status # "closed")
               PROVE  t \in Closers /\ c.pc # "idle" /\ CloseFails(t)
    OBVIOUS
  <2>1. c.pc \in {"delete", "export_raised"} /\ CloseFails(t)
    BY DEF DeleteRaises, ExportRaised, At
  <2>2. t \in Closers
    BY <1>1, <2>1 DEF InRole, ListLabels, UserLabels, CancelLabels, ExportLabels, Threads
  <2> QED BY <2>1, <2>2
<1> QED BY <1>1, <1>3, <1>4, <1>6, <1>7, <1>8, <1>9, <1>10 DEF ExportRaised

LEMMA CloudStep ==
    ASSUME CloudInv, Next
    PROVE  CloudInv' /\ \A j \in Exports : Monotone(exp[j], exp'[j])
<1>1. ASSUME NEW t \in Listers, NEW timed \in BOOLEAN, ListBegin(t, timed)
      PROVE  CloudInv' /\ exp' = exp
  BY <1>1, ListBeginStep DEF ListBegin
<1>2. ASSUME NEW t \in Listers, RequestCompletes(t) PROVE CloudInv' /\ exp' = exp
  BY <1>2, ListStep DEF RequestCompletes
<1>3. ASSUME NEW t \in Users, NEW k \in Exports,
             \/ ExportRecording(t, k) \/ ProgressDetail(t, k) \/ Report(t, k)
             \/ Wait(t, k) \/ Stop(t, k) \/ Cancel(t, k)
      PROVE  CloudInv' /\ \A j \in Exports : Monotone(exp[j], exp'[j])
  <2>1. CASE ExportRecording(t, k)
    <3>1. exp' = [exp EXCEPT ![k].made = TRUE, ![k].native = "live"]
      BY <2>1 DEF ExportRecording
    <3>2. \A j \in Exports : /\ exp[j] \in ExportRecord
                             /\ exp'[j].progress = exp[j].progress
                             /\ exp'[j].terminal = exp[j].terminal
                             /\ exp'[j].result = exp[j].result
      BY <3>1 DEF CloudInv, Records, ExportRecord
    <3>3. \A j \in Exports : exp[j].progress \in 0 .. MaxFraction
      BY <3>2 DEF ExportRecord
    <3>4. \A j \in Exports : Monotone(exp[j], exp'[j])
      BY <3>2, <3>3, Bounds DEF Monotone
    <3> QED BY <2>1, <3>4, ExportStep
  <2>2. CASE ProgressDetail(t, k) \/ Report(t, k)
    BY <2>2, TaskStep, KeptMonotone
  <2>3. CASE Wait(t, k) \/ Stop(t, k) \/ Cancel(t, k)
    BY <2>3, TurnSteps
  <2> QED BY <1>3, <2>1, <2>2, <2>3
<1>4. ASSUME NEW t \in Closers, CloseBegin(t) PROVE CloudInv' /\ exp' = exp
  BY <1>4, CloseBeginStep DEF CloseBegin
<1>5. ASSUME NEW k \in Exports,
             \/ NativeProgress(k) \/ HandleEvent(k) \/ CallbackReturns(k)
             \/ \E end \in Outcomes : NativeEnds(k, end)
      PROVE  CloudInv' /\ \A j \in Exports : Monotone(exp[j], exp'[j])
  BY <1>5, TaskStep, KeptMonotone
<1>6. ASSUME NEW t \in Threads, Step(t) \/ WaitTimesOut(t)
      PROVE  CloudInv' /\ (exp' = exp \/ \A j \in Exports : Monotone(exp[j], exp'[j]))
  <2>1. CASE t \in Listers /\ (\/ ListStart(t) \/ ListStartFails(t) \/ ListCompleted(t)
                               \/ ListTimesOut(t) \/ ListDestroy(t) \/ ListEnd(t))
    <3>1. CASE ListEnd(t)
      <4>1. exp' = exp
        BY <3>1 DEF ListEnd
      <4> QED BY <2>1, <3>1, <4>1, ListEndStep
    <3>2. CASE ~ListEnd(t)
      <4>1. exp' = exp
        BY <2>1, <3>2 DEF ListStart, ListStartFails, ListCompleted, ListTimesOut, ListDestroy
      <4> QED BY <2>1, <3>2, <4>1, ListStep
    <3> QED BY <3>1, <3>2
  <2>2. CASE CancelCheck(t) \/ CancelNative(t) \/ CancelRaises(t) \/ CancelJoin(t)
    BY <2>2, CancelStep DEF CancelCheck, CancelNative, CancelRaises, CancelJoin
  <2>3. CASE WaitDone(t)
    <3>1. call[t].pc = "wait"
      BY <2>3 DEF WaitDone, At
    <3>2. call[t].k \in Exports /\ t \in Users \cup Closers
      BY <3>1, InTask DEF ExportLabels, Threads
    <3> QED BY <2>3, <3>2, TurnSteps
  <2>4. CASE \/ (\E end \in Outcomes : StopNative(t, end)) \/ StopStore(t) \/ LoadReport(t)
             \/ Drained(t) \/ DestroyExport(t) \/ ExportCancel(t) \/ DeleteFile(t)
    BY <2>4, FinishSteps
  <2>5. CASE StopTimesOut(t) \/ NativeRefuses(t) \/ FinishExport(t)
    BY <2>5, PublishSteps
  <2>6. CASE \/ WaitTimesOut(t) \/ ExportCancelRaises(t)
             \/ (\E r \in Listers : CloseRequest(t, r))
             \/ CloseJoins(t) \/ CloseRequestsDone(t) \/ DeleteRaises(t) \/ ExportRaised(t)
    BY <2>6, CloseSteps
  <2>7. CASE (\E k \in Exports : CloseExport(t, k)) \/ CloseNative(t)
    <3>1. call[t].pc = "close_exports"
      BY <2>7 DEF CloseExport, CloseNative, At
    <3>2. t \in Closers
      BY <3>1 DEF CloudInv, Roles, InRole, ListLabels, UserLabels, CancelLabels,
         ExportLabels, Threads
    <3> QED BY <2>7, <3>2, TurnSteps, CloseNativeStep DEF CloseNative
  <2> QED BY <1>6, <2>1, <2>2, <2>3, <2>4, <2>5, <2>6, <2>7 DEF Step
<1> QED BY <1>1, <1>2, <1>3, <1>4, <1>5, <1>6, SameMonotone DEF Next

-----------------------------------------------------------------------------
(* The theorems.                                                           *)

\* The inductive invariant: which list requests and exports are in use, that
\* the one thread inside close() still waits for all of them, and what each
\* export keeps of its progress, report and native half.
THEOREM CloudInvariant == Spec => []CloudInv
<1>1. CloudInv /\ [Next]_vars => CloudInv'
  <2>1. ASSUME CloudInv, UNCHANGED vars PROVE CloudInv'
    BY <2>1, ExpSame, RequestSame, QuietStep DEF vars
  <2> QED BY <2>1, CloudStep
<1> QED BY <1>1, CloudInit, PTL DEF Spec

\* _close_cloud destroys the native CloudStorage only when every list call has
\* returned and every export has destroyed its native half, whatever began while
\* it was under way and however often it failed before.
THEOREM CloudLast == Spec => []CloudDestroyedLast
<1>1. CloudInv => CloudDestroyedLast
  BY DEF CloudInv
<1> QED BY <1>1, CloudInvariant, PTL

\* The records of requests and exports are well formed, and whoever destroys a
\* native export has loaded its report before.
THEOREM ExportsExact == Spec => []ExportsAreExact
<1>1. CloudInv => ExportsAreExact
  <2> SUFFICES ASSUME CloudInv PROVE ExportsAreExact
    OBVIOUS
  <2>1. ASSUME NEW k \in Exports
        PROVE  /\ exp[k].status \in {"open", "closing", "close_failed", "closed"}
               /\ exp[k].result \in Outcomes \cup {None}
               /\ exp[k].end \in Outcomes \cup {None}
               /\ exp[k].progress \in 0 .. MaxFraction /\ exp[k].frac \in 0 .. MaxFraction
               /\ \A i \in 1 .. Len(exp[k].events) :
                     exp[k].events[i] \in (1 .. MaxFraction) \cup {Completed}
    <3>1. exp[k] \in ExportRecord
      BY DEF CloudInv, Records
    <3>2. ASSUME NEW i \in 1 .. Len(exp[k].events)
          PROVE  exp[k].events[i] \in (1 .. MaxFraction) \cup {Completed}
      <4>1. exp[k].events \in Seq(0 .. MaxFraction)
        BY <3>1 DEF ExportRecord
      <4>2. exp[k].events[i] \in 0 .. MaxFraction
        BY <4>1, ElementOfSeq
      <4> QED BY <4>2, Bounds
    <3> QED BY <3>1, <3>2 DEF ExportRecord, Statuses
  <2>2. TypeOK
    BY <2>1 DEF TypeOK, CloudInv, Records, CloudRecord, RequestRecord, Statuses
  <2>3. ReportKept
    BY DEF CloudInv, ExportsKept, ReportKept
  <2> QED BY <2>2, <2>3 DEF ExportsAreExact
<1> QED BY <1>1, CloudInvariant, PTL

LEMMA StepMonotone ==
    ASSUME CloudInv, [Next]_vars
    PROVE  \A k \in Exports : Monotone(exp[k], exp'[k])
BY CloudStep, SameMonotone DEF vars

\* The completion event and stop() race to end an export: the result that
\* _handle_event or stop() published first is never replaced.
THEOREM ResultsStand == Spec => ResultStands
<1>1. CloudInv /\ [Next]_vars =>
        [\A k \in Exports : exp[k].terminal => /\ exp'[k].terminal
                                               /\ exp'[k].result = exp[k].result]_vars
  BY StepMonotone DEF Monotone
<1> QED BY <1>1, CloudInvariant, PTL DEF Spec, ResultStands

\* Queued events, progress_detail and the final report write the progress in
\* any order, and it never goes back: none of them is ahead of the native task.
THEOREM ProgressKept == Spec => ProgressNeverGoesBack
<1>1. CloudInv /\ [Next]_vars =>
        [\A k \in Exports : exp'[k].progress >= exp[k].progress]_vars
  BY StepMonotone DEF Monotone
<1> QED BY <1>1, CloudInvariant, PTL DEF Spec, ProgressNeverGoesBack
=============================================================================
