---------------------------- MODULE RuntimeProofs ---------------------------
(* Proofs about Runtime for every value of its constants.                  *)
EXTENDS Runtime, FiniteSetTheorems, TLAPS

Acquiring == {"acquire", "create", "name", "register"}

\* _lock has one holder, the thread inside a critical section.
Sectioned ==
    \A t \in Threads : /\ pc[t] \in Sections <=> lock = t
                       /\ pc[t] \in {"idle", "gone"} <=> arg[t] = None

\* What each thread may rely on about the lease it works on.
Worked ==
    \A t \in Threads :
        /\ pc[t] \in Acquiring => /\ lease[arg[t]] # "open"
                                  /\ \A u \in Threads : arg[u] = arg[t] => u = t
        /\ pc[t] = "name" => Rtc(arg[t])
        /\ pc[t] \in {"destroy", "remove"} => arg[t] \in active
        /\ pc[t] = "forget" => arg[t] \notin active /\ lease[arg[t]] = "open"

\* A lease in force belongs to an open Client; one that is dropped is nobody's.
Owned ==
    /\ \A l \in active : lease[l] = "open"
    /\ \A l \in garbage : lease[l] = "open" /\ \A u \in Threads : arg[u] # l

\* The leases the globals still stand for: a thread of _release has removed the
\* second kind from _active_leases and not yet got to the rest.
Forgetting == {l \in Leases : \E t \in Threads : pc[t] = "forget" /\ arg[t] = l}
InForce    == active \cup Forgetting
CountedOf(S) == Cardinality({l \in S : Counted(l)})

\* The globals agree with every lease in force.  A torn fork may leave too much
\* of them in the child, never too little.
Agreed ==
    /\ \A l \in InForce : /\ Rtc(l) => rtcLease = l
                          /\ Counted(l) => extConfig = Options[l].legacy
    /\ \A l \in active : shared = Options[l].shared
    /\ extCount >= CountedOf(InForce)

\* A creation that was permitted stays so until it is registered.
StillPermitted ==
    \A t \in Threads : pc[t] \in {"create", "name", "register"} =>
        /\ shared \in {None, Options[arg[t]].shared}
        /\ Counted(arg[t]) => extConfig \in {None, Options[arg[t]].legacy}
        /\ Rtc(arg[t]) => /\ \A l \in InForce : ~Rtc(l)
                          /\ rtcLease = IF pc[t] = "register" THEN arg[t] ELSE None

\* Without a torn fork nothing else is in the globals.
Exact ==
    ~torn =>
        /\ extCount = CountedOf(InForce)
        /\ \A l \in Leases : lease[l] = "open" => l \in InForce
        /\ rtcLease # None =>
              /\ Rtc(rtcLease)
              /\ \/ rtcLease \in InForce
                 \/ \E t \in Threads : pc[t] = "register" /\ arg[t] = rtcLease
        /\ shared # None => active # {} \/ \E t \in Threads : pc[t] = "forget"
        /\ extConfig # None => extCount > 0

AccountInv == TypeOK /\ Sectioned /\ Worked /\ Owned /\ Agreed /\ StillPermitted /\ Exact

\* The leases the native runtime is up for.
NativeOf ==
    {l \in Leases :
        \/ l \in active /\ \A t \in Threads : ~(pc[t] = "remove" /\ arg[t] = l)
        \/ \E t \in Threads : pc[t] \in {"name", "register"} /\ arg[t] = l}

ProductsOf(S) == {Options[l].product : l \in {k \in S : External(k)}}

NativeExact ==
    ~torn /\ ~reentered =>
        /\ handles = {l \in NativeOf : ~External(l)}
        /\ up = ProductsOf(NativeOf)

\* After a torn fork the child may hold what a creation of its parent left half
\* done, and nothing else: where a count is too high the storage runtime is down.
Bounded ==
    ~reentered /\ ~forkedWithRuntime =>
        /\ handles \subseteq NativeOf \cup underway
        /\ up \subseteq ProductsOf(NativeOf) \cup underway
        /\ extCount > CountedOf(InForce) /\ "storage" \in up => "storage" \in underway

\* A lease about to leave has been given back.
GivenBack ==
    /\ \A l \in handles : ~External(l)
    /\ \A t \in Threads : pc[t] = "remove" =>
          /\ arg[t] \notin handles
          /\ Rtc(arg[t]) /\ External(arg[t]) => "rtc" \notin up

\* A child that is refused stays as the fork left it.
Refused ==
    /\ forkedWithRuntime => active # {} /\ \A t \in Threads : pc[t] \in {"idle", "gone"}
    /\ ChildIsRefused

RuntimeInv == AccountInv /\ NativeExact /\ Bounded /\ GivenBack /\ Refused

-----------------------------------------------------------------------------
LEMMA Names == None \notin Threads /\ None \notin Leases
BY OptionsAssumption DEF None

LEMMA OptionFacts ==
    ASSUME NEW l \in Leases
    PROVE  /\ Options[l].product \in Products
           /\ Options[l].shared # None /\ Options[l].legacy # None
           /\ Rtc(l) => ~Counted(l) /\ Options[l].product = "rtc"
           /\ External(l) /\ ~Rtc(l) <=> Counted(l)
           /\ Counted(l) => Options[l].product = "storage"
BY OptionsAssumption DEF None, Rtc, Counted, External, Products

LEMMA CountedFinite ==
    ASSUME NEW S \in SUBSET Leases
    PROVE  IsFiniteSet({l \in S : Counted(l)}) /\ CountedOf(S) \in Nat
<1>1. {l \in S : Counted(l)} \in SUBSET Leases
  OBVIOUS
<1>2. IsFiniteSet({l \in S : Counted(l)})
  BY <1>1, BoundsAssumption, FS_Subset
<1> QED BY <1>2, FS_CardinalityType DEF CountedOf

\* One lease more, one lease less.
LEMMA CountedAdd ==
    ASSUME NEW S \in SUBSET Leases, NEW l \in Leases \ S
    PROVE  CountedOf(S \cup {l}) = IF Counted(l) THEN CountedOf(S) + 1 ELSE CountedOf(S)
<1> DEFINE C(T) == {k \in T : Counted(k)}
<1>1. CASE Counted(l)
  <2>1. C(S \cup {l}) = C(S) \cup {l} /\ l \notin C(S)
    BY <1>1
  <2>2. Cardinality(C(S) \cup {l}) = Cardinality(C(S)) + 1
    BY <2>1, CountedFinite, FS_AddElement
  <2> QED BY <1>1, <2>1, <2>2 DEF CountedOf
<1>2. CASE ~Counted(l)
  <2>1. C(S \cup {l}) = C(S)
    BY <1>2
  <2> QED BY <1>2, <2>1 DEF CountedOf
<1> QED BY <1>1, <1>2

LEMMA CountedRemove ==
    ASSUME NEW S \in SUBSET Leases, NEW l \in S
    PROVE  CountedOf(S) = IF Counted(l) THEN CountedOf(S \ {l}) + 1 ELSE CountedOf(S \ {l})
<1>1. S = (S \ {l}) \cup {l} /\ l \in Leases \ (S \ {l}) /\ S \ {l} \in SUBSET Leases
  OBVIOUS
<1>2. CountedOf((S \ {l}) \cup {l}) = IF Counted(l) THEN CountedOf(S \ {l}) + 1
                                      ELSE CountedOf(S \ {l})
  BY <1>1, CountedAdd
<1> QED BY <1>1, <1>2

\* A counted lease makes the count positive, and two of them at least two.
LEMMA CountedPositive ==
    ASSUME NEW S \in SUBSET Leases, NEW l \in S, Counted(l)
    PROVE  /\ CountedOf(S) >= 1
           /\ \A k \in S : Counted(k) /\ k # l => CountedOf(S) >= 2
<1>1. CountedOf(S) = CountedOf(S \ {l}) + 1 /\ CountedOf(S \ {l}) \in Nat
  BY CountedRemove, CountedFinite
<1>2. ASSUME NEW k \in S, Counted(k), k # l PROVE CountedOf(S) >= 2
  <2>1. S \ {l} \in SUBSET Leases /\ k \in S \ {l} /\ (S \ {l}) \ {k} \in SUBSET Leases
    BY <1>2
  <2>2. CountedOf(S \ {l}) = CountedOf((S \ {l}) \ {k}) + 1
    BY <1>2, <2>1, CountedRemove
  <2>3. CountedOf((S \ {l}) \ {k}) \in Nat
    BY <2>1, CountedFinite
  <2> QED BY <1>1, <2>2, <2>3
<1> QED BY <1>1, <1>2

LEMMA CountedNone ==
    ASSUME NEW S \in SUBSET Leases, CountedOf(S) # 0
    PROVE  \E l \in S : Counted(l)
<1>1. {l \in S : Counted(l)} # {}
  BY FS_EmptySet DEF CountedOf
<1> QED BY <1>1

LEMMA RuntimeInit == Init => RuntimeInv
<1> SUFFICES ASSUME Init PROVE RuntimeInv
  OBVIOUS
<1> USE Names DEF Init
<1>1. TypeOK
  <2>1. extCount \in Nat /\ forks \in 0 .. MaxForks
    BY BoundsAssumption
  <2>2. /\ lease \in [Leases -> {"none", "open", "closed"}]
        /\ pc \in [Threads -> Sections \cup {"idle", "acquire", "release", "gone"}]
        /\ arg \in [Threads -> Leases \cup {None}]
    OBVIOUS
  <2> QED BY <2>1, <2>2 DEF TypeOK
<1>2. InForce = {} /\ CountedOf(InForce) = 0
  <2>1. InForce = {}
    BY DEF InForce, Forgetting
  <2>2. {l \in InForce : Counted(l)} = {}
    BY <2>1
  <2> QED BY <2>1, <2>2, FS_EmptySet DEF CountedOf
<1>3. Sectioned /\ Worked /\ Owned
  BY DEF Sectioned, Worked, Owned, Sections, Acquiring
<1>4. Agreed /\ StillPermitted /\ Exact
  BY <1>2 DEF Agreed, StillPermitted, Exact
<1>5. NativeExact /\ Bounded /\ GivenBack /\ Refused
  <2>1. NativeOf = {} /\ ProductsOf(NativeOf) = {}
    BY DEF NativeOf, ProductsOf
  <2> QED BY <2>1 DEF NativeExact, Bounded, GivenBack, Refused, ChildIsRefused
<1> QED BY <1>1, <1>3, <1>4, <1>5 DEF RuntimeInv, AccountInv

\* A step that leaves the globals and the leases alone, and moves no thread in or
\* out of the end of _release.
LEMMA QuietGlobals ==
    ASSUME AccountInv, UNCHANGED <<moduleVars, lease, torn>>,
           \A u \in Threads : (pc'[u] = "forget" \/ pc[u] = "forget")
                               => pc'[u] = pc[u] /\ arg'[u] = arg[u],
           \A u \in Threads : pc[u] = "register" =>
                               (pc'[u] = "register" /\ arg'[u] = arg[u])
    PROVE  InForce' = InForce /\ Agreed' /\ Exact'
<1>1. Forgetting' = Forgetting
  BY DEF Forgetting
<1>2. InForce' = InForce
  BY <1>1 DEF InForce, moduleVars
<1>3. CountedOf(InForce)' = CountedOf(InForce)
  BY <1>2 DEF CountedOf, Counted, External, Rtc
<1>4. Agreed'
  BY <1>2, <1>3 DEF AccountInv, Agreed, moduleVars, Counted, External, Rtc
<1>5. Exact'
  BY <1>2, <1>3 DEF AccountInv, Exact, moduleVars, Rtc
<1> QED BY <1>2, <1>4, <1>5

-----------------------------------------------------------------------------
(* The leases and the globals: one lemma per kind of step.                 *)

\* A call begins.
LEMMA EnterStep ==
    ASSUME AccountInv, NEW t \in Threads, Acquire(t) \/ Release(t)
    PROVE  AccountInv'
<1> USE Names DEF AccountInv
<1>1. PICK l \in Leases : \/ /\ l \notin garbage /\ lease[l] # "open"
                             /\ \A u \in Threads : arg[u] # l
                             /\ Enter(t, l, "acquire") /\ UNCHANGED leaseVars
                          \/ /\ \A u \in Threads : arg[u] = l => pc[u] = "release"
                             /\ Enter(t, l, "release") /\ garbage' = garbage \ {l}
                             /\ UNCHANGED lease
  BY DEF Acquire, Release
<1>2. PICK label \in {"acquire", "release"} : Enter(t, l, label)
  BY <1>1
<1>3. /\ pc[t] = "idle" /\ pc' = [pc EXCEPT ![t] = label] /\ arg' = [arg EXCEPT ![t] = l]
      /\ UNCHANGED <<lock, moduleVars, processVars, nativeVars, lease>>
  BY <1>1, <1>2 DEF Enter, Goto, leaseVars
<1>4. garbage' \subseteq garbage /\ l \notin garbage'
  BY <1>1 DEF leaseVars
<1>5. TypeOK'
  BY <1>3, <1>4 DEF TypeOK, moduleVars, processVars, nativeVars
<1>6. /\ \A u \in Threads \ {t} : pc'[u] = pc[u] /\ arg'[u] = arg[u]
      /\ pc'[t] = label /\ arg'[t] = l /\ arg[t] = None
  BY <1>3 DEF TypeOK, Sectioned
<1>7. Agreed' /\ Exact' /\ InForce' = InForce
  BY <1>3, <1>6, QuietGlobals DEF processVars
<1>8. Sectioned'
  BY <1>3, <1>6 DEF Sectioned, Sections
<1>9. Worked'
  <2>1. label = "acquire" => lease[l] # "open" /\ \A u \in Threads : arg[u] # l
    BY <1>1, <1>2, <1>6 DEF Enter, Goto, TypeOK
  <2>2. \A u \in Threads : pc[u] \in Acquiring => arg[u] # l
    BY <1>1, <2>1 DEF Acquiring
  <2> QED BY <1>3, <1>6, <2>1, <2>2 DEF Worked, Acquiring, moduleVars
<1>10. Owned'
  BY <1>3, <1>4, <1>6 DEF Owned, moduleVars
<1>11. StillPermitted'
  BY <1>3, <1>6, <1>7 DEF StillPermitted, moduleVars
<1> QED BY <1>5, <1>7, <1>8, <1>9, <1>10, <1>11

\* A call ends without having changed anything.
LEMMA LeaveStep ==
    ASSUME AccountInv, NEW t \in Threads,
           AcquireRefused(t) \/ CreateFails(t) \/ ReleaseClosed(t) \/ DestroyFails(t)
    PROVE  AccountInv'
<1> USE Names DEF AccountInv
<1>1. /\ pc' = [pc EXCEPT ![t] = "idle"] /\ arg' = [arg EXCEPT ![t] = None]
      /\ lock' = None /\ lock \in {t, None}
      /\ UNCHANGED <<moduleVars, processVars, leaseVars, nativeVars>>
      /\ pc[t] \in {"acquire", "create", "release", "destroy"}
  BY DEF AcquireRefused, CreateFails, ReleaseClosed, DestroyFails, Return, Sectioned,
     Sections
<1>2. TypeOK'
  BY <1>1 DEF TypeOK, moduleVars, processVars, leaseVars, nativeVars
<1>3. /\ \A u \in Threads \ {t} : pc'[u] = pc[u] /\ arg'[u] = arg[u]
      /\ pc'[t] = "idle" /\ arg'[t] = None
  BY <1>1 DEF TypeOK
<1>4. Agreed' /\ Exact' /\ InForce' = InForce
  BY <1>1, <1>3, QuietGlobals DEF processVars, leaseVars
<1>5. Sectioned'
  BY <1>1, <1>3 DEF Sectioned, Sections
<1>6. Worked' /\ Owned'
  <2>1. \A u \in Threads : pc[u] \in Acquiring => arg[u] # None
    BY DEF Sectioned, Acquiring
  <2>2. Worked'
    BY <1>1, <1>3, <2>1 DEF Worked, Acquiring, leaseVars, moduleVars
  <2>3. Owned'
    BY <1>1, <1>3 DEF Owned, TypeOK, leaseVars, moduleVars
  <2> QED BY <2>2, <2>3
<1>7. StillPermitted'
  BY <1>1, <1>3, <1>4 DEF StillPermitted, moduleVars
<1> QED BY <1>2, <1>4, <1>5, <1>6, <1>7

\* _lock is taken, or a native call is made.
LEMMA SectionStep ==
    ASSUME AccountInv, NEW t \in Threads,
           AcquireChecked(t) \/ Create(t) \/ ReleaseBegin(t) \/ Destroy(t)
    PROVE  AccountInv'
<1> USE Names DEF AccountInv
<1>1. PICK label \in {"create", "name", "register", "destroy", "remove"} :
         /\ pc' = [pc EXCEPT ![t] = label] /\ arg' = arg /\ lock' = t
         /\ lock \in {t, None}
         /\ \/ pc[t] = "acquire" /\ label = "create" /\ Permitted(arg[t])
            \/ pc[t] = "create" /\ label = IF Rtc(arg[t]) THEN "name" ELSE "register"
            \/ pc[t] = "release" /\ label = "destroy" /\ arg[t] \in active
            \/ pc[t] = "destroy" /\ label = "remove"
  <2>1. CASE AcquireChecked(t)
    BY <2>1 DEF AcquireChecked, Goto
  <2>2. CASE Create(t)
    BY <2>2 DEF Create, Goto, Sectioned, Sections
  <2>3. CASE ReleaseBegin(t)
    BY <2>3 DEF ReleaseBegin, Goto
  <2>4. CASE Destroy(t)
    BY <2>4 DEF Destroy, Goto, Sectioned, Sections
  <2> QED BY <2>1, <2>2, <2>3, <2>4
<1>2. UNCHANGED <<moduleVars, processVars, leaseVars>>
  BY DEF AcquireChecked, Create, ReleaseBegin, Destroy
<1>3. arg[t] \in Leases
  BY <1>1 DEF TypeOK, Sectioned
<1>4. handles' \subseteq Leases /\ up' \subseteq Products
  BY <1>3, OptionFacts DEF AcquireChecked, Create, ReleaseBegin, Destroy, Destroyed, TypeOK,
     nativeVars
<1>5. TypeOK'
  BY <1>1, <1>2, <1>4 DEF TypeOK, moduleVars, processVars, leaseVars, Sections
<1>6. pc'[t] = label /\ \A u \in Threads \ {t} : pc'[u] = pc[u]
  BY <1>1 DEF TypeOK
<1>7. Agreed' /\ Exact' /\ InForce' = InForce
  BY <1>1, <1>2, <1>6, QuietGlobals DEF processVars, leaseVars
<1>8. Sectioned'
  BY <1>1, <1>6 DEF Sectioned, Sections
<1>9. Worked' /\ Owned'
  BY <1>1, <1>2, <1>6 DEF Worked, Owned, Acquiring, leaseVars, moduleVars
<1>10. StillPermitted'
  <2>1. ASSUME NEW u \in Threads, pc'[u] \in {"create", "name", "register"}
        PROVE  /\ shared \in {None, Options[arg[u]].shared}
               /\ Counted(arg[u]) => extConfig \in {None, Options[arg[u]].legacy}
               /\ Rtc(arg[u]) => /\ \A l \in InForce : ~Rtc(l)
                                 /\ rtcLease = IF pc'[u] = "register" THEN arg[u] ELSE None
    <3>1. CASE u = t /\ pc[t] = "acquire"
      <4>1. \A l \in InForce : l \in Leases
        BY DEF InForce, Forgetting, TypeOK
      <4>2. Rtc(arg[t]) => \A l \in InForce : ~Rtc(l)
        BY <1>1, <3>1, <4>1 DEF Permitted, Agreed
      <4> QED BY <1>1, <1>6, <3>1, <4>2 DEF Permitted
    <3>2. CASE u = t /\ pc[t] = "create"
      BY <1>1, <1>6, <3>2 DEF StillPermitted
    <3>3. CASE u = t /\ pc[t] \notin {"acquire", "create"}
      BY <1>1, <1>6, <2>1, <3>3
    <3>4. CASE u # t
      BY <1>6, <2>1, <3>4 DEF StillPermitted
    <3> QED BY <3>1, <3>2, <3>3, <3>4
  <2> QED BY <1>1, <1>2, <1>7, <2>1 DEF StillPermitted, moduleVars, Counted, External, Rtc
<1> QED BY <1>5, <1>7, <1>8, <1>9, <1>10

LEMMA NameStep ==
    ASSUME AccountInv, NEW t \in Threads, NameRtcLease(t)
    PROVE  AccountInv'
<1> USE Names DEF AccountInv
<1>1. /\ pc[t] = "name" /\ pc' = [pc EXCEPT ![t] = "register"] /\ rtcLease' = arg[t]
      /\ UNCHANGED <<lock, active, extConfig, extCount, shared, processVars, leaseVars,
                     nativeVars, arg>>
  BY DEF NameRtcLease, Goto
<1>2. arg[t] \in Leases /\ Rtc(arg[t])
  BY <1>1 DEF TypeOK, Sectioned, Worked
<1>3. TypeOK'
  BY <1>1, <1>2 DEF TypeOK, processVars, leaseVars, nativeVars, Sections
<1>4. pc'[t] = "register" /\ \A u \in Threads \ {t} : pc'[u] = pc[u]
  BY <1>1 DEF TypeOK
<1>5. Sectioned'
  BY <1>1, <1>4 DEF Sectioned, Sections
<1>6. Worked' /\ Owned'
  BY <1>1, <1>4 DEF Worked, Owned, Acquiring, leaseVars
<1>7. InForce' = InForce
  <2>1. Forgetting' = Forgetting
    BY <1>1, <1>4 DEF Forgetting
  <2> QED BY <1>1, <2>1 DEF InForce
<1>8. rtcLease = None /\ \A l \in InForce : ~Rtc(l)
  BY <1>1, <1>2 DEF StillPermitted
<1>9. Agreed'
  BY <1>1, <1>7, <1>8 DEF Agreed, CountedOf, Counted, External, Rtc
<1>10. \A u \in Threads \ {t} : pc[u] \notin Sections
  BY <1>1 DEF Sectioned, Sections
<1>11. StillPermitted'
  BY <1>1, <1>2, <1>4, <1>7, <1>8, <1>10 DEF StillPermitted, Sections, Counted, External, Rtc
<1>12. Exact'
  BY <1>1, <1>2, <1>4, <1>7 DEF Exact, CountedOf, Counted, External, Rtc, processVars,
     leaseVars
<1> QED BY <1>3, <1>5, <1>6, <1>9, <1>11, <1>12

LEMMA RegisterStep ==
    ASSUME AccountInv, NEW t \in Threads, Register(t)
    PROVE  AccountInv'
<1> USE Names DEF AccountInv
<1>0. PICK l \in Leases : l = arg[t]
  BY DEF Register, TypeOK, Sectioned
<1>1. /\ pc[t] = "register" /\ pc' = [pc EXCEPT ![t] = "idle"]
      /\ arg' = [arg EXCEPT ![t] = None] /\ lock' = None
      /\ active' = active \cup {l}
      /\ lease' = [lease EXCEPT ![l] = "open"]
      /\ extConfig' = (IF Counted(l) THEN Options[l].legacy ELSE extConfig)
      /\ extCount' = (IF Counted(l) THEN extCount + 1 ELSE extCount)
      /\ shared' = (IF shared = None THEN Options[l].shared ELSE shared)
      /\ UNCHANGED <<rtcLease, processVars, garbage, nativeVars>>
  BY <1>0 DEF Register, Return
<1>2. TypeOK'
  BY <1>1 DEF TypeOK, processVars, nativeVars
<1>3. /\ \A u \in Threads \ {t} : pc'[u] = pc[u] /\ arg'[u] = arg[u]
      /\ pc'[t] = "idle" /\ arg'[t] = None
      /\ lease'[l] = "open" /\ \A k \in Leases \ {l} : lease'[k] = lease[k]
  BY <1>1 DEF TypeOK
<1>4. /\ \A u \in Threads \ {t} : pc[u] \notin Sections /\ arg[u] # l
      /\ lease[l] # "open" /\ lock = t
  BY <1>0, <1>1 DEF Sectioned, Sections, Worked, Acquiring
<1>5. Sectioned'
  BY <1>1, <1>3, <1>4 DEF Sectioned, Sections
<1>6. Worked'
  <2>1. \A u \in Threads : pc[u] \in Acquiring => arg[u] # None /\ arg[u] \in Leases
    BY DEF Sectioned, Acquiring, TypeOK
  <2>2. \A u \in Threads \ {t} : pc[u] \notin {"name", "destroy", "remove", "forget"}
    BY <1>4 DEF Sections
  <2> QED BY <1>3, <1>4, <2>1, <2>2 DEF Worked, Acquiring
<1>7. Owned'
  BY <1>1, <1>3, <1>4 DEF Owned, TypeOK
<1>8. Forgetting = {} /\ Forgetting' = {}
  BY <1>1, <1>3, <1>4 DEF Forgetting, Sections
<1>9. /\ InForce = active /\ InForce' = active \cup {l} /\ l \notin active
      /\ active \in SUBSET Leases
  BY <1>1, <1>4, <1>8 DEF InForce, Owned, TypeOK
<1>10. CountedOf(InForce') = IF Counted(l) THEN CountedOf(InForce) + 1 ELSE CountedOf(InForce)
  BY <1>9, CountedAdd
<1>11. /\ shared \in {None, Options[l].shared}
       /\ Counted(l) => extConfig \in {None, Options[l].legacy}
       /\ Rtc(l) => rtcLease = l /\ \A k \in InForce : ~Rtc(k)
  BY <1>0, <1>1 DEF StillPermitted
<1>12. \A k \in active : shared = Options[k].shared /\ shared # None
                          /\ (Counted(k) => extConfig = Options[k].legacy /\ extConfig # None)
  BY <1>9, OptionFacts DEF Agreed
<1>13. extCount \in Nat /\ CountedOf(InForce) \in Nat
  BY <1>9, CountedFinite DEF TypeOK
<1>14. Agreed'
  <2>1. \A k \in active \cup {l} : Rtc(k) => rtcLease = k
    BY <1>9, <1>11 DEF Agreed
  <2>2. \A k \in active \cup {l} : /\ Counted(k) => extConfig' = Options[k].legacy
                                   /\ shared' = Options[k].shared
    BY <1>1, <1>11, <1>12
  <2>3. extCount' >= CountedOf(InForce')
    BY <1>1, <1>10, <1>13 DEF Agreed
  <2>4. CountedOf(InForce)' = CountedOf(InForce')
    BY DEF CountedOf, Counted, External, Rtc
  <2>5. (\A k \in InForce : /\ Rtc(k) => rtcLease = k
                            /\ Counted(k) => extConfig = Options[k].legacy)'
    BY <1>1, <1>9, <2>1, <2>2 DEF Counted, External, Rtc
  <2>6. (\A k \in active : shared = Options[k].shared)'
    BY <1>1, <2>2
  <2> QED BY <2>3, <2>4, <2>5, <2>6 DEF Agreed
<1>15. StillPermitted'
  BY <1>3, <1>4 DEF StillPermitted, Sections
<1>16. Exact'
  <2> SUFFICES ASSUME ~torn PROVE Exact'
    BY <1>1 DEF Exact, processVars
  <2>1. extCount' = CountedOf(InForce')
    BY <1>1, <1>10 DEF Exact
  <2>2. \A k \in Leases : lease'[k] = "open" => k \in InForce'
    BY <1>3, <1>9 DEF Exact
  <2>3. rtcLease # None => Rtc(rtcLease) /\ rtcLease \in InForce'
    BY <1>0, <1>4, <1>9 DEF Exact, Sections
  <2>4. extConfig' # None => extCount' > 0
    BY <1>1, <1>13 DEF Exact
  <2> QED BY <1>1, <2>1, <2>2, <2>3, <2>4 DEF Exact, CountedOf, Counted, External, Rtc
<1> QED BY <1>2, <1>5, <1>6, <1>7, <1>14, <1>15, <1>16

LEMMA RemoveStep ==
    ASSUME AccountInv, NEW t \in Threads, Remove(t)
    PROVE  AccountInv'
<1> USE Names DEF AccountInv
<1>1. /\ pc[t] = "remove" /\ pc' = [pc EXCEPT ![t] = "forget"]
      /\ active' = active \ {arg[t]}
      /\ UNCHANGED <<lock, rtcLease, extConfig, extCount, shared, processVars, leaseVars,
                     nativeVars, arg>>
  BY DEF Remove, Goto
<1>2. TypeOK'
  BY <1>1 DEF TypeOK, processVars, leaseVars, nativeVars, Sections
<1>3. /\ pc'[t] = "forget" /\ \A u \in Threads \ {t} : pc'[u] = pc[u]
      /\ \A u \in Threads \ {t} : pc[u] \notin Sections
  BY <1>1 DEF TypeOK, Sectioned, Sections
<1>4. Sectioned'
  BY <1>1, <1>3 DEF Sectioned, Sections
<1>5. arg[t] \in active /\ lease[arg[t]] = "open" /\ arg[t] \in Leases
  BY <1>1 DEF Worked, Owned, TypeOK
<1>6. Worked' /\ Owned'
  BY <1>1, <1>3, <1>5 DEF Worked, Owned, Acquiring, leaseVars, Sections
<1>7. Forgetting = {} /\ Forgetting' = {arg[t]}
  BY <1>1, <1>3, <1>5 DEF Forgetting, Sections
<1>8. InForce' = InForce
  BY <1>1, <1>5, <1>7 DEF InForce
<1>9. Agreed' /\ StillPermitted'
  BY <1>1, <1>3, <1>8 DEF Agreed, StillPermitted, Sections, CountedOf, Counted, External, Rtc
<1>10. Exact'
  BY <1>1, <1>3, <1>8 DEF Exact, Sections, CountedOf, Counted, External, Rtc, processVars,
     leaseVars
<1> QED BY <1>2, <1>4, <1>6, <1>9, <1>10

\* The end of _release, by the caller or inside the section of another thread.
LEMMA ForgottenGlobals ==
    ASSUME AccountInv, NEW l \in InForce, Forgotten(l, active \ {l}),
           active' = active \ {l}, InForce' = InForce \ {l}, torn' = torn,
           \A u \in Threads :
               pc[u] \in {"create", "name", "register"}
                 \/ pc'[u] \in {"create", "name", "register"}
               => pc'[u] = pc[u] /\ arg'[u] = arg[u] /\ arg[u] # l
    PROVE  Agreed' /\ StillPermitted' /\ Exact'
<1> USE Names DEF AccountInv
<1>1. InForce \in SUBSET Leases /\ l \in Leases
  BY DEF InForce, Forgetting, TypeOK
<1>2. CountedOf(InForce) = IF Counted(l) THEN CountedOf(InForce') + 1 ELSE CountedOf(InForce')
  BY <1>1, CountedRemove
<1>3. extCount \in Nat /\ CountedOf(InForce) \in Nat /\ CountedOf(InForce') \in Nat
      /\ extCount >= CountedOf(InForce)
  BY <1>1, CountedFinite DEF TypeOK, Agreed
<1>4. /\ rtcLease' = (IF Rtc(l) THEN None ELSE rtcLease)
      /\ extCount' = (IF Counted(l) THEN extCount - 1 ELSE extCount)
      /\ extConfig' = (IF Counted(l) /\ extCount = 1 THEN None ELSE extConfig)
      /\ lease' = [lease EXCEPT ![l] = "closed"]
      /\ shared' = (IF active' = {} THEN None ELSE shared)
  BY DEF Forgotten
<1>5. CountedOf(InForce)' = CountedOf(InForce')
  BY DEF CountedOf, Counted, External, Rtc
<1>6. extCount' >= CountedOf(InForce')
  BY <1>2, <1>3, <1>4
<1>7. Agreed'
  <2>1. \A k \in InForce' : Rtc(k) => rtcLease' = k
    BY <1>4 DEF Agreed
  <2>2. ASSUME NEW k \in InForce', Counted(k) PROVE extConfig' = Options[k].legacy
    <3>1. Counted(l) => CountedOf(InForce) >= 2
      BY <1>1, <2>2, CountedPositive
    <3> QED BY <1>3, <1>4, <2>2, <3>1 DEF Agreed
  <2>3. \A k \in active' : shared' = Options[k].shared
    BY <1>4 DEF Agreed
  <2> QED BY <1>5, <1>6, <2>1, <2>2, <2>3 DEF Agreed, Counted, External, Rtc
<1>8. StillPermitted'
  BY <1>4 DEF StillPermitted, Counted, External, Rtc
<1>9. Exact'
  <2> SUFFICES ASSUME ~torn PROVE Exact'
    BY DEF Exact
  <2>1. extCount' = CountedOf(InForce')
    BY <1>2, <1>3, <1>4 DEF Exact
  <2>2. \A k \in Leases : lease'[k] = "open" => k \in InForce'
    BY <1>4 DEF Exact, TypeOK
  <2>3. rtcLease' # None =>
            /\ Rtc(rtcLease')
            /\ \/ rtcLease' \in InForce'
               \/ \E u \in Threads : pc'[u] = "register" /\ arg'[u] = rtcLease'
    BY <1>4 DEF Exact
  <2>4. extConfig' # None => extCount' > 0
    BY <1>2, <1>3, <1>4 DEF Exact
  <2> QED BY <1>4, <1>5, <2>1, <2>2, <2>3, <2>4 DEF Exact, Rtc
<1> QED BY <1>7, <1>8, <1>9

LEMMA ForgetStep ==
    ASSUME AccountInv, NEW t \in Threads, Forget(t)
    PROVE  AccountInv'
<1> USE Names DEF AccountInv
<1>0. PICK l \in Leases : l = arg[t]
  BY DEF Forget, TypeOK, Sectioned
<1>1. /\ pc[t] = "forget" /\ pc' = [pc EXCEPT ![t] = "idle"]
      /\ arg' = [arg EXCEPT ![t] = None] /\ lock' = None
      /\ Forgotten(l, active)
      /\ UNCHANGED <<active, processVars, garbage, nativeVars>>
  BY <1>0 DEF Forget, Return
<1>2. /\ l \notin active /\ lease[l] = "open" /\ lock = t /\ l \notin garbage
      /\ \A u \in Threads \ {t} : pc[u] \notin Sections
  BY <1>0, <1>1 DEF Worked, Sectioned, Sections, Owned
<1>3. /\ \A u \in Threads \ {t} : pc'[u] = pc[u] /\ arg'[u] = arg[u]
      /\ pc'[t] = "idle" /\ arg'[t] = None
      /\ lease'[l] = "closed" /\ \A k \in Leases \ {l} : lease'[k] = lease[k]
  BY <1>1 DEF TypeOK, Forgotten
<1>4. Forgetting = {l} /\ Forgetting' = {}
  BY <1>0, <1>1, <1>2, <1>3 DEF Forgetting, Sections
<1>5. l \in InForce /\ InForce' = InForce \ {l} /\ active' = active \ {l}
      /\ active \ {l} = active
  BY <1>1, <1>2, <1>4 DEF InForce
<1>6. Agreed' /\ StillPermitted' /\ Exact'
  <2>1. Forgotten(l, active \ {l})
    BY <1>1, <1>5
  <2>2. \A u \in Threads :
               pc[u] \in {"create", "name", "register"}
                 \/ pc'[u] \in {"create", "name", "register"}
               => pc'[u] = pc[u] /\ arg'[u] = arg[u] /\ arg[u] # l
    BY <1>1, <1>2, <1>3 DEF Sections
  <2> QED BY <1>1, <1>5, <2>1, <2>2, ForgottenGlobals DEF processVars
<1>7. Sectioned'
  BY <1>1, <1>2, <1>3 DEF Sectioned, Sections
<1>8. Worked'
  <2>1. \A u \in Threads : pc[u] \in Acquiring => arg[u] # None /\ arg[u] \in Leases
    BY DEF Sectioned, Acquiring, TypeOK
  <2>2. \A u \in Threads \ {t} : pc[u] \notin {"name", "destroy", "remove", "forget"}
    BY <1>2 DEF Sections
  <2> QED BY <1>3, <2>1, <2>2 DEF Worked, Acquiring
<1>9. Owned'
  <2>1. active \subseteq Leases \ {l} /\ garbage \subseteq Leases \ {l}
    BY <1>2 DEF TypeOK
  <2> QED BY <1>1, <1>3, <2>1 DEF Owned
<1>10. TypeOK'
  <2>1. extCount' \in Nat
    <3>1. InForce \in SUBSET Leases
      BY DEF InForce, Forgetting, TypeOK
    <3>2. Counted(l) => CountedOf(InForce) >= 1
      BY <1>5, <3>1, CountedPositive
    <3>3. CountedOf(InForce) \in Nat
      BY <3>1, CountedFinite
    <3> QED BY <1>1, <3>2, <3>3 DEF Forgotten, TypeOK, Agreed
  <2> QED BY <1>1, <2>1 DEF TypeOK, Forgotten, processVars, nativeVars
<1> QED BY <1>6, <1>7, <1>8, <1>9, <1>10

\* A finalizer runs the whole of _release inside the section of a thread.
LEMMA CollectStep ==
    ASSUME AccountInv, NEW t \in Threads, Collect(t)
    PROVE  AccountInv'
<1> USE Names DEF AccountInv
<1>1. PICK l \in garbage : /\ l \in active
                           /\ Destroyed(l)
                           /\ Forgotten(l, active \ {l})
                           /\ active' = active \ {l}
                           /\ garbage' = garbage \ {l}
  BY DEF Collect
<1>2. /\ reentered' \in BOOLEAN
      /\ UNCHANGED <<lock, forkedWithRuntime, finalizing, inherited, underway, forks, torn,
                     pc, arg>>
  BY DEF Collect, threadVars, TypeOK, Counted, External, Rtc
<1>3. l \in Leases /\ \A u \in Threads : arg[u] # l
  BY <1>1 DEF TypeOK, Owned
<1>4. lease'[l] = "closed" /\ \A k \in Leases \ {l} : lease'[k] = lease[k]
  BY <1>1, <1>3 DEF TypeOK, Forgotten
<1>5. Forgetting' = Forgetting /\ l \notin Forgetting
  BY <1>2, <1>3 DEF Forgetting
<1>6. l \in InForce /\ InForce' = InForce \ {l}
  BY <1>1, <1>5 DEF InForce
<1>7. Agreed' /\ StillPermitted' /\ Exact'
  BY <1>1, <1>2, <1>3, <1>6, ForgottenGlobals
<1>8. Sectioned'
  BY <1>2 DEF Sectioned
<1>9. Worked'
  <2>1. \A u \in Threads : pc[u] \in Acquiring \cup {"forget"} => arg[u] \in Leases \ {l}
    BY <1>3 DEF Sectioned, Acquiring, TypeOK
  <2> QED BY <1>1, <1>2, <1>3, <1>4, <2>1 DEF Worked, Rtc
<1>10. Owned'
  <2>1. active' \subseteq Leases \ {l} /\ garbage' \subseteq Leases \ {l}
    BY <1>1 DEF TypeOK
  <2> QED BY <1>1, <1>2, <1>4, <2>1 DEF Owned
<1>11. TypeOK'
  <2>1. extCount' \in Nat
    <3>1. InForce \in SUBSET Leases
      BY DEF InForce, Forgetting, TypeOK
    <3>2. Counted(l) => CountedOf(InForce) >= 1
      BY <1>6, <3>1, CountedPositive
    <3>3. CountedOf(InForce) \in Nat
      BY <3>1, CountedFinite
    <3> QED BY <1>1, <3>2, <3>3 DEF Forgotten, TypeOK, Agreed
  <2>2. handles' \subseteq Leases /\ up' \subseteq Products
    BY <1>1 DEF Destroyed, TypeOK
  <2> QED BY <1>1, <1>2, <2>1, <2>2 DEF TypeOK, Forgotten
<1> QED BY <1>7, <1>8, <1>9, <1>10, <1>11

\* The child keeps the globals of its parent and none of its other threads.
LEMMA ForkStep ==
    ASSUME AccountInv, NEW t \in Threads, Fork(t)
    PROVE  AccountInv'
<1> USE Names DEF AccountInv
<1>1. /\ forks < MaxForks /\ forks' = forks + 1
      /\ lock' = None /\ forkedWithRuntime' = (active # {})
      /\ inherited' = inherited \cup up \cup handles
      /\ underway' = underway \cup Started
      /\ torn' = (torn \/ \E u \in Threads : pc[u] \in Sections)
      /\ pc' = [u \in Threads |-> IF u = t THEN "idle" ELSE "gone"]
      /\ arg' = [u \in Threads |-> None]
      /\ UNCHANGED <<moduleVars, finalizing, leaseVars, nativeVars, reentered>>
  BY DEF Fork, ForkHook
<1>2. \A u \in Threads : pc'[u] \in {"idle", "gone"} /\ arg'[u] = None
  BY <1>1
<1>3. TypeOK'
  <2>1. forks' \in 0 .. MaxForks
    BY <1>1, BoundsAssumption DEF TypeOK
  <2>2. /\ pc' \in [Threads -> Sections \cup {"idle", "acquire", "release", "gone"}]
        /\ arg' \in [Threads -> Leases \cup {None}]
    BY <1>1
  <2>3. Started \subseteq Products \cup Leases
    BY OptionsAssumption DEF Started
  <2> QED BY <1>1, <2>1, <2>2, <2>3 DEF TypeOK, moduleVars, leaseVars, nativeVars
<1>4. Sectioned' /\ Worked'
  BY <1>1, <1>2 DEF Sectioned, Worked, Sections, Acquiring
<1>5. Owned'
  BY <1>1, <1>2 DEF Owned, TypeOK, moduleVars, leaseVars
<1>6. StillPermitted'
  BY <1>2 DEF StillPermitted
<1>7. InForce' = active /\ active \subseteq InForce /\ InForce \in SUBSET Leases
  BY <1>1, <1>2 DEF InForce, Forgetting, TypeOK, moduleVars
<1>8. CountedOf(InForce)' = CountedOf(active)
  BY <1>7 DEF CountedOf, Counted, External, Rtc
<1>9. CountedOf(active) <= CountedOf(InForce)
  <2>1. {l \in active : Counted(l)} \in SUBSET {l \in InForce : Counted(l)}
    BY <1>7
  <2> QED BY <1>7, <2>1, CountedFinite, FS_Subset DEF CountedOf
<1>10. Agreed'
  <2>1. extCount \in Nat /\ CountedOf(active) \in Nat /\ CountedOf(InForce) \in Nat
    BY <1>7, CountedFinite DEF TypeOK
  <2>2. extCount >= CountedOf(active)
    BY <1>9, <2>1 DEF Agreed
  <2> QED BY <1>1, <1>7, <1>8, <2>2 DEF Agreed, moduleVars, Counted, External, Rtc
<1>11. Exact'
  <2> SUFFICES ASSUME ~torn' PROVE Exact'
    BY DEF Exact
  <2>1. ~torn /\ \A u \in Threads : pc[u] \notin {"register", "forget"}
    BY <1>1 DEF Sections
  <2>2. InForce = active
    BY <2>1 DEF InForce, Forgetting
  <2> QED BY <1>1, <1>7, <1>8, <2>1, <2>2 DEF Exact, moduleVars, leaseVars, Rtc
<1> QED BY <1>3, <1>4, <1>5, <1>6, <1>10, <1>11

LEMMA OutsideStep ==
    ASSUME AccountInv, Drop \/ MarkFinalizing \/ UNCHANGED vars
    PROVE  AccountInv'
<1> USE Names DEF AccountInv
<1>1. /\ UNCHANGED <<lock, moduleVars, forkedWithRuntime, inherited, underway, forks, torn,
                     reentered, lease, nativeVars, pc, arg>>
      /\ finalizing' \in BOOLEAN
      /\ \/ garbage' = garbage
         \/ \E l \in Leases : /\ lease[l] = "open" /\ garbage' = garbage \cup {l}
                              /\ \A u \in Threads : arg[u] # l
  BY DEF Drop, MarkFinalizing, vars, processVars, leaseVars, threadVars, TypeOK
<1>2. TypeOK'
  BY <1>1 DEF TypeOK, moduleVars, nativeVars
<1>3. Sectioned' /\ Worked' /\ Owned'
  BY <1>1 DEF Sectioned, Worked, Owned, moduleVars, Rtc
<1>4. Agreed' /\ Exact' /\ InForce' = InForce
  BY <1>1, QuietGlobals
<1>5. StillPermitted'
  BY <1>1, <1>4 DEF StillPermitted, moduleVars, Counted, External, Rtc
<1> QED BY <1>2, <1>3, <1>4, <1>5

LEMMA AccountStep == AccountInv /\ [Next]_vars => AccountInv'
<1> SUFFICES ASSUME AccountInv, [Next]_vars PROVE AccountInv'
  OBVIOUS
<1>1. ASSUME NEW t \in Threads, Step(t) PROVE AccountInv'
  BY <1>1, EnterStep, LeaveStep, SectionStep, NameStep, RegisterStep, RemoveStep, ForgetStep,
     CollectStep, ForkStep DEF Step
<1> QED BY <1>1, OutsideStep DEF Next
-----------------------------------------------------------------------------
(* The native runtime.                                                     *)

\* With one thread inside a section, and with none.
LEMMA NativeAlone ==
    ASSUME AccountInv, NEW t \in Threads, pc[t] \in Sections
    PROVE  /\ NativeOf = (IF pc[t] = "remove" THEN active \ {arg[t]} ELSE active)
                         \cup (IF pc[t] \in {"name", "register"} THEN {arg[t]} ELSE {})
           /\ pc[t] # "forget" => InForce = active
<1>1. /\ \A u \in Threads \ {t} : pc[u] \notin Sections
      /\ active \subseteq Leases /\ arg[t] \in Leases
  BY Names DEF AccountInv, Sectioned, TypeOK, Sections
<1>2. NativeOf = (IF pc[t] = "remove" THEN active \ {arg[t]} ELSE active)
                 \cup (IF pc[t] \in {"name", "register"} THEN {arg[t]} ELSE {})
  BY <1>1 DEF NativeOf, Sections
<1>3. pc[t] # "forget" => InForce = active
  BY <1>1 DEF InForce, Forgetting, Sections
<1> QED BY <1>2, <1>3

LEMMA NativeIdle ==
    ASSUME AccountInv, \A u \in Threads : pc[u] \notin Sections
    PROVE  NativeOf = active /\ InForce = active
BY DEF AccountInv, TypeOK, NativeOf, InForce, Forgetting, Sections

\* A step that makes no native call and moves no lease.
LEMMA NativeQuiet ==
    ASSUME NativeExact, NativeOf' = NativeOf, UNCHANGED <<handles, up>>,
           torn' \/ torn' = torn, reentered' \/ reentered' = reentered
    PROVE  NativeExact'
BY DEF NativeExact, ProductsOf, External

LEMMA CreateNative ==
    ASSUME AccountInv, AccountInv', NativeExact, NEW t \in Threads, Create(t)
    PROVE  NativeExact'
<1> SUFFICES ASSUME ~torn, ~reentered PROVE NativeExact'
  BY DEF NativeExact, Create, processVars
<1>0. PICK l \in Leases : l = arg[t]
  BY Names DEF AccountInv, Create, TypeOK, Sectioned
<1>1. /\ pc[t] = "create" /\ arg' = arg /\ active' = active
      /\ handles' = (IF External(l) THEN handles ELSE handles \cup {l})
      /\ up' = (IF External(l) /\ (Counted(l) => extCount = 0)
                  THEN up \cup {Options[l].product} ELSE up)
      /\ pc'[t] \in {"name", "register"}
  BY <1>0 DEF Create, Goto, AccountInv, TypeOK, moduleVars
<1>2. NativeOf = active /\ InForce = active /\ NativeOf' = active \cup {l}
  <2>1. NativeOf = active /\ InForce = active
    BY <1>1, NativeAlone DEF Sections
  <2>2. \A u \in Threads \ {t} : pc'[u] \notin Sections
    BY <1>1, Names DEF AccountInv, Sectioned, Sections
  <2>3. NativeOf' = active' \cup {l}
    BY <1>0, <1>1, <2>2 DEF NativeOf, Sections, AccountInv, TypeOK
  <2> QED BY <1>1, <2>1, <2>3
<1>3. /\ handles = {k \in active : ~External(k)}
      /\ up = {Options[k].product : k \in {j \in active : External(j)}}
  BY <1>2 DEF NativeExact, ProductsOf
<1>4. handles' = {k \in active \cup {l} : ~External(k)}
  BY <1>1, <1>3
<1>5. Counted(l) /\ extCount # 0 => Options[l].product \in up
  <2> SUFFICES ASSUME Counted(l), extCount # 0 PROVE Options[l].product \in up
    OBVIOUS
  <2>1. active \in SUBSET Leases /\ CountedOf(active) # 0
    BY <1>2 DEF AccountInv, TypeOK, Exact
  <2>2. PICK k \in active : Counted(k)
    BY <2>1, CountedNone
  <2>3. Options[k].product = "storage" /\ Options[l].product = "storage" /\ External(k)
    BY <2>1, <2>2, OptionFacts
  <2> QED BY <1>3, <2>3
<1>6. up' = {Options[k].product : k \in {j \in active \cup {l} : External(j)}}
  <2>1. CASE External(l)
    <3>1. up' = up \cup {Options[l].product}
      BY <1>1, <1>5, <2>1
    <3>2. {j \in active \cup {l} : External(j)} = {j \in active : External(j)} \cup {l}
      BY <2>1
    <3> QED BY <1>3, <3>1, <3>2
  <2>2. CASE ~External(l)
    <3>1. {j \in active \cup {l} : External(j)} = {j \in active : External(j)}
      BY <2>2
    <3> QED BY <1>1, <1>3, <2>2, <3>1
  <2> QED BY <2>1, <2>2
<1> QED BY <1>2, <1>4, <1>6 DEF NativeExact, ProductsOf, External

\* Lease l gives back what it holds, while other leases share the runtime.
LEMMA GivesBackNative ==
    ASSUME AccountInv, NativeExact, ~torn, ~reentered, NEW l \in Leases, Destroyed(l),
           l \in NativeOf, NativeOf' = NativeOf \ {l},
           Rtc(l) => \A k \in NativeOf : Rtc(k) => k = l,
           Counted(l) => extCount = CountedOf(NativeOf)
    PROVE  NativeExact'
<1>1. /\ handles' = (IF External(l) THEN handles ELSE handles \ {l})
      /\ up' = (IF External(l) /\ (Counted(l) => extCount = 1)
                  THEN up \ {Options[l].product} ELSE up)
  BY DEF Destroyed
<1>2. NativeOf \in SUBSET Leases
  BY DEF NativeOf
<1>3. /\ handles = {k \in NativeOf : ~External(k)}
      /\ up = {Options[k].product : k \in {j \in NativeOf : External(j)}}
  BY DEF NativeExact, ProductsOf
<1>4. handles' = {k \in NativeOf \ {l} : ~External(k)}
  BY <1>1, <1>3
<1>6. up' = {Options[k].product : k \in {j \in NativeOf \ {l} : External(j)}}
  <2>1. CASE ~External(l)
    <3>1. {j \in NativeOf \ {l} : External(j)} = {j \in NativeOf : External(j)}
      BY <2>1
    <3> QED BY <1>1, <1>3, <2>1, <3>1
  <2>2. CASE External(l) /\ (Counted(l) => extCount = 1)
    <3>1. \A k \in NativeOf \ {l} : External(k) => Options[k].product # Options[l].product
      <4> SUFFICES ASSUME NEW k \in NativeOf \ {l}, External(k),
                          Options[k].product = Options[l].product
                   PROVE  FALSE
        OBVIOUS
      <4>1. CASE Rtc(l)
        BY <4>1 DEF Rtc
      <4>2. CASE ~Rtc(l)
        <5>1. Counted(l) /\ Counted(k)
          BY <2>2, <4>2 DEF Counted, Rtc
        <5>2. CountedOf(NativeOf) >= 2
          BY <1>2, <5>1, CountedPositive
        <5> QED BY <2>2, <5>1, <5>2
      <4> QED BY <4>1, <4>2
    <3> QED BY <1>1, <1>3, <2>2, <3>1
  <2>3. CASE Counted(l) /\ extCount # 1
    <3>1. /\ CountedOf(NativeOf) = CountedOf(NativeOf \ {l}) + 1
          /\ NativeOf \ {l} \in SUBSET Leases
      BY <1>2, <2>3, CountedRemove
    <3>2. CountedOf(NativeOf \ {l}) # 0
      BY <2>3, <3>1
    <3>3. PICK k \in NativeOf \ {l} : Counted(k)
      BY <3>1, <3>2, CountedNone
    <3>4. External(k) /\ External(l) /\ Options[k].product = Options[l].product
      BY <1>2, <2>3, <3>3, OptionFacts
    <3>5. up' = up
      BY <1>1, <2>3
    <3> QED BY <1>3, <3>4, <3>5
  <2> QED BY <2>1, <2>2, <2>3
<1> QED BY <1>4, <1>6 DEF NativeExact, ProductsOf, External

\* The thread t in _release, alone in its section.
LEMMA Destroying ==
    ASSUME AccountInv, NEW t \in Threads, Destroy(t)
    PROVE  \E l \in active :
              /\ l \in Leases /\ l = arg[t] /\ Destroyed(l) /\ active' = active
              /\ NativeOf = active /\ InForce = active /\ NativeOf' = active \ {l}
              /\ InForce' = InForce /\ extCount' = extCount
              /\ Rtc(l) => \A k \in active : Rtc(k) => k = l
<1>0. PICK l \in active : l = arg[t]
  BY DEF AccountInv, Destroy, Worked
<1>1. /\ pc[t] = "destroy" /\ arg' = arg /\ active' = active /\ Destroyed(l)
      /\ pc'[t] = "remove" /\ active \in SUBSET Leases /\ extCount' = extCount
  BY <1>0 DEF Destroy, Goto, AccountInv, TypeOK, moduleVars
<1>2. \A u \in Threads \ {t} : pc'[u] \notin Sections
  BY Names DEF AccountInv, Sectioned, Sections, Destroy, Goto, TypeOK
<1>3. NativeOf = active /\ InForce = active
  BY <1>1, NativeAlone DEF Sections
<1>4. NativeOf' = active' \ {l}
  BY <1>0, <1>1, <1>2 DEF NativeOf, Sections, AccountInv, TypeOK
<1>5. InForce' = active'
  BY <1>1, <1>2 DEF InForce, Forgetting, Sections
<1>6. Rtc(l) => \A k \in active : Rtc(k) => k = l
  BY <1>3 DEF AccountInv, Agreed
<1> QED BY <1>0, <1>1, <1>3, <1>4, <1>5, <1>6

LEMMA DestroyNative ==
    ASSUME AccountInv, AccountInv', NativeExact, NEW t \in Threads, Destroy(t)
    PROVE  NativeExact'
<1> SUFFICES ASSUME ~torn, ~reentered PROVE NativeExact'
  BY DEF NativeExact, Destroy, processVars
<1>1. PICK l \in active :
         /\ l \in Leases /\ Destroyed(l)
         /\ NativeOf = active /\ InForce = active /\ NativeOf' = active \ {l}
         /\ Rtc(l) => \A k \in active : Rtc(k) => k = l
  BY Destroying
<1>2. extCount = CountedOf(NativeOf)
  BY <1>1 DEF AccountInv, Exact
<1> QED BY <1>1, <1>2, GivesBackNative

\* The finalizer of lease l inside the section of t.
LEMMA Collecting ==
    ASSUME AccountInv, NEW t \in Threads, Collect(t)
    PROVE  \E l \in active :
              /\ l \in Leases /\ Destroyed(l) /\ Forgotten(l, active \ {l})
              /\ active' = active \ {l} /\ UNCHANGED <<torn, forkedWithRuntime, underway>>
              /\ l \in NativeOf /\ NativeOf' = NativeOf \ {l}
              /\ l \in InForce /\ InForce' = InForce \ {l} /\ InForce \in SUBSET Leases
              /\ Rtc(l) => \A k \in NativeOf : Rtc(k) => k = l
              /\ ~reentered' => ~reentered
              /\ ~reentered' /\ Counted(l) => CountedOf(NativeOf) = CountedOf(InForce)
<1> USE Names DEF AccountInv
<1>1. PICK l \in garbage : /\ l \in active /\ Destroyed(l) /\ Forgotten(l, active \ {l})
                           /\ active' = active \ {l}
                           /\ reentered' = (reentered \/ (Counted(l) /\ Counted(arg[t])))
  BY DEF Collect
<1>2. pc[t] \in Sections /\ UNCHANGED <<torn, forkedWithRuntime, underway, pc, arg>>
  BY DEF Collect, threadVars
<1>3. l \in Leases /\ (\A u \in Threads : arg[u] # l) /\ arg[t] \in Leases
  BY <1>1, <1>2 DEF TypeOK, Owned, Sectioned, Sections
<1>4. /\ NativeOf = (IF pc[t] = "remove" THEN active \ {arg[t]} ELSE active)
                    \cup (IF pc[t] \in {"name", "register"} THEN {arg[t]} ELSE {})
      /\ l \in NativeOf /\ active \in SUBSET Leases
  BY <1>1, <1>2, <1>3, NativeAlone DEF TypeOK
<1>5. NativeOf' = NativeOf \ {l}
  BY <1>1, <1>2, <1>3 DEF NativeOf
<1>6. Forgetting' = Forgetting /\ l \notin Forgetting /\ Forgetting \in SUBSET Leases
  BY <1>2, <1>3 DEF Forgetting
<1>7. l \in InForce /\ InForce' = InForce \ {l} /\ InForce \in SUBSET Leases
  BY <1>1, <1>4, <1>6 DEF InForce
<1>8. Rtc(l) => \A k \in NativeOf : Rtc(k) => k = l
  BY <1>3, <1>4, <1>7 DEF Agreed, StillPermitted, InForce
<1>9. ASSUME ~reentered', Counted(l) PROVE CountedOf(NativeOf) = CountedOf(InForce)
  <2>1. ~Counted(arg[t])
    BY <1>1, <1>9
  <2>2. \A k \in Forgetting : k = arg[t]
    BY <1>2 DEF Forgetting, Sectioned, Sections
  <2>3. {k \in NativeOf : Counted(k)} = {k \in InForce : Counted(k)}
    BY <1>4, <2>1, <2>2 DEF InForce
  <2> QED BY <2>3 DEF CountedOf
<1> QED BY <1>1, <1>2, <1>3, <1>4, <1>5, <1>7, <1>8, <1>9

LEMMA CollectNative ==
    ASSUME AccountInv, NativeExact, NEW t \in Threads, Collect(t)
    PROVE  NativeExact'
<1>1. PICK l \in active :
         /\ l \in Leases /\ Destroyed(l) /\ torn' = torn
         /\ l \in NativeOf /\ NativeOf' = NativeOf \ {l}
         /\ Rtc(l) => \A k \in NativeOf : Rtc(k) => k = l
         /\ ~reentered' => ~reentered
         /\ ~reentered' /\ Counted(l) => CountedOf(NativeOf) = CountedOf(InForce)
  BY Collecting
<1> SUFFICES ASSUME ~torn', ~reentered' PROVE NativeExact'
  BY DEF NativeExact
<1>2. Counted(l) => extCount = CountedOf(NativeOf)
  BY <1>1 DEF AccountInv, Exact
<1> QED BY <1>1, <1>2, GivesBackNative

LEMMA NativeStep ==
    ASSUME AccountInv, AccountInv', NativeExact, [Next]_vars
    PROVE  NativeExact'
<1> USE Names DEF AccountInv
<1>1. ASSUME NEW t \in Threads,
             \/ Acquire(t) \/ Release(t) \/ AcquireRefused(t) \/ CreateFails(t)
             \/ ReleaseClosed(t) \/ DestroyFails(t) \/ AcquireChecked(t)
             \/ ReleaseBegin(t) \/ NameRtcLease(t)
      PROVE  NativeExact'
  <2>1. /\ UNCHANGED <<active, handles, up, torn, reentered>>
        /\ \A u \in Threads \ {t} : pc'[u] = pc[u] /\ arg'[u] = arg[u]
        /\ \/ pc[t] = "name" /\ pc'[t] = "register" /\ arg'[t] = arg[t]
           \/ /\ pc[t] \in {"idle", "acquire", "create", "release", "destroy"}
              /\ pc'[t] \in {"idle", "acquire", "create", "release", "destroy"}
    BY <1>1 DEF Acquire, Release, Enter, AcquireRefused, CreateFails, ReleaseClosed,
       DestroyFails, AcquireChecked, ReleaseBegin, NameRtcLease, Return, Goto, TypeOK,
       moduleVars, processVars, nativeVars
  <2>2. NativeOf' = NativeOf
    BY <2>1 DEF NativeOf
  <2> QED BY <2>1, <2>2, NativeQuiet
<1>2. ASSUME NEW t \in Threads, Register(t) \/ Remove(t) \/ Forget(t) PROVE NativeExact'
  <2>1. /\ UNCHANGED <<handles, up, torn, reentered>>
        /\ pc[t] \in {"register", "remove", "forget"} /\ pc'[t] \in {"idle", "forget"}
        /\ active' = CASE pc[t] = "register" -> active \cup {arg[t]}
                       [] pc[t] = "remove" -> active \ {arg[t]}
                       [] pc[t] = "forget" -> active
        /\ \A u \in Threads \ {t} : pc'[u] = pc[u]
    BY <1>2 DEF Register, Remove, Forget, Return, Goto, TypeOK, processVars, nativeVars
  <2>2. NativeOf = active'
    BY <2>1, NativeAlone DEF Sections
  <2>3. \A u \in Threads : pc'[u] \notin {"name", "register", "remove"}
    BY <2>1 DEF Sectioned, Sections
  <2>4. NativeOf' = active'
    BY <2>3 DEF NativeOf, TypeOK
  <2> QED BY <2>1, <2>2, <2>4, NativeQuiet
<1>3. ASSUME NEW t \in Threads, Collect(t) PROVE NativeExact'
  BY <1>3, CollectNative
<1>4. ASSUME NEW t \in Threads, Fork(t) PROVE NativeExact'
  <2> SUFFICES ASSUME ~torn' PROVE NativeExact'
    BY DEF NativeExact
  <2>1. /\ UNCHANGED <<active, handles, up, torn, reentered>>
        /\ \A u \in Threads : pc[u] \notin Sections /\ pc'[u] \in {"idle", "gone"}
    BY <1>4 DEF Fork, moduleVars, nativeVars, TypeOK
  <2>2. NativeOf = active /\ NativeOf' = active
    BY <2>1, NativeIdle DEF NativeOf, TypeOK
  <2> QED BY <2>1, <2>2, NativeQuiet
<1>5. ASSUME Drop \/ MarkFinalizing \/ UNCHANGED vars PROVE NativeExact'
  <2>1. UNCHANGED <<active, handles, up, torn, reentered, pc, arg>>
    BY <1>5 DEF Drop, MarkFinalizing, vars, moduleVars, processVars, nativeVars, threadVars
  <2>2. NativeOf' = NativeOf
    BY <2>1 DEF NativeOf
  <2> QED BY <2>1, <2>2, NativeQuiet
<1>6. ASSUME NEW t \in Threads, Step(t) PROVE NativeExact'
  BY <1>1, <1>2, <1>3, <1>4, <1>6, CreateNative, DestroyNative DEF Step
<1> QED BY <1>5, <1>6 DEF Next

LEMMA GivenBackStep ==
    ASSUME AccountInv, GivenBack, [Next]_vars
    PROVE  GivenBack'
<1> USE Names DEF AccountInv
<1>1. ASSUME NEW t \in Threads, Step(t), ~Create(t), ~Destroy(t), ~Collect(t)
      PROVE  GivenBack'
  <2>1. /\ UNCHANGED <<handles, up>>
        /\ \A u \in Threads : pc'[u] = "remove" => pc[u] = "remove" /\ arg'[u] = arg[u]
    BY <1>1 DEF Step, Acquire, Release, Enter, AcquireRefused, CreateFails, ReleaseClosed,
       DestroyFails, AcquireChecked, ReleaseBegin, NameRtcLease, Register, Remove, Forget,
       Fork, Return, Goto, TypeOK, nativeVars
  <2> QED BY <2>1 DEF GivenBack, External, Rtc
<1>2. ASSUME NEW t \in Threads, Create(t) PROVE GivenBack'
  <2>1. \A u \in Threads : pc'[u] # "remove"
    BY <1>2 DEF Create, Goto, TypeOK, Sectioned, Sections
  <2>2. \A l \in handles' : ~External(l)
    BY <1>2 DEF Create, GivenBack
  <2> QED BY <2>1, <2>2 DEF GivenBack, External
<1>3. ASSUME NEW t \in Threads, Destroy(t) PROVE GivenBack'
  <2>1. \A u \in Threads \ {t} : pc'[u] # "remove"
    BY <1>3 DEF Destroy, Goto, TypeOK, Sectioned, Sections
  <2>2. Destroyed(arg[t]) /\ arg' = arg /\ arg[t] \in Leases
    BY <1>3 DEF Destroy, Worked, TypeOK
  <2>3. handles' \subseteq handles /\ arg[t] \notin handles'
    BY <2>2 DEF Destroyed, GivenBack
  <2>4. Rtc(arg[t]) /\ External(arg[t]) => "rtc" \notin up'
    BY <2>2, OptionFacts DEF Destroyed
  <2> QED BY <2>1, <2>2, <2>3, <2>4 DEF GivenBack, External, Rtc
<1>4. ASSUME NEW t \in Threads, Collect(t) PROVE GivenBack'
  <2>1. handles' \subseteq handles /\ up' \subseteq up /\ pc' = pc /\ arg' = arg
    BY <1>4 DEF Collect, Destroyed, threadVars
  <2> QED BY <2>1 DEF GivenBack, External, Rtc
<1>5. ASSUME Drop \/ MarkFinalizing \/ UNCHANGED vars PROVE GivenBack'
  <2>1. UNCHANGED <<handles, up, pc, arg>>
    BY <1>5 DEF Drop, MarkFinalizing, vars, nativeVars, threadVars
  <2> QED BY <2>1 DEF GivenBack, External, Rtc
<1> QED BY <1>1, <1>2, <1>3, <1>4, <1>5 DEF Next

\* A step that makes no native call and changes no count.
LEMMA BoundedQuiet ==
    ASSUME Bounded, NativeOf' = NativeOf, UNCHANGED <<handles, up, underway>>,
           reentered' = reentered, forkedWithRuntime' = forkedWithRuntime,
           extCount' > CountedOf(InForce)' => extCount > CountedOf(InForce)
    PROVE  Bounded'
BY DEF Bounded, ProductsOf, External

\* A lease that is forgotten leaves the count as much too high as it was.
LEMMA CountDown ==
    ASSUME AccountInv, NEW l \in InForce, NEW left, Forgotten(l, left),
           InForce' = InForce \ {l}, InForce \in SUBSET Leases
    PROVE  extCount' > CountedOf(InForce)' => extCount > CountedOf(InForce)
<1>1. CountedOf(InForce) = IF Counted(l) THEN CountedOf(InForce') + 1 ELSE CountedOf(InForce')
  BY CountedRemove
<1>2. CountedOf(InForce)' = CountedOf(InForce')
  BY DEF CountedOf, Counted, External, Rtc
<1>3. extCount \in Nat /\ CountedOf(InForce') \in Nat
  BY CountedFinite DEF AccountInv, TypeOK
<1>4. extCount' = IF Counted(l) THEN extCount - 1 ELSE extCount
  BY DEF Forgotten
<1> QED BY <1>1, <1>2, <1>3, <1>4

\* Lease l gives back what it holds: the runtime it shares stays up for another
\* lease, or was under way when the process was forked.
LEMMA GivesBackBounded ==
    ASSUME AccountInv, Bounded, GivenBack, ~reentered, ~forkedWithRuntime, NEW l \in Leases, Destroyed(l),
           l \in NativeOf, NativeOf' = NativeOf \ {l}, underway' = underway,
           l \in InForce, InForce \in SUBSET Leases,
           Rtc(l) => \A k \in NativeOf : Rtc(k) => k = l,
           Counted(l) => CountedOf(NativeOf) = CountedOf(InForce)
    PROVE  /\ handles' \subseteq NativeOf' \cup underway'
           /\ up' \subseteq ProductsOf(NativeOf') \cup underway' /\ up' \subseteq up
<1>1. /\ handles' = (IF External(l) THEN handles ELSE handles \ {l})
      /\ up' = (IF External(l) /\ (Counted(l) => extCount = 1)
                  THEN up \ {Options[l].product} ELSE up)
  BY DEF Destroyed
<1>2. NativeOf \in SUBSET Leases
  BY DEF NativeOf
<1>3. handles' \subseteq NativeOf' \cup underway'
  <2>1. CASE ~External(l)
    BY <1>1, <2>1 DEF Bounded
  <2>2. CASE External(l)
    <3> SUFFICES ASSUME NEW k \in handles' PROVE k \in NativeOf' \cup underway'
      OBVIOUS
    <3>1. k \in handles /\ k \in NativeOf \cup underway
      BY <1>1, <2>2 DEF Bounded
    <3>2. k # l
      BY <2>2, <3>1 DEF GivenBack
    <3> QED BY <3>1, <3>2
  <2> QED BY <2>1, <2>2
<1>4. ASSUME NEW p \in up' PROVE p \in ProductsOf(NativeOf \ {l}) \cup underway
  <2> SUFFICES ASSUME p \notin underway PROVE p \in ProductsOf(NativeOf \ {l})
    OBVIOUS
  <2>1. p \in up /\ p \in ProductsOf(NativeOf)
    BY <1>1, <1>4 DEF Bounded
  <2>2. PICK k \in NativeOf : External(k) /\ p = Options[k].product
    BY <2>1 DEF ProductsOf
  <2>3. CASE k # l
    BY <2>2, <2>3 DEF ProductsOf
  <2>4. CASE k = l
    <3>1. Counted(l) /\ extCount # 1 /\ p = "storage"
      BY <1>1, <1>4, <2>2, <2>4, OptionFacts
    <3>2. CountedOf(InForce) >= 1 /\ extCount >= CountedOf(InForce)
      BY <3>1, CountedPositive DEF AccountInv, Agreed
    <3>3. extCount = CountedOf(InForce)
      <4>1. extCount \in Nat /\ CountedOf(InForce) \in Nat
        BY CountedFinite DEF AccountInv, TypeOK
      <4>2. ~(extCount > CountedOf(InForce))
        BY <2>1, <3>1 DEF Bounded
      <4> QED BY <3>2, <4>1, <4>2
    <3>4. CountedOf(NativeOf) = CountedOf(NativeOf \ {l}) + 1 /\ CountedOf(NativeOf) # 1
      BY <1>2, <3>1, <3>3, CountedRemove
    <3>5. NativeOf \ {l} \in SUBSET Leases /\ CountedOf(NativeOf \ {l}) # 0
      BY <1>2, <3>4
    <3>6. PICK j \in NativeOf \ {l} : Counted(j)
      BY <3>5, CountedNone
    <3>7. External(j) /\ Options[j].product = p
      BY <1>2, <3>1, <3>6, OptionFacts
    <3> QED BY <3>6, <3>7 DEF ProductsOf
  <2> QED BY <2>3, <2>4
<1>5. ProductsOf(NativeOf)' = ProductsOf(NativeOf \ {l})
  BY DEF ProductsOf, External
<1> QED BY <1>1, <1>3, <1>4, <1>5

LEMMA CreateBounded ==
    ASSUME AccountInv, Bounded, NEW t \in Threads, Create(t)
    PROVE  Bounded'
<1> USE Names DEF AccountInv
<1>0. PICK l \in Leases : l = arg[t]
  BY DEF Create, TypeOK, Sectioned
<1>1. /\ pc[t] = "create" /\ arg' = arg /\ active' = active /\ extCount' = extCount
      /\ handles' = (IF External(l) THEN handles ELSE handles \cup {l})
      /\ up' = (IF External(l) /\ (Counted(l) => extCount = 0)
                  THEN up \cup {Options[l].product} ELSE up)
      /\ pc'[t] \in {"name", "register"}
      /\ UNCHANGED <<underway, reentered, forkedWithRuntime>>
  BY <1>0 DEF Create, Goto, TypeOK, moduleVars, processVars
<1> SUFFICES ASSUME ~reentered, ~forkedWithRuntime PROVE Bounded'
  BY <1>1 DEF Bounded
<1>2. NativeOf = active /\ InForce = active
  BY <1>1, NativeAlone DEF Sections
<1>3. \A u \in Threads \ {t} : pc'[u] \notin Sections
  BY <1>1 DEF Sectioned, Sections, Create, Goto, TypeOK
<1>4. NativeOf' = active \cup {l} /\ InForce' = active
  <2>1. NativeOf' = active' \cup {l}
    BY <1>0, <1>1, <1>3 DEF NativeOf, Sections, TypeOK
  <2>2. InForce' = active'
    BY <1>1, <1>3 DEF InForce, Forgetting, Sections
  <2> QED BY <1>1, <2>1, <2>2
<1>5. handles' \subseteq NativeOf' \cup underway'
  BY <1>1, <1>2, <1>4 DEF Bounded
<1>6. up' \subseteq ProductsOf(active \cup {l}) \cup underway
  <2>1. ProductsOf(active) \subseteq ProductsOf(active \cup {l})
    BY DEF ProductsOf
  <2>2. External(l) => Options[l].product \in ProductsOf(active \cup {l})
    BY DEF ProductsOf
  <2> QED BY <1>1, <1>2, <2>1, <2>2 DEF Bounded
<1>7. ProductsOf(NativeOf)' = ProductsOf(active \cup {l})
  BY <1>4 DEF ProductsOf, External
<1>8. CountedOf(InForce)' = CountedOf(InForce)
  BY <1>2, <1>4 DEF CountedOf, Counted, External, Rtc
<1>9. ASSUME extCount > CountedOf(InForce), "storage" \in up' PROVE "storage" \in underway
  <2>1. CountedOf(InForce) \in Nat /\ extCount \in Nat
    BY <1>2, CountedFinite DEF TypeOK
  <2>2. extCount # 0
    BY <1>9, <2>1
  <2>3. "storage" \in up
    <3> SUFFICES ASSUME "storage" \notin up PROVE FALSE
      OBVIOUS
    <3>1. External(l) /\ ~Counted(l) /\ Options[l].product = "storage"
      BY <1>1, <1>9, <2>2
    <3> QED BY <3>1, OptionFacts
  <2> QED BY <1>9, <2>3 DEF Bounded
<1> QED BY <1>1, <1>5, <1>6, <1>7, <1>8, <1>9 DEF Bounded

LEMMA DestroyBounded ==
    ASSUME AccountInv, Bounded, GivenBack, NEW t \in Threads, Destroy(t)
    PROVE  Bounded'
<1>1. UNCHANGED <<underway, reentered, forkedWithRuntime>>
  BY DEF Destroy, processVars
<1> SUFFICES ASSUME ~reentered, ~forkedWithRuntime PROVE Bounded'
  BY <1>1 DEF Bounded
<1>2. PICK l \in active :
         /\ l \in Leases /\ Destroyed(l)
         /\ NativeOf = active /\ InForce = active /\ NativeOf' = active \ {l}
         /\ InForce' = InForce /\ extCount' = extCount
         /\ Rtc(l) => \A k \in active : Rtc(k) => k = l
  BY Destroying
<1>3. active \in SUBSET Leases
  BY DEF AccountInv, TypeOK
<1>4. /\ handles' \subseteq NativeOf' \cup underway'
      /\ up' \subseteq ProductsOf(NativeOf') \cup underway' /\ up' \subseteq up
  BY <1>1, <1>2, <1>3, GivesBackBounded
<1>5. ProductsOf(NativeOf)' = ProductsOf(NativeOf') /\ CountedOf(InForce)' = CountedOf(InForce)
  BY <1>2 DEF ProductsOf, CountedOf, Counted, External, Rtc
<1> QED BY <1>1, <1>2, <1>4, <1>5 DEF Bounded

LEMMA CollectBounded ==
    ASSUME AccountInv, Bounded, GivenBack, NEW t \in Threads, Collect(t)
    PROVE  Bounded'
<1>1. PICK l \in active :
         /\ l \in Leases /\ Destroyed(l) /\ Forgotten(l, active \ {l})
         /\ UNCHANGED <<forkedWithRuntime, underway>>
         /\ l \in NativeOf /\ NativeOf' = NativeOf \ {l}
         /\ l \in InForce /\ InForce' = InForce \ {l} /\ InForce \in SUBSET Leases
         /\ Rtc(l) => \A k \in NativeOf : Rtc(k) => k = l
         /\ ~reentered' => ~reentered
         /\ ~reentered' /\ Counted(l) => CountedOf(NativeOf) = CountedOf(InForce)
  BY Collecting
<1> SUFFICES ASSUME ~reentered', ~forkedWithRuntime PROVE Bounded'
  BY <1>1 DEF Bounded
<1>2. /\ handles' \subseteq NativeOf' \cup underway'
      /\ up' \subseteq ProductsOf(NativeOf') \cup underway' /\ up' \subseteq up
  BY <1>1, GivesBackBounded
<1>3. ProductsOf(NativeOf)' = ProductsOf(NativeOf')
  BY DEF ProductsOf, External
<1>4. extCount' > CountedOf(InForce)' => extCount > CountedOf(InForce)
  BY <1>1, CountDown
<1> QED BY <1>1, <1>2, <1>3, <1>4 DEF Bounded

\* What a thread that was cut has begun, and a lease in force, account for all.
LEMMA ForkBounded ==
    ASSUME AccountInv, Bounded, GivenBack, Refused, NEW t \in Threads, Fork(t)
    PROVE  /\ Bounded'
           /\ ~reentered /\ active = {} => up \cup handles \subseteq underway'
<1>1. /\ forkedWithRuntime' = (active # {}) /\ active' = active
      /\ underway' = underway \cup Started /\ UNCHANGED <<handles, up, reentered>>
  BY DEF Fork, ForkHook, moduleVars, nativeVars
<1>2. ASSUME ~reentered, active = {} PROVE up \cup handles \subseteq underway'
  <2>1. ~forkedWithRuntime
    BY <1>2 DEF Refused
  <2>2. handles \subseteq NativeOf \cup underway /\ up \subseteq ProductsOf(NativeOf) \cup underway
    BY <1>2, <2>1 DEF Bounded
  <2>3. NativeOf = {l \in Leases : \E u \in Threads : pc[u] \in {"name", "register"} /\ arg[u] = l}
    BY <1>2 DEF NativeOf
  <2>4. ProductsOf(NativeOf) \subseteq Started
    BY <2>3 DEF Started, ProductsOf
  <2>5. \A l \in handles : l \in NativeOf => l \in Started
    BY <2>3 DEF Started, GivenBack
  <2> QED BY <1>1, <2>2, <2>4, <2>5
<1>3. Bounded'
  BY <1>1, <1>2 DEF Bounded
<1> QED BY <1>2, <1>3

LEMMA BoundedStep ==
    ASSUME AccountInv, AccountInv', Bounded, GivenBack, Refused, [Next]_vars
    PROVE  Bounded'
<1> USE Names DEF AccountInv
<1>1. ASSUME NEW t \in Threads,
             \/ Acquire(t) \/ Release(t) \/ AcquireRefused(t) \/ CreateFails(t)
             \/ ReleaseClosed(t) \/ DestroyFails(t) \/ AcquireChecked(t)
             \/ ReleaseBegin(t) \/ NameRtcLease(t)
      PROVE  Bounded'
  <2>1. /\ UNCHANGED <<active, handles, up, underway, extCount>>
        /\ reentered' = reentered /\ forkedWithRuntime' = forkedWithRuntime
        /\ \A u \in Threads \ {t} : pc'[u] = pc[u] /\ arg'[u] = arg[u]
        /\ \/ pc[t] = "name" /\ pc'[t] = "register" /\ arg'[t] = arg[t]
           \/ /\ pc[t] \in {"idle", "acquire", "create", "release", "destroy"}
              /\ pc'[t] \in {"idle", "acquire", "create", "release", "destroy"}
    BY <1>1 DEF Acquire, Release, Enter, AcquireRefused, CreateFails, ReleaseClosed,
       DestroyFails, AcquireChecked, ReleaseBegin, NameRtcLease, Return, Goto, TypeOK,
       moduleVars, processVars, nativeVars
  <2>2. NativeOf' = NativeOf /\ InForce' = InForce
    BY <2>1 DEF NativeOf, InForce, Forgetting
  <2>3. CountedOf(InForce)' = CountedOf(InForce)
    BY <2>2 DEF CountedOf, Counted, External, Rtc
  <2> QED BY <2>1, <2>2, <2>3, BoundedQuiet
<1>2. ASSUME NEW t \in Threads, Register(t) \/ Remove(t) \/ Forget(t) PROVE Bounded'
  <2>0. PICK l \in Leases : l = arg[t]
    BY <1>2 DEF Register, Remove, Forget, TypeOK, Sectioned
  <2>1. /\ UNCHANGED <<handles, up, underway>>
        /\ reentered' = reentered /\ forkedWithRuntime' = forkedWithRuntime
        /\ pc[t] \in {"register", "remove", "forget"}
        /\ pc'[t] = IF pc[t] = "remove" THEN "forget" ELSE "idle"
        /\ active' = CASE pc[t] = "register" -> active \cup {arg[t]}
                       [] pc[t] = "remove" -> active \ {arg[t]}
                       [] pc[t] = "forget" -> active
        /\ pc[t] = "remove" => arg' = arg
        /\ \A u \in Threads \ {t} : pc'[u] = pc[u]
    BY <1>2 DEF Register, Remove, Forget, Return, Goto, TypeOK, processVars, nativeVars, leaseVars
  <2>2. NativeOf = active'
    BY <2>1, NativeAlone DEF Sections
  <2>3. \A u \in Threads \ {t} : pc[u] \notin Sections /\ pc'[u] \notin Sections
    BY <2>1 DEF Sectioned, Sections
  <2>4. NativeOf' = active'
    BY <2>1, <2>3 DEF NativeOf, TypeOK, Sections
  <2>5. extCount' > CountedOf(InForce)' => extCount > CountedOf(InForce)
    <3>1. CASE Register(t)
      <4>1. /\ extCount' = (IF Counted(l) THEN extCount + 1 ELSE extCount)
            /\ lease[l] # "open" /\ pc[t] = "register" /\ active \in SUBSET Leases
        BY <2>0, <3>1 DEF Register, Worked, Acquiring, TypeOK
      <4>2. InForce = active /\ InForce' = active \cup {l} /\ l \notin active
        BY <2>0, <2>1, <2>3, <4>1 DEF InForce, Forgetting, Sections, Owned
      <4>3. CountedOf(InForce') = IF Counted(l) THEN CountedOf(InForce) + 1 ELSE CountedOf(InForce)
        BY <4>1, <4>2, CountedAdd
      <4>4. CountedOf(InForce)' = CountedOf(InForce')
        BY DEF CountedOf, Counted, External, Rtc
      <4>5. CountedOf(InForce) \in Nat /\ extCount \in Nat
        BY <4>1, <4>2, CountedFinite DEF TypeOK
      <4> QED BY <4>1, <4>3, <4>4, <4>5
    <3>2. CASE Remove(t)
      <4>1. l \in active /\ pc[t] = "remove" /\ extCount' = extCount
        BY <2>0, <3>2 DEF Remove, Worked
      <4>2. InForce' = InForce
        BY <2>0, <2>1, <2>3, <4>1 DEF InForce, Forgetting, Sections
      <4> QED BY <4>1, <4>2 DEF CountedOf, Counted, External, Rtc
    <3>3. CASE Forget(t)
      <4>1. Forgotten(l, active) /\ l \notin active /\ pc[t] = "forget"
        BY <2>0, <3>3 DEF Forget, Worked
      <4>2. InForce = active \cup {l} /\ InForce' = active /\ active \in SUBSET Leases
        BY <2>0, <2>1, <2>3, <4>1 DEF InForce, Forgetting, Sections, TypeOK
      <4>3. l \in InForce /\ InForce' = InForce \ {l} /\ InForce \in SUBSET Leases
        BY <4>1, <4>2
      <4> QED BY <4>1, <4>3, CountDown
    <3> QED BY <1>2, <3>1, <3>2, <3>3
  <2> QED BY <2>1, <2>2, <2>4, <2>5, BoundedQuiet
<1>3. ASSUME NEW t \in Threads, Create(t) \/ Destroy(t) \/ Collect(t) \/ Fork(t) PROVE Bounded'
  BY <1>3, CreateBounded, DestroyBounded, CollectBounded, ForkBounded
<1>4. ASSUME Drop \/ MarkFinalizing \/ UNCHANGED vars PROVE Bounded'
  <2>1. /\ UNCHANGED <<active, handles, up, underway, extCount, pc, arg>>
        /\ reentered' = reentered /\ forkedWithRuntime' = forkedWithRuntime
    BY <1>4 DEF Drop, MarkFinalizing, vars, moduleVars, processVars, nativeVars, threadVars
  <2>2. NativeOf' = NativeOf /\ InForce' = InForce
    BY <2>1 DEF NativeOf, InForce, Forgetting
  <2>3. CountedOf(InForce)' = CountedOf(InForce)
    BY <2>2 DEF CountedOf, Counted, External, Rtc
  <2> QED BY <2>1, <2>2, <2>3, BoundedQuiet
<1>5. ASSUME NEW t \in Threads, Step(t) PROVE Bounded'
  BY <1>1, <1>2, <1>3, <1>5 DEF Step
<1> QED BY <1>4, <1>5 DEF Next

LEMMA RefusedStep ==
    ASSUME AccountInv, Bounded, GivenBack, Refused, [Next]_vars
    PROVE  Refused'
<1> USE Names DEF AccountInv
<1>1. ASSUME NEW t \in Threads, Fork(t) PROVE Refused'
  <2>1. /\ forkedWithRuntime' = (active # {}) /\ active' = active
        /\ inherited' = inherited \cup up \cup handles
        /\ underway' = underway \cup Started
        /\ reentered' = reentered
        /\ \A u \in Threads : pc'[u] \in {"idle", "gone"}
    BY <1>1 DEF Fork, ForkHook, moduleVars
  <2>2. ASSUME ~reentered, active = {} PROVE inherited' \subseteq underway'
    <3>1. up \cup handles \subseteq underway'
      BY <1>1, <2>2, ForkBounded
    <3>2. inherited \subseteq underway
      BY <2>2 DEF Refused, ChildIsRefused
    <3> QED BY <2>1, <3>1, <3>2
  <2> QED BY <2>1, <2>2 DEF Refused, ChildIsRefused
<1>2. ASSUME NEW t \in Threads, Step(t), ~Fork(t) PROVE Refused'
  <2>1. /\ UNCHANGED <<forkedWithRuntime, inherited, underway>>
        /\ ~reentered' => ~reentered
    <3>1. CASE Collect(t)
      BY <3>1 DEF Collect
    <3>2. CASE ~Collect(t)
      BY <1>2, <3>2 DEF Step, Acquire, Release, Enter, AcquireRefused, CreateFails, ReleaseClosed,
         DestroyFails, AcquireChecked, ReleaseBegin, Create, Destroy, NameRtcLease, Register,
         Remove, Forget, processVars
    <3> QED BY <3>1, <3>2
  <2>2. ~forkedWithRuntime
    <3>1. CASE pc[t] \in {"idle", "gone"}
      BY <1>2, <3>1 DEF Step, Acquire, Release, Enter, ProcessIsCurrent, AcquireRefused,
         CreateFails, ReleaseClosed, DestroyFails, AcquireChecked, ReleaseBegin, Create,
         Destroy, NameRtcLease, Register, Remove, Forget, Collect, Sections
    <3> QED BY <3>1 DEF Refused
  <2> QED BY <2>1, <2>2 DEF Refused, ChildIsRefused
<1>3. ASSUME Drop \/ MarkFinalizing \/ UNCHANGED vars PROVE Refused'
  <2>1. UNCHANGED <<active, forkedWithRuntime, inherited, underway, reentered, pc>>
    BY <1>3 DEF Drop, MarkFinalizing, vars, moduleVars, processVars, threadVars
  <2> QED BY <2>1 DEF Refused, ChildIsRefused
<1> QED BY <1>1, <1>2, <1>3 DEF Next

-----------------------------------------------------------------------------
(* The theorems.                                                           *)

\* The inductive invariant: who holds _lock, which leases the globals of
\* _runtime.py stand for at every line of _acquire and _release, and what the
\* native runtime holds for them there.
THEOREM RuntimeInvariant == Spec => []RuntimeInv
<1>1. RuntimeInv /\ [Next]_vars => RuntimeInv'
  BY AccountStep, NativeStep, BoundedStep, GivenBackStep, RefusedStep DEF RuntimeInv
<1> QED BY <1>1, RuntimeInit, PTL DEF Spec

\* However creations, failing and repeated closes, finalizers inside a section
\* and forks interleave, the leases in force agree with each other and, outside
\* the sections of _lock, the globals of _runtime.py are exactly theirs.
THEOREM LeasesAccounted == Spec => []LeaseAccounts
<1>1. RuntimeInv => LeaseAccounts
  <2> SUFFICES ASSUME AccountInv PROVE LeaseAccounts
    BY DEF RuntimeInv
  <2> USE Names DEF AccountInv
  <2>1. active \subseteq InForce /\ active \in SUBSET Leases
    BY DEF InForce, TypeOK
  <2>2. LeasesAgree
    BY <2>1 DEF LeasesAgree, Agreed
  <2>3. GlobalsAreExact
    <3> SUFFICES ASSUME lock = None, ~torn PROVE GlobalsAreExact
      BY DEF GlobalsAreExact
    <3>1. \A u \in Threads : pc[u] \notin Sections
      BY DEF Sectioned
    <3>2. InForce = active
      BY <3>1, NativeIdle
    <3>3. extCount = CountedOf(active) /\ extCount \in Nat
      BY <3>2 DEF Exact, TypeOK
    <3>4. active = {l \in Leases : lease[l] = "open"}
      BY <2>1, <3>2 DEF Exact, Owned
    <3>5. rtcLease = None <=> \A l \in active : ~Rtc(l)
      BY <2>1, <3>1, <3>2 DEF Exact, Agreed, Sections
    <3>6. shared = None <=> active = {}
      BY <2>1, <3>1, OptionFacts DEF Exact, Agreed, Sections
    <3>7. extConfig = None <=> extCount = 0
      <4>1. extCount # 0 => extConfig # None
        BY <2>1, <3>2, <3>3, CountedNone, OptionFacts DEF Agreed
      <4> QED BY <3>3, <4>1 DEF Exact
    <3> QED BY <3>3, <3>4, <3>5, <3>6, <3>7 DEF GlobalsAreExact, CountedOf
  <2> QED BY <2>2, <2>3 DEF LeaseAccounts
<1> QED BY <1>1, RuntimeInvariant, PTL

\* Outside the sections the native runtime is up exactly for the leases in force:
\* the first external-token storage Client initialises it, the last one shuts it
\* down, and a failing call leaves neither more nor less.
THEOREM NativeFollows == Spec => []NativeFollowsLeases
<1>1. RuntimeInv => NativeFollowsLeases
  <2> SUFFICES ASSUME RuntimeInv, lock = None, ~torn, ~reentered PROVE NativeFollowsLeases
    BY DEF NativeFollowsLeases
  <2>1. NativeOf = active
    BY Names, NativeIdle DEF RuntimeInv, AccountInv, Sectioned
  <2> QED BY <2>1 DEF RuntimeInv, NativeExact, ProductsOf, NativeFollowsLeases
<1> QED BY <1>1, RuntimeInvariant, PTL

\* Wherever fork() cuts the other threads, inside a section of _lock too: a child
\* that _after_fork_child does not refuse has inherited nothing but what a creation
\* under way had initialised and not yet registered, and waits for no lock whose
\* holder it does not have.  Left out are behaviours in which the finalizer of a
\* storage Client ran inside a section that works on another.
THEOREM ForkedChild == Spec => []ForkedChildIsSafe
<1>1. RuntimeInv => ForkedChildIsSafe
  BY DEF RuntimeInv, AccountInv, TypeOK, Sectioned, Refused, ForkedChildIsSafe, LockHasOwner
<1> QED BY <1>1, RuntimeInvariant, PTL

\* _release takes a lease out of _active_leases only once the native call has
\* given back what it held, also when a finalizer runs it inside a section.
THEOREM LeasesGivenBackFirst == Spec => GivenBackFirst
<1>1. RuntimeInv /\ [Next]_vars =>
        [\A l \in active \ active' :
            /\ l \notin handles'
            /\ Rtc(l) /\ External(l) => "rtc" \notin up']_vars
  <2> SUFFICES ASSUME AccountInv, GivenBack, Next, NEW l \in active \ active'
               PROVE  l \notin handles' /\ (Rtc(l) /\ External(l) => "rtc" \notin up')
    BY DEF RuntimeInv
  <2>1. PICK t \in Threads : Remove(t) \/ Collect(t)
    BY DEF Next, Step, Acquire, Release, Enter, AcquireRefused, CreateFails, ReleaseClosed,
       DestroyFails, AcquireChecked, ReleaseBegin, Create, Destroy, NameRtcLease, Register,
       Forget, Fork, Drop, MarkFinalizing, moduleVars
  <2>2. CASE Remove(t)
    BY <2>2 DEF Remove, GivenBack, nativeVars
  <2>3. CASE Collect(t)
    <3>1. Destroyed(l) /\ l \in Leases
      BY <2>3 DEF Collect, AccountInv, TypeOK
    <3> QED BY <3>1, OptionFacts DEF Destroyed, GivenBack
  <2> QED BY <2>1, <2>2, <2>3
<1> QED BY <1>1, RuntimeInvariant, PTL DEF Spec, GivenBackFirst
=============================================================================
