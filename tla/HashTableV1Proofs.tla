-------------------------- MODULE HashTableV1Proofs --------------------------
(***************************************************************************)
(* Proofs about HashTableV1 for every number of threads and calls and      *)
(* every distribution of the keys over the buckets: they hold although an  *)
(* update keeps the mutex for ever.                                        *)
(***************************************************************************)
EXTENDS HashTableV1, PhtProofs

\* The inductive invariant: that of the table, and who can be inside.
IInv == TypeOK /\ TableInv /\ OneThreadInside

\* One mutex for all buckets excludes more than one mutex for each.
LEMMA ExclusionFromOne ==
    ASSUME OneThreadInside
    PROVE  MutualExclusion
BY DEF OneThreadInside, MutualExclusion

\* Initially nobody is inside.
LEMMA InitInv == Init => IInv
<1> SUFFICES ASSUME Init PROVE IInv
    OBVIOUS
<1>1. TableInv
      BY TableInit DEF Init
<1>2. TypeOK
      BY <1>1 DEF Init, TypeOK, TableInv, None
<1>3. OneThreadInside
      BY DEF Init, ThreadsInit, OneThreadInside, Inside
<1> QED BY <1>1, <1>2, <1>3 DEF IInv

\* A thread that is inside owns the mutex, so a free mutex means nobody is.
LEMMA LockInv ==
    ASSUME IInv, NEW t \in Threads, Lock(t)
    PROVE  IInv'
<1>1. TableInv'
      BY EnterInv DEF IInv, Lock
<1>2. mutex = None /\ mutex' = t
      BY DEF Lock, Available
<1>3. \A u \in Threads \ {t} : pc'[u] = pc[u]
      BY DEF Lock, Enter, Goto, IInv, TypeOK, ThreadsTypeOK
<1>4. TypeOK'
      BY <1>1, <1>2 DEF TypeOK, TableInv
<1>5. OneThreadInside'
  <2>1. \A u \in Threads : ~Inside(u)
        BY <1>2, NThreadsAssumption DEF IInv, OneThreadInside, Threads, None
  <2> QED BY <1>2, <1>3, <2>1 DEF OneThreadInside, Inside
<1> QED BY <1>1, <1>4, <1>5 DEF IInv

\* The work inside add_entry leaves the mutex alone.
LEMMA WorkInv ==
    ASSUME IInv, NEW t \in Threads, Work(t)
    PROVE  IInv'
<1>1. TableInv'
  <2>1. CASE Search(t)
        BY <2>1, SearchInv DEF IInv
  <2>2. CASE Update(t)
        BY <2>2, UpdateInv DEF IInv
  <2>3. CASE Prepare(t)
        BY <2>3, PrepareInv DEF IInv
  <2>4. CASE Insert(t)
        BY <2>4, InsertInv, ExclusionFromOne DEF IInv
  <2> QED BY <2>1, <2>2, <2>3, <2>4 DEF Work
<1>2. mutex' = mutex
      BY DEF Work
<1>3. /\ pc[t] # "outside" /\ pc'[t] # "outside"
      /\ \A u \in Threads \ {t} : pc'[u] = pc[u]
      BY DEF Work, Search, Update, Prepare, Insert, Goto, IInv, TypeOK,
             ThreadsTypeOK
<1>4. TypeOK'
      BY <1>1, <1>2 DEF IInv, TypeOK, TableInv
<1>5. OneThreadInside'
      BY <1>2, <1>3 DEF IInv, OneThreadInside, Inside
<1> QED BY <1>1, <1>4, <1>5 DEF IInv

\* The thread that leaves was the only one inside, unlocked or not.
LEMMA LeftInv ==
    ASSUME IInv, NEW t \in Threads, ReturnUpdated(t) \/ Unlock(t)
    PROVE  IInv'
<1>1. TableInv'
      BY LeaveInv DEF IInv, ReturnUpdated, Unlock
<1>2. mutex' \in {mutex, None}
      BY DEF ReturnUpdated, Unlock, Released
<1>3. /\ pc[t] # "outside" /\ pc'[t] = "outside"
      /\ \A u \in Threads \ {t} : pc'[u] = pc[u]
      BY DEF ReturnUpdated, Unlock, Leave, Goto, IInv, TypeOK, ThreadsTypeOK
<1>4. TypeOK'
      BY <1>1, <1>2 DEF IInv, TypeOK, TableInv
<1>5. OneThreadInside'
      BY <1>3 DEF IInv, OneThreadInside, Inside
<1> QED BY <1>1, <1>4, <1>5 DEF IInv

\* main destroys the mutex when no thread is inside any more.
LEMMA MainInv ==
    ASSUME IInv, Main
    PROVE  IInv'
<1>1. TableInv'
      BY JoinInv, CountInv, DestroyInv DEF Main, IInv
<1>2. pc' = pc /\ mutex' \in {mutex, Destroyed}
      BY DEF Main, Join, Count, Destroy
<1>3. TypeOK'
      BY <1>1, <1>2 DEF IInv, TypeOK, TableInv
<1>4. OneThreadInside'
      BY <1>2 DEF Main, Join, Count, Destroy, IInv, TableInv, AfterJoin,
                  OneThreadInside, Inside
<1> QED BY <1>1, <1>3, <1>4 DEF IInv

\* Every step keeps the invariant.
LEMMA NextInv == IInv /\ [Next]_vars => IInv'
<1> SUFFICES ASSUME IInv, [Next]_vars PROVE IInv'
    OBVIOUS
<1>1. ASSUME NEW t \in Threads, Step(t) PROVE IInv'
      BY <1>1, LockInv, WorkInv, LeftInv DEF Step
<1>2. CASE Main
      BY <1>2, MainInv
<1>3. CASE UNCHANGED vars
  <2>1. TableInv' /\ pc' = pc /\ mutex' = mutex
        BY <1>3, StutterInv DEF vars, threadVars, IInv
  <2>2. TypeOK' /\ OneThreadInside'
        BY <2>1 DEF IInv, TypeOK, TableInv, OneThreadInside, Inside
  <2> QED BY <2>1, <2>2 DEF IInv
<1> QED BY <1>1, <1>2, <1>3 DEF Next, Stopped

\* The invariant holds in every reachable state.
THEOREM Invariance == Spec => []IInv
BY InitInv, NextInv, PTL DEF Spec

\* The variables have their types.
THEOREM TypeCorrect == Spec => []TypeOK
<1>1. IInv => TypeOK
      BY DEF IInv
<1> QED BY <1>1, Invariance, PTL

\* "only one thread can add entry to the table at a time" (README.md:27), and
\* it owns the mutex.
THEOREM OneThreadAdds == Spec => []OneThreadInside
<1>1. IInv => OneThreadInside
      BY DEF IInv
<1> QED BY <1>1, Invariance, PTL

\* No add_entry loses or duplicates a key: what a search found out is still so
\* when it is used, and main finds every string if it gets to look.
THEOREM TableStaysRight ==
    Spec => [](SearchStaysValid /\ OneEntryPerKey /\ NothingMissing)
<1>1. IInv => SearchStaysValid /\ OneEntryPerKey /\ NothingMissing
      BY SearchFromInv DEF IInv, TableInv
<1> QED BY <1>1, Invariance, PTL

\* The calls are equivalent to atomic ones, in an order that keeps each
\* thread's own; the leaked mutex costs progress only.
THEOREM LockedIsAtomic == Spec => ImplementsAtomic
<1>1. Init => Atomic!Init
      BY AtomicInit DEF Init
<1>2. IInv /\ [Next]_vars => [Atomic!Next]_(Atomic!vars)
  <2> SUFFICES ASSUME IInv, [Next]_vars
               PROVE  Atomic!Next \/ UNCHANGED Atomic!vars
      OBVIOUS
  <2>1. ASSUME NEW t \in Threads, Update(t) \/ Insert(t) PROVE Atomic!Next
        BY <2>1, UpdateAtomic, InsertAtomic
        DEF IInv, Atomic!Next, Atomic!Threads, Threads
  <2>2. ASSUME NEW t \in Threads,
               \/ Lock(t) \/ Search(t) \/ Prepare(t)
               \/ ReturnUpdated(t) \/ Unlock(t)
        PROVE  UNCHANGED Atomic!vars
        BY <2>2, HiddenSteps DEF Lock, ReturnUpdated, Unlock, IInv
  <2>3. CASE Main
        BY <2>3, MainAtomic DEF Main, IInv
  <2>4. CASE UNCHANGED vars
        BY <2>4 DEF vars, threadVars, Atomic!vars, Applied, Entries
  <2> QED BY <2>1, <2>2, <2>3, <2>4 DEF Next, Step, Work, Stopped
<1> QED BY <1>1, <1>2, Invariance, PTL DEF Spec, ImplementsAtomic, Atomic!Spec
=============================================================================
