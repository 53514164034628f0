-------------------------- MODULE HashTableV2Proofs --------------------------
(***************************************************************************)
(* Proofs about HashTableV2 for every number of threads and calls and      *)
(* every distribution of the keys over the buckets.                        *)
(***************************************************************************)
EXTENDS HashTableV2, PhtProofs

\* A thread owns the mutex of a bucket if and only if it is inside add_entry
\* with a key of that bucket.
OwnersInside ==
    \A b \in Buckets, t \in Threads :
        mutex[b] = t <=> Inside(t) /\ Bucket(t) = b

\* The inductive invariant: that of the table, and whose the mutexes are.
IInv == TypeOK /\ TableInv /\ OwnersInside

\* The mutexes keep two threads out of one bucket.
LEMMA ExclusionFromOwners ==
    ASSUME IInv
    PROVE  MutualExclusion
<1> SUFFICES ASSUME NEW t \in Threads, NEW u \in Threads, t # u,
                    Inside(t), Inside(u), Bucket(t) = Bucket(u)
             PROVE  FALSE
    BY DEF MutualExclusion
<1>1. Bucket(t) \in Buckets
      BY InsideCall DEF IInv
<1> QED BY <1>1 DEF IInv, OwnersInside

\* Initially every mutex is free.
LEMMA InitInv == Init => IInv
<1> SUFFICES ASSUME Init PROVE IInv
    OBVIOUS
<1>1. TableInv
      BY TableInit DEF Init
<1>2. TypeOK
      BY <1>1 DEF Init, TypeOK, TableInv, None
<1>3. OwnersInside
      BY NThreadsAssumption
      DEF Init, ThreadsInit, OwnersInside, Inside, Threads, None
<1> QED BY <1>1, <1>2, <1>3 DEF IInv

\* A thread takes the free mutex of its bucket.
LEMMA LockInv ==
    ASSUME IInv, NEW t \in Threads, Lock(t)
    PROVE  IInv'
<1>1. TableInv'
      BY EnterInv DEF IInv, Lock
<1>2. /\ UNCHANGED <<data, done>> /\ done[t] < Size
      /\ pc[t] = "outside" /\ pc'[t] = "locked"
      /\ \A u \in Threads \ {t} : pc'[u] = pc[u]
      BY DEF Lock, Enter, Goto, mainVars, IInv, TypeOK, ThreadsTypeOK
<1>3. Bucket(t) \in Buckets
  <2>1. done[t] \in 0..(Size - 1)
        BY <1>2, SizeAssumption DEF IInv, TypeOK, ThreadsTypeOK
  <2>2. Key(t) \in Keys
        BY <2>1, CallInRange DEF Key, Call, IInv, TypeOK, ThreadsTypeOK
  <2> QED BY <2>2 DEF Bucket, Buckets
<1>4. /\ mutex[Bucket(t)] = None
      /\ mutex' = [mutex EXCEPT ![Bucket(t)] = t]
      BY DEF Lock, Available
<1>5. TypeOK'
      BY <1>1, <1>4 DEF IInv, TypeOK, TableInv
<1>6. OwnersInside'
  <2> SUFFICES ASSUME NEW b \in Buckets, NEW u \in Threads
               PROVE  mutex'[b] = u <=> pc'[u] # "outside" /\ Bucket(u) = b
      BY <1>2 DEF OwnersInside, Inside, Bucket, Key, Call
  <2>1. u # None
        BY NThreadsAssumption DEF Threads, None
  <2>2. mutex[b] = u <=> pc[u] # "outside" /\ Bucket(u) = b
        BY DEF IInv, OwnersInside, Inside
  <2>3. mutex'[b] = IF b = Bucket(t) THEN t ELSE mutex[b]
        BY <1>3, <1>4 DEF IInv, TypeOK
  <2> QED BY <1>2, <1>4, <2>1, <2>2, <2>3
<1> QED BY <1>1, <1>5, <1>6 DEF IInv

\* The work inside add_entry leaves the mutexes alone.
LEMMA WorkInv ==
    ASSUME IInv, NEW t \in Threads, Work(t)
    PROVE  IInv'
<1>1. TableInv'
  <2>1. CASE Search(t)
        BY <2>1, SearchInv DEF IInv
  <2>2. CASE Update(t)
        BY <2>2, UpdateInv DEF IInv
  <2>3. CASE Prepare(t)
        BY <2>3, PrepareInv DEF IInv
  <2>4. CASE Insert(t)
        BY <2>4, InsertInv, ExclusionFromOwners DEF IInv
  <2> QED BY <2>1, <2>2, <2>3, <2>4 DEF Work
<1>2. UNCHANGED <<data, done, mutex>>
      BY DEF Work, Search, Update, Prepare, Insert, mainVars
<1>3. /\ pc[t] # "outside" /\ pc'[t] # "outside"
      /\ \A u \in Threads \ {t} : pc'[u] = pc[u]
      BY DEF Work, Search, Update, Prepare, Insert, Goto, IInv, TypeOK,
             ThreadsTypeOK
<1>4. TypeOK'
      BY <1>1, <1>2 DEF IInv, TypeOK, TableInv
<1>5. OwnersInside'
  <2> SUFFICES ASSUME NEW b \in Buckets, NEW u \in Threads
               PROVE  mutex[b] = u <=> pc'[u] # "outside" /\ Bucket(u) = b
      BY <1>2 DEF OwnersInside, Inside, Bucket, Key, Call
  <2> QED BY <1>3 DEF IInv, OwnersInside, Inside
<1> QED BY <1>1, <1>4, <1>5 DEF IInv

\* Both ways out of add_entry give the mutex back.
LEMMA UnlockInv ==
    ASSUME IInv, NEW t \in Threads, Unlock(t)
    PROVE  IInv'
<1>1. TableInv'
      BY LeaveInv DEF IInv, Unlock
<1>2. /\ data' = data
      /\ pc[t] # "outside" /\ pc'[t] = "outside"
      /\ \A u \in Threads \ {t} : pc'[u] = pc[u] /\ done'[u] = done[u]
      BY DEF Unlock, Leave, Goto, mainVars, IInv, TypeOK, ThreadsTypeOK
<1>3. /\ Bucket(t) \in Buckets /\ mutex[Bucket(t)] = t
      /\ mutex' = [mutex EXCEPT ![Bucket(t)] = None]
  <2>1. Inside(t)
        BY <1>2 DEF Inside
  <2>2. Bucket(t) \in Buckets
        BY <2>1, InsideCall DEF IInv
  <2> QED BY <2>1, <2>2 DEF Unlock, Unlocked, IInv, OwnersInside
<1>4. TypeOK'
      BY <1>1, <1>3 DEF IInv, TypeOK, TableInv
<1>5. OwnersInside'
  <2> SUFFICES ASSUME NEW b \in Buckets, NEW u \in Threads
               PROVE  mutex'[b] = u <=> Inside(u)' /\ Bucket(u)' = b
      BY DEF OwnersInside
  <2>1. u # None
        BY NThreadsAssumption DEF Threads, None
  <2>2. mutex'[b] = IF b = Bucket(t) THEN None ELSE mutex[b]
        BY <1>3 DEF IInv, TypeOK
  <2>3. mutex[b] = u <=> Inside(u) /\ Bucket(u) = b
        BY DEF IInv, OwnersInside
  <2>4. CASE u = t
    <3>1. ~Inside(t)' /\ Inside(t)
          BY <1>2 DEF Inside
    <3> QED BY <2>1, <2>2, <2>3, <2>4, <3>1
  <2>5. CASE u # t
    <3>1. /\ Inside(u)' = Inside(u)
          /\ Bucket(u)' = Bucket(u)
          BY <1>2, <2>5 DEF Inside, Bucket, Key, Call
    <3> QED BY <1>3, <2>1, <2>2, <2>3, <2>5, <3>1
  <2> QED BY <2>4, <2>5
<1> QED BY <1>1, <1>4, <1>5 DEF IInv

\* main touches the mutexes when no thread is inside any more.
LEMMA MainInv ==
    ASSUME IInv, Main
    PROVE  IInv'
<1>1. TableInv'
      BY JoinInv, CountInv, DestroyInv DEF Main, IInv
<1>2. UNCHANGED <<data, done, pc>>
      BY DEF Main, Join, Count, Destroy
<1>3. \A b \in Buckets, u \in Threads :
        mutex[b] = u <=> pc[u] # "outside" /\ Bucket(u) = b
      BY DEF IInv, OwnersInside, Inside
<1>4. CASE UNCHANGED mutex
  <2>1. TypeOK'
        BY <1>1, <1>4 DEF IInv, TypeOK, TableInv
  <2>2. OwnersInside'
        BY <1>2, <1>3, <1>4 DEF OwnersInside, Inside, Bucket, Key, Call
  <2> QED BY <1>1, <2>1, <2>2 DEF IInv
<1>5. CASE Destroy /\ mutex' = [b \in Buckets |-> Destroyed]
  <2>1. TypeOK'
        BY <1>1, <1>5 DEF IInv, TypeOK, TableInv
  <2>2. \A u \in Threads : pc[u] = "outside" /\ u # Destroyed
        BY <1>5, NThreadsAssumption
        DEF Destroy, IInv, TableInv, AfterJoin, Threads, Destroyed
  <2>3. OwnersInside'
        BY <1>2, <1>5, <2>2 DEF OwnersInside, Inside
  <2> QED BY <1>1, <2>1, <2>3 DEF IInv
<1> QED BY <1>4, <1>5 DEF Main

\* Every step keeps the invariant.
LEMMA NextInv == IInv /\ [Next]_vars => IInv'
<1> SUFFICES ASSUME IInv, [Next]_vars PROVE IInv'
    OBVIOUS
<1>1. ASSUME NEW t \in Threads, Step(t) PROVE IInv'
      BY <1>1, LockInv, WorkInv, UnlockInv DEF Step
<1>2. CASE Main
      BY <1>2, MainInv
<1>3. CASE UNCHANGED vars
  <2>1. TableInv' /\ UNCHANGED <<data, done, pc, mutex>>
        BY <1>3, StutterInv DEF vars, threadVars, IInv
  <2>2. TypeOK'
        BY <2>1 DEF IInv, TypeOK, TableInv
  <2>3. OwnersInside'
        BY <2>1 DEF IInv, OwnersInside, Inside, Bucket, Key, Call
  <2> QED BY <2>1, <2>2, <2>3 DEF IInv
<1> QED BY <1>1, <1>2, <1>3 DEF Next, Stopped

\* The invariant holds in every reachable state.
THEOREM Invariance == Spec => []IInv
BY InitInv, NextInv, PTL DEF Spec

\* The variables have their types.
THEOREM TypeCorrect == Spec => []TypeOK
<1>1. IInv => TypeOK
      BY DEF IInv
<1> QED BY <1>1, Invariance, PTL

\* Two threads inside add_entry at once work on different lists.
THEOREM ThreadsExcluded == Spec => []MutualExclusion
<1>1. IInv => MutualExclusion
      BY ExclusionFromOwners
<1> QED BY <1>1, Invariance, PTL

\* What add_entry found out under the mutex is still so when it uses it.
THEOREM SearchesStayValid == Spec => []SearchStaysValid
<1>1. IInv => SearchStaysValid
      BY SearchFromInv DEF IInv
<1> QED BY <1>1, Invariance, PTL

\* A key is in at most one node, and that node is in the list of its bucket.
THEOREM KeysStayUnique == Spec => []OneEntryPerKey
<1>1. IInv => OneEntryPerKey
      BY DEF IInv, TableInv
<1> QED BY <1>1, Invariance, PTL

\* The mutex of a bucket is held by the thread inside add_entry on that bucket
\* and by no other: main never destroys a locked mutex.
THEOREM MutexesHeldInside == Spec => []HeldInside
<1>1. IInv => HeldInside
  <2> SUFFICES ASSUME IInv PROVE HeldInside
      OBVIOUS
  <2>1. ASSUME NEW t \in Threads, Inside(t) PROVE mutex[Bucket(t)] = t
    <3>1. Bucket(t) \in Buckets
          BY <2>1, InsideCall DEF IInv
    <3> QED BY <2>1, <3>1 DEF IInv, OwnersInside
  <2>2. ASSUME NEW b \in Buckets, mutex[b] \in Threads
        PROVE  Inside(mutex[b]) /\ Bucket(mutex[b]) = b
        BY <2>2 DEF IInv, OwnersInside
  <2> QED BY <2>1, <2>2 DEF HeldInside
<1> QED BY <1>1, Invariance, PTL

\* "0 missing": main finds every string that was added.
THEOREM NoEntryLost == Spec => []NothingMissing
<1>1. IInv => NothingMissing
      BY DEF IInv, TableInv
<1> QED BY <1>1, Invariance, PTL

\* The concurrent table implements the atomic one: a call takes effect when
\* the value is overwritten or the new node is linked, and nothing else shows.
THEOREM ConcurrentIsAtomic == Spec => ImplementsAtomic
<1>1. Init => Atomic!Init
      BY AtomicInit DEF Init
<1>2. IInv /\ [Next]_vars => [Atomic!Next]_(Atomic!vars)
  <2> SUFFICES ASSUME IInv, [Next]_vars
               PROVE  Atomic!Next \/ UNCHANGED Atomic!vars
      OBVIOUS
  <2>1. ASSUME NEW t \in Threads, Update(t) \/ Insert(t) PROVE Atomic!Next
        BY <2>1, UpdateAtomic, InsertAtomic
        DEF IInv, Atomic!Next, Atomic!Threads, Threads
  <2>2. ASSUME NEW t \in Threads, Lock(t) \/ Search(t) \/ Prepare(t) \/ Unlock(t)
        PROVE  UNCHANGED Atomic!vars
        BY <2>2, HiddenSteps DEF Lock, Unlock, IInv
  <2>3. CASE Main
        BY <2>3, MainAtomic DEF Main, IInv
  <2>4. CASE UNCHANGED vars
        BY <2>4 DEF vars, threadVars, Atomic!vars, Applied, Entries
  <2> QED BY <2>1, <2>2, <2>3, <2>4 DEF Next, Step, Work, Stopped
<1> QED BY <1>1, <1>2, Invariance, PTL DEF Spec, ImplementsAtomic, Atomic!Spec
=============================================================================
