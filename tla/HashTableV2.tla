---------------------------- MODULE HashTableV2 ----------------------------
(***************************************************************************)
(* src/pht/src/hash-table-v2.c: one mutex per bucket.                      *)
(***************************************************************************)
EXTENDS PhtThreads

VARIABLE mutex       \* per bucket: the owner of its mutex; None, free; or Destroyed

vars == <<threadVars, mutex>>

Init ==
    /\ ThreadsInit
    /\ mutex = [b \in Buckets |-> None]

\* pthread_mutex_lock returns.  (Mutation: it does not wait.)
NeverWaits(b) == TRUE
Available(b) == mutex[b] = None

Lock(t) ==
    /\ Enter(t)
    /\ Available(Bucket(t))
    /\ mutex' = [mutex EXCEPT ![Bucket(t)] = t]

\* Both ways out of add_entry unlock.  (Mutation: the update does not.)
KeptOnUpdate(t) ==
    IF pc[t] = "updated" THEN mutex ELSE [mutex EXCEPT ![Bucket(t)] = None]
Unlocked(t) == [mutex EXCEPT ![Bucket(t)] = None]

Unlock(t) ==
    /\ Leave(t, {"updated", "inserted"})
    /\ mutex' = Unlocked(t)

Work(t) == (Search(t) \/ Update(t) \/ Prepare(t) \/ Insert(t)) /\ UNCHANGED mutex

Step(t) == Lock(t) \/ Work(t) \/ Unlock(t)

\* destroy also destroys the mutexes.
Main ==
    \/ (Join \/ Count) /\ UNCHANGED mutex
    \/ Destroy /\ mutex' = [b \in Buckets |-> Destroyed]

Stopped == main = "destroyed" /\ UNCHANGED vars

Next == (\E t \in Threads : Step(t)) \/ Main \/ Stopped

Spec == Init /\ [][Next]_vars

\* The kernel runs every thread that is not blocked in pthread_mutex_lock.
Fairness == (\A t \in Threads : WF_vars(Step(t))) /\ WF_vars(Main)
FairSpec == Spec /\ Fairness

\* All variables have their types.
TypeOK ==
    ThreadsTypeOK /\ mutex \in [Buckets -> Threads \cup {None, Destroyed}]

\* A mutex is held by the thread inside add_entry on that bucket and by no
\* other, so main never destroys a locked mutex.
HeldInside ==
    /\ \A b \in Buckets :
           mutex[b] \in Threads => Inside(mutex[b]) /\ Bucket(mutex[b]) = b
    /\ \A t \in Threads : Inside(t) => mutex[Bucket(t)] = t

\* Concurrent calls are equivalent to calls made one at a time, in an order
\* that keeps each thread's own.
ImplementsAtomic == Atomic!Spec

\* Every thread returns from all its calls and main finishes.
TesterEnds == <>(main = "destroyed")
=============================================================================
