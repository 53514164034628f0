---------------------------- MODULE HashTableV1 ----------------------------
(***************************************************************************)
(* src/pht/src/hash-table-v1.c: one mutex for every table.                 *)
(***************************************************************************)
EXTENDS PhtThreads

VARIABLE mutex       \* the owner of the static mutex; None, free; or Destroyed

vars == <<threadVars, mutex>>

Init ==
    /\ ThreadsInit
    /\ mutex = None

\* pthread_mutex_lock returns.  (Mutation: it does not wait.)
NeverWaits == TRUE
Available == mutex = None

Lock(t) ==
    /\ Enter(t)
    /\ Available
    /\ mutex' = t

Work(t) == (Search(t) \/ Update(t) \/ Prepare(t) \/ Insert(t)) /\ UNCHANGED mutex

\* The update returns without unlocking.
ReturnUpdated(t) ==
    /\ Leave(t, {"updated"})
    /\ UNCHANGED mutex

\* (Mutation: the insertion keeps the mutex too.)
StillLocked == mutex
Released == None

Unlock(t) ==
    /\ Leave(t, {"inserted"})
    /\ mutex' = Released

Step(t) == Lock(t) \/ Work(t) \/ ReturnUpdated(t) \/ Unlock(t)

\* destroy also destroys the mutex.
Main ==
    \/ (Join \/ Count) /\ UNCHANGED mutex
    \/ Destroy /\ mutex' = Destroyed

Stopped == main = "destroyed" /\ UNCHANGED vars

Next == (\E t \in Threads : Step(t)) \/ Main \/ Stopped

Spec == Init /\ [][Next]_vars

\* The kernel runs every thread that is not blocked in pthread_mutex_lock.
Fairness == (\A t \in Threads : WF_vars(Step(t))) /\ WF_vars(Main)
FairSpec == Spec /\ Fairness

\* All variables have their types.
TypeOK == ThreadsTypeOK /\ mutex \in Threads \cup {None, Destroyed}

\* "only one thread can add entry to the table at a time" (README.md:27),
\* whatever becomes of the mutex.
OneThreadInside ==
    \A t, u \in Threads : Inside(t) /\ Inside(u) => t = u /\ mutex = t

\* "The first implementation locks the entire hash_table_v1_add_entry function"
\* (README.md:27): the mutex is held by threads inside that function only.
HeldInside == mutex \in Threads => Inside(mutex)

\* Concurrent calls are equivalent to calls made one at a time, in an order
\* that keeps each thread's own; this much the leaked mutex does not break.
ImplementsAtomic == Atomic!Spec

\* The tester ends when no string occurs twice.
DistinctStringsEnd == IsInjective(data) => <>(main = "destroyed")
=============================================================================
