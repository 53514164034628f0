----------------------------- MODULE HashTable -----------------------------
(***************************************************************************)
(* The chained hash table of src/pht/src/hash-table-base.c, and what the   *)
(* tester (src/pht/src/pht-tester.c) promises of every version of it: each *)
(* add_entry takes effect at one instant, each thread's calls in its own   *)
(* order; then every key is looked up once and the table is destroyed.     *)
(* The base version is used by one thread and is atomic for that reason.   *)
(***************************************************************************)
EXTENDS Integers, SequencesExt

CONSTANTS
    NThreads,    \* arguments.threads
    Size,        \* arguments.size, the number of calls of each thread
    Keys,        \* the strings
    BucketOf     \* bernstein_hash(key) % HASH_TABLE_CAPACITY of every key

Threads == 0..(NThreads - 1)
Calls == 0..(NThreads * Size - 1)     \* global_index of every add_entry call
Buckets == {BucketOf[k] : k \in Keys} \* the entries of the table in use

VARIABLES
    data,        \* the tester's strings: the key of every call
    applied,     \* how many calls of each thread have taken effect
    entries,     \* per bucket the list of [key, value], head first
    main,        \* the tester's main thread: adding, joined, counted, destroyed
    missing      \* keys the tester did not find again

vars == <<data, applied, entries, main, missing>>

\* get_global_index
GlobalIndex(thread, index) == thread * Size + index

Init ==
    /\ data \in [Calls -> Keys]
    /\ applied = [t \in Threads |-> 0]
    /\ entries = [b \in Buckets |-> <<>>]
    /\ main = "adding"
    /\ missing = 0

\* The positions of key in the list q (get_list_entry returns the first).
Hits(q, key) == {i \in 1..Len(q) : q[i].key = key}

\* The list q after add_entry(key, value).
Added(q, key, value) ==
    IF Hits(q, key) = {}
    THEN <<[key |-> key, value |-> value]>> \o q
    ELSE [q EXCEPT ![Min(Hits(q, key))].value = value]

AddEntry(t) ==
    /\ main = "adding"
    /\ applied[t] < Size
    /\ LET call == GlobalIndex(t, applied[t])
           b == BucketOf[data[call]]
       IN entries' = [entries EXCEPT ![b] = Added(@, data[call], call)]
    /\ applied' = [applied EXCEPT ![t] = @ + 1]
    /\ UNCHANGED <<data, main, missing>>

ContainsKey(key) == Hits(entries[BucketOf[key]], key) # {}

Join ==
    /\ main = "adding"
    /\ \A t \in Threads : applied[t] = Size
    /\ main' = "joined"
    /\ UNCHANGED <<data, applied, entries, missing>>

Count ==
    /\ main = "joined"
    /\ main' = "counted"
    /\ missing' = Cardinality({c \in Calls : ~ContainsKey(data[c])})
    /\ UNCHANGED <<data, applied, entries>>

Destroy ==
    /\ main = "counted"
    /\ main' = "destroyed"
    /\ entries' = [b \in Buckets |-> <<>>]
    /\ UNCHANGED <<data, applied, missing>>

Next == (\E t \in Threads : AddEntry(t)) \/ Join \/ Count \/ Destroy

Spec == Init /\ [][Next]_vars
=============================================================================
