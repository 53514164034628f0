----------------------------- MODULE PhtThreads -----------------------------
(***************************************************************************)
(* What src/pht/src/hash-table-v1.c and hash-table-v2.c have in common, and *)
(* the part of the tester that drives them: every thread adds its strings  *)
(* one after the other, main joins the threads, looks every string up and  *)
(* destroys the table.  The versions differ in their mutexes, which the    *)
(* modules HashTableV1 and HashTableV2 add.                                *)
(*                                                                         *)
(* A list node is named by the call of add_entry that allocated it, so its *)
(* key is data[node].  A node's successor never changes while it is linked *)
(* (insertion is at the head), so a list is a sequence of nodes and a      *)
(* search is one step: what it returns depends on the head it reads.       *)
(***************************************************************************)
EXTENDS Integers, SequencesExt

CONSTANTS NThreads, Size, Keys, BucketOf    \* as in HashTable

ASSUME NThreadsAssumption == NThreads \in Nat \ {0}
ASSUME SizeAssumption == Size \in Nat
ASSUME BucketAssumption == BucketOf = [k \in Keys |-> BucketOf[k]]

Threads == 0..(NThreads - 1)
Calls == 0..(NThreads * Size - 1)
Buckets == {BucketOf[k] : k \in Keys}
None == -1                     \* NULL, and the owner of a free mutex
Destroyed == -2                \* the owner of a mutex that was destroyed

\* Where a thread is: outside add_entry; inside, holding the mutex; after the
\* search hit or failed; the new node points to the old head; the value is
\* overwritten; the node is the new head.
Places == {"outside", "locked", "found", "absent", "linking", "updated",
           "inserted"}

VARIABLES
    data,        \* the strings, by global index
    done,        \* the loop variable j of every run_v1 or run_v2
    pc,          \* where every thread is
    list_entry,  \* the local list_entry of every thread
    link,        \* the successor of the node a thread is about to insert
    list,        \* the list of every bucket, head first
    value,       \* the value of every node
    main,        \* main: adding, joined, counted, destroyed
    missing      \* main's count of the strings it did not find

threadVars == <<data, done, pc, list_entry, link, list, value, main, missing>>
tableVars == <<list, value>>
mainVars == <<data, main, missing>>

\* The call thread t is at, its key, and the bucket of that key
\* (get_global_index, get_string, get_hash_table_entry).
Call(t) == t * Size + done[t]
Key(t) == data[Call(t)]
Bucket(t) == BucketOf[Key(t)]

ThreadsInit ==
    /\ data \in [Calls -> Keys]
    /\ done = [t \in Threads |-> 0]
    /\ pc = [t \in Threads |-> "outside"]
    /\ list_entry = [t \in Threads |-> None]
    /\ link = [t \in Threads |-> <<>>]
    /\ list = [b \in Buckets |-> <<>>]
    /\ value = [c \in Calls |-> 0]
    /\ main = "adding"
    /\ missing = 0

Goto(t, place) == pc' = [pc EXCEPT ![t] = place]

\* run_v1, run_v2: thread t enters add_entry.
Enter(t) ==
    /\ pc[t] = "outside"
    /\ done[t] < Size
    /\ Goto(t, "locked")
    /\ UNCHANGED <<mainVars, tableVars, done, list_entry, link>>

\* get_list_entry: the first node of q with this key, or None.
Hits(q, key) == {i \in 1..Len(q) : data[q[i]] = key}
GetListEntry(q, key) ==
    IF Hits(q, key) = {} THEN None ELSE q[Min(Hits(q, key))]

Search(t) ==
    /\ pc[t] = "locked"
    /\ list_entry' =
           [list_entry EXCEPT ![t] = GetListEntry(list[Bucket(t)], Key(t))]
    /\ Goto(t, IF list_entry'[t] = None THEN "absent" ELSE "found")
    /\ UNCHANGED <<mainVars, tableVars, done, link>>

\* What the node a search found is set to.  (Mutation: it keeps its value.)
KeptValue(t) == value[list_entry[t]]
NewValue(t) == Call(t)

Update(t) ==
    /\ pc[t] = "found"
    /\ value' = [value EXCEPT ![list_entry[t]] = NewValue(t)]
    /\ Goto(t, "updated")
    /\ UNCHANGED <<mainVars, done, list_entry, link, list>>

\* The node to insert.  (Mutation: list_entry is not assigned.)
Unallocated(t) == list_entry[t]
Allocated(t) == Call(t)

\* The old head becomes the successor of the new node.  (Mutation: calloc's
\* NULL stays.)
NoSuccessor(t) == <<>>
Successors(t) == list[Bucket(t)]

\* calloc, and the first half of SLIST_INSERT_HEAD.
Prepare(t) ==
    /\ pc[t] = "absent"
    /\ list_entry' = [list_entry EXCEPT ![t] = Allocated(t)]
    /\ value' = [value EXCEPT ![Call(t)] = Call(t)]
    /\ link' = [link EXCEPT ![t] = Successors(t)]
    /\ Goto(t, "linking")
    /\ UNCHANGED <<mainVars, done, list>>

\* The second half of SLIST_INSERT_HEAD.
Insert(t) ==
    /\ pc[t] = "linking"
    /\ list' = [list EXCEPT ![Bucket(t)] = <<list_entry[t]>> \o link[t]]
    /\ Goto(t, "inserted")
    /\ UNCHANGED <<mainVars, done, list_entry, link, value>>

\* add_entry returns; its locals are gone.
Leave(t, places) ==
    /\ pc[t] \in places
    /\ done' = [done EXCEPT ![t] = @ + 1]
    /\ list_entry' = [list_entry EXCEPT ![t] = None]
    /\ link' = [link EXCEPT ![t] = <<>>]
    /\ Goto(t, "outside")
    /\ UNCHANGED <<mainVars, tableVars>>

\* main: pthread_join of every thread.
Join ==
    /\ main = "adding"
    /\ \A t \in Threads : pc[t] = "outside" /\ done[t] = Size
    /\ main' = "joined"
    /\ UNCHANGED <<data, done, pc, list_entry, link, list, value, missing>>

\* contains, for every string.
ContainsKey(key) == GetListEntry(list[BucketOf[key]], key) # None

Count ==
    /\ main = "joined"
    /\ main' = "counted"
    /\ missing' = Cardinality({c \in Calls : ~ContainsKey(data[c])})
    /\ UNCHANGED <<data, done, pc, list_entry, link, list, value>>

\* destroy: every node is unlinked and freed.
Destroy ==
    /\ main = "counted"
    /\ main' = "destroyed"
    /\ list' = [b \in Buckets |-> <<>>]
    /\ UNCHANGED <<data, done, pc, list_entry, link, value, missing>>

Inside(t) == pc[t] # "outside"

(***************************************************************************)
(* Properties of both versions.                                            *)
(***************************************************************************)
\* The shared variables have their types: a list holds nodes only.
ThreadsTypeOK ==
    /\ data \in [Calls -> Keys]
    /\ done \in [Threads -> 0..Size]
    /\ pc \in [Threads -> Places]
    /\ list_entry \in [Threads -> Calls \cup {None}]
    /\ link \in [Threads -> Seq(Calls)]
    /\ list \in [Buckets -> Seq(Calls)]
    /\ value \in [Calls -> Calls \cup {0}]
    /\ main \in {"adding", "joined", "counted", "destroyed"}
    /\ missing \in 0..(NThreads * Size)

\* Two threads inside add_entry at once work on different lists.
MutualExclusion ==
    \A t, u \in Threads :
        t # u /\ Inside(t) /\ Inside(u) => Bucket(t) # Bucket(u)

\* What add_entry found out under the mutex is still so when it uses it: the
\* node it overwrites is linked, the key it inserts is still absent, and the
\* list it puts its node in front of is the whole list.
SearchStaysValid ==
    \A t \in Threads :
        /\ pc[t] = "found" => list_entry[t] \in ToSet(list[Bucket(t)])
        /\ pc[t] \in {"absent", "linking"} => Hits(list[Bucket(t)], Key(t)) = {}
        /\ pc[t] = "linking" => link[t] = list[Bucket(t)]

\* "we don't want another list entry having the same key" (README.md:62): a
\* key is in at most one node, and that node is in the list of its bucket.
OneEntryPerKey ==
    \A b, c \in Buckets : \A i \in 1..Len(list[b]), j \in 1..Len(list[c]) :
        /\ BucketOf[data[list[b][i]]] = b
        /\ data[list[b][i]] = data[list[c][j]] => b = c /\ i = j

\* "0 missing" (README.md:16): main finds every string that was added.
NothingMissing == missing = 0

(***************************************************************************)
(* The atomic table this one implements: a call takes effect when the      *)
(* value is overwritten or the new node becomes the head of its list.      *)
(***************************************************************************)
Entries ==
    [b \in Buckets |-> [i \in 1..Len(list[b]) |->
        [key |-> data[list[b][i]], value |-> value[list[b][i]]]]]

Applied ==
    [t \in Threads |->
        IF pc[t] \in {"updated", "inserted"} THEN done[t] + 1 ELSE done[t]]

Atomic == INSTANCE HashTable WITH applied <- Applied, entries <- Entries
=============================================================================
