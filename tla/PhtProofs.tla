------------------------------ MODULE PhtProofs ------------------------------
(***************************************************************************)
(* What the proofs about both concurrent versions of the hash table share: *)
(* an invariant of the table under any mutexes that keep two threads out   *)
(* of the same bucket, and the steps of the atomic table that the steps of *)
(* add_entry, of main and of destroy are.                                  *)
(***************************************************************************)
EXTENDS PhtThreads, BernsteinHash, SequenceTheorems, FiniteSetTheorems, TLAPS

-----------------------------------------------------------------------------
(* The hash function.                                                      *)

\* The capacity divides 2^32, so the bucket of a string can be computed from
\* buckets alone: the overflow of the 32 bits never reaches it.
THEOREM BucketIgnoresOverflow ==
  ASSUME NEW hash \in Nat, NEW c \in Char
  PROVE  HashStep(hash, c) % HashTableCapacity
           = BucketStep(hash % HashTableCapacity, c)
<1>. DEFINE sum == 33 * hash + c
            part == 33 * (hash % 4096) + c
<1>1. sum \in Nat /\ part \in Nat
  BY SMT DEF Char
<1>2. PICK q \in Nat : hash = (4096 * q) + (hash % 4096)
  <2>1. hash = (4096 * (hash \div 4096)) + (hash % 4096) /\ hash \div 4096 \in Nat
    BY SMT
  <2>. QED
    BY <2>1
<1>3. sum = 4096 * (33 * q) + part
  BY <1>2, SMT DEF Char
<1>4. sum % 4096 = part % 4096
  BY <1>1, <1>3, SMT
<1>5. (sum % (65536 * 65536)) % 4096 = sum % 4096
  BY <1>1, SMT
<1>. QED
  BY <1>4, <1>5 DEF HashStep, BucketStep, HashTableCapacity

-----------------------------------------------------------------------------
(* The calls of add_entry: get_global_index numbers them.                  *)

\* Every call of a thread has a number,
LEMMA CallInRange ==
    ASSUME NEW t \in Threads, NEW j \in 0..(Size - 1)
    PROVE  t * Size + j \in Calls
<1>1. /\ t \in Nat /\ t <= NThreads - 1 /\ j \in Nat /\ j <= Size - 1
      /\ NThreads \in Nat /\ Size \in Nat
      BY NThreadsAssumption, SizeAssumption DEF Threads
<1>2. t * Size <= (NThreads - 1) * Size /\ t * Size \in Nat
      BY <1>1
<1>3. (NThreads - 1) * Size = NThreads * Size - Size /\ NThreads * Size \in Nat
      BY <1>1
<1> HIDE DEF Threads
<1> QED BY <1>1, <1>2, <1>3 DEF Calls

\* no two calls share one,
LEMMA CallsDistinct ==
    ASSUME NEW t \in Threads, NEW u \in Threads,
           NEW i \in 0..(Size - 1), NEW j \in 0..(Size - 1),
           t * Size + i = u * Size + j
    PROVE  t = u /\ i = j
<1>1. t \in Int /\ u \in Int /\ Size \in Nat
      BY NThreadsAssumption, SizeAssumption DEF Threads
<1>2. ASSUME NEW a \in Int, NEW b \in Int, a < b PROVE a * Size + Size <= b * Size
  <2>1. (a + 1) * Size <= b * Size BY <1>1, <1>2
  <2> QED BY <1>1, <2>1
<1>3. ~(t < u) /\ ~(u < t)
  <2>1. t < u => t * Size + Size <= u * Size BY <1>1, <1>2
  <2>2. u < t => u * Size + Size <= t * Size BY <1>1, <1>2
  <2>3. t * Size \in Int /\ u * Size \in Int BY <1>1
  <2> QED BY <1>1, <2>1, <2>2, <2>3
<1>4. t = u BY <1>1, <1>3
<1>5. t * Size \in Int BY <1>1
<1> QED BY <1>4, <1>5

\* and every number is that of a call.
LEMMA CallsCovered ==
    ASSUME NEW c \in Calls
    PROVE  \E t \in Threads : \E j \in 0..(Size - 1) : c = t * Size + j
<1>1. NThreads \in Nat /\ Size \in Nat /\ c \in Nat /\ c < NThreads * Size
  <2>1. NThreads * Size \in Nat BY NThreadsAssumption, SizeAssumption
  <2> QED BY <2>1, NThreadsAssumption, SizeAssumption DEF Calls
<1>2. Size > 0 BY <1>1
<1> DEFINE t == c \div Size
           j == c % Size
<1>3. t \in Int /\ j \in 0..(Size - 1) /\ c = t * Size + j
      BY <1>1, <1>2
<1> HIDE DEF t, j
<1>4. t >= 0
  <2>1. t < 0 => t * Size <= -Size BY <1>1, <1>2, <1>3
  <2> QED BY <1>1, <1>2, <1>3, <2>1
<1>5. t < NThreads
  <2>1. t >= NThreads => t * Size >= NThreads * Size BY <1>1, <1>3
  <2> QED BY <1>1, <1>3, <2>1
<1> QED BY <1>1, <1>3, <1>4, <1>5 DEF Threads

-----------------------------------------------------------------------------
(* The invariant of the table.                                             *)

\* The call a thread is inside is one of its calls, and what the search found
\* out is so: the hit is a node of the list with the thread's key, after a miss
\* there is none, and the new node points to the whole list.
CallOK(t) ==
    /\ Inside(t) => done[t] < Size
    /\ pc[t] = "found" =>
        \E i \in Hits(list[Bucket(t)], Key(t)) :
            list_entry[t] = list[Bucket(t)][i]
    /\ pc[t] \in {"absent", "linking"} => Hits(list[Bucket(t)], Key(t)) = {}
    /\ pc[t] = "linking" =>
        /\ link[t] = list[Bucket(t)]
        /\ list_entry[t] = Call(t)
        /\ value[Call(t)] = Call(t)
CallsOK == \A t \in Threads : CallOK(t)

\* Once main has joined the threads, none is inside add_entry or will be.
AfterJoin ==
    main # "adding" => \A t \in Threads : pc[t] = "outside" /\ done[t] = Size

\* A node that is linked was allocated by a call that has taken effect, so no
\* call to come allocates it again or writes its value for the first time.
PastNodes ==
    \A b \in Buckets : \A i \in 1..Len(list[b]) :
        \A t \in Threads : \A j \in Applied[t]..(Size - 1) :
            list[b][i] # t * Size + j

\* The key of every call that has taken effect stays in the table until the
\* table is destroyed.
KeptCalls ==
    main \in {"adding", "joined"} =>
        \A t \in Threads : \A j \in 0..(Applied[t] - 1) :
            Hits(list[BucketOf[data[t * Size + j]]], data[t * Size + j]) # {}

TableInv ==
    /\ ThreadsTypeOK
    /\ CallsOK
    /\ AfterJoin
    /\ PastNodes
    /\ KeptCalls
    /\ OneEntryPerKey
    /\ NothingMissing

\* A thread inside add_entry is at one of its calls.
LEMMA InsideCall ==
    ASSUME TableInv, NEW t \in Threads, Inside(t)
    PROVE  /\ done[t] \in 0..(Size - 1)
           /\ Call(t) \in Calls
           /\ Key(t) \in Keys
           /\ Bucket(t) \in Buckets
           /\ list[Bucket(t)] \in Seq(Calls)
           /\ main = "adding"
<1>1. done[t] \in 0..(Size - 1)
      BY SizeAssumption DEF TableInv, CallsOK, CallOK, ThreadsTypeOK
<1>2. Call(t) \in Calls
      BY <1>1, CallInRange DEF Call
<1>3. Key(t) \in Keys /\ Bucket(t) \in Buckets
      BY <1>2 DEF TableInv, ThreadsTypeOK, Key, Bucket, Buckets
<1> QED BY <1>1, <1>2, <1>3 DEF TableInv, ThreadsTypeOK, AfterJoin, Inside

\* A key that is in a list is there once: get_list_entry returns that node.
LEMMA OneHit ==
    ASSUME TableInv, NEW b \in Buckets, NEW key, NEW i \in Hits(list[b], key)
    PROVE  /\ Hits(list[b], key) = {i}
           /\ Min(Hits(list[b], key)) = i
           /\ GetListEntry(list[b], key) = list[b][i]
           /\ list[b][i] \in Calls
           /\ list[b][i] \in ToSet(list[b])
<1>1. \A j \in Hits(list[b], key) : j = i
      BY DEF TableInv, OneEntryPerKey, Hits
<1>2. Hits(list[b], key) = {i}
      BY <1>1
<1>3. /\ i \in 1..Len(list[b]) /\ list[b] \in Seq(Calls)
      /\ DOMAIN list[b] = 1..Len(list[b])
      BY LenProperties DEF Hits, TableInv, ThreadsTypeOK
<1>4. Min({i}) = i
      BY <1>3, LenProperties DEF Min
<1>5. list[b][i] \in Calls
      BY <1>3, ElementOfSeq
<1>6. list[b][i] \in ToSet(list[b])
      BY <1>3 DEF ToSet
<1> QED BY <1>2, <1>4, <1>5, <1>6 DEF GetListEntry

\* get_list_entry returns NULL for the keys that are not in the list only.
LEMMA NoHit ==
    ASSUME TableInv, NEW b \in Buckets, NEW key
    PROVE  GetListEntry(list[b], key) = None <=> Hits(list[b], key) = {}
<1>1. ASSUME NEW i \in Hits(list[b], key)
      PROVE  GetListEntry(list[b], key) # None
  <2>1. GetListEntry(list[b], key) \in Calls
        BY OneHit
  <2> QED BY <2>1 DEF Calls, None
<1> QED BY <1>1 DEF GetListEntry

\* The invariant implies that what a search found out stays valid.
LEMMA SearchFromInv == TableInv => SearchStaysValid
<1> SUFFICES ASSUME TableInv, NEW t \in Threads
             PROVE  /\ pc[t] = "found" =>
                           list_entry[t] \in ToSet(list[Bucket(t)])
                    /\ pc[t] \in {"absent", "linking"} =>
                           Hits(list[Bucket(t)], Key(t)) = {}
                    /\ pc[t] = "linking" => link[t] = list[Bucket(t)]
    BY DEF SearchStaysValid
<1>1. CallOK(t)
      BY DEF TableInv, CallsOK
<1>2. CASE pc[t] = "found"
  <2>1. PICK i \in Hits(list[Bucket(t)], Key(t)) :
            list_entry[t] = list[Bucket(t)][i]
        BY <1>1, <1>2 DEF CallOK
  <2>2. Bucket(t) \in Buckets
        BY <1>2, InsideCall DEF Inside
  <2> QED BY <1>2, <2>1, <2>2, OneHit
<1> QED BY <1>1, <1>2 DEF CallOK

\* The table is created empty.
LEMMA TableInit == ThreadsInit => TableInv
<1> SUFFICES ASSUME ThreadsInit PROVE TableInv
    OBVIOUS
<1>1. NThreads * Size \in Nat
      BY NThreadsAssumption, SizeAssumption
<1>2. ThreadsTypeOK
      BY <1>1, SizeAssumption, EmptySeq DEF ThreadsInit, ThreadsTypeOK, Places, None
<1>3. /\ \A t \in Threads : pc[t] = "outside" /\ Applied[t] = 0
      /\ \A b \in Buckets : list[b] = <<>> /\ Len(list[b]) = 0
      BY EmptySeq DEF ThreadsInit, Applied
<1>4. CallsOK /\ AfterJoin
      BY <1>3 DEF CallsOK, CallOK, AfterJoin, Inside, ThreadsInit
<1>5. PastNodes /\ KeptCalls /\ OneEntryPerKey /\ NothingMissing
      BY <1>3 DEF PastNodes, KeptCalls, OneEntryPerKey, NothingMissing, ThreadsInit
<1> QED BY <1>2, <1>4, <1>5 DEF TableInv

-----------------------------------------------------------------------------
(* What the steps leave alone.                                             *)

\* The variables of one thread.
SameThread(u) ==
    /\ pc'[u] = pc[u]
    /\ done'[u] = done[u]
    /\ list_entry'[u] = list_entry[u]
    /\ link'[u] = link[u]

\* A call is not disturbed by steps that leave its list and its node alone.
LEMMA OtherCall ==
    ASSUME TableInv, NEW u \in Threads, data' = data, SameThread(u),
           Inside(u) => list'[Bucket(u)] = list[Bucket(u)],
           pc[u] = "linking" => value'[Call(u)] = value[Call(u)]
    PROVE  CallOK(u)'
<1>1. /\ Inside(u)' = Inside(u)
      /\ Call(u)' = Call(u)
      /\ Key(u)' = Key(u)
      /\ Bucket(u)' = Bucket(u)
      BY DEF SameThread, Inside, Call, Key, Bucket
<1>2. Inside(u) =>
        Hits(list[Bucket(u)], Key(u))' = Hits(list[Bucket(u)], Key(u))
      BY <1>1 DEF Hits
<1>3. CallOK(u)
      BY DEF TableInv, CallsOK
<1> QED BY <1>1, <1>2, <1>3 DEF CallOK, SameThread, Inside

\* Applied counts the calls that have taken effect.
LEMMA AppliedType ==
    ASSUME TableInv, NEW t \in Threads
    PROVE  /\ Applied[t] \in 0..Size
           /\ pc[t] \in {"updated", "inserted"} => Applied[t] = done[t] + 1
           /\ pc[t] \notin {"updated", "inserted"} => Applied[t] = done[t]
BY InsideCall, SizeAssumption DEF TableInv, ThreadsTypeOK, Applied, Inside

\* Nothing is said of the table's contents by a step that changes neither the
\* lists nor what main knows, and by which no call takes effect.
LEMMA SameTable ==
    ASSUME TableInv, UNCHANGED <<data, list, main, missing>>, Applied' = Applied
    PROVE  PastNodes' /\ KeptCalls' /\ OneEntryPerKey' /\ NothingMissing'
<1>1. PastNodes'
      BY DEF TableInv, PastNodes
<1>2. KeptCalls'
  <2>1. \A q, key : Hits(q, key)' = Hits(q, key)
        BY DEF Hits
  <2>2. KeptCalls
        BY DEF TableInv
  <2> QED BY <2>1, <2>2 DEF KeptCalls
<1>3. OneEntryPerKey' /\ NothingMissing'
      BY DEF TableInv, OneEntryPerKey, NothingMissing
<1> QED BY <1>1, <1>2, <1>3

-----------------------------------------------------------------------------
(* The steps of add_entry, of main and of destroy keep the invariant.      *)

\* Entering add_entry changes the place of one thread.
LEMMA EnterInv ==
    ASSUME TableInv, NEW t \in Threads, Enter(t)
    PROVE  TableInv'
<1>1. UNCHANGED <<data, main, missing, list, value, done, list_entry, link>>
      BY DEF Enter, mainVars, tableVars
<1>2. /\ pc[t] = "outside" /\ pc'[t] = "locked" /\ done[t] < Size
      /\ \A u \in Threads \ {t} : pc'[u] = pc[u]
      /\ pc' \in [Threads -> Places]
      BY DEF TableInv, ThreadsTypeOK, Places, Enter, Goto
<1>3. ThreadsTypeOK'
      BY <1>1, <1>2 DEF TableInv, ThreadsTypeOK
<1>4. CallsOK'
  <2>1. CallOK(t)'
        BY <1>1, <1>2 DEF CallOK
  <2>2. ASSUME NEW u \in Threads \ {t} PROVE CallOK(u)'
        BY <1>1, <1>2, OtherCall DEF SameThread
  <2> QED BY <2>1, <2>2 DEF CallsOK
<1>5. AfterJoin'
      BY <1>1, <1>2, SizeAssumption DEF TableInv, AfterJoin
<1>6. Applied' = Applied
      BY <1>1, <1>2 DEF Applied
<1> QED BY <1>1, <1>3, <1>4, <1>5, <1>6, SameTable DEF TableInv

\* The search finds the node of its key, or no node has that key.
LEMMA SearchInv ==
    ASSUME TableInv, NEW t \in Threads, Search(t)
    PROVE  TableInv'
<1> DEFINE q == list[Bucket(t)]
<1>1. UNCHANGED <<data, main, missing, list, value, done, link>>
      BY DEF Search, mainVars, tableVars
<1>2. /\ list_entry'[t] = GetListEntry(q, Key(t))
      /\ pc'[t] = IF list_entry'[t] = None THEN "absent" ELSE "found"
      /\ pc[t] = "locked" /\ Inside(t)
      /\ \A u \in Threads \ {t} :
            pc'[u] = pc[u] /\ list_entry'[u] = list_entry[u]
      /\ pc' \in [Threads -> Places]
      BY DEF TableInv, ThreadsTypeOK, Places, Search, Goto, Inside
<1>3. Bucket(t) \in Buckets /\ done[t] \in 0..(Size - 1) /\ main = "adding"
      BY <1>2, InsideCall
<1>4. \/ pc'[t] = "absent" /\ Hits(q, Key(t)) = {} /\ list_entry'[t] = None
      \/ /\ pc'[t] = "found" /\ list_entry'[t] \in Calls
         /\ \E i \in Hits(q, Key(t)) : list_entry'[t] = q[i]
  <2>1. CASE Hits(q, Key(t)) = {}
        BY <1>2, <1>3, <2>1, NoHit
  <2>2. ASSUME NEW i \in Hits(q, Key(t))
        PROVE  /\ pc'[t] = "found" /\ list_entry'[t] \in Calls
               /\ list_entry'[t] = q[i]
    <3>1. GetListEntry(q, Key(t)) = q[i] /\ q[i] \in Calls
          BY <1>3, OneHit
    <3>2. GetListEntry(q, Key(t)) # None
          BY <1>3, NoHit
    <3> QED BY <1>2, <3>1, <3>2
  <2> QED BY <2>1, <2>2
<1>5. ThreadsTypeOK'
  <2>1. list_entry' \in [Threads -> Calls \cup {None}]
        BY <1>4 DEF TableInv, ThreadsTypeOK, Search
  <2> QED BY <1>1, <1>2, <2>1 DEF TableInv, ThreadsTypeOK
<1>6. CallsOK'
  <2>1. /\ Call(t)' = Call(t) /\ Key(t)' = Key(t) /\ Bucket(t)' = Bucket(t)
        /\ Hits(list[Bucket(t)], Key(t))' = Hits(q, Key(t))
        BY <1>1 DEF Call, Key, Bucket, Hits
  <2>2. CallOK(t)'
        BY <1>1, <1>3, <1>4, <2>1, SizeAssumption DEF CallOK
  <2>3. ASSUME NEW u \in Threads \ {t} PROVE CallOK(u)'
        BY <1>1, <1>2, OtherCall DEF SameThread
  <2> QED BY <2>2, <2>3 DEF CallsOK
<1>7. AfterJoin'
      BY <1>1, <1>3 DEF AfterJoin
<1>8. Applied' = Applied
      BY <1>1, <1>2 DEF Applied
<1> QED BY <1>1, <1>5, <1>6, <1>7, <1>8, SameTable DEF TableInv

\* Overwriting a value moves no node, and no value of a call to come.
LEMMA UpdateInv ==
    ASSUME TableInv, NEW t \in Threads, Update(t)
    PROVE  TableInv'
<1>1. UNCHANGED <<data, main, missing, list, list_entry, done, link>>
      BY DEF Update, mainVars
<1>2. /\ pc[t] = "found" /\ pc'[t] = "updated" /\ Inside(t)
      /\ \A u \in Threads \ {t} : pc'[u] = pc[u]
      /\ pc' \in [Threads -> Places]
      BY DEF TableInv, ThreadsTypeOK, Places, Update, Goto, Inside
<1>3. /\ Bucket(t) \in Buckets /\ done[t] \in 0..(Size - 1)
      /\ main = "adding" /\ Call(t) \in Calls
      BY <1>2, InsideCall
<1>4. PICK i \in Hits(list[Bucket(t)], Key(t)) :
        list_entry[t] = list[Bucket(t)][i]
      BY <1>2 DEF TableInv, CallsOK, CallOK
<1>5. i \in 1..Len(list[Bucket(t)])
      BY DEF Hits
<1>6. ThreadsTypeOK'
  <2>1. value' \in [Calls -> Calls \cup {0}]
        BY <1>3 DEF TableInv, ThreadsTypeOK, Update, NewValue
  <2> QED BY <1>1, <1>2, <2>1 DEF TableInv, ThreadsTypeOK
<1>7. CallsOK'
  <2>1. CallOK(t)'
        BY <1>1, <1>2, <1>3, SizeAssumption DEF CallOK
  <2>2. ASSUME NEW u \in Threads \ {t} PROVE CallOK(u)'
    <3>1. ASSUME pc[u] = "linking" PROVE value'[Call(u)] = value[Call(u)]
      <4>1. Call(u) \in Calls /\ done[u] \in 0..(Size - 1)
            BY <3>1, InsideCall DEF Inside
      <4>2. Applied[u] = done[u]
            BY <3>1, AppliedType
      <4>3. done[u] \in Applied[u]..(Size - 1)
            BY <4>1, <4>2, SizeAssumption
      <4>4. list_entry[t] # Call(u)
            BY <1>3, <1>4, <1>5, <4>3 DEF TableInv, PastNodes, Call
      <4> QED BY <4>1, <4>4 DEF Update, TableInv, ThreadsTypeOK
    <3> QED BY <1>1, <1>2, <3>1, OtherCall DEF SameThread
  <2> QED BY <2>1, <2>2 DEF CallsOK
<1>8. AfterJoin'
      BY <1>1, <1>3 DEF AfterJoin
<1>9. /\ Applied[t] = done[t] /\ Applied'[t] = done[t] + 1
      /\ \A u \in Threads \ {t} : Applied'[u] = Applied[u]
      BY <1>1, <1>2 DEF Applied
<1>10. PastNodes'
  <2>1. ASSUME NEW u \in Threads, NEW j \in Applied'[u]..(Size - 1)
        PROVE  j \in Applied[u]..(Size - 1)
        BY <1>3, <1>9, AppliedType, SizeAssumption
  <2> QED BY <1>1, <2>1 DEF TableInv, PastNodes
<1>11. KeptCalls'
  <2> SUFFICES ASSUME NEW u \in Threads, NEW j \in 0..(Applied'[u] - 1)
               PROVE  Hits(list[BucketOf[data[u * Size + j]]],
                           data[u * Size + j]) # {}
      BY <1>1 DEF KeptCalls, Hits
  <2>1. CASE u = t /\ j = done[t]
        BY <1>4, <2>1 DEF Bucket, Key, Call
  <2>2. CASE ~(u = t /\ j = done[t])
    <3>1. j \in 0..(Applied[u] - 1)
          BY <1>3, <1>9, <2>2, AppliedType
    <3> QED BY <1>3, <3>1 DEF TableInv, KeptCalls
  <2> QED BY <2>1, <2>2
<1>12. OneEntryPerKey' /\ NothingMissing'
      BY <1>1 DEF TableInv, OneEntryPerKey, NothingMissing
<1> QED BY <1>6, <1>7, <1>8, <1>10, <1>11, <1>12 DEF TableInv

\* Allocating a node writes the value of no linked node.
LEMMA PrepareInv ==
    ASSUME TableInv, NEW t \in Threads, Prepare(t)
    PROVE  TableInv'
<1>1. UNCHANGED <<data, main, missing, list, done>>
      BY DEF Prepare, mainVars
<1>2. /\ pc[t] = "absent" /\ pc'[t] = "linking" /\ Inside(t)
      /\ list_entry'[t] = Call(t) /\ link'[t] = list[Bucket(t)]
      /\ \A u \in Threads \ {t} : /\ pc'[u] = pc[u] /\ link'[u] = link[u]
                                  /\ list_entry'[u] = list_entry[u]
      /\ pc' \in [Threads -> Places]
      BY DEF TableInv, ThreadsTypeOK, Places, Prepare, Goto, Inside, Allocated,
             Successors
<1>3. /\ Bucket(t) \in Buckets /\ done[t] \in 0..(Size - 1)
      /\ main = "adding" /\ Call(t) \in Calls /\ list[Bucket(t)] \in Seq(Calls)
      BY <1>2, InsideCall
<1>4. ThreadsTypeOK'
  <2>1. /\ value' \in [Calls -> Calls \cup {0}]
        /\ list_entry' \in [Threads -> Calls \cup {None}]
        /\ link' \in [Threads -> Seq(Calls)]
        BY <1>3 DEF TableInv, ThreadsTypeOK, Prepare, Allocated, Successors
  <2> QED BY <1>1, <1>2, <2>1 DEF TableInv, ThreadsTypeOK
<1>5. CallsOK'
  <2>1. CallOK(t)'
    <3>1. /\ Call(t)' = Call(t) /\ Key(t)' = Key(t) /\ Bucket(t)' = Bucket(t)
          /\ Hits(list[Bucket(t)], Key(t))' = Hits(list[Bucket(t)], Key(t))
          BY <1>1 DEF Call, Key, Bucket, Hits
    <3>2. Hits(list[Bucket(t)], Key(t)) = {}
          BY <1>2 DEF TableInv, CallsOK, CallOK
    <3>3. value'[Call(t)] = Call(t)
          BY <1>3 DEF Prepare, TableInv, ThreadsTypeOK
    <3>4. done'[t] < Size
          BY <1>1, <1>3, SizeAssumption
    <3> QED BY <1>1, <1>2, <3>1, <3>2, <3>3, <3>4 DEF CallOK
  <2>2. ASSUME NEW u \in Threads \ {t} PROVE CallOK(u)'
    <3>1. ASSUME pc[u] = "linking" PROVE value'[Call(u)] = value[Call(u)]
      <4>1. Call(u) \in Calls /\ done[u] \in 0..(Size - 1)
            BY <3>1, InsideCall DEF Inside
      <4>2. Call(t) # Call(u)
            BY <1>3, <4>1, CallsDistinct DEF Call
      <4> QED BY <4>1, <4>2 DEF Prepare, TableInv, ThreadsTypeOK
    <3> QED BY <1>1, <1>2, <3>1, OtherCall DEF SameThread
  <2> QED BY <2>1, <2>2 DEF CallsOK
<1>6. AfterJoin'
      BY <1>1, <1>3 DEF AfterJoin
<1>7. Applied' = Applied
      BY <1>1, <1>2 DEF Applied
<1> QED BY <1>1, <1>4, <1>5, <1>6, <1>7, SameTable DEF TableInv

\* The list after the insertion: the new node, then the nodes that were there.
LEMMA InsertedList ==
    ASSUME TableInv, NEW t \in Threads, Insert(t)
    PROVE  LET q == list[Bucket(t)]
               r == list'[Bucket(t)]
           IN /\ list' = [list EXCEPT ![Bucket(t)] = r]
              /\ r \in Seq(Calls)
              /\ q \in Seq(Calls) /\ Len(q) \in Nat
              /\ Len(r) = Len(q) + 1
              /\ r[1] = Call(t)
              /\ \A i \in 1..Len(q) : r[i + 1] = q[i]
              /\ \A i \in 2..Len(r) : i - 1 \in 1..Len(q) /\ r[i] = q[i - 1]
              /\ Hits(q, Key(t)) = {}
              /\ value[Call(t)] = Call(t)
<1> DEFINE q == list[Bucket(t)]
           s == <<Call(t)>>
<1>1. pc[t] = "linking" /\ Inside(t)
      BY DEF Insert, Inside
<1>2. /\ Bucket(t) \in Buckets /\ Call(t) \in Calls /\ q \in Seq(Calls)
      BY <1>1, InsideCall
<1>3. /\ link[t] = q /\ list_entry[t] = Call(t) /\ value[Call(t)] = Call(t)
      /\ Hits(q, Key(t)) = {}
      BY <1>1 DEF TableInv, CallsOK, CallOK
<1>4. list' = [list EXCEPT ![Bucket(t)] = s \o q] /\ list'[Bucket(t)] = s \o q
      BY <1>2, <1>3 DEF Insert, TableInv, ThreadsTypeOK
<1>5. s \in Seq(Calls) /\ Len(s) = 1 /\ s[1] = Call(t)
      BY <1>2
<1> HIDE DEF s
<1>6. /\ s \o q \in Seq(Calls)
      /\ Len(s \o q) = Len(s) + Len(q)
      /\ \A i \in 1..(Len(s) + Len(q)) :
            (s \o q)[i] = IF i <= Len(s) THEN s[i] ELSE q[i - Len(s)]
      BY <1>2, <1>5, ConcatProperties
<1>7. Len(q) \in Nat
      BY <1>2, LenProperties
<1> HIDE DEF q
<1>8. (s \o q)[1] = Call(t) /\ \A i \in 1..Len(q) : (s \o q)[i + 1] = q[i]
      BY <1>5, <1>6, <1>7
<1>9. \A i \in 2..Len(s \o q) : i - 1 \in 1..Len(q) /\ (s \o q)[i] = q[i - 1]
      BY <1>5, <1>6, <1>7
<1>10. Len(s \o q) = Len(q) + 1 /\ s \o q \in Seq(Calls)
      BY <1>5, <1>6, <1>7
<1> DEFINE r == s \o q
<1>11. /\ r \in Seq(Calls) /\ Len(r) = Len(q) + 1 /\ r[1] = Call(t)
       /\ \A i \in 1..Len(q) : r[i + 1] = q[i]
       /\ \A i \in 2..Len(r) : i - 1 \in 1..Len(q) /\ r[i] = q[i - 1]
       /\ list'[Bucket(t)] = r /\ list' = [list EXCEPT ![Bucket(t)] = r]
      BY <1>4, <1>8, <1>9, <1>10
<1> HIDE DEF r
<1> QED BY <1>2, <1>3, <1>7, <1>11 DEF q

\* The new head belongs to a call whose key was absent; no other call works
\* on this list.
LEMMA InsertInv ==
    ASSUME TableInv, MutualExclusion, NEW t \in Threads, Insert(t)
    PROVE  TableInv'
<1> DEFINE b == Bucket(t)
           q == list[b]
           r == list'[b]
<1>1. UNCHANGED <<data, main, missing, value, done, list_entry, link>>
      BY DEF Insert, mainVars
<1>2. /\ pc[t] = "linking" /\ pc'[t] = "inserted" /\ Inside(t)
      /\ \A u \in Threads \ {t} : pc'[u] = pc[u]
      /\ pc' \in [Threads -> Places]
      BY DEF TableInv, ThreadsTypeOK, Places, Insert, Goto, Inside
<1>3. /\ b \in Buckets /\ done[t] \in 0..(Size - 1)
      /\ main = "adding" /\ Call(t) \in Calls
      BY <1>2, InsideCall
<1>4. /\ list' = [list EXCEPT ![b] = r] /\ r \in Seq(Calls)
      /\ \A c \in Buckets \ {b} : list'[c] = list[c]
      /\ q \in Seq(Calls) /\ Len(q) \in Nat
      /\ Len(r) = Len(q) + 1 /\ r[1] = Call(t)
      /\ \A i \in 1..Len(q) : r[i + 1] = q[i]
      /\ \A i \in 2..Len(r) : i - 1 \in 1..Len(q) /\ r[i] = q[i - 1]
      /\ Hits(q, Key(t)) = {}
  <2>1. \A c \in Buckets \ {b} : list'[c] = list[c]
        BY InsertedList DEF TableInv, ThreadsTypeOK
  <2> QED BY <2>1, InsertedList
<1>5. ThreadsTypeOK'
  <2>1. list' \in [Buckets -> Seq(Calls)]
        BY <1>3, <1>4 DEF TableInv, ThreadsTypeOK
  <2> QED BY <1>1, <1>2, <2>1 DEF TableInv, ThreadsTypeOK
<1>6. CallsOK'
  <2>1. CallOK(t)'
        BY <1>1, <1>2, <1>3, SizeAssumption DEF CallOK
  <2>2. ASSUME NEW u \in Threads \ {t} PROVE CallOK(u)'
    <3>1. ASSUME Inside(u) PROVE list'[Bucket(u)] = list[Bucket(u)]
      <4>1. Bucket(u) # b /\ Bucket(u) \in Buckets
            BY <1>2, <3>1, InsideCall DEF MutualExclusion
      <4> QED BY <1>4, <4>1
    <3> QED BY <1>1, <1>2, <3>1, OtherCall DEF SameThread
  <2> QED BY <2>1, <2>2 DEF CallsOK
<1>7. AfterJoin'
      BY <1>1, <1>3 DEF AfterJoin
<1>8. /\ Applied[t] = done[t] /\ Applied'[t] = done[t] + 1
      /\ \A u \in Threads \ {t} : Applied'[u] = Applied[u]
      BY <1>1, <1>2 DEF Applied
<1> HIDE DEF b
<1>9. PastNodes'
  <2> SUFFICES ASSUME NEW c \in Buckets, NEW i \in 1..Len(list'[c]),
                      NEW u \in Threads, NEW j \in Applied'[u]..(Size - 1)
               PROVE  list'[c][i] # u * Size + j
      BY DEF PastNodes
  <2>1. j \in Applied[u]..(Size - 1) /\ j \in 0..(Size - 1)
        BY <1>3, <1>8, AppliedType, SizeAssumption
  <2>2. CASE c # b
        BY <1>4, <2>1, <2>2 DEF TableInv, PastNodes
  <2>3. CASE c = b /\ i # 1
    <3>1. i - 1 \in 1..Len(q) /\ list'[c][i] = q[i - 1]
          BY <1>4, <2>3
    <3> QED BY <1>3, <2>1, <3>1 DEF TableInv, PastNodes
  <2>4. CASE c = b /\ i = 1
    <3>1. j # done[t] \/ u # t
          BY <1>3, <1>8, SizeAssumption
    <3> QED BY <1>3, <1>4, <2>1, <2>4, <3>1, CallsDistinct DEF Call
  <2> QED BY <2>2, <2>3, <2>4
<1>10. KeptCalls'
  <2> SUFFICES ASSUME NEW u \in Threads, NEW j \in 0..(Applied'[u] - 1)
               PROVE  \E i \in 1..Len(list'[BucketOf[data[u * Size + j]]]) :
                        data[list'[BucketOf[data[u * Size + j]]][i]]
                            = data[u * Size + j]
      BY <1>1 DEF KeptCalls, Hits
  <2> DEFINE k == data[u * Size + j]
             c == BucketOf[k]
  <2>1. CASE u = t /\ j = done[t]
    <3>1. k = Key(t) /\ c = b /\ u * Size + j = Call(t)
          BY <2>1 DEF Key, Call, Bucket, b
    <3>2. 1 \in 1..Len(r) /\ r[1] = Call(t)
          BY <1>4
    <3> QED BY <3>1, <3>2 DEF Key
  <2>2. CASE ~(u = t /\ j = done[t])
    <3>1. j \in 0..(Applied[u] - 1)
          BY <1>3, <1>8, <2>2, AppliedType
    <3>2. PICK i \in 1..Len(list[c]) : data[list[c][i]] = k
          BY <1>3, <3>1 DEF TableInv, KeptCalls, Hits
    <3>3. u * Size + j \in Calls
          BY <3>1, AppliedType, CallInRange, SizeAssumption
    <3>4. c \in Buckets
          BY <3>3 DEF TableInv, ThreadsTypeOK, Buckets
    <3>5. CASE c # b
          BY <1>4, <3>2, <3>4, <3>5
    <3>6. CASE c = b
      <4>1. i + 1 \in 1..Len(r) /\ r[i + 1] = q[i]
            BY <1>4, <3>2, <3>6
      <4> QED BY <3>2, <3>6, <4>1
    <3> QED BY <3>5, <3>6
  <2> QED BY <2>1, <2>2
<1>11. OneEntryPerKey'
  <2>1. BucketOf[Key(t)] = b
        BY DEF b, Bucket
  <2>2. \A i \in 1..Len(q) : data[q[i]] # Key(t)
        BY <1>4 DEF Hits
  <2>3. ASSUME NEW c \in Buckets, NEW i \in 1..Len(list[c])
        PROVE  BucketOf[data[list[c][i]]] = c /\ data[list[c][i]] # Key(t)
    <3>1. BucketOf[data[list[c][i]]] = c
          BY DEF TableInv, OneEntryPerKey
    <3> QED BY <2>1, <2>2, <3>1
  <2>4. ASSUME NEW c \in Buckets, NEW i \in 1..Len(list'[c])
        PROVE  \/ c = b /\ i = 1 /\ data[list'[c][i]] = Key(t)
               \/ c = b /\ i - 1 \in 1..Len(list[c]) /\ list'[c][i] = list[c][i - 1]
               \/ c # b /\ i \in 1..Len(list[c]) /\ list'[c][i] = list[c][i]
    <3>1. CASE c # b
          BY <1>4, <3>1
    <3>2. CASE c = b /\ i = 1
          BY <1>4, <3>2 DEF Key
    <3>3. CASE c = b /\ i # 1
      <4>1. i \in 2..Len(r)
            BY <1>4, <3>3
      <4> QED BY <1>4, <3>3, <4>1
    <3> QED BY <3>1, <3>2, <3>3
  <2> SUFFICES ASSUME NEW c \in Buckets, NEW d \in Buckets,
                      NEW i \in 1..Len(list'[c]), NEW j \in 1..Len(list'[d])
               PROVE  /\ BucketOf[data[list'[c][i]]] = c
                      /\ data[list'[c][i]] = data[list'[d][j]] => c = d /\ i = j
      BY <1>1 DEF OneEntryPerKey
  <2>5. /\ BucketOf[data[list'[c][i]]] = c
        /\ BucketOf[data[list'[d][j]]] = d
    <3>1. ASSUME NEW e \in Buckets, NEW m \in 1..Len(list'[e])
          PROVE  BucketOf[data[list'[e][m]]] = e
      <4>1. CASE e = b /\ m = 1 /\ data[list'[e][m]] = Key(t)
            BY <2>1, <4>1
      <4>2. CASE m - 1 \in 1..Len(list[e]) /\ list'[e][m] = list[e][m - 1]
            BY <2>3, <4>2
      <4>3. CASE m \in 1..Len(list[e]) /\ list'[e][m] = list[e][m]
            BY <2>3, <4>3
      <4> QED BY <2>4, <4>1, <4>2, <4>3
    <3> QED BY <3>1
  <2>6. ASSUME data[list'[c][i]] = data[list'[d][j]] PROVE c = d /\ i = j
    <3>1. c = d
          BY <2>5, <2>6
    <3>2. CASE c # b
          BY <2>4, <2>6, <3>1, <3>2 DEF TableInv, OneEntryPerKey
    <3>3. CASE c = b /\ (i = 1 \/ j = 1)
          BY <2>3, <2>4, <2>6, <3>1, <3>3
    <3>4. CASE c = b /\ i # 1 /\ j # 1
      <4>1. i - 1 \in 1..Len(q) /\ j - 1 \in 1..Len(q)
            /\ data[q[i - 1]] = data[q[j - 1]]
            BY <2>4, <2>6, <3>1, <3>4
      <4>2. i - 1 = j - 1
            BY <1>3, <4>1 DEF TableInv, OneEntryPerKey
      <4> QED BY <1>4, <3>1, <3>4, <4>2
    <3> QED BY <3>1, <3>2, <3>3, <3>4
  <2> QED BY <2>5, <2>6
<1>12. NothingMissing'
      BY <1>1 DEF TableInv, NothingMissing
<1> QED BY <1>5, <1>6, <1>7, <1>9, <1>10, <1>11, <1>12 DEF TableInv

\* Leaving add_entry ends the call; what it did is already counted.
LEMMA LeaveInv ==
    ASSUME TableInv, NEW t \in Threads, NEW places,
           places \subseteq {"updated", "inserted"}, Leave(t, places)
    PROVE  TableInv'
<1>1. UNCHANGED <<data, main, missing, list, value>>
      BY DEF Leave, mainVars, tableVars
<1>2. /\ pc[t] \in {"updated", "inserted"} /\ pc'[t] = "outside" /\ Inside(t)
      /\ done'[t] = done[t] + 1
      /\ \A u \in Threads \ {t} : SameThread(u)
      /\ pc' \in [Threads -> Places]
      /\ list_entry' \in [Threads -> Calls \cup {None}]
      /\ link' \in [Threads -> Seq(Calls)]
      BY EmptySeq DEF TableInv, ThreadsTypeOK, Places, Leave, Goto, Inside,
                      SameThread
<1>3. done[t] \in 0..(Size - 1) /\ main = "adding"
      BY <1>2, InsideCall
<1>4. ThreadsTypeOK'
  <2>1. done' \in [Threads -> 0..Size]
        BY <1>3, SizeAssumption DEF TableInv, ThreadsTypeOK, Leave
  <2> QED BY <1>1, <1>2, <2>1 DEF TableInv, ThreadsTypeOK
<1>5. CallsOK'
  <2>1. CallOK(t)'
        BY <1>2 DEF CallOK, Inside
  <2>2. ASSUME NEW u \in Threads \ {t} PROVE CallOK(u)'
        BY <1>1, <1>2, OtherCall
  <2> QED BY <2>1, <2>2 DEF CallsOK
<1>6. AfterJoin'
      BY <1>1, <1>3 DEF AfterJoin
<1>7. Applied' = Applied
      BY <1>2 DEF Applied, SameThread
<1> QED BY <1>1, <1>4, <1>5, <1>6, <1>7, SameTable DEF TableInv

\* Joining the threads changes what main knows of them.
LEMMA JoinInv ==
    ASSUME TableInv, Join
    PROVE  TableInv'
<1>1. UNCHANGED <<data, done, pc, list_entry, link, list, value, missing>>
      BY DEF Join
<1>2. /\ \A t \in Threads : pc[t] = "outside" /\ done[t] = Size
      /\ main = "adding" /\ main' = "joined"
      BY DEF Join
<1>3. ThreadsTypeOK'
      BY <1>1, <1>2 DEF TableInv, ThreadsTypeOK
<1>4. CallsOK'
      BY <1>1, OtherCall DEF CallsOK, SameThread
<1>5. AfterJoin'
      BY <1>1, <1>2 DEF AfterJoin
<1>6. Applied' = Applied
      BY <1>1 DEF Applied
<1>7. PastNodes' /\ OneEntryPerKey' /\ NothingMissing'
      BY <1>1, <1>6 DEF TableInv, PastNodes, OneEntryPerKey, NothingMissing
<1>8. KeptCalls'
  <2> SUFFICES ASSUME NEW u \in Threads, NEW j \in 0..(Applied[u] - 1)
               PROVE  Hits(list[BucketOf[data[u * Size + j]]],
                           data[u * Size + j]) # {}
      BY <1>1, <1>6 DEF KeptCalls, Hits
  <2> QED BY <1>2 DEF TableInv, KeptCalls
<1> QED BY <1>3, <1>4, <1>5, <1>7, <1>8 DEF TableInv

\* When main looks the strings up, every one is there.
LEMMA AllContained ==
    ASSUME TableInv, main = "joined", NEW c \in Calls
    PROVE  ContainsKey(data[c])
<1>1. PICK t \in Threads, j \in 0..(Size - 1) : c = t * Size + j
      BY CallsCovered
<1>2. pc[t] = "outside" /\ done[t] = Size
      BY DEF TableInv, AfterJoin
<1>3. j \in 0..(Applied[t] - 1)
      BY <1>2, AppliedType
<1>4. Hits(list[BucketOf[data[c]]], data[c]) # {}
      BY <1>1, <1>3 DEF TableInv, KeptCalls
<1>5. BucketOf[data[c]] \in Buckets
      BY DEF TableInv, ThreadsTypeOK, Buckets
<1> QED BY <1>4, <1>5, NoHit DEF ContainsKey

\* The count of the strings that are missing is 0.
LEMMA CountInv ==
    ASSUME TableInv, Count
    PROVE  TableInv'
<1>1. UNCHANGED <<data, done, pc, list_entry, link, list, value>>
      BY DEF Count
<1>2. main = "joined" /\ main' = "counted"
      BY DEF Count
<1>3. missing' = 0
  <2>1. {c \in Calls : ~ContainsKey(data[c])} = {}
        BY <1>2, AllContained
  <2> QED BY <2>1, FS_EmptySet DEF Count
<1>4. ThreadsTypeOK'
  <2>1. NThreads * Size \in Nat
        BY NThreadsAssumption, SizeAssumption
  <2> QED BY <1>1, <1>2, <1>3, <2>1 DEF TableInv, ThreadsTypeOK
<1>5. CallsOK'
      BY <1>1, OtherCall DEF CallsOK, SameThread
<1>6. AfterJoin'
      BY <1>1, <1>2 DEF TableInv, AfterJoin
<1>7. Applied' = Applied
      BY <1>1 DEF Applied
<1>8. PastNodes' /\ OneEntryPerKey' /\ KeptCalls' /\ NothingMissing'
      BY <1>1, <1>2, <1>3, <1>7 DEF TableInv, PastNodes, OneEntryPerKey,
                                    KeptCalls, NothingMissing
<1> QED BY <1>4, <1>5, <1>6, <1>8 DEF TableInv

\* destroy leaves nothing.
LEMMA DestroyInv ==
    ASSUME TableInv, Destroy
    PROVE  TableInv'
<1>1. UNCHANGED <<data, done, pc, list_entry, link, value, missing>>
      BY DEF Destroy
<1>2. /\ main = "counted" /\ main' = "destroyed"
      /\ list' \in [Buckets -> Seq(Calls)]
      /\ \A b \in Buckets : Len(list'[b]) = 0
      BY EmptySeq DEF Destroy
<1>3. ThreadsTypeOK'
      BY <1>1, <1>2 DEF TableInv, ThreadsTypeOK
<1>4. AfterJoin'
      BY <1>1, <1>2 DEF TableInv, AfterJoin
<1>5. CallsOK'
      BY <1>2, <1>4 DEF CallsOK, CallOK, AfterJoin, Inside
<1>6. PastNodes' /\ OneEntryPerKey' /\ KeptCalls' /\ NothingMissing'
      BY <1>1, <1>2 DEF TableInv, PastNodes, OneEntryPerKey, KeptCalls,
                        NothingMissing
<1> QED BY <1>3, <1>4, <1>5, <1>6 DEF TableInv

\* A step that changes nothing.
LEMMA StutterInv ==
    ASSUME TableInv, UNCHANGED threadVars
    PROVE  TableInv'
<1>1. UNCHANGED <<data, done, pc, list_entry, link, list, value, main, missing>>
      BY DEF threadVars
<1>2. Applied' = Applied
      BY <1>1 DEF Applied
<1>3. CallsOK'
      BY <1>1, OtherCall DEF CallsOK, SameThread
<1>4. ThreadsTypeOK' /\ AfterJoin'
      BY <1>1 DEF TableInv, ThreadsTypeOK, AfterJoin
<1> QED BY <1>1, <1>2, <1>3, <1>4, SameTable DEF TableInv

-----------------------------------------------------------------------------
(* The steps of the atomic table.                                          *)

Entry == [key : Keys, value : Calls \cup {0}]

\* A function on 1..n is a sequence of length n.
LEMMA FunctionIsSeq ==
    ASSUME NEW S, NEW n \in Nat, NEW f \in [1..n -> S]
    PROVE  f \in Seq(S) /\ Len(f) = n
<1>1. f \in Seq(S)
      BY SeqDef
<1>2. DOMAIN f = 1..Len(f) /\ DOMAIN f = 1..n /\ Len(f) \in Nat
      BY <1>1, LenProperties
<1> QED BY <1>1, <1>2

\* The entries of a bucket are its nodes, in the same order.
LEMMA EntriesOfList ==
    ASSUME TableInv, NEW b \in Buckets
    PROVE  /\ Entries[b] \in Seq(Entry)
           /\ Len(Entries[b]) = Len(list[b])
           /\ Len(list[b]) \in Nat
           /\ \A i \in 1..Len(list[b]) :
                Entries[b][i] = [key |-> data[list[b][i]],
                                 value |-> value[list[b][i]]]
           /\ \A key : Atomic!Hits(Entries[b], key) = Hits(list[b], key)
<1> DEFINE n == Len(list[b])
<1>1. list[b] \in Seq(Calls) /\ n \in Nat
      BY LenProperties DEF TableInv, ThreadsTypeOK
<1>2. \A i \in 1..n : [key |-> data[list[b][i]], value |-> value[list[b][i]]] \in Entry
  <2> SUFFICES ASSUME NEW i \in 1..n
               PROVE  data[list[b][i]] \in Keys /\ value[list[b][i]] \in Calls \cup {0}
      BY DEF Entry
  <2>1. list[b][i] \in Calls
        BY <1>1, ElementOfSeq
  <2> QED BY <2>1 DEF TableInv, ThreadsTypeOK
<1>3. Entries[b] = [i \in 1..n |-> [key |-> data[list[b][i]],
                                    value |-> value[list[b][i]]]]
      BY DEF Entries
<1> HIDE DEF n
<1>4. Entries[b] \in Seq(Entry) /\ Len(Entries[b]) = n
  <2>1. Entries[b] \in [1..n -> Entry]
        BY <1>2, <1>3
  <2> QED BY <1>1, <2>1, FunctionIsSeq
<1>5. \A i \in 1..n : Entries[b][i] = [key |-> data[list[b][i]],
                                       value |-> value[list[b][i]]]
      BY <1>3
<1>6. ASSUME NEW key PROVE Atomic!Hits(Entries[b], key) = Hits(list[b], key)
  <2>1. ASSUME NEW i \in 1..n PROVE Entries[b][i].key = data[list[b][i]]
    <3>1. Entries[b][i] = [key |-> data[list[b][i]], value |-> value[list[b][i]]]
          BY <1>5
    <3> QED BY <3>1
  <2> QED BY <1>4, <2>1 DEF Atomic!Hits, Hits, n
<1> QED BY <1>1, <1>4, <1>5, <1>6 DEF n

\* The atomic table is created empty.
LEMMA AtomicInit == ThreadsInit => Atomic!Init
<1> SUFFICES ASSUME ThreadsInit PROVE Atomic!Init
    OBVIOUS
<1>1. Applied = [t \in Threads |-> 0]
      BY DEF ThreadsInit, Applied
<1>2. Entries = [b \in Buckets |-> <<>>]
  <2>1. ASSUME NEW b \in Buckets
        PROVE  [i \in 1..Len(list[b]) |-> [key |-> data[list[b][i]],
                                           value |-> value[list[b][i]]]] = <<>>
        BY EmptySeq DEF ThreadsInit
  <2> QED BY <2>1 DEF Entries
<1> QED BY <1>1, <1>2 DEF ThreadsInit, Atomic!Init, Atomic!Threads, Threads,
             Atomic!Buckets, Buckets, Atomic!Calls, Calls

\* The entries depend on the lists and on the values of the linked nodes only.
LEMMA SameEntries ==
    ASSUME TableInv, data' = data, list' = list,
           \A b \in Buckets : \A i \in 1..Len(list[b]) :
                value'[list[b][i]] = value[list[b][i]]
    PROVE  Entries' = Entries
BY DEF Entries

\* Locking, searching, preparing a node and returning do not show.
LEMMA HiddenSteps ==
    ASSUME TableInv, NEW t \in Threads,
           \/ Enter(t) \/ Search(t) \/ Prepare(t)
           \/ Leave(t, {"updated"}) \/ Leave(t, {"inserted"})
           \/ Leave(t, {"updated", "inserted"})
    PROVE  UNCHANGED Atomic!vars
<1>1. UNCHANGED <<data, main, missing, list>>
      BY DEF Enter, Search, Prepare, Leave, mainVars, tableVars
<1>2. Applied' = Applied
      BY DEF Enter, Search, Prepare, Leave, Goto, Applied, TableInv,
             ThreadsTypeOK
<1>3. ASSUME NEW b \in Buckets, NEW i \in 1..Len(list[b])
      PROVE  value'[list[b][i]] = value[list[b][i]]
  <2>1. CASE Prepare(t)
    <3>1. done[t] \in Applied[t]..(Size - 1)
          BY <2>1, InsideCall, AppliedType, SizeAssumption DEF Prepare, Inside
    <3>2. list[b][i] # Call(t)
          BY <3>1 DEF TableInv, PastNodes, Call
    <3>3. list[b][i] \in Calls
          BY ElementOfSeq DEF TableInv, ThreadsTypeOK
    <3> QED BY <2>1, <3>2, <3>3 DEF Prepare, TableInv, ThreadsTypeOK
  <2>2. CASE ~Prepare(t)
        BY <2>2 DEF Enter, Search, Leave, tableVars
  <2> QED BY <2>1, <2>2
<1>4. Entries' = Entries
      BY <1>1, <1>3, SameEntries
<1> QED BY <1>1, <1>2, <1>4 DEF Atomic!vars

\* The step of a thread at which its call takes effect is add_entry, once the
\* entries of its bucket become what add_entry makes of them.
LEMMA AddEntryStep ==
    ASSUME TableInv, NEW t \in Threads, Inside(t),
           pc[t] \notin {"updated", "inserted"},
           \/ pc' = [pc EXCEPT ![t] = "updated"]
           \/ pc' = [pc EXCEPT ![t] = "inserted"],
           UNCHANGED <<data, main, missing, done>>,
           \A c \in Buckets \ {Bucket(t)} : Entries'[c] = Entries[c],
           Entries'[Bucket(t)] =
                Atomic!Added(Entries[Bucket(t)], Key(t), Call(t))
    PROVE  Atomic!AddEntry(t)
<1> DEFINE b == Bucket(t)
<1>1. /\ b \in Buckets /\ done[t] < Size /\ main = "adding"
      /\ Applied[t] = done[t]
      BY InsideCall, AppliedType, SizeAssumption
<1>2. Applied' = [Applied EXCEPT ![t] = @ + 1]
      BY DEF Applied, TableInv, ThreadsTypeOK
<1>3. /\ Atomic!GlobalIndex(t, Applied[t]) = Call(t)
      /\ data[Call(t)] = Key(t) /\ BucketOf[Key(t)] = b
      BY <1>1 DEF Atomic!GlobalIndex, Call, Key, Bucket
<1>4. Entries' = [Entries EXCEPT ![b] = Atomic!Added(@, Key(t), Call(t))]
  <2> HIDE DEF b
  <2>1. \A c \in Buckets :
            Entries'[c] = [Entries EXCEPT
                            ![b] = Atomic!Added(@, Key(t), Call(t))][c]
        BY <1>1 DEF Entries, b
  <2>2. DOMAIN Entries = Buckets /\ DOMAIN Entries' = Buckets
        BY DEF Entries
  <2>3. /\ Entries' = [c \in Buckets |-> Entries'[c]]
        /\ [Entries EXCEPT ![b] = Atomic!Added(@, Key(t), Call(t))]
            = [c \in Buckets |-> [Entries EXCEPT
                    ![b] = Atomic!Added(@, Key(t), Call(t))][c]]
        BY <2>2 DEF Entries
  <2> QED BY <2>1, <2>3
<1> QED BY <1>1, <1>2, <1>3, <1>4 DEF Atomic!AddEntry

\* Overwriting the value of the node that was found is add_entry of a key that
\* is in the table.
LEMMA UpdateAtomic ==
    ASSUME TableInv, NEW t \in Threads, Update(t)
    PROVE  Atomic!AddEntry(t)
<1> DEFINE b == Bucket(t)
           q == list[b]
           e == Entries[b]
<1>1. /\ UNCHANGED <<data, main, missing, list, done>>
      /\ pc[t] = "found" /\ Inside(t) /\ pc' = [pc EXCEPT ![t] = "updated"]
      BY DEF Update, mainVars, Inside, Goto
<1>2. b \in Buckets /\ Call(t) \in Calls
      BY <1>1, InsideCall
<1>3. PICK m \in Hits(q, Key(t)) : list_entry[t] = q[m]
      BY <1>1 DEF TableInv, CallsOK, CallOK
<1>4. /\ m \in 1..Len(q) /\ Hits(q, Key(t)) # {}
      /\ Min(Hits(q, Key(t))) = m /\ data[q[m]] = Key(t) /\ q[m] \in Calls
      BY <1>2, <1>3, OneHit DEF Hits
<1>5. /\ value'[q[m]] = Call(t)
      /\ \A n \in Calls \ {q[m]} : value'[n] = value[n]
      BY <1>3, <1>4 DEF Update, NewValue, TableInv, ThreadsTypeOK
<1>6. ASSUME NEW c \in Buckets, NEW i \in 1..Len(list[c]), c # b \/ i # m
      PROVE  value'[list[c][i]] = value[list[c][i]]
  <2>1. list[c][i] # q[m]
        BY <1>2, <1>4, <1>6 DEF TableInv, OneEntryPerKey
  <2>2. list[c][i] \in Calls
        BY ElementOfSeq DEF TableInv, ThreadsTypeOK
  <2> QED BY <1>5, <2>1, <2>2
<1>7. ASSUME NEW c \in Buckets \ {b} PROVE Entries'[c] = Entries[c]
      BY <1>1, <1>6 DEF Entries
<1>8. Entries'[b] = Atomic!Added(e, Key(t), Call(t))
  <2>1. Atomic!Hits(e, Key(t)) = Hits(q, Key(t))
        BY <1>2, EntriesOfList
  <2>2. Atomic!Added(e, Key(t), Call(t)) = [e EXCEPT ![m].value = Call(t)]
    <3>1. Atomic!Min(Hits(q, Key(t))) = m
          BY <1>4 DEF Atomic!Min, Min
    <3> QED BY <1>4, <2>1, <3>1 DEF Atomic!Added
  <2>3. e = [i \in 1..Len(q) |-> [key |-> data[q[i]], value |-> value[q[i]]]]
        BY <1>2 DEF Entries
  <2>4. Entries'[b] =
            [i \in 1..Len(q) |-> [key |-> data[q[i]], value |-> value'[q[i]]]]
        BY <1>1, <1>2 DEF Entries
  <2>5. ASSUME NEW i \in 1..Len(q)
        PROVE  [key |-> data[q[i]], value |-> value'[q[i]]]
                = [e EXCEPT ![m].value = Call(t)][i]
    <3>1. CASE i = m
          BY <1>4, <1>5, <2>3, <3>1
    <3>2. CASE i # m
          BY <1>2, <1>6, <2>3, <3>2
    <3> QED BY <3>1, <3>2
  <2>6. [e EXCEPT ![m].value = Call(t)]
            = [i \in 1..Len(q) |-> [e EXCEPT ![m].value = Call(t)][i]]
        BY <2>3
  <2> HIDE DEF e, q
  <2> QED BY <2>2, <2>4, <2>5, <2>6
<1> QED BY <1>1, <1>7, <1>8, AddEntryStep

\* Linking the new node is add_entry of a key that is not in the table.
LEMMA InsertAtomic ==
    ASSUME TableInv, NEW t \in Threads, Insert(t)
    PROVE  Atomic!AddEntry(t)
<1> DEFINE b == Bucket(t)
           q == list[b]
           r == list'[b]
           e == Entries[b]
           new == [key |-> Key(t), value |-> Call(t)]
<1>1. /\ UNCHANGED <<data, main, missing, value, done>>
      /\ pc[t] = "linking" /\ Inside(t) /\ pc' = [pc EXCEPT ![t] = "inserted"]
      BY DEF Insert, mainVars, Inside, Goto
<1>2. b \in Buckets /\ Call(t) \in Calls /\ Key(t) \in Keys
      BY <1>1, InsideCall
<1>3. /\ list' = [list EXCEPT ![b] = r]
      /\ q \in Seq(Calls) /\ Len(q) \in Nat
      /\ Len(r) = Len(q) + 1 /\ r[1] = Call(t)
      /\ \A i \in 2..Len(r) : i - 1 \in 1..Len(q) /\ r[i] = q[i - 1]
      /\ Hits(q, Key(t)) = {} /\ value[Call(t)] = Call(t)
      BY InsertedList
<1>4. ASSUME NEW c \in Buckets \ {b} PROVE Entries'[c] = Entries[c]
  <2>1. list'[c] = list[c]
        BY <1>3 DEF TableInv, ThreadsTypeOK
  <2> QED BY <1>1, <2>1 DEF Entries
<1>5. Entries'[b] = Atomic!Added(e, Key(t), Call(t))
  <2>1. /\ e \in Seq(Entry) /\ Len(e) = Len(q)
        /\ \A i \in 1..Len(q) : e[i] = [key |-> data[q[i]], value |-> value[q[i]]]
        /\ Atomic!Hits(e, Key(t)) = Hits(q, Key(t))
        BY <1>2, EntriesOfList
  <2>2. Atomic!Added(e, Key(t), Call(t)) = <<new>> \o e
        BY <1>3, <2>1 DEF Atomic!Added
  <2>3. Entries'[b] =
            [i \in 1..Len(r) |-> [key |-> data[r[i]], value |-> value[r[i]]]]
        BY <1>1, <1>2 DEF Entries
  <2>4. /\ <<new>> \in Seq(Entry) /\ Len(<<new>>) = 1 /\ <<new>>[1] = new
        BY <1>2 DEF Entry
  <2> DEFINE s == <<new>>
  <2> HIDE DEF e, s
  <2>5. /\ s \o e \in Seq(Entry)
        /\ Len(s \o e) = Len(s) + Len(e)
        /\ \A i \in 1..(Len(s) + Len(e)) :
              (s \o e)[i] = IF i <= Len(s) THEN s[i] ELSE e[i - Len(s)]
        BY <2>1, <2>4, ConcatProperties DEF s
  <2>6. Len(s \o e) = Len(r) /\ DOMAIN (s \o e) = 1..Len(r)
        BY <1>3, <2>1, <2>4, <2>5, LenProperties DEF s
  <2>7. ASSUME NEW i \in 1..Len(r)
        PROVE  (s \o e)[i] = [key |-> data[r[i]], value |-> value[r[i]]]
    <3>1. CASE i = 1
      <4>1. (s \o e)[i] = new
            BY <1>3, <2>1, <2>4, <2>5, <3>1 DEF s
      <4> QED BY <1>3, <3>1, <4>1 DEF Key
    <3>2. CASE i # 1
      <4>1. i \in 2..Len(r) /\ i - 1 \in 1..Len(q) /\ r[i] = q[i - 1]
            BY <1>3, <3>2
      <4>2. (s \o e)[i] = e[i - 1]
            BY <1>3, <2>1, <2>4, <2>5, <4>1 DEF s
      <4> QED BY <2>1, <4>1, <4>2
    <3> QED BY <3>1, <3>2
  <2>8. s \o e = [i \in 1..Len(r) |-> (s \o e)[i]]
        BY <2>5, <2>6, LenProperties
  <2> QED BY <2>2, <2>3, <2>7, <2>8 DEF s
<1> QED BY <1>1, <1>4, <1>5, AddEntryStep

\* main's steps are the same in the atomic table.
LEMMA MainAtomic ==
    ASSUME TableInv, Join \/ Count \/ Destroy
    PROVE  Atomic!Next
<1>1. CASE Join
  <2>1. \A t \in Threads : Applied[t] = Size
        BY <1>1 DEF Join, Applied
  <2>2. Applied' = Applied /\ Entries' = Entries
        BY <1>1 DEF Join, Applied, Entries
  <2>3. Atomic!Join
        BY <1>1, <2>1, <2>2 DEF Join, Atomic!Join, Atomic!Threads, Threads
  <2> QED BY <2>3 DEF Atomic!Next
<1>2. CASE Count
  <2>1. Applied' = Applied /\ Entries' = Entries
        BY <1>2 DEF Count, Applied, Entries
  <2>2. ASSUME NEW c \in Calls
        PROVE  ContainsKey(data[c]) <=> Atomic!ContainsKey(data[c])
    <3>1. BucketOf[data[c]] \in Buckets
          BY DEF TableInv, ThreadsTypeOK, Buckets
    <3>2. Atomic!Hits(Entries[BucketOf[data[c]]], data[c])
            = Hits(list[BucketOf[data[c]]], data[c])
          BY <3>1, EntriesOfList
    <3> QED BY <3>1, <3>2, NoHit DEF ContainsKey, Atomic!ContainsKey
  <2>3. {c \in Calls : ~ContainsKey(data[c])}
            = {c \in Calls : ~Atomic!ContainsKey(data[c])}
        BY <2>2
  <2> DEFINE absent == {c \in Calls : ~ContainsKey(data[c])}
  <2>4. Cardinality(absent) = Atomic!Cardinality(absent)
        BY DEF Cardinality, Atomic!Cardinality
  <2>5. missing' = Atomic!Cardinality(absent)
        BY <1>2, <2>4 DEF Count
  <2>6. Atomic!Count
        BY <1>2, <2>1, <2>3, <2>5 DEF Count, Atomic!Count, Atomic!Calls, Calls
  <2> QED BY <2>6 DEF Atomic!Next
<1>3. CASE Destroy
  <2>1. Applied' = Applied
        BY <1>3 DEF Destroy, Applied
  <2>2. Entries' = [b \in Buckets |-> <<>>]
    <3>1. ASSUME NEW b \in Buckets
          PROVE  [i \in 1..Len(list'[b]) |->
                    [key |-> data'[list'[b][i]],
                     value |-> value'[list'[b][i]]]] = <<>>
      <4>1. list'[b] = <<>> /\ Len(<<>>) = 0
            BY <1>3 DEF Destroy
      <4> QED BY <4>1
    <3> QED BY <3>1 DEF Entries
  <2>3. Atomic!Destroy
        BY <1>3, <2>1, <2>2 DEF Destroy, Atomic!Destroy, Atomic!Buckets, Buckets
  <2> QED BY <2>3 DEF Atomic!Next
<1> QED BY <1>1, <1>2, <1>3
=============================================================================
