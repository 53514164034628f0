----------------------------- MODULE VmsProofs -----------------------------
(***************************************************************************)
(* Proofs about Vms, for every size of the pool and of the tables and      *)
(* every set of addresses: types, tables that are private, writable pages  *)
(* that are private, counters that cover the sharers, and the step         *)
(* simulation of PrivateMemory.                                            *)
(***************************************************************************)
EXTENDS Vms, PageEntries, FiniteSetTheorems, TLAPS

Entry == [ppn : Pages, valid : BOOLEAN, read : BOOLEAN, write : BOOLEAN,
          custom : BOOLEAN]
Paths == Steps \X Steps \X Steps

\* The path of the root table.
Top == <<Stop, Stop, Stop>>

-----------------------------------------------------------------------------
(* Paths, and the order in which a fork copies them.                       *)

LEMMA PathParts ==
    ASSUME NEW w \in Paths
    PROVE  /\ w = <<w[1], w[2], w[3]>>
           /\ w[1] \in Steps /\ w[2] \in Steps /\ w[3] \in Steps
           /\ \A n \in 1..3 : w[n] = Stop \/ w[n] \in Index
           /\ w[1] \in Int /\ w[2] \in Int /\ w[3] \in Int
BY SizesAssumption DEF Paths, Steps, Index, Stop

LEMMA StopNotIndex == Stop \notin Index /\ Stop \in Int
BY SizesAssumption DEF Stop, Index

LEMMA SomePaths ==
    ASSUME NEW r
    PROVE  /\ TablePaths(r) \subseteq AllPaths(r)
           /\ AllPaths(r) \subseteq Paths
           /\ Top \in TablePaths(r)
           /\ \A w \in TablePaths(r) : w[3] = Stop
           /\ \A w \in AllPaths(r) : w[3] = Stop => w \in TablePaths(r)
<1>1. TablePaths(r) \subseteq AllPaths(r) /\ AllPaths(r) \subseteq Paths
      BY DEF TablePaths, AllPaths, Paths, Steps
<1>2. Top \in TablePaths(r)
      BY DEF TablePaths, Top, Leads, Steps
<1>3. \A w \in TablePaths(r) : w[3] = Stop
      BY DEF TablePaths
<1>4. \A w \in AllPaths(r) : w[3] = Stop => w \in TablePaths(r)
      BY DEF TablePaths, AllPaths
<1> QED BY <1>1, <1>2, <1>3, <1>4

LEMMA PathsFinite == IsFiniteSet(Paths)
<1>1. IsFiniteSet(Index)
      BY FS_Interval, SizesAssumption DEF Index
<1>2. IsFiniteSet(Steps)
      BY <1>1, FS_AddElement DEF Steps
<1>3. IsFiniteSet(Steps \X Steps)
      BY <1>2, FS_Product
<1>4. IsFiniteSet((Steps \X Steps) \X Steps)
      BY <1>2, <1>3, FS_Product
<1>5. DEFINE f == [x \in (Steps \X Steps) \X Steps |-> <<x[1][1], x[1][2], x[2]>>]
<1>6. f \in Surjection((Steps \X Steps) \X Steps, Paths)
  <2>1. f \in [(Steps \X Steps) \X Steps -> Paths]
        BY DEF Paths
  <2>2. ASSUME NEW w \in Paths
        PROVE  \E x \in (Steps \X Steps) \X Steps : f[x] = w
    <3>1. <<<<w[1], w[2]>>, w[3]>> \in (Steps \X Steps) \X Steps
          BY PathParts
    <3>2. f[<<<<w[1], w[2]>>, w[3]>>] = w
          BY <3>1, PathParts
    <3> QED BY <3>1, <3>2
  <2> QED BY <2>1, <2>2 DEF Surjection
<1> QED BY <1>4, <1>6, FS_Surjection

\* Before is a strict total order of paths.
LEMMA BeforeOrder ==
    ASSUME NEW u \in Paths, NEW v \in Paths, NEW w \in Paths
    PROVE  /\ ~Before(u, u)
           /\ Before(u, v) /\ Before(v, w) => Before(u, w)
           /\ u = v \/ Before(u, v) \/ Before(v, u)
BY PathParts DEF Before

\* Different paths are copied to different pages, the first of which is `used`.
LEMMA CopiesDiffer ==
    ASSUME used \in Nat, NEW paths \in SUBSET Paths, NEW w \in paths
    PROVE  /\ CopyOf(paths, w) \in used..(used + Cardinality(paths) - 1)
           /\ \A v \in paths : CopyOf(paths, v) = CopyOf(paths, w) => v = w
           /\ Cardinality(paths) \in Nat
           /\ IsFiniteSet(paths)
<1> DEFINE Prior(v) == {u \in paths : Before(u, v)}
<1>1. IsFiniteSet(paths) /\ Cardinality(paths) \in Nat
      BY PathsFinite, FS_Subset, FS_CardinalityType
<1>2. ASSUME NEW v \in paths
      PROVE  /\ IsFiniteSet(Prior(v)) /\ Cardinality(Prior(v)) \in Nat
             /\ CopyOf(paths, v) = used + Cardinality(Prior(v))
  <2>1. Prior(v) \in SUBSET paths
        OBVIOUS
  <2> QED BY <1>1, <2>1, FS_Subset, FS_CardinalityType DEF CopyOf
<1>3. Cardinality(Prior(w)) < Cardinality(paths)
  <2>1. Prior(w) \in SUBSET paths /\ w \notin Prior(w)
        BY BeforeOrder
  <2>2. Prior(w) # paths
        BY <2>1
  <2> HIDE DEF Prior
  <2>3. Cardinality(Prior(w)) <= Cardinality(paths)
        BY <1>1, <2>1, FS_Subset
  <2>4. Cardinality(paths) # Cardinality(Prior(w))
        BY <1>1, <2>1, <2>2, FS_Subset
  <2> QED BY <1>1, <1>2, <2>3, <2>4
<1>4. ASSUME NEW u \in paths, NEW v \in paths, Before(u, v)
      PROVE  Cardinality(Prior(u)) < Cardinality(Prior(v))
  <2>1. Prior(u) \in SUBSET Prior(v)
        BY <1>4, BeforeOrder
  <2>2. u \in Prior(v) /\ u \notin Prior(u)
        BY <1>4, BeforeOrder
  <2>3. Prior(u) # Prior(v)
        BY <2>2
  <2>4. Cardinality(Prior(u)) <= Cardinality(Prior(v))
        /\ Cardinality(Prior(v)) # Cardinality(Prior(u))
        BY <1>2, <2>1, <2>3, FS_Subset
  <2> QED BY <1>2, <2>4
<1> HIDE DEF Prior
<1>5. ASSUME NEW v \in paths, CopyOf(paths, v) = CopyOf(paths, w)
      PROVE  v = w
  <2>1. Cardinality(Prior(v)) = Cardinality(Prior(w))
    <3>1. /\ CopyOf(paths, v) = used + Cardinality(Prior(v))
          /\ Cardinality(Prior(v)) \in Nat
          BY <1>2
    <3>2. /\ CopyOf(paths, w) = used + Cardinality(Prior(w))
          /\ Cardinality(Prior(w)) \in Nat
          BY <1>2
    <3>3. \A x, y \in Nat : used + x = used + y => x = y
          OBVIOUS
    <3>4. used + Cardinality(Prior(v)) = used + Cardinality(Prior(w))
          BY <1>5, <3>1, <3>2, Zenon
    <3> QED BY <3>1, <3>2, <3>3, <3>4, Zenon
  <2>2. ~Before(v, w) /\ ~Before(w, v)
        BY <1>2, <1>4, <2>1
  <2> QED BY <2>2, BeforeOrder
<1> QED BY <1>1, <1>2, <1>3, <1>5

\* The path whose copy a page is comes back.
LEMMA CopiedBack ==
    ASSUME used \in Nat, NEW paths \in SUBSET Paths, NEW w \in paths
    PROVE  Copied(paths, CopyOf(paths, w)) = w
<1>1. \E v \in paths : CopyOf(paths, v) = CopyOf(paths, w)
      OBVIOUS
<1>2. /\ Copied(paths, CopyOf(paths, w)) \in paths
      /\ CopyOf(paths, Copied(paths, CopyOf(paths, w))) = CopyOf(paths, w)
      BY <1>1 DEF Copied
<1> QED BY <1>2, CopiesDiffer

\* The root is copied first.
LEMMA TopFirst ==
    ASSUME used \in Nat, NEW paths \in SUBSET Paths, Top \in paths
    PROVE  CopyOf(paths, Top) = used
<1>1. {v \in paths : Before(v, Top)} = {}
  <2> SUFFICES ASSUME NEW v \in paths, Before(v, Top) PROVE FALSE
      OBVIOUS
  <2>1. v[1] >= -1 /\ v[2] >= -1 /\ v[3] >= -1
        /\ v[1] \in Int /\ v[2] \in Int /\ v[3] \in Int
        BY PathParts DEF Index, Stop
  <2> QED BY <2>1 DEF Before, Top, Stop
<1> QED BY <1>1, FS_EmptySet DEF CopyOf

-----------------------------------------------------------------------------
(* Types.                                                                  *)

LEMMA WalkType ==
    ASSUME TypeOK, NEW r \in Pages, NEW w \in Paths
    PROVE  /\ w[1] # Stop => Upper(r, w) \in Entry
           /\ w[1] # Stop /\ w[2] # Stop => Middle(r, w) \in Entry
           /\ w[1] # Stop /\ w[2] # Stop /\ w[3] # Stop => Leaf(r, w) \in Entry
           /\ Leads(r, w) => PageAt(r, w) \in Pages
<1>1. \A p \in Pages, i \in Index : tab[p][i] \in Entry
      BY DEF TypeOK, Entry
<1>2. \A e \in Entry : e.ppn \in Pages
      BY DEF Entry
<1>3. w[1] # Stop => Upper(r, w) \in Entry
      BY <1>1, PathParts DEF Upper
<1>4. w[1] # Stop /\ w[2] # Stop => Middle(r, w) \in Entry
      BY <1>1, <1>2, <1>3, PathParts DEF Middle
<1>5. w[1] # Stop /\ w[2] # Stop /\ w[3] # Stop => Leaf(r, w) \in Entry
      BY <1>1, <1>2, <1>4, PathParts DEF Leaf, Table0
<1>6. Leads(r, w) => PageAt(r, w) \in Pages
      BY <1>2, <1>3, <1>4, <1>5 DEF Leads, PageAt
<1> QED BY <1>3, <1>4, <1>5, <1>6

LEMMA AddressPaths ==
    ASSUME NEW a \in Addresses
    PROVE  /\ a \in Paths /\ a = <<a[1], a[2], a[3]>>
           /\ a[1] \in Index /\ a[2] \in Index /\ a[3] \in Index
           /\ a[1] # Stop /\ a[2] # Stop /\ a[3] # Stop
BY AddressAssumption, StopNotIndex DEF Paths, Steps

LEMMA AddressType ==
    ASSUME TypeOK, NEW r \in Pages, NEW a \in Addresses
    PROVE  /\ Upper(r, a) \in Entry
           /\ Middle(r, a) \in Entry
           /\ Leaf(r, a) \in Entry
           /\ Table0(r, a) \in Pages
           /\ Leaf(r, a).ppn \in Pages
BY WalkType, AddressPaths DEF Entry, Table0

\* What a fork puts into the copies are entries.
LEMMA MovedType ==
    ASSUME TypeOK, NEW paths \in SUBSET AllPaths(root), NEW w \in paths,
           Room(Cardinality(paths)), NEW i \in Index
    PROVE  /\ Moved(paths, w, i) \in Entry
           /\ Protected(Moved(paths, w, i)) \in Entry
<1>1. paths \in SUBSET Paths /\ used \in Nat /\ MaxPages \in Nat /\ root \in Pages
      BY SomePaths, SizesAssumption DEF TypeOK
<1>2. tab[PageAt(root, w)][i] \in Entry
  <2>1. PageAt(root, w) \in Pages
        BY <1>1, WalkType DEF AllPaths
  <2> QED BY <2>1 DEF TypeOK, Entry
<1>3. \A v \in paths : CopyOf(paths, v) \in Pages
      BY <1>1, CopiesDiffer DEF Room, Pages
<1>4. Moved(paths, w, i) \in Entry
      BY <1>2, <1>3 DEF Moved, Entry
<1>5. \A e \in Entry : Protected(e) \in Entry
      BY DEF Protected, Entry
<1> QED BY <1>4, <1>5

LEMMA InitType == Init => TypeOK
BY SizesAssumption DEF Init, TypeOK, NoEntry, Pages

LEMMA MapType ==
    ASSUME TypeOK, NEW a \in Addresses, NEW mode \in Modes[a], Map(a, mode)
    PROVE  TypeOK'
<1>1. root \in Pages /\ a[1] \in Index /\ a[2] \in Index /\ a[3] \in Index
      BY AddressPaths DEF TypeOK
<1>2. /\ Upper(root, a) \in Entry /\ Middle(root, a) \in Entry
      /\ Table0(root, a) \in Pages
      BY <1>1, AddressType
<1> DEFINE level1 == IF Upper(root, a).valid THEN 0 ELSE 1
           level0 == IF Walks(root, a) THEN 0 ELSE 1
           l1 == IF level1 = 0 THEN Upper(root, a).ppn ELSE used
           l0 == IF level0 = 0 THEN Table0(root, a) ELSE used + level1
           p0 == used + level1 + level0
<1>3. CASE Room(level1 + level0 + 1)
  <2>1. /\ used' = p0 + 1
        /\ tab' = [tab EXCEPT
               ![root][a[1]] = Pointer(l1),
               ![l1][a[2]] = Pointer(l0),
               ![l0][a[3]] = [Pointer(p0) EXCEPT !.read = "read" \in mode,
                                         !.write = "write" \in mode]]
        /\ UNCHANGED <<machine, val, arr, root, procs>>
        BY <1>3 DEF Map
  <2>2. /\ level1 \in 0..1 /\ level0 \in 0..1 /\ used \in 1..MaxPages
        /\ p0 + 1 <= MaxPages
        BY <1>3 DEF Room, TypeOK
  <2>3. l1 \in Pages /\ l0 \in Pages /\ p0 \in Pages /\ used' \in 1..MaxPages
        BY <1>2, <2>1, <2>2, SizesAssumption DEF Pages, Entry
  <2> HIDE DEF level1, level0, l1, l0, p0
  <2>4. \A p \in Pages : Pointer(p) \in Entry
        BY DEF Pointer, NoEntry, Entry
  <2>5. [Pointer(p0) EXCEPT !.read = "read" \in mode,
                            !.write = "write" \in mode] \in Entry
    <3>1. \A b, c \in BOOLEAN :
              [Pointer(p0) EXCEPT !.read = b, !.write = c] \in Entry
          BY <2>3, <2>4 DEF Entry
    <3>2. ("read" \in mode) \in BOOLEAN /\ ("write" \in mode) \in BOOLEAN
          OBVIOUS
    <3> QED BY <3>1, <3>2, Zenon
  <2>6. tab \in [Pages -> [Index -> Entry]]
        BY DEF TypeOK, Entry
  <2>7. tab' \in [Pages -> [Index -> Entry]]
        BY <1>1, <2>1, <2>3, <2>4, <2>5, <2>6
  <2> QED BY <2>1, <2>3, <2>7 DEF TypeOK, Entry
<1>4. CASE ~Room(level1 + level0 + 1)
      BY <1>4 DEF Map, Exit, TypeOK
<1> QED BY <1>3, <1>4

\* A fork that has room takes as many pages as it copies.
LEMMA ForkRoom ==
    ASSUME TypeOK, NEW paths \in SUBSET AllPaths(root), Top \in paths,
           Room(Cardinality(paths))
    PROVE  /\ used \in Pages
           /\ used + Cardinality(paths) \in (used + 1)..MaxPages
           /\ \A p \in Copies(paths) :
                  Copied(paths, p) \in paths /\ CopyOf(paths, Copied(paths, p)) = p
<1>1. paths \in SUBSET Paths /\ used \in Nat /\ MaxPages \in Nat
      BY SomePaths, SizesAssumption DEF TypeOK
<1>2. CopyOf(paths, Top) \in used..(used + Cardinality(paths) - 1)
      /\ Cardinality(paths) \in Nat
      BY <1>1, CopiesDiffer
<1>3. CopyOf(paths, Top) = used
      BY <1>1, TopFirst
<1>4. \A p \in Copies(paths) :
          Copied(paths, p) \in paths /\ CopyOf(paths, Copied(paths, p)) = p
      BY <1>1, CopiedBack DEF Copies
<1> QED BY <1>1, <1>2, <1>3, <1>4 DEF Room, Pages

LEMMA ForkOnWriteType ==
    ASSUME TypeOK, ForkCopyOnWrite
    PROVE  TypeOK'
<1> DEFINE paths == TablePaths(root)
<1>1. paths \in SUBSET AllPaths(root) /\ Top \in paths
      BY SomePaths
<1>2. CASE Room(Cardinality(paths))
  <2>1. \A p \in Copies(paths) : Copied(paths, p) \in paths
        BY <1>1, <1>2, ForkRoom
  <2>2. tab \in [Pages -> [Index -> Entry]]
        BY DEF TypeOK, Entry
  <2>3. \A e \in Entry : Protected(e) \in Entry /\ InParent(e) \in Entry
        BY DEF Protected, InParent, Entry
  <2>4. \A w \in paths, i \in Index : Protected(Moved(paths, w, i)) \in Entry
        BY <1>1, <1>2, MovedType
  <2>5. tab' = [p \in Pages |-> [i \in Index |->
            IF p \in Copies(paths)
            THEN Protected(Moved(paths, Copied(paths, p), i))
            ELSE IF p \in Tables(root) THEN InParent(tab[p][i])
            ELSE tab[p][i]]]
        BY <1>2 DEF ForkCopyOnWrite
  <2>6. arr' \in [Pages -> Nat]
    <3> DEFINE Sharers(p) == {e \in Tables(root) \X Index :
                   Shares(tab[e[1]][e[2]]) /\ tab[e[1]][e[2]].ppn = p}
    <3>1. arr' = [p \in Pages |-> arr[p] + TwoMore * Cardinality(Sharers(p))]
          BY <1>2 DEF ForkCopyOnWrite
    <3>2. Tables(root) \subseteq Pages
          BY WalkType, SomePaths DEF TypeOK, Tables, TablePaths, AllPaths
    <3>3. IsFiniteSet(Pages) /\ IsFiniteSet(Index)
          BY FS_Interval, SizesAssumption DEF Pages, Index
    <3>4. IsFiniteSet(Tables(root) \X Index)
          BY <3>2, <3>3, FS_Subset, FS_Product
    <3>5. \A p \in Pages : Cardinality(Sharers(p)) \in Nat
      <4>1. \A p \in Pages : Sharers(p) \in SUBSET (Tables(root) \X Index)
            OBVIOUS
      <4> HIDE DEF Sharers
      <4> QED BY <3>4, <4>1, FS_Subset, FS_CardinalityType
    <3> HIDE DEF Sharers
    <3> QED BY <3>1, <3>5 DEF TypeOK, TwoMore
  <2> HIDE DEF paths
  <2>7. tab' \in [Pages -> [Index -> Entry]]
        BY <2>1, <2>2, <2>3, <2>4, <2>5
  <2>8. /\ used' = used + Cardinality(paths) /\ procs' = procs \cup {used}
        /\ UNCHANGED <<machine, val, root>>
        BY <1>2 DEF ForkCopyOnWrite, paths
  <2>9. used \in Pages /\ used' \in 1..MaxPages
        BY <1>1, <1>2, <2>8, ForkRoom, SizesAssumption DEF TypeOK
  <2> QED BY <2>6, <2>7, <2>8, <2>9 DEF TypeOK, Entry
<1>3. CASE ~Room(Cardinality(paths))
      BY <1>3 DEF ForkCopyOnWrite, Exit, TypeOK
<1> QED BY <1>2, <1>3

LEMMA ForkType ==
    ASSUME TypeOK, ForkCopy
    PROVE  TypeOK'
<1> DEFINE paths == AllPaths(root)
<1>1. paths \in SUBSET AllPaths(root) /\ Top \in paths
      BY SomePaths
<1>2. CASE Room(Cardinality(paths))
  <2>1. \A p \in Copies(paths) :
            Copied(paths, p) \in paths /\ PageAt(root, Copied(paths, p)) \in Pages
    <3>1. \A w \in paths : PageAt(root, w) \in Pages
          BY WalkType, SomePaths DEF AllPaths, TypeOK
    <3> QED BY <1>1, <1>2, <3>1, ForkRoom
  <2>2. tab \in [Pages -> [Index -> Entry]]
        BY DEF TypeOK, Entry
  <2>3. \A w \in paths, i \in Index : Moved(paths, w, i) \in Entry
        BY <1>1, <1>2, MovedType
  <2>4. /\ tab' = [p \in Pages |-> [i \in Index |->
               IF p \in Copies(paths)
               THEN Moved(paths, Copied(paths, p), i)
               ELSE tab[p][i]]]
        /\ val' = [p \in Pages |->
               IF p \in Copies(paths)
               THEN val[PageAt(root, Copied(paths, p))]
               ELSE val[p]]
        /\ used' = used + Cardinality(paths) /\ procs' = procs \cup {used}
        /\ UNCHANGED <<machine, arr, root>>
        BY <1>2 DEF ForkCopy
  <2>5. used \in Pages /\ used' \in 1..MaxPages
        BY <1>1, <1>2, <2>4, ForkRoom, SizesAssumption DEF TypeOK
  <2> HIDE DEF paths
  <2>6. tab' \in [Pages -> [Index -> Entry]]
        BY <2>1, <2>2, <2>3, <2>4
  <2>7. val' \in [Pages -> [Offsets -> Values \cup {0}]]
        BY <2>1, <2>4 DEF TypeOK
  <2> QED BY <2>4, <2>5, <2>6, <2>7 DEF TypeOK, Entry
<1>3. CASE ~Room(Cardinality(paths))
      BY <1>3 DEF ForkCopy, Exit, TypeOK
<1> QED BY <1>2, <1>3

LEMMA HandleType ==
    ASSUME TypeOK, NEW a \in Addresses, Handle(a),
           NeedsCopy(Leaf(root, a).ppn) => Room(1)
    PROVE  /\ used' \in 1..MaxPages
           /\ tab' \in [Pages -> [Index -> Entry]]
           /\ arr' \in [Pages -> Nat]
           /\ Target(a) \in Pages
<1>1. /\ Leaf(root, a) \in Entry /\ Leaf(root, a).ppn \in Pages
      /\ Table0(root, a) \in Pages /\ a[3] \in Index
      BY AddressType, AddressPaths DEF TypeOK
<1>2. Target(a) \in Pages /\ used' \in 1..MaxPages
  <2>1. used' = IF NeedsCopy(Leaf(root, a).ppn) THEN used + 1 ELSE used
        BY DEF Handle
  <2>2. Target(a) = IF NeedsCopy(Leaf(root, a).ppn) THEN used
                    ELSE Leaf(root, a).ppn
        BY DEF Target
  <2>3. used \in 1..MaxPages /\ MaxPages \in Nat
        BY SizesAssumption DEF TypeOK
  <2> QED BY <1>1, <2>1, <2>2, <2>3 DEF Room, Pages
<1>3. Resolved(a) \in Entry
      BY <1>1, <1>2 DEF Resolved, Entry
<1>4. tab' \in [Pages -> [Index -> Entry]]
  <2>1. tab \in [Pages -> [Index -> Entry]]
        BY DEF TypeOK, Entry
  <2>2. tab' = [tab EXCEPT ![Table0(root, a)][a[3]] = Resolved(a)]
        BY DEF Handle
  <2> QED BY <1>1, <1>3, <2>1, <2>2
<1>5. arr' \in [Pages -> Nat]
  <2>1. \A n \in Nat : CountDown(n) \in Nat
        BY DEF CountDown
  <2> QED BY <1>1, <2>1 DEF Handle, TypeOK
<1> QED BY <1>2, <1>4, <1>5

LEMMA WriteType ==
    ASSUME TypeOK, NEW a \in Addresses, NEW o \in Offsets, NEW x \in Values,
           Write(a, o, x) \/ WriteFault(a, o, x)
    PROVE  TypeOK'
<1>1. Leaf(root, a).ppn \in Pages
      BY AddressType DEF TypeOK
<1>2. CASE Write(a, o, x)
      BY <1>1, <1>2 DEF Write, TypeOK
<1>3. CASE WriteFault(a, o, x) /\ Handle(a)
           /\ (NeedsCopy(Leaf(root, a).ppn) => Room(1))
           /\ val' = [val EXCEPT
                  ![Target(a)] = [Contents(Leaf(root, a).ppn) EXCEPT ![o] = x]]
           /\ UNCHANGED <<machine, root, procs>>
  <2>1. val' \in [Pages -> [Offsets -> Values \cup {0}]]
        BY <1>1, <1>3, HandleType DEF Contents, TypeOK
  <2> QED BY <1>3, <2>1, HandleType DEF TypeOK, Entry
<1>4. CASE Exit("ENOMEM")
      BY <1>4 DEF Exit, TypeOK
<1> QED BY <1>2, <1>3, <1>4 DEF WriteFault

LEMMA ReadType ==
    ASSUME TypeOK, NEW a \in Addresses, Read(a) \/ ReadFault(a)
    PROVE  TypeOK'
<1>1. Leaf(root, a).ppn \in Pages
      BY AddressType DEF TypeOK
<1>2. CASE Read(a)
      BY <1>2 DEF Read, vars, TypeOK
<1>3. CASE ReadFault(a) /\ Handle(a)
           /\ (NeedsCopy(Leaf(root, a).ppn) => Room(1))
           /\ val' = [val EXCEPT ![Target(a)] = Contents(Leaf(root, a).ppn)]
           /\ UNCHANGED <<machine, root, procs>>
  <2>1. val' \in [Pages -> [Offsets -> Values \cup {0}]]
        BY <1>1, <1>3, HandleType DEF Contents, TypeOK
  <2> QED BY <1>3, <2>1, HandleType DEF TypeOK, Entry
<1>4. CASE Exit("ENOMEM")
      BY <1>4 DEF Exit, TypeOK
<1> QED BY <1>2, <1>3, <1>4 DEF ReadFault

\* The steps that leave all pages as they are.
Idle ==
    /\ UNCHANGED <<used, tab, val, arr, procs>>
    /\ machine' \in {machine, "EFAULT", "ENOMEM"}
    /\ root' \in procs

LEMMA IdleSteps ==
    ASSUME TypeOK,
           \/ \E r \in Pages : Switch(r)
           \/ \E a \in Addresses : WriteFatal(a) \/ Read(a) \/ ReadFatal(a)
           \/ Stopped
           \/ Exit("ENOMEM")
           \/ UNCHANGED vars
    PROVE  Idle
BY DEF Idle, TypeOK, Switch, WriteFatal, Read, ReadFatal, Stopped, Exit, vars

LEMMA NextType == TypeOK /\ [Next]_vars => TypeOK'
<1> SUFFICES ASSUME TypeOK, [Next]_vars PROVE TypeOK'
    OBVIOUS
<1>1. CASE \E a \in Addresses : \E mode \in Modes[a] : Map(a, mode)
      BY <1>1, MapType
<1>2. CASE ForkCopyOnWrite
      BY <1>2, ForkOnWriteType
<1>3. CASE ForkCopy
      BY <1>3, ForkType
<1>4. CASE \E a \in Addresses, o \in Offsets, x \in Values :
               Write(a, o, x) \/ WriteFault(a, o, x)
      BY <1>4, WriteType
<1>5. CASE \E a \in Addresses : ReadFault(a)
      BY <1>5, ReadType
<1>6. ASSUME Idle PROVE TypeOK'
      BY <1>6 DEF Idle, TypeOK
<1> QED BY <1>1, <1>2, <1>3, <1>4, <1>5, <1>6, IdleSteps DEF Next

\* The variables have their types: no page number beyond the pool is ever
\* stored, and no counter falls below zero.
THEOREM TypeCorrect == Spec => []TypeOK
BY InitType, NextType, PTL DEF Spec

-----------------------------------------------------------------------------
(* The inductive invariant.                                                *)

\* Only the first `used` pages are referred to; the others are untouched.
InUse ==
    /\ \A r \in procs : r < used
    /\ \A p \in Pages, i \in Index : tab[p][i].ppn < used
    /\ \A p \in Pages : p >= used =>
           /\ \A i \in Index : tab[p][i] = NoEntry
           /\ \A o \in Offsets : val[p][o] = 0

\* An entry that points to a table has no permissions.
Plain(e) == ~e.read /\ ~e.write /\ ~e.custom
UpperPlain ==
    \A r \in procs : \A w \in AllPaths(r) :
        /\ w[1] # Stop => Plain(Upper(r, w))
        /\ w[2] # Stop => Plain(Middle(r, w))

\* A table is found by one path of one process, and is no data page.
OwnTables ==
    \A r \in procs, s \in procs : \A w \in TablePaths(r), v \in AllPaths(s) :
        PageAt(r, w) = PageAt(s, v) => r = s /\ w = v

\* A process maps a page once.
MappedOnce ==
    \A r \in procs : \A w \in AllPaths(r), v \in AllPaths(r) :
        PageAt(r, w) = PageAt(r, v) => w = v

\* Those who share a page agree that it is copy-on-write, and a page that can
\* be written is not shared.
Sharing ==
    \A r \in procs, s \in procs : \A w \in AllPaths(r), v \in AllPaths(s) :
        w[3] # Stop /\ v[3] # Stop /\ PageAt(r, w) = PageAt(s, v) =>
            /\ Leaf(r, w).custom = Leaf(s, v).custom
            /\ Leaf(r, w).write => r = s /\ w = v

\* No page is mapped at an address the client did not name.
KnownAddresses ==
    \A r \in procs : \A w \in AllPaths(r) : w[3] # Stop => w \in Addresses

IInv ==
    /\ TypeOK
    /\ InUse
    /\ KnownAddresses
    /\ UpperPlain
    /\ OwnTables
    /\ MappedOnce
    /\ Sharing
    /\ CountCoversSharers

LEMMA EntryBound ==
    ASSUME TypeOK, InUse
    PROVE  \A p \in Pages, i \in Index :
               /\ tab[p][i].ppn \in Pages /\ tab[p][i].ppn \in Int
               /\ tab[p][i].ppn < used
<1>1. \A p \in Pages, i \in Index : tab[p][i] \in Entry
      BY DEF TypeOK, Entry
<1>2. \A e \in Entry : e.ppn \in Pages
      BY DEF Entry
<1>3. \A p \in Pages : p \in Int
      BY DEF Pages
<1>4. \A p \in Pages, i \in Index : tab[p][i].ppn < used
      BY DEF InUse
<1> QED BY <1>1, <1>2, <1>3, <1>4

LEMMA InitInv == Init => IInv
<1> SUFFICES ASSUME Init PROVE IInv
    OBVIOUS
<1>1. TypeOK
      BY InitType
<1>2. InUse
      BY SizesAssumption DEF Init, InUse, NoEntry, Pages
<1>3. \A r \in procs : \A w \in AllPaths(r) : r = 0 /\ w = Top
  <2> SUFFICES ASSUME NEW r \in procs, NEW w \in AllPaths(r)
               PROVE  r = 0 /\ w = Top
      OBVIOUS
  <2>1. r = 0 /\ r \in Pages
        BY SizesAssumption DEF Init, Pages
  <2>2. w[1] \in Index => ~Upper(r, w).valid
        BY <2>1 DEF Init, Upper, NoEntry
  <2>3. w[1] = Stop /\ w[2] = Stop /\ w[3] = Stop
        BY <2>2, PathParts, SomePaths DEF AllPaths, Leads
  <2> QED BY <2>1, <2>3, PathParts, SomePaths DEF Top
<1>4. KnownAddresses /\ UpperPlain /\ OwnTables /\ MappedOnce /\ Sharing
      BY <1>3, SomePaths
      DEF KnownAddresses, UpperPlain, OwnTables, MappedOnce, Sharing, Top
<1>5. CountCoversSharers
  <2>1. \A r \in procs, a \in Addresses : ~Mapped(r, a)
        BY SizesAssumption, AddressPaths
        DEF Init, Mapped, Walks, UpperWalks, Upper, NoEntry, Pages
  <2> QED BY <2>1 DEF CountCoversSharers
<1> QED BY <1>1, <1>2, <1>4, <1>5 DEF IInv

\* An address is mapped when its path leads to a page.
LEMMA MappedPath ==
    ASSUME UpperPlain, NEW r \in procs, NEW a \in Addresses
    PROVE  /\ Mapped(r, a) <=> a \in AllPaths(r)
           /\ PageAt(r, a) = Leaf(r, a).ppn
<1>1. /\ a \in Paths /\ a[1] # Stop /\ a[2] # Stop /\ a[3] # Stop
      BY AddressPaths
<1>2. PageAt(r, a) = Leaf(r, a).ppn
      BY <1>1 DEF PageAt
<1>3. Mapped(r, a) => a \in AllPaths(r)
      BY <1>1 DEF Mapped, Walks, UpperWalks, AllPaths, Leads, Paths
<1>4. ASSUME a \in AllPaths(r) PROVE Mapped(r, a)
  <2>1. Upper(r, a).valid /\ Middle(r, a).valid /\ Leaf(r, a).valid
        BY <1>1, <1>4 DEF AllPaths, Leads
  <2>2. Plain(Upper(r, a)) /\ Plain(Middle(r, a))
        BY <1>1, <1>4 DEF UpperPlain
  <2> QED BY <2>1, <2>2 DEF Mapped, Walks, UpperWalks, Plain
<1> QED BY <1>2, <1>3, <1>4

\* A path leads on through the tables above.
LEMMA PathsAbove ==
    ASSUME NEW r, NEW w \in AllPaths(r)
    PROVE  /\ w[1] # Stop => <<w[1], Stop, Stop>> \in TablePaths(r)
           /\ w[2] # Stop => <<w[1], w[2], Stop>> \in TablePaths(r)
           /\ w[1] # Stop => PageAt(r, <<w[1], Stop, Stop>>) = Upper(r, w).ppn
           /\ w[2] # Stop =>
                  /\ w[1] # Stop
                  /\ PageAt(r, <<w[1], w[2], Stop>>) = Middle(r, w).ppn
                  /\ Upper(r, w).valid
           /\ w[3] # Stop =>
                  /\ w[2] # Stop
                  /\ PageAt(r, w) = Leaf(r, w).ppn
                  /\ Middle(r, w).valid /\ Leaf(r, w).valid
<1>1. /\ w \in Paths /\ Leads(r, w)
      /\ w[1] \in Steps /\ w[2] \in Steps /\ w[3] \in Steps
      BY PathParts, SomePaths DEF AllPaths
<1>2. w[1] # Stop => <<w[1], Stop, Stop>> \in TablePaths(r)
      BY <1>1 DEF TablePaths, Leads, Upper, Steps
<1>3. w[2] # Stop => <<w[1], w[2], Stop>> \in TablePaths(r)
      BY <1>1 DEF TablePaths, Leads, Upper, Middle, Steps
<1>4. w[1] # Stop => PageAt(r, <<w[1], Stop, Stop>>) = Upper(r, w).ppn
      BY DEF PageAt, Upper
<1>5. w[2] # Stop => PageAt(r, <<w[1], w[2], Stop>>) = Middle(r, w).ppn
      BY <1>1 DEF PageAt, Upper, Middle, Leads
<1>6. w[3] # Stop => PageAt(r, w) = Leaf(r, w).ppn
      BY <1>1 DEF PageAt, Leads
<1> QED BY <1>1, <1>2, <1>3, <1>4, <1>5, <1>6 DEF Leads

-----------------------------------------------------------------------------
(* What the two forks do to the paths.                                     *)

\* e leads where f leads, and is plain where f is.
Like(e, f) ==
    /\ e.ppn = f.ppn
    /\ e.valid = f.valid
    /\ Plain(f) => e = f

\* What both forks do: the pages at `paths` are copied, and no entry that points
\* to a table changes.
ForkOf(paths) ==
    /\ paths \in {TablePaths(root), AllPaths(root)}
    /\ used' = used + Cardinality(paths)
    /\ used' <= MaxPages
    /\ procs' = procs \cup {used}
    /\ root' = root
    /\ \A p \in Pages \ Copies(paths) :
           /\ val'[p] = val[p]
           /\ \A i \in Index : Like(tab'[p][i], tab[p][i])
    /\ \A w \in paths, i \in Index :
           Like(tab'[CopyOf(paths, w)][i], Moved(paths, w, i))

LEMMA ForkFacts ==
    ASSUME TypeOK, InUse, NEW paths, ForkOf(paths)
    PROVE  /\ paths \in SUBSET Paths /\ paths \in SUBSET AllPaths(root)
           /\ TablePaths(root) \subseteq paths /\ Top \in paths
           /\ used \in Pages /\ used \in Nat /\ used' \in Nat /\ used < used'
           /\ root \in Pages /\ root < used /\ root # used
           /\ \A p \in Copies(paths) : p >= used /\ p < used' /\ p \in Pages
           /\ \A w \in paths : CopyOf(paths, w) \in Copies(paths)
           /\ CopyOf(paths, Top) = used
           /\ used \notin procs
<1>1. /\ paths \in SUBSET Paths /\ paths \in SUBSET AllPaths(root)
      /\ TablePaths(root) \subseteq paths /\ Top \in paths
      BY SomePaths DEF ForkOf
<1>2. used \in Nat /\ MaxPages \in Nat
      BY SizesAssumption DEF TypeOK
<1>3. CopyOf(paths, Top) = used
      BY <1>1, <1>2, TopFirst
<1>4. \A w \in paths : CopyOf(paths, w) \in used..(used' - 1)
      BY <1>1, <1>2, CopiesDiffer DEF ForkOf
<1>5. Cardinality(paths) \in Nat
      BY <1>1, <1>2, CopiesDiffer
<1>6. used' \in Nat /\ used' <= MaxPages /\ used < used'
      BY <1>1, <1>2, <1>3, <1>4, <1>5 DEF ForkOf
<1>7. root \in Pages /\ root < used
      BY DEF TypeOK, InUse
<1>8. \A p \in Copies(paths) : p >= used /\ p < used' /\ p \in Pages
      BY <1>2, <1>4, <1>6 DEF Copies, Pages
<1> QED BY <1>1, <1>2, <1>3, <1>6, <1>7, <1>8 DEF Copies, InUse, Pages

\* A process that was there is where it was.
LEMMA ForkOld ==
    ASSUME TypeOK, InUse, NEW paths, ForkOf(paths),
           NEW r \in procs, NEW w \in Paths
    PROVE  /\ Leads(r, w)' = Leads(r, w)
           /\ Leads(r, w) => PageAt(r, w)' = PageAt(r, w)
           /\ w[1] # Stop => Like(Upper(r, w)', Upper(r, w))
           /\ w[1] # Stop /\ w[2] # Stop => Like(Middle(r, w)', Middle(r, w))
           /\ w[1] # Stop /\ w[2] # Stop /\ w[3] # Stop =>
                  Like(Leaf(r, w)', Leaf(r, w))
<1>1. \A p \in Pages : p < used => \A i \in Index : Like(tab'[p][i], tab[p][i])
  <2>1. \A p \in Copies(paths) : p >= used /\ used \in Nat
        BY ForkFacts
  <2> QED BY <2>1 DEF ForkOf, Pages
<1>2. r \in Pages /\ r < used
      BY DEF TypeOK, InUse
<1>3. \A p \in Pages, i \in Index : tab[p][i].ppn \in Pages /\ tab[p][i].ppn < used
      BY DEF TypeOK, InUse
<1>4. \A n \in 1..3 : w[n] # Stop => w[n] \in Index
      BY PathParts
<1>5. w[1] # Stop => /\ Like(Upper(r, w)', Upper(r, w))
                     /\ Upper(r, w).ppn \in Pages /\ Upper(r, w).ppn < used
      BY <1>1, <1>2, <1>3, <1>4 DEF Upper
<1>6. w[1] # Stop /\ w[2] # Stop =>
          /\ Like(Middle(r, w)', Middle(r, w))
          /\ Middle(r, w).ppn \in Pages /\ Middle(r, w).ppn < used
  <2>1. w[1] # Stop => Upper(r, w)'.ppn = Upper(r, w).ppn
        BY <1>5 DEF Like
  <2> QED BY <1>1, <1>3, <1>4, <1>5, <2>1 DEF Middle
<1>7. w[1] # Stop /\ w[2] # Stop /\ w[3] # Stop => Like(Leaf(r, w)', Leaf(r, w))
  <2>1. w[1] # Stop /\ w[2] # Stop => Middle(r, w)'.ppn = Middle(r, w).ppn
        BY <1>6 DEF Like
  <2> QED BY <1>1, <1>4, <1>6, <2>1 DEF Leaf, Table0
<1>8. Leads(r, w)' = Leads(r, w)
      BY <1>5, <1>6, <1>7 DEF Leads, Like
<1>9. Leads(r, w) => PageAt(r, w)' = PageAt(r, w)
      BY <1>5, <1>6, <1>7 DEF Leads, PageAt, Like
<1> QED BY <1>5, <1>6, <1>7, <1>8, <1>9

\* The child has the parent's paths; they lead to the copies.
LEMMA ForkChild ==
    ASSUME TypeOK, InUse, NEW paths, ForkOf(paths), NEW w \in Paths,
           NEW c, c = used
    PROVE  /\ Leads(c, w)' = Leads(root, w)
           /\ w \in paths => PageAt(c, w)' = CopyOf(paths, w)
           /\ Leads(root, w) /\ w \notin paths =>
                  PageAt(c, w)' = PageAt(root, w)
           /\ w[1] # Stop =>
                  /\ Upper(c, w)'.valid = Upper(root, w).valid
                  /\ Plain(Upper(root, w)) => Plain(Upper(c, w)')
           /\ w[2] # Stop /\ Leads(root, w) =>
                  /\ Plain(Middle(root, w)) => Plain(Middle(c, w)')
           /\ w[3] # Stop /\ Leads(root, w) =>
                  Leaf(c, w)' = tab'[CopyOf(paths, <<w[1], w[2], Stop>>)][w[3]]
<1> DEFINE w1 == <<w[1], Stop, Stop>>
           w2 == <<w[1], w[2], Stop>>
<1>1. /\ TablePaths(root) \subseteq paths /\ Top \in paths
      /\ CopyOf(paths, Top) = used
      /\ \A v \in TablePaths(root), i \in Index :
             Like(tab'[CopyOf(paths, v)][i], Moved(paths, v, i))
      BY ForkFacts DEF ForkOf
<1>2. /\ w[1] # Stop => w[1] \in Index
      /\ w[2] # Stop => w[2] \in Index
      /\ w[3] # Stop => w[3] \in Index
      BY PathParts
<1>3. w = <<w[1], w[2], w[3]>>
      BY PathParts
<1>4. ASSUME NEW v \in TablePaths(root), NEW i \in Index
      PROVE  LET e == tab[PageAt(root, v)][i]
                 f == tab'[CopyOf(paths, v)][i]
             IN /\ f.valid = e.valid
                /\ Plain(e) => Plain(f)
                /\ e.valid => f.ppn = IF Down(v, i) \in paths
                                      THEN CopyOf(paths, Down(v, i)) ELSE e.ppn
  <2>1. tab[PageAt(root, v)][i] \in Entry
    <3>1. PageAt(root, v) \in Pages
          BY WalkType, SomePaths DEF TypeOK, TablePaths
    <3> QED BY <3>1 DEF TypeOK, Entry
  <2>2. LET e == tab[PageAt(root, v)][i]
            f == Moved(paths, v, i)
        IN /\ f.valid = e.valid
           /\ Plain(e) => Plain(f)
           /\ e.valid => f.ppn = IF Down(v, i) \in paths
                                 THEN CopyOf(paths, Down(v, i)) ELSE e.ppn
        BY <2>1 DEF Moved, Plain, Entry
  <2> QED BY <1>1, <2>2 DEF Like, Plain
<1>5. ASSUME w[1] # Stop
      PROVE  /\ Upper(c, w)'.valid = Upper(root, w).valid
             /\ Plain(Upper(root, w)) => Plain(Upper(c, w)')
             /\ Upper(root, w).valid =>
                    /\ w1 \in TablePaths(root)
                    /\ PageAt(root, w1) = Upper(root, w).ppn
                    /\ Upper(c, w)'.ppn = CopyOf(paths, w1)
  <2>1. /\ PageAt(root, Top) = root /\ Top \in TablePaths(root)
        /\ Down(Top, w[1]) = w1
        BY SomePaths DEF PageAt, Top, Down
  <2>2. Upper(c, w)' = tab'[CopyOf(paths, Top)][w[1]]
        BY <1>1 DEF Upper
  <2>3. PageAt(root, w1) = Upper(root, w).ppn
        BY <1>5 DEF PageAt, Upper
  <2>4. Upper(root, w).valid => w1 \in TablePaths(root)
        BY <1>2, <1>5 DEF TablePaths, Leads, Upper, Steps
  <2> QED BY <1>1, <1>2, <1>4, <1>5, <2>1, <2>2, <2>3, <2>4 DEF Upper
<1>6. ASSUME w[1] # Stop, w[2] # Stop, Upper(root, w).valid
      PROVE  /\ Middle(c, w)'.valid = Middle(root, w).valid
             /\ Plain(Middle(root, w)) => Plain(Middle(c, w)')
             /\ Middle(root, w).valid =>
                    /\ w2 \in TablePaths(root)
                    /\ PageAt(root, w2) = Middle(root, w).ppn
                    /\ Middle(c, w)'.ppn = CopyOf(paths, w2)
  <2>1. Down(w1, w[2]) = w2
        BY <1>6 DEF Down
  <2>2. /\ Middle(c, w)' = tab'[CopyOf(paths, w1)][w[2]]
        /\ Middle(root, w) = tab[PageAt(root, w1)][w[2]]
        BY <1>5, <1>6 DEF Middle
  <2>3. PageAt(root, w2) = Middle(root, w).ppn
        BY <1>6 DEF PageAt, Middle, Upper
  <2>4. Middle(root, w).valid => w2 \in TablePaths(root)
        BY <1>2, <1>6 DEF TablePaths, Leads, Upper, Middle, Steps
  <2>5. w1 \in TablePaths(root) /\ w[2] \in Index
        BY <1>2, <1>5, <1>6
  <2> HIDE DEF w1, w2
  <2>6. /\ Middle(c, w)'.valid = Middle(root, w).valid
        /\ Plain(Middle(root, w)) => Plain(Middle(c, w)')
        /\ Middle(root, w).valid =>
               Middle(c, w)'.ppn = IF w2 \in paths THEN CopyOf(paths, w2)
                                   ELSE Middle(root, w).ppn
        BY <1>4, <2>1, <2>2, <2>5
  <2> QED BY <1>1, <2>3, <2>4, <2>6
<1>7. ASSUME w[1] # Stop, w[2] # Stop, w[3] # Stop,
             Upper(root, w).valid, Middle(root, w).valid
      PROVE  /\ Leaf(c, w)' = tab'[CopyOf(paths, w2)][w[3]]
             /\ Leaf(c, w)'.valid = Leaf(root, w).valid
             /\ Leaf(root, w).valid =>
                    Leaf(c, w)'.ppn = IF w \in paths THEN CopyOf(paths, w)
                                         ELSE Leaf(root, w).ppn
  <2>1. Down(w2, w[3]) = w
        BY <1>3, <1>7 DEF Down
  <2>2. /\ Leaf(c, w)' = tab'[CopyOf(paths, w2)][w[3]]
        /\ Leaf(root, w) = tab[PageAt(root, w2)][w[3]]
        BY <1>6, <1>7 DEF Leaf, Table0
  <2>3. w2 \in TablePaths(root) /\ w[3] \in Index
        BY <1>2, <1>6, <1>7
  <2> HIDE DEF w2
  <2> QED BY <1>4, <2>1, <2>2, <2>3
<1>8. Leads(c, w)' = Leads(root, w)
      BY <1>5, <1>6, <1>7 DEF Leads
<1>9. \A v \in TablePaths(root) : v \in paths
      BY <1>1
<1>10. w \in paths => Leads(root, w)
      BY ForkFacts DEF AllPaths
<1>11. ASSUME Leads(root, w)
       PROVE  PageAt(c, w)' = IF w \in paths THEN CopyOf(paths, w)
                                 ELSE PageAt(root, w)
  <2>1. CASE w[1] = Stop
    <3>1. w = Top
          BY <1>3, <1>11, <2>1 DEF Top, Leads
    <3> QED BY <1>1, <3>1 DEF PageAt, Top
  <2>2. CASE w[1] # Stop /\ w[2] = Stop
    <3>1. w = w1 /\ Upper(root, w).valid
          BY <1>3, <1>11, <2>2 DEF Leads
    <3>2. PageAt(c, w)' = Upper(c, w)'.ppn
          BY <1>11, <2>2 DEF PageAt, Leads
    <3> QED BY <1>5, <1>9, <2>2, <3>1, <3>2
  <2>3. CASE w[1] # Stop /\ w[2] # Stop /\ w[3] = Stop
    <3>1. w = w2 /\ Upper(root, w).valid /\ Middle(root, w).valid
          BY <1>3, <1>11, <2>3 DEF Leads
    <3>2. PageAt(c, w)' = Middle(c, w)'.ppn
          BY <2>3 DEF PageAt
    <3> QED BY <1>6, <1>9, <2>3, <3>1, <3>2
  <2>4. CASE w[1] # Stop /\ w[2] # Stop /\ w[3] # Stop
    <3>1. Upper(root, w).valid /\ Middle(root, w).valid /\ Leaf(root, w).valid
          BY <1>11, <2>4 DEF Leads
    <3>2. PageAt(c, w)' = Leaf(c, w)'.ppn /\ PageAt(root, w) = Leaf(root, w).ppn
          BY <2>4 DEF PageAt
    <3> QED BY <1>7, <2>4, <3>1, <3>2
  <2> QED BY <1>11, <2>1, <2>2, <2>3, <2>4 DEF Leads
<1> QED BY <1>5, <1>6, <1>7, <1>8, <1>10, <1>11 DEF Leads

LEMMA PageBound ==
    ASSUME TypeOK, InUse, NEW r \in procs, NEW w \in AllPaths(r)
    PROVE  PageAt(r, w) \in Pages /\ PageAt(r, w) < used
<1>1. w \in Paths /\ Leads(r, w) /\ r \in Pages
      BY SomePaths DEF AllPaths, TypeOK
<1>2. PageAt(r, w) \in Pages
      BY <1>1, WalkType
<1>3. \A p \in Pages, i \in Index : tab[p][i].ppn < used
      BY DEF InUse
<1>4. \A n \in 1..3 : w[n] # Stop => w[n] \in Index
      BY <1>1, PathParts
<1>5. /\ w[1] # Stop => Upper(r, w).ppn \in Pages
      /\ w[1] # Stop /\ w[2] # Stop => Middle(r, w).ppn \in Pages
      BY <1>1, WalkType DEF Entry
<1>6. /\ w[1] # Stop => Upper(r, w).ppn < used
      /\ w[1] # Stop /\ w[2] # Stop => Middle(r, w).ppn < used
      /\ w[1] # Stop /\ w[2] # Stop /\ w[3] # Stop => Leaf(r, w).ppn < used
  <2>1. w[1] # Stop => Upper(r, w).ppn < used
        BY <1>1, <1>3, <1>4 DEF Upper
  <2>2. w[1] # Stop /\ w[2] # Stop => Middle(r, w).ppn < used
        BY <1>3, <1>4, <1>5 DEF Middle
  <2>3. w[1] # Stop /\ w[2] # Stop /\ w[3] # Stop => Leaf(r, w).ppn < used
        BY <1>3, <1>4, <1>5 DEF Leaf, Table0
  <2> QED BY <2>1, <2>2, <2>3
<1>7. PageAt(r, w) < used
      BY <1>1, <1>6 DEF PageAt, Leads, InUse
<1> QED BY <1>2, <1>7

\* Parent and other processes, and the child, after a fork.
LEMMA ForkPaths ==
    ASSUME TypeOK, InUse, NEW paths, ForkOf(paths), NEW c, c = used
    PROVE  /\ \A r \in procs : /\ AllPaths(r)' = AllPaths(r)
                               /\ TablePaths(r)' = TablePaths(r)
                               /\ \A w \in AllPaths(r) :
                                      /\ PageAt(r, w)' = PageAt(r, w)
                                      /\ PageAt(r, w) < used
           /\ AllPaths(c)' = AllPaths(root)
           /\ TablePaths(c)' = TablePaths(root)
           /\ \A w \in AllPaths(root) :
                  PageAt(c, w)' = IF w \in paths THEN CopyOf(paths, w)
                                  ELSE PageAt(root, w)
<1>1. ASSUME NEW r \in procs
      PROVE  /\ AllPaths(r)' = AllPaths(r)
             /\ TablePaths(r)' = TablePaths(r)
             /\ \A w \in AllPaths(r) : /\ PageAt(r, w)' = PageAt(r, w)
                                       /\ PageAt(r, w) < used
  <2>1. \A w \in Paths : Leads(r, w)' = Leads(r, w)
        BY ForkOld
  <2>2. \A w \in Paths : Leads(r, w) => PageAt(r, w)' = PageAt(r, w)
        BY ForkOld
  <2>3. AllPaths(r)' = AllPaths(r)
        BY <2>1 DEF AllPaths, Paths
  <2>4. TablePaths(r)' = TablePaths(r)
        BY <2>1 DEF TablePaths, Paths, Steps
  <2>5. \A w \in AllPaths(r) : /\ PageAt(r, w)' = PageAt(r, w)
                               /\ PageAt(r, w) < used
        BY <2>2, PageBound DEF AllPaths, Paths
  <2> QED BY <2>3, <2>4, <2>5
<1>2. \A w \in Paths : Leads(c, w)' = Leads(root, w)
      BY ForkChild
<1>3. AllPaths(c)' = AllPaths(root)
      BY <1>2 DEF AllPaths, Paths
<1>4. TablePaths(c)' = TablePaths(root)
      BY <1>2 DEF TablePaths, Paths, Steps
<1>5. ASSUME NEW w \in AllPaths(root)
      PROVE  PageAt(c, w)' = IF w \in paths THEN CopyOf(paths, w)
                             ELSE PageAt(root, w)
  <2>1. w \in Paths /\ Leads(root, w)
        BY SomePaths DEF AllPaths
  <2> QED BY <2>1, ForkChild
<1> QED BY <1>1, <1>3, <1>4, <1>5

\* A fork keeps the shape of the tables.
LEMMA ForkTables ==
    ASSUME TypeOK, InUse, UpperPlain, OwnTables, MappedOnce,
           NEW paths, ForkOf(paths)
    PROVE  UpperPlain' /\ OwnTables' /\ MappedOnce'
<1> PICK c : c = used
    OBVIOUS
<1>1. /\ procs' = procs \cup {c} /\ c \notin procs /\ root \in procs
      /\ TablePaths(root) \subseteq paths /\ used \in Nat
      BY ForkFacts DEF ForkOf, TypeOK
<1>2. /\ \A r \in procs : /\ AllPaths(r)' = AllPaths(r)
                          /\ TablePaths(r)' = TablePaths(r)
                          /\ \A w \in AllPaths(r) :
                                 /\ PageAt(r, w)' = PageAt(r, w)
                                 /\ PageAt(r, w) < used
      /\ AllPaths(c)' = AllPaths(root)
      /\ TablePaths(c)' = TablePaths(root)
      /\ \A w \in AllPaths(root) :
             PageAt(c, w)' = IF w \in paths THEN CopyOf(paths, w)
                             ELSE PageAt(root, w)
      BY ForkPaths
<1>3. \A r \in procs : \A w \in AllPaths(r) : PageAt(r, w) \in Pages
      BY PageBound
<1>4. /\ \A w \in paths : CopyOf(paths, w) >= used /\ CopyOf(paths, w) \in Pages
      /\ \A v \in paths, w \in paths :
             CopyOf(paths, v) = CopyOf(paths, w) => v = w
      BY ForkFacts, CopiesDiffer
<1>5. \A r : TablePaths(r) \subseteq AllPaths(r)
      BY SomePaths
<1>6. \A r \in procs : \A w \in AllPaths(r) :
          PageAt(r, w) < used /\ PageAt(r, w) \in Int
      BY <1>2, <1>3 DEF Pages
<1>7. \A w \in paths : CopyOf(paths, w) >= used /\ CopyOf(paths, w) \in Int
      BY <1>4 DEF Pages
<1>8. \A r \in procs : \A w \in AllPaths(r), v \in paths :
          PageAt(r, w) # CopyOf(paths, v)
      BY <1>1, <1>6, <1>7
<1>9. OwnTables'
  <2> SUFFICES ASSUME NEW r \in procs', NEW s \in procs',
                      NEW w \in TablePaths(r)', NEW v \in AllPaths(s)',
                      PageAt(r, w)' = PageAt(s, v)'
               PROVE  r = s /\ w = v
      BY DEF OwnTables
  <2>1. CASE r \in procs /\ s \in procs
        BY <1>2, <1>5, <2>1 DEF OwnTables
  <2>2. CASE r \in procs /\ s = c
    <3>1. w \in TablePaths(r) /\ v \in AllPaths(root)
          BY <1>2, <2>2
    <3>2. v \notin paths
          BY <1>2, <1>5, <1>8, <2>2, <3>1
    <3>3. PageAt(r, w) = PageAt(root, v)
          BY <1>2, <1>5, <2>2, <3>1, <3>2
    <3>4. v \in TablePaths(root)
          BY <1>1, <2>2, <3>1, <3>3 DEF OwnTables
    <3> QED BY <1>1, <3>2, <3>4
  <2>3. CASE r = c
    <3>1. w \in paths /\ PageAt(r, w)' = CopyOf(paths, w)
          BY <1>1, <1>2, <1>5, <2>3
    <3>2. s \notin procs
          BY <1>2, <1>8, <3>1
    <3>3. s = c /\ v \in AllPaths(root)
          BY <1>1, <1>2, <3>2
    <3>4. PageAt(c, v)' = IF v \in paths THEN CopyOf(paths, v)
                          ELSE PageAt(root, v)
          BY <1>2, <3>3
    <3>5. PageAt(root, v) # CopyOf(paths, w)
          BY <1>1, <1>8, <3>1, <3>3
    <3>6. v \in paths
          BY <3>1, <3>3, <3>4, <3>5
    <3> QED BY <1>4, <2>3, <3>1, <3>3, <3>4, <3>6
  <2> QED BY <1>1, <2>1, <2>2, <2>3
<1>10. MappedOnce'
  <2> SUFFICES ASSUME NEW r \in procs',
                      NEW w \in AllPaths(r)', NEW v \in AllPaths(r)',
                      PageAt(r, w)' = PageAt(r, v)'
               PROVE  w = v
      BY DEF MappedOnce
  <2>1. CASE r \in procs
        BY <1>2, <2>1 DEF MappedOnce
  <2>2. CASE r = c
    <3>1. w \in AllPaths(root) /\ v \in AllPaths(root)
          BY <1>2, <2>2
    <3>2. w \in paths <=> v \in paths
          BY <1>1, <1>2, <1>8, <2>2, <3>1
    <3> QED BY <1>1, <1>2, <1>4, <2>2, <3>1, <3>2 DEF MappedOnce
  <2> QED BY <1>1, <2>1, <2>2
<1>11. UpperPlain'
  <2> SUFFICES ASSUME NEW r \in procs', NEW w \in AllPaths(r)'
               PROVE  /\ w[1] # Stop => Plain(Upper(r, w)')
                      /\ w[2] # Stop => Plain(Middle(r, w)')
      BY DEF UpperPlain, Plain
  <2>1. CASE r \in procs
    <3>1. w \in AllPaths(r) /\ w \in Paths
          BY <1>2, <2>1, SomePaths
    <3>2. /\ w[1] # Stop => Plain(Upper(r, w))
          /\ w[2] # Stop => Plain(Middle(r, w)) /\ w[1] # Stop
          BY <2>1, <3>1, PathsAbove DEF UpperPlain
    <3>3. /\ w[1] # Stop => Like(Upper(r, w)', Upper(r, w))
          /\ w[1] # Stop /\ w[2] # Stop => Like(Middle(r, w)', Middle(r, w))
          BY <2>1, <3>1, ForkOld
    <3> QED BY <3>2, <3>3 DEF Like
  <2>2. CASE r = c
    <3>1. w \in AllPaths(root) /\ w \in Paths /\ Leads(root, w)
          BY <1>2, <2>2, SomePaths DEF AllPaths
    <3>2. /\ w[1] # Stop => Plain(Upper(root, w))
          /\ w[2] # Stop => Plain(Middle(root, w))
          BY <1>1, <3>1 DEF UpperPlain
    <3>3. /\ w[1] # Stop =>
                 (Plain(Upper(root, w)) => Plain(Upper(c, w)'))
          /\ w[2] # Stop =>
                 (Plain(Middle(root, w)) => Plain(Middle(c, w)'))
          BY <3>1, ForkChild
    <3> QED BY <2>2, <3>2, <3>3
  <2> QED BY <1>1, <2>1, <2>2
<1> QED BY <1>9, <1>10, <1>11

LEMMA ForkInUse ==
    ASSUME TypeOK, InUse, NEW paths, ForkOf(paths)
    PROVE  InUse'
<1>1. /\ paths \in SUBSET Paths /\ paths \in SUBSET AllPaths(root)
      /\ used \in Nat /\ used' \in Nat /\ used < used'
      /\ \A p \in Copies(paths) : p >= used /\ p < used' /\ p \in Pages
      /\ \A w \in paths : CopyOf(paths, w) \in Copies(paths)
      BY ForkFacts
<1>2. /\ \A p \in Pages, i \in Index : tab[p][i].ppn < used /\ tab[p][i].ppn \in Int
      /\ \A p \in Pages : p \in Int
      BY DEF InUse, TypeOK, Pages
<1>3. \A r \in procs' : r < used'
      BY <1>1, <1>2 DEF InUse, ForkOf, TypeOK
<1>4. ASSUME NEW p \in Pages, NEW i \in Index
      PROVE  tab'[p][i].ppn < used'
  <2>1. CASE p \in Copies(paths)
    <3>1. PICK w \in paths : p = CopyOf(paths, w)
          BY <2>1 DEF Copies
    <3>2. tab'[p][i].ppn = Moved(paths, w, i).ppn
          BY <3>1 DEF ForkOf, Like
    <3>3. tab[PageAt(root, w)][i] \in Entry /\ tab[PageAt(root, w)][i].ppn < used
      <4>1. PageAt(root, w) \in Pages
            BY <1>1, PageBound DEF TypeOK
      <4> QED BY <1>2, <4>1 DEF TypeOK, Entry
    <3>4. \/ Moved(paths, w, i) = tab[PageAt(root, w)][i]
          \/ /\ Down(w, i) \in paths
             /\ Moved(paths, w, i).ppn = CopyOf(paths, Down(w, i))
          BY <3>3 DEF Moved, Entry
    <3>5. tab[PageAt(root, w)][i].ppn \in Int
          BY <3>3 DEF Entry, Pages
    <3> QED BY <1>1, <1>2, <3>2, <3>3, <3>4, <3>5
  <2>2. CASE p \notin Copies(paths)
    <3>1. tab'[p][i].ppn = tab[p][i].ppn
          BY <2>2 DEF ForkOf, Like
    <3> QED BY <1>1, <1>2, <3>1
  <2> QED BY <2>1, <2>2
<1>5. ASSUME NEW p \in Pages, p >= used'
      PROVE  /\ \A i \in Index : tab'[p][i] = NoEntry
             /\ \A o \in Offsets : val'[p][o] = 0
  <2>1. p \notin Copies(paths) /\ p >= used
        BY <1>1, <1>2, <1>5
  <2>2. Plain(NoEntry)
        BY DEF Plain, NoEntry
  <2> QED BY <2>1, <2>2 DEF ForkOf, Like, InUse
<1> QED BY <1>3, <1>4, <1>5 DEF InUse

LEMMA OnWriteIsFork ==
    ASSUME TypeOK, ForkCopyOnWrite, Room(Cardinality(TablePaths(root)))
    PROVE  /\ ForkOf(TablePaths(root))
           /\ \A p \in Pages \ Copies(TablePaths(root)) : \A i \in Index :
                  tab'[p][i] = IF p \in Tables(root) THEN Protected(tab[p][i])
                               ELSE tab[p][i]
           /\ \A w \in TablePaths(root), i \in Index :
                  tab'[CopyOf(TablePaths(root), w)][i] =
                      Protected(Moved(TablePaths(root), w, i))
<1> DEFINE paths == TablePaths(root)
<1>1. /\ paths \in SUBSET AllPaths(root) /\ Top \in paths
      /\ paths \in SUBSET Paths /\ used \in Nat
      BY SomePaths DEF TypeOK
<1>2. /\ used + Cardinality(paths) <= MaxPages
      BY DEF Room
<1>3. \A e \in Entry : Like(Protected(e), e)
      BY DEF Like, Plain, Protected, Shares, Entry
<1>4. \A w \in paths, i \in Index : Moved(paths, w, i) \in Entry
      BY <1>1, MovedType
<1>5. \A w \in paths : /\ CopyOf(paths, w) \in Copies(paths)
                       /\ CopyOf(paths, w) \in Pages
                       /\ Copied(paths, CopyOf(paths, w)) = w
  <2>1. \A w \in paths : CopyOf(paths, w) \in Pages
        BY <1>1, <1>2, CopiesDiffer, SizesAssumption DEF Pages
  <2> QED BY <1>1, <2>1, CopiedBack DEF Copies
<1>6. /\ used' = used + Cardinality(paths) /\ procs' = procs \cup {used}
      /\ tab' = [p \in Pages |-> [i \in Index |->
             IF p \in Copies(paths)
             THEN Protected(Moved(paths, Copied(paths, p), i))
             ELSE IF p \in Tables(root) THEN InParent(tab[p][i])
             ELSE tab[p][i]]]
      /\ UNCHANGED <<val, root>>
      BY DEF ForkCopyOnWrite
<1> HIDE DEF paths
<1>7. \A p \in Pages \ Copies(paths) : \A i \in Index :
          tab'[p][i] = IF p \in Tables(root) THEN Protected(tab[p][i])
                       ELSE tab[p][i]
      BY <1>6 DEF InParent
<1>8. \A w \in paths, i \in Index :
          tab'[CopyOf(paths, w)][i] = Protected(Moved(paths, w, i))
      BY <1>5, <1>6
<1>9. \A p \in Pages, i \in Index : tab[p][i] \in Entry
      BY DEF TypeOK, Entry
<1>10. \A e \in Entry : Like(e, e)
       BY DEF Like
<1>11. \A p \in Pages \ Copies(paths) : \A i \in Index : Like(tab'[p][i], tab[p][i])
       BY <1>3, <1>7, <1>9, <1>10
<1>12. \A w \in paths, i \in Index :
           Like(tab'[CopyOf(paths, w)][i], Moved(paths, w, i))
       BY <1>3, <1>4, <1>8
<1>13. ForkOf(paths)
       BY <1>2, <1>6, <1>11, <1>12 DEF ForkOf, paths
<1> QED BY <1>7, <1>8, <1>13 DEF paths

LEMMA CopyIsFork ==
    ASSUME TypeOK, ForkCopy, Room(Cardinality(AllPaths(root)))
    PROVE  /\ ForkOf(AllPaths(root))
           /\ \A p \in Pages \ Copies(AllPaths(root)) : \A i \in Index :
                  tab'[p][i] = tab[p][i]
           /\ \A w \in AllPaths(root) :
                  /\ \A i \in Index : tab'[CopyOf(AllPaths(root), w)][i] =
                                          Moved(AllPaths(root), w, i)
                  /\ val'[CopyOf(AllPaths(root), w)] = val[PageAt(root, w)]
<1> DEFINE paths == AllPaths(root)
<1>1. /\ paths \in SUBSET AllPaths(root) /\ Top \in paths
      /\ paths \in SUBSET Paths /\ used \in Nat
      BY SomePaths DEF TypeOK
<1>2. /\ used + Cardinality(paths) <= MaxPages
      BY DEF Room
<1>3. \A w \in paths : /\ CopyOf(paths, w) \in Copies(paths)
                       /\ CopyOf(paths, w) \in Pages
                       /\ Copied(paths, CopyOf(paths, w)) = w
  <2>1. \A w \in paths : CopyOf(paths, w) \in Pages
        BY <1>1, <1>2, CopiesDiffer, SizesAssumption DEF Pages
  <2> QED BY <1>1, <2>1, CopiedBack DEF Copies
<1>4. /\ used' = used + Cardinality(paths) /\ procs' = procs \cup {used}
      /\ tab' = [p \in Pages |-> [i \in Index |->
             IF p \in Copies(paths) THEN Moved(paths, Copied(paths, p), i)
             ELSE tab[p][i]]]
      /\ val' = [p \in Pages |->
             IF p \in Copies(paths) THEN val[PageAt(root, Copied(paths, p))]
             ELSE val[p]]
      /\ root' = root
      BY DEF ForkCopy
<1> HIDE DEF paths
<1>5. \A p \in Pages \ Copies(paths) :
          val'[p] = val[p] /\ \A i \in Index : tab'[p][i] = tab[p][i]
      BY <1>4
<1>6. \A w \in paths :
          /\ \A i \in Index : tab'[CopyOf(paths, w)][i] = Moved(paths, w, i)
          /\ val'[CopyOf(paths, w)] = val[PageAt(root, w)]
      BY <1>3, <1>4
<1>7. \A e : Like(e, e)
      BY DEF Like
<1>8. ForkOf(paths)
      BY <1>2, <1>4, <1>5, <1>6, <1>7 DEF ForkOf, paths
<1> QED BY <1>5, <1>6, <1>8 DEF paths

\* A table of a process is a table of the running one if they are the same.
LEMMA OwnTable ==
    ASSUME TypeOK, OwnTables, NEW r \in procs, NEW w \in AllPaths(r), w[3] # Stop
    PROVE  /\ Leaf(r, w) = tab[Table0(r, w)][w[3]]
           /\ Table0(r, w) \in Pages /\ w[3] \in Index
           /\ Table0(r, w) \in Tables(root) <=> r = root
<1>1. /\ w \in Paths /\ Leads(r, w) /\ r \in Pages /\ root \in procs
      /\ w[1] # Stop /\ w[2] # Stop
      BY SomePaths, PathsAbove DEF AllPaths, TypeOK
<1>2. /\ Table0(r, w) = PageAt(r, <<w[1], w[2], Stop>>)
      /\ <<w[1], w[2], Stop>> \in TablePaths(r)
      BY <1>1, PathsAbove DEF Table0
<1>3. Table0(r, w) \in Pages
      BY <1>1, WalkType DEF Table0, Entry
<1>4. Table0(r, w) \in Tables(root) => r = root
      BY <1>1, <1>2, SomePaths DEF OwnTables, Tables
<1>5. r = root => Table0(r, w) \in Tables(root)
      BY <1>2 DEF Tables
<1> QED BY <1>1, <1>3, <1>4, <1>5, PathParts DEF Leaf

\* The entries of data pages after a copy-on-write fork, of a process s that
\* was there or was forked from the running one.
LEMMA OnWriteLeaves ==
    ASSUME IInv, ForkCopyOnWrite, Room(Cardinality(TablePaths(root))),
           NEW s, s \in procs', NEW r, r = IF s = used THEN root ELSE s
    PROVE  /\ r \in procs
           /\ s \in procs <=> s # used
           /\ AllPaths(s)' = AllPaths(r)
           /\ \A w \in AllPaths(r) : w[3] # Stop =>
                  /\ PageAt(s, w)' = PageAt(r, w)
                  /\ Leaf(s, w)' = IF r = root THEN Protected(Leaf(r, w))
                                   ELSE Leaf(r, w)
                  /\ Leaf(r, w) \in Entry /\ Leaf(r, w).valid
<1> DEFINE paths == TablePaths(root)
<1>1. /\ TypeOK /\ InUse /\ UpperPlain /\ OwnTables /\ MappedOnce
      /\ ForkOf(paths)
      BY OnWriteIsFork DEF IInv
<1>2. /\ procs' = procs \cup {used} /\ used \notin procs /\ root \in procs
      BY <1>1, ForkFacts DEF ForkOf, TypeOK
<1>3. r \in procs /\ (s \in procs <=> s # used)
      BY <1>2
<1>4. AllPaths(s)' = AllPaths(r)
      BY <1>1, <1>2, ForkPaths
<1>5. ASSUME NEW w \in AllPaths(r), w[3] # Stop
      PROVE  /\ PageAt(s, w)' = PageAt(r, w)
             /\ Leaf(s, w)' = IF r = root THEN Protected(Leaf(r, w))
                              ELSE Leaf(r, w)
             /\ Leaf(r, w) \in Entry /\ Leaf(r, w).valid
  <2>1. /\ w \in Paths /\ Leads(r, w) /\ r \in Pages
        /\ w[1] # Stop /\ w[2] # Stop /\ Leaf(r, w).valid
        BY <1>1, <1>3, <1>5, SomePaths, PathsAbove DEF AllPaths, TypeOK
  <2>2. Leaf(r, w) \in Entry
        BY <1>1, <1>5, <2>1, WalkType
  <2>3. w \notin paths
        BY <1>5, SomePaths
  <2>4. PageAt(s, w)' = PageAt(r, w)
        BY <1>1, <1>2, <1>3, <1>5, <2>3, ForkPaths
  <2>5. /\ Leaf(r, w) = tab[Table0(r, w)][w[3]]
        /\ Table0(r, w) \in Pages /\ w[3] \in Index
        /\ Table0(r, w) \in Tables(root) <=> r = root
        BY <1>1, <1>3, <1>5, OwnTable
  <2>6. /\ <<w[1], w[2], Stop>> \in TablePaths(r)
        /\ <<w[1], w[2], Stop>> \in AllPaths(r)
        /\ PageAt(r, <<w[1], w[2], Stop>>) = Table0(r, w)
    <3>1. /\ <<w[1], w[2], Stop>> \in TablePaths(r)
          /\ PageAt(r, <<w[1], w[2], Stop>>) = Middle(r, w).ppn
          BY <1>5, <2>1, PathsAbove
    <3>2. <<w[1], w[2], Stop>> \in AllPaths(r)
          BY <3>1, SomePaths
    <3> QED BY <3>1, <3>2 DEF Table0
  <2>7. CASE s = used
    <3>1. r = root /\ <<w[1], w[2], Stop>> \in paths
          BY <2>7, <2>6
    <3>2. Leaf(s, w)' = tab'[CopyOf(paths, <<w[1], w[2], Stop>>)][w[3]]
          BY <1>1, <1>5, <2>1, <2>7, <3>1, ForkChild
    <3>3. Leaf(s, w)' = Protected(Moved(paths, <<w[1], w[2], Stop>>, w[3]))
          BY <1>1, <2>5, <3>1, <3>2, OnWriteIsFork DEF IInv
    <3>4. Down(<<w[1], w[2], Stop>>, w[3]) = w
          BY <2>1, PathParts DEF Down
    <3>5. PageAt(root, <<w[1], w[2], Stop>>) = Table0(r, w)
          BY <2>6, <3>1
    <3>6. Moved(paths, <<w[1], w[2], Stop>>, w[3]) = Leaf(r, w)
          BY <2>3, <2>5, <3>4, <3>5 DEF Moved
    <3> QED BY <2>1, <2>2, <2>4, <3>1, <3>3, <3>6
  <2>8. CASE s # used
    <3>1. r = s
          BY <2>8
    <3>2. Table0(r, w)' = Table0(r, w)
      <4>1. Like(Middle(r, w)', Middle(r, w))
            BY <1>1, <1>3, <2>1, ForkOld
      <4> QED BY <4>1 DEF Like, Table0
    <3>3. Table0(r, w) \notin Copies(paths)
      <4>1. Table0(r, w) < used
            BY <1>1, <1>3, <2>6, PageBound
      <4>2. \A p \in Copies(paths) : p >= used /\ p \in Int
            BY <1>1, ForkFacts DEF Pages
      <4> QED BY <1>1, <2>5, <4>1, <4>2 DEF TypeOK, Pages
    <3>4. Leaf(r, w)' = tab'[Table0(r, w)][w[3]]
          BY <3>2 DEF Leaf
    <3>5. Leaf(r, w)' = IF Table0(r, w) \in Tables(root)
                        THEN Protected(Leaf(r, w)) ELSE Leaf(r, w)
          BY <1>1, <2>5, <3>3, <3>4, OnWriteIsFork DEF IInv
    <3> QED BY <2>1, <2>2, <2>4, <2>5, <3>1, <3>5
  <2> QED BY <2>7, <2>8
<1> QED BY <1>3, <1>4, <1>5

LEMMA OnWriteSharing ==
    ASSUME IInv, ForkCopyOnWrite, Room(Cardinality(TablePaths(root)))
    PROVE  Sharing'
<1> SUFFICES ASSUME NEW r \in procs', NEW s \in procs',
                    NEW w \in AllPaths(r)', NEW v \in AllPaths(s)',
                    w[3] # Stop, v[3] # Stop, PageAt(r, w)' = PageAt(s, v)'
             PROVE  /\ Leaf(r, w)'.custom = Leaf(s, v)'.custom
                    /\ Leaf(r, w)'.write => r = s /\ w = v
    BY DEF Sharing
<1> PICK q : q = IF r = used THEN root ELSE r
    OBVIOUS
<1> PICK t : t = IF s = used THEN root ELSE s
    OBVIOUS
<1>1. /\ q \in procs /\ t \in procs
      /\ w \in AllPaths(q) /\ v \in AllPaths(t)
      /\ PageAt(q, w) = PageAt(t, v)
      /\ Leaf(q, w) \in Entry /\ Leaf(q, w).valid
      /\ Leaf(t, v) \in Entry /\ Leaf(t, v).valid
      /\ Leaf(r, w)' = IF q = root THEN Protected(Leaf(q, w)) ELSE Leaf(q, w)
      /\ Leaf(s, v)' = IF t = root THEN Protected(Leaf(t, v)) ELSE Leaf(t, v)
      BY OnWriteLeaves
<1>2. /\ Leaf(q, w).custom = Leaf(t, v).custom
      /\ Leaf(q, w).write => q = t /\ w = v
      /\ Leaf(t, v).write => q = t /\ w = v
      BY <1>1 DEF IInv, Sharing
<1>3. ASSUME NEW e \in Entry, e.valid
      PROVE  /\ ~Protected(e).write
             /\ ~e.write => Protected(e).custom = e.custom
      BY <1>3 DEF Protected, Shares, Entry
<1>4. q = root /\ t = root => w = v
      BY <1>1 DEF IInv, MappedOnce
<1>5. Leaf(r, w)'.custom = Leaf(s, v)'.custom
  <2>1. CASE Leaf(q, w).write \/ Leaf(t, v).write
        BY <1>1, <1>2, <2>1
  <2>2. CASE ~Leaf(q, w).write /\ ~Leaf(t, v).write
        BY <1>1, <1>2, <1>3, <2>2
  <2> QED BY <2>1, <2>2
<1>6. Leaf(r, w)'.write => q # root /\ q = t /\ w = v
      BY <1>1, <1>2, <1>3
<1> QED BY <1>5, <1>6

-----------------------------------------------------------------------------
(* Mappings and counters.                                                  *)

MappingsByPath ==
    /\ \A r \in procs, a \in Addresses :
           /\ Mapped(r, a) <=> a \in AllPaths(r)
           /\ PageAt(r, a) = Leaf(r, a).ppn
    /\ \A p : /\ Mappings(p) = {m \in procs \X Addresses :
                     m[2] \in AllPaths(m[1]) /\ PageAt(m[1], m[2]) = p}
              /\ IsFiniteSet(Mappings(p))
              /\ Cardinality(Mappings(p)) \in Nat

LEMMA MappingsFinite ==
    ASSUME TypeOK, NEW S \in SUBSET (procs \X Addresses)
    PROVE  IsFiniteSet(S) /\ Cardinality(S) \in Nat
<1>1. IsFiniteSet(procs)
  <2>1. IsFiniteSet(Pages)
        BY FS_Interval, SizesAssumption DEF Pages
  <2> QED BY <2>1, FS_Subset DEF TypeOK
<1>2. IsFiniteSet(Addresses)
      BY PathsFinite, FS_Subset, AddressPaths
<1>3. IsFiniteSet(procs \X Addresses)
      BY <1>1, <1>2, FS_Product
<1> QED BY <1>3, FS_Subset, FS_CardinalityType

LEMMA CountMappings == TypeOK /\ UpperPlain => MappingsByPath
<1> SUFFICES ASSUME TypeOK, UpperPlain PROVE MappingsByPath
    OBVIOUS
<1>1. \A r \in procs, a \in Addresses :
          /\ Mapped(r, a) <=> a \in AllPaths(r)
          /\ PageAt(r, a) = Leaf(r, a).ppn
      BY MappedPath
<1>2. ASSUME NEW p
      PROVE  /\ Mappings(p) = {m \in procs \X Addresses :
                    m[2] \in AllPaths(m[1]) /\ PageAt(m[1], m[2]) = p}
             /\ IsFiniteSet(Mappings(p)) /\ Cardinality(Mappings(p)) \in Nat
  <2>1. Mappings(p) = {m \in procs \X Addresses :
            m[2] \in AllPaths(m[1]) /\ PageAt(m[1], m[2]) = p}
        BY <1>1 DEF Mappings
  <2>2. Mappings(p) \in SUBSET (procs \X Addresses)
        BY DEF Mappings
  <2> QED BY <2>1, <2>2, MappingsFinite
<1> QED BY <1>1, <1>2 DEF MappingsByPath

LEMMA CountMappingsNext == TypeOK' /\ UpperPlain' => MappingsByPath'
<1>1. TypeOK /\ UpperPlain => MappingsByPath
      BY CountMappings
<1> QED BY <1>1, PTL

\* A fork counts every page it shares, and the child is one more sharer.
LEMMA OnWriteCounts ==
    ASSUME IInv, ForkCopyOnWrite, Room(Cardinality(TablePaths(root))),
           MappingsByPath'
    PROVE  CountCoversSharers'
<1> PICK c : c = used
    OBVIOUS
<1>1. /\ MappingsByPath /\ root \in procs /\ c \notin procs
      /\ procs' = procs \cup {c}
      BY CountMappings, OnWriteIsFork, ForkFacts DEF IInv, ForkOf, TypeOK
<1> DEFINE Shared(p) == {e \in Tables(root) \X Index :
               Shares(tab[e[1]][e[2]]) /\ tab[e[1]][e[2]].ppn = p}
<1>2. ASSUME NEW p \in Pages
      PROVE  /\ arr'[p] = arr[p] + 2 * Cardinality(Shared(p))
             /\ IsFiniteSet(Shared(p)) /\ Cardinality(Shared(p)) \in Nat
             /\ arr[p] \in Nat
  <2>1. arr' = [q \in Pages |-> arr[q] + TwoMore * Cardinality(
                   {e \in Tables(root) \X Index :
                       Shares(tab[e[1]][e[2]]) /\ tab[e[1]][e[2]].ppn = q})]
        BY DEF ForkCopyOnWrite
  <2>2. IsFiniteSet(Tables(root) \X Index)
    <3>1. Tables(root) \subseteq Pages
          BY PageBound, SomePaths DEF IInv, TypeOK, Tables
    <3>2. IsFiniteSet(Pages) /\ IsFiniteSet(Index)
          BY FS_Interval, SizesAssumption DEF Pages, Index
    <3> QED BY <3>1, <3>2, FS_Subset, FS_Product
  <2>3. Shared(p) \in SUBSET (Tables(root) \X Index)
        OBVIOUS
  <2>4. arr'[p] = arr[p] + 2 * Cardinality(Shared(p))
        BY <2>1 DEF TwoMore
  <2> HIDE DEF Shared
  <2>5. IsFiniteSet(Shared(p)) /\ Cardinality(Shared(p)) \in Nat
        BY <2>2, <2>3, FS_Subset, FS_CardinalityType
  <2> QED BY <2>4, <2>5 DEF IInv, TypeOK
<1> SUFFICES ASSUME NEW s \in procs', NEW a \in Addresses,
                    Mapped(s, a)', Leaf(s, a)'.custom,
                    NEW p, p = Leaf(s, a)'.ppn,
                    Cardinality(Mappings(p)') > 1
             PROVE  arr'[p] >= Cardinality(Mappings(p)')
    BY DEF CountCoversSharers
<1> PICK r : r = IF s = used THEN root ELSE s
    OBVIOUS
<1>3. a[1] # Stop /\ a[2] # Stop /\ a[3] # Stop
      BY AddressPaths
<1>4. /\ a \in AllPaths(s)' /\ PageAt(s, a)' = p
      BY <1>1 DEF MappingsByPath
<1>5. /\ r \in procs /\ a \in AllPaths(r) /\ PageAt(r, a) = p
      /\ Leaf(r, a) \in Entry /\ Leaf(r, a).valid /\ p \in Pages
      /\ Leaf(s, a)' = IF r = root THEN Protected(Leaf(r, a)) ELSE Leaf(r, a)
  <2>1. /\ r \in procs /\ a \in AllPaths(r) /\ PageAt(r, a) = p
        /\ Leaf(r, a) \in Entry /\ Leaf(r, a).valid
        /\ Leaf(s, a)' = IF r = root THEN Protected(Leaf(r, a)) ELSE Leaf(r, a)
        BY <1>3, <1>4, OnWriteLeaves
  <2>2. p \in Pages
        BY <2>1, PageBound DEF IInv
  <2> QED BY <2>1, <2>2
<1>6. \A m \in procs \X Addresses :
          m \in Mappings(p)' <=> m \in Mappings(p)
  <2> SUFFICES ASSUME NEW q \in procs, NEW b \in Addresses
               PROVE  <<q, b>> \in Mappings(p)' <=> <<q, b>> \in Mappings(p)
      OBVIOUS
  <2>1. /\ AllPaths(q)' = AllPaths(q)
        /\ b \in AllPaths(q) => PageAt(q, b)' = PageAt(q, b)
        BY <1>1, OnWriteIsFork, ForkPaths DEF IInv
  <2>2. <<q, b>> \in Mappings(p) <=> b \in AllPaths(q) /\ PageAt(q, b) = p
        BY <1>1 DEF MappingsByPath
  <2>3. <<q, b>> \in Mappings(p)' <=> b \in AllPaths(q)' /\ PageAt(q, b)' = p
        BY <1>1 DEF MappingsByPath
  <2> QED BY <2>1, <2>2, <2>3
<1>7. \A b \in Addresses :
          <<c, b>> \in Mappings(p)' <=> <<root, b>> \in Mappings(p)
  <2> SUFFICES ASSUME NEW b \in Addresses
               PROVE  <<c, b>> \in Mappings(p)' <=> <<root, b>> \in Mappings(p)
      OBVIOUS
  <2>1. b \notin TablePaths(root)
        BY AddressPaths, SomePaths
  <2>2. /\ AllPaths(c)' = AllPaths(root)
        /\ b \in AllPaths(root) => PageAt(c, b)' = PageAt(root, b)
        BY <1>1, <2>1, OnWriteIsFork, ForkPaths DEF IInv
  <2>3. <<root, b>> \in Mappings(p) <=> b \in AllPaths(root) /\ PageAt(root, b) = p
        BY <1>1 DEF MappingsByPath
  <2>4. <<c, b>> \in Mappings(p)' <=> b \in AllPaths(c)' /\ PageAt(c, b)' = p
        BY <1>1 DEF MappingsByPath
  <2> QED BY <2>2, <2>3, <2>4
<1>8. /\ Mappings(p)' \subseteq (procs \cup {c}) \X Addresses
      /\ Mappings(p) \subseteq procs \X Addresses
      BY <1>1 DEF Mappings
<1>9. /\ IsFiniteSet(Mappings(p)) /\ Cardinality(Mappings(p)) \in Nat
      BY <1>1 DEF MappingsByPath
<1>10. CASE \E b \in Addresses : <<root, b>> \in Mappings(p)
  <2>1. PICK b \in Addresses : <<root, b>> \in Mappings(p)
        BY <1>10
  <2>2. b \in AllPaths(root) /\ PageAt(root, b) = p
        BY <1>1, <2>1 DEF MappingsByPath
  <2>3. \A d \in Addresses : <<root, d>> \in Mappings(p) => d = b
    <3>1. \A d \in Addresses :
              <<root, d>> \in Mappings(p) => d \in AllPaths(root) /\ PageAt(root, d) = p
          BY <1>1 DEF MappingsByPath
    <3> QED BY <1>1, <2>2, <3>1 DEF IInv, MappedOnce
  <2>4. Mappings(p)' = Mappings(p) \cup {<<c, b>>}
    <3>1. ASSUME NEW q \in procs \cup {c}, NEW d \in Addresses
          PROVE  <<q, d>> \in Mappings(p)' <=>
                     <<q, d>> \in Mappings(p) \cup {<<c, b>>}
      <4>1. CASE q \in procs
            BY <1>1, <1>6, <4>1
      <4>2. CASE q = c
        <5>1. <<c, d>> \notin Mappings(p)
              BY <1>1, <1>8
        <5> QED BY <1>7, <2>1, <2>3, <4>2, <5>1
      <4> QED BY <4>1, <4>2
    <3>2. <<c, b>> \in (procs \cup {c}) \X Addresses
          OBVIOUS
    <3> QED BY <1>8, <3>1, <3>2
  <2>5. Cardinality(Mappings(p)') = Cardinality(Mappings(p)) + 1
    <3>1. <<c, b>> \notin Mappings(p)
          BY <1>1, <1>8
    <3> QED BY <1>9, <2>4, <3>1, FS_AddElement
  <2>6. /\ b[3] # Stop /\ Leaf(root, b) \in Entry /\ Leaf(root, b).valid
        /\ Leaf(root, b) = tab[Table0(root, b)][b[3]]
        /\ Table0(root, b) \in Tables(root) /\ b[3] \in Index
        /\ Leaf(root, b).ppn = p
    <3>1. b[3] # Stop
          BY AddressPaths
    <3>2. Leaf(root, b).ppn = p
          BY <1>1, <2>2 DEF MappingsByPath
    <3>3. root \in Pages /\ b \in Paths /\ b[1] # Stop /\ b[2] # Stop
          BY AddressPaths DEF IInv, TypeOK
    <3>4. Leaf(root, b) \in Entry
          BY <3>1, <3>3, WalkType DEF IInv
    <3> QED BY <1>1, <2>2, <3>1, <3>2, <3>4, OwnTable, PathsAbove DEF IInv
  <2>7. /\ Leaf(r, a).custom = Leaf(root, b).custom
        /\ Leaf(root, b).write => r = root /\ a = b
        /\ Leaf(r, a).write => r = root /\ a = b
        BY <1>1, <1>3, <1>5, <2>2, <2>6 DEF IInv, Sharing
  <2>8. Shares(Leaf(root, b))
    <3>1. CASE r = root
      <4>1. a = b
            BY <1>1, <1>5, <2>2, <3>1 DEF IInv, MappedOnce
      <4>2. Protected(Leaf(root, b)).custom
            BY <1>5, <3>1, <4>1
      <4> QED BY <2>6, <4>2 DEF Protected, Shares, Entry
    <3>2. CASE r # root
          BY <1>5, <2>6, <2>7, <3>2 DEF Shares
    <3> QED BY <3>1, <3>2
  <2>9. Cardinality(Shared(p)) >= 1
    <3>1. <<Table0(root, b), b[3]>> \in Shared(p)
          BY <2>6, <2>8
    <3> HIDE DEF Shared
    <3>2. Shared(p) # {}
          BY <3>1
    <3>3. Cardinality(Shared(p)) # 0
          BY <1>2, <1>5, <3>2, FS_EmptySet
    <3> QED BY <1>2, <1>5, <3>3
  <2>10. Cardinality(Mappings(p)) > 1 => arr[p] >= Cardinality(Mappings(p))
    <3>1. ASSUME Cardinality(Mappings(p)) > 1 PROVE ~Leaf(root, b).write
      <4> SUFFICES ASSUME Leaf(root, b).write PROVE FALSE
          OBVIOUS
      <4>1. ASSUME NEW q \in procs, NEW d \in Addresses, <<q, d>> \in Mappings(p)
            PROVE  q = root /\ d = b
        <5>1. d \in AllPaths(q) /\ PageAt(q, d) = p /\ d[3] # Stop
              BY <1>1, <4>1, AddressPaths DEF MappingsByPath
        <5> QED BY <1>1, <2>2, <2>6, <5>1 DEF IInv, Sharing
      <4>2. Mappings(p) = {<<root, b>>}
            BY <1>8, <2>1, <4>1
      <4>3. Cardinality({<<root, b>>}) = 1
            BY FS_Singleton
      <4> QED BY <3>1, <4>2, <4>3
    <3>2. Mapped(root, b)
          BY <1>1, <2>2 DEF MappingsByPath
    <3> QED BY <1>1, <2>6, <2>8, <3>1, <3>2 DEF IInv, CountCoversSharers, Shares
  <2> HIDE DEF Shared
  <2>11. arr'[p] >= arr[p] + 2
        BY <1>2, <1>5, <2>9
  <2>12. Cardinality(Mappings(p)) <= 1 \/ Cardinality(Mappings(p)) > 1
        BY <1>9
  <2> QED BY <1>2, <1>5, <1>9, <2>5, <2>10, <2>11, <2>12
<1>11. CASE ~\E b \in Addresses : <<root, b>> \in Mappings(p)
  <2>1. Mappings(p)' = Mappings(p)
        BY <1>6, <1>7, <1>8, <1>11
  <2>2. <<r, a>> \in Mappings(p) /\ Mapped(r, a) /\ Leaf(r, a).ppn = p
        BY <1>1, <1>5 DEF MappingsByPath
  <2>3. r # root /\ Leaf(r, a).custom
        BY <1>5, <1>11, <2>2
  <2>4. arr[p] >= Cardinality(Mappings(p))
        BY <1>5, <2>1, <2>2, <2>3 DEF IInv, CountCoversSharers
  <2> HIDE DEF Shared
  <2>5. arr'[p] >= arr[p]
        BY <1>2, <1>5
  <2> QED BY <1>2, <1>5, <1>9, <2>1, <2>4, <2>5
<1> QED BY <1>10, <1>11

-----------------------------------------------------------------------------
(* The plain fork.                                                         *)

LEMMA CopyLeaves ==
    ASSUME IInv, ForkCopy, Room(Cardinality(AllPaths(root))), NEW c, c = used
    PROVE  /\ procs' = procs \cup {c} /\ c \notin procs /\ root \in procs
           /\ \A r \in procs : AllPaths(r)' = AllPaths(r)
           /\ \A r \in procs : \A w \in AllPaths(r) :
                  /\ PageAt(r, w)' = PageAt(r, w)
                  /\ PageAt(r, w) < used /\ PageAt(r, w) \in Int
                  /\ w[3] # Stop => Leaf(r, w)' = Leaf(r, w)
           /\ AllPaths(c)' = AllPaths(root)
           /\ \A w \in AllPaths(root) :
                  /\ PageAt(c, w)' = CopyOf(AllPaths(root), w)
                  /\ PageAt(c, w)' >= used /\ PageAt(c, w)' \in Int
                  /\ \A v \in AllPaths(root) :
                         PageAt(c, v)' = PageAt(c, w)' => v = w
                  /\ w[3] # Stop =>
                         /\ Leaf(root, w) \in Entry
                         /\ Leaf(c, w)' = [Leaf(root, w) EXCEPT
                                              !.ppn = PageAt(c, w)']
<1> DEFINE paths == AllPaths(root)
<1>1. /\ TypeOK /\ InUse /\ UpperPlain /\ OwnTables /\ MappedOnce
      /\ ForkOf(paths)
      BY CopyIsFork DEF IInv
<1>2. /\ procs' = procs \cup {c} /\ c \notin procs /\ root \in procs
      /\ used \in Nat /\ \A p \in Copies(paths) : p >= used /\ p \in Int
      BY <1>1, ForkFacts DEF ForkOf, TypeOK, Pages
<1>3. /\ \A r \in procs : AllPaths(r)' = AllPaths(r)
      /\ AllPaths(c)' = AllPaths(root)
      /\ \A w \in AllPaths(root) : PageAt(c, w)' = CopyOf(paths, w)
      BY <1>1, ForkPaths
<1>4. ASSUME NEW r \in procs, NEW w \in AllPaths(r)
      PROVE  /\ PageAt(r, w)' = PageAt(r, w)
             /\ PageAt(r, w) < used /\ PageAt(r, w) \in Int
             /\ w[3] # Stop => Leaf(r, w)' = Leaf(r, w)
  <2>1. /\ PageAt(r, w)' = PageAt(r, w)
        /\ PageAt(r, w) < used /\ PageAt(r, w) \in Pages
        BY <1>1, ForkPaths, PageBound
  <2>2. ASSUME w[3] # Stop PROVE Leaf(r, w)' = Leaf(r, w)
    <3>1. /\ w \in Paths /\ w[1] # Stop /\ w[2] # Stop
          /\ <<w[1], w[2], Stop>> \in AllPaths(r)
          /\ PageAt(r, <<w[1], w[2], Stop>>) = Table0(r, w)
          BY <2>2, PathsAbove, SomePaths DEF Table0
    <3>2. /\ Leaf(r, w) = tab[Table0(r, w)][w[3]]
          /\ Table0(r, w) \in Pages /\ w[3] \in Index
          BY <1>1, <2>2, OwnTable
    <3>3. Table0(r, w) < used
          BY <1>1, <3>1, PageBound
    <3>4. Table0(r, w)' = Table0(r, w)
      <4>1. Like(Middle(r, w)', Middle(r, w))
            BY <1>1, <3>1, ForkOld
      <4> QED BY <4>1 DEF Like, Table0
    <3>5. Table0(r, w) \in Pages \ Copies(paths)
          BY <1>2, <3>2, <3>3 DEF Pages
    <3>6. tab'[Table0(r, w)][w[3]] = tab[Table0(r, w)][w[3]]
          BY <1>1, <3>2, <3>5, CopyIsFork
    <3> QED BY <3>2, <3>4, <3>6 DEF Leaf
  <2> QED BY <2>1, <2>2 DEF Pages
<1>5. ASSUME NEW w \in AllPaths(root)
      PROVE  /\ PageAt(c, w)' >= used /\ PageAt(c, w)' \in Int
             /\ \A v \in AllPaths(root) : PageAt(c, v)' = PageAt(c, w)' => v = w
             /\ w[3] # Stop =>
                    /\ Leaf(root, w) \in Entry
                    /\ Leaf(c, w)' = [Leaf(root, w) EXCEPT !.ppn = PageAt(c, w)']
  <2>1. PageAt(c, w)' = CopyOf(paths, w) /\ CopyOf(paths, w) \in Copies(paths)
        BY <1>3 DEF Copies
  <2>2. \A v \in AllPaths(root) : PageAt(c, v)' = PageAt(c, w)' => v = w
        BY <1>2, <1>3, CopiesDiffer, SomePaths
  <2>3. ASSUME w[3] # Stop
        PROVE  /\ Leaf(root, w) \in Entry
               /\ Leaf(c, w)' = [Leaf(root, w) EXCEPT !.ppn = PageAt(c, w)']
    <3>1. /\ w \in Paths /\ w[1] # Stop /\ w[2] # Stop /\ Leads(root, w)
          /\ <<w[1], w[2], Stop>> \in AllPaths(root)
          /\ PageAt(root, <<w[1], w[2], Stop>>) = Table0(root, w)
          /\ Leaf(root, w).valid
          BY <2>3, PathsAbove, SomePaths DEF Table0, AllPaths
    <3>2. Leaf(root, w) = tab[Table0(root, w)][w[3]] /\ w[3] \in Index
          BY <1>1, <1>2, <2>3, OwnTable
    <3>3. Leaf(root, w) \in Entry
          BY <1>1, <2>3, <3>1, WalkType DEF TypeOK
    <3>4. Leaf(c, w)' = tab'[CopyOf(paths, <<w[1], w[2], Stop>>)][w[3]]
          BY <1>1, <2>3, <3>1, ForkChild
    <3>5. Leaf(c, w)' = Moved(paths, <<w[1], w[2], Stop>>, w[3])
          BY <1>1, <3>1, <3>2, <3>4, CopyIsFork
    <3>6. Down(<<w[1], w[2], Stop>>, w[3]) = w
          BY <3>1, PathParts DEF Down
    <3>7. Moved(paths, <<w[1], w[2], Stop>>, w[3]) =
              [Leaf(root, w) EXCEPT !.ppn = CopyOf(paths, w)]
          BY <3>1, <3>2, <3>6 DEF Moved
    <3> QED BY <2>1, <3>3, <3>5, <3>7
  <2> QED BY <1>2, <2>1, <2>2, <2>3
<1> QED BY <1>2, <1>3, <1>4, <1>5

LEMMA CopySharing ==
    ASSUME IInv, ForkCopy, Room(Cardinality(AllPaths(root)))
    PROVE  Sharing'
<1> SUFFICES ASSUME NEW r \in procs', NEW s \in procs',
                    NEW w \in AllPaths(r)', NEW v \in AllPaths(s)',
                    w[3] # Stop, v[3] # Stop, PageAt(r, w)' = PageAt(s, v)'
             PROVE  /\ Leaf(r, w)'.custom = Leaf(s, v)'.custom
                    /\ Leaf(r, w)'.write => r = s /\ w = v
    BY DEF Sharing
<1> PICK c : c = used
    OBVIOUS
<1>1. /\ procs' = procs \cup {c} /\ used \in Nat /\ root \in procs
      /\ \A q \in procs : AllPaths(q)' = AllPaths(q)
      /\ \A q \in procs : \A u \in AllPaths(q) :
             /\ PageAt(q, u)' = PageAt(q, u)
             /\ PageAt(q, u) < used /\ PageAt(q, u) \in Int
             /\ u[3] # Stop => Leaf(q, u)' = Leaf(q, u)
      /\ AllPaths(c)' = AllPaths(root)
      /\ \A u \in AllPaths(root) :
             /\ PageAt(c, u)' >= used /\ PageAt(c, u)' \in Int
             /\ \A x \in AllPaths(root) : PageAt(c, x)' = PageAt(c, u)' => x = u
      BY CopyLeaves DEF IInv, TypeOK
<1>2. CASE r \in procs /\ s \in procs
      BY <1>1, <1>2 DEF IInv, Sharing
<1>3. CASE r = c /\ s = c
      BY <1>1, <1>3
<1>4. ~(r \in procs /\ s = c) /\ ~(r = c /\ s \in procs)
      BY <1>1
<1> QED BY <1>1, <1>2, <1>3, <1>4

LEMMA CopyCounts ==
    ASSUME IInv, ForkCopy, Room(Cardinality(AllPaths(root))), MappingsByPath'
    PROVE  CountCoversSharers'
<1> PICK c : c = used
    OBVIOUS
<1>1. /\ procs' = procs \cup {c} /\ used \in Nat /\ root \in procs /\ c \notin procs
      /\ \A q \in procs : AllPaths(q)' = AllPaths(q)
      /\ \A q \in procs : \A u \in AllPaths(q) :
             /\ PageAt(q, u)' = PageAt(q, u)
             /\ PageAt(q, u) < used /\ PageAt(q, u) \in Int
             /\ u[3] # Stop => Leaf(q, u)' = Leaf(q, u)
      /\ AllPaths(c)' = AllPaths(root)
      /\ \A u \in AllPaths(root) :
             /\ PageAt(c, u)' >= used /\ PageAt(c, u)' \in Int
             /\ \A x \in AllPaths(root) : PageAt(c, x)' = PageAt(c, u)' => x = u
      BY CopyLeaves DEF IInv, TypeOK
<1>2. MappingsByPath /\ arr' = arr
      BY CountMappings DEF IInv, ForkCopy
<1> SUFFICES ASSUME NEW s \in procs', NEW a \in Addresses,
                    Mapped(s, a)', Leaf(s, a)'.custom,
                    NEW p, p = Leaf(s, a)'.ppn,
                    Cardinality(Mappings(p)') > 1
             PROVE  arr'[p] >= Cardinality(Mappings(p)')
    BY DEF CountCoversSharers
<1>3. /\ a \in AllPaths(s)' /\ PageAt(s, a)' = p /\ a[3] # Stop
      BY AddressPaths DEF MappingsByPath
<1>4. \A q \in procs', d \in Addresses :
          <<q, d>> \in Mappings(p)' <=> d \in AllPaths(q)' /\ PageAt(q, d)' = p
      BY DEF MappingsByPath
<1>5. /\ Mappings(p)' \subseteq procs' \X Addresses
      /\ Mappings(p) \subseteq procs \X Addresses
      BY DEF Mappings
<1>6. CASE s = c
  <2>1. \A q \in procs', d \in Addresses :
            <<q, d>> \in Mappings(p)' => q = c /\ d = a
        BY <1>1, <1>3, <1>4, <1>6
  <2>2. <<c, a>> \in Mappings(p)'
        BY <1>3, <1>4, <1>6
  <2>3. Mappings(p)' = {<<c, a>>}
        BY <1>5, <2>1, <2>2
  <2>4. Cardinality({<<c, a>>}) = 1
        BY FS_Singleton
  <2> QED BY <2>3, <2>4
<1>7. CASE s \in procs
  <2>1. \A q \in procs, d \in Addresses :
            <<q, d>> \in Mappings(p) <=> d \in AllPaths(q) /\ PageAt(q, d) = p
        BY <1>2 DEF MappingsByPath
  <2>2. \A d \in Addresses : <<c, d>> \notin Mappings(p)'
        BY <1>1, <1>3, <1>4, <1>7
  <2>3. ASSUME NEW q \in procs, NEW d \in Addresses
        PROVE  <<q, d>> \in Mappings(p)' <=> <<q, d>> \in Mappings(p)
    <3>1. <<q, d>> \in Mappings(p)' <=> d \in AllPaths(q)' /\ PageAt(q, d)' = p
          BY <1>1, <1>4
    <3> QED BY <1>1, <2>1, <3>1
  <2>4. Mappings(p)' = Mappings(p)
    <3>1. ASSUME NEW q \in procs \cup {c}, NEW d \in Addresses
          PROVE  <<q, d>> \in Mappings(p)' <=> <<q, d>> \in Mappings(p)
      <4>1. <<c, d>> \notin Mappings(p)
            BY <1>1, <1>5
      <4> QED BY <2>2, <2>3, <4>1
    <3> QED BY <1>1, <1>5, <3>1
  <2>5. Mapped(s, a) /\ Leaf(s, a).custom /\ Leaf(s, a).ppn = p
        BY <1>1, <1>2, <1>3, <1>7 DEF MappingsByPath
  <2> QED BY <1>2, <1>7, <2>4, <2>5 DEF IInv, CountCoversSharers
<1> QED BY <1>1, <1>6, <1>7

-----------------------------------------------------------------------------
(* Steps that change no entry.                                             *)

\* The invariant says nothing of the machine, nor of which process runs, nor
\* of the data in the pages that are used.
LEMMA SameEntries ==
    ASSUME IInv, TypeOK', UNCHANGED <<used, tab, arr, procs>>,
           \A p \in Pages : p >= used => val'[p] = val[p]
    PROVE  IInv'
<1>1. InUse'
      BY DEF IInv, InUse
<1>2. \A r, w : /\ Upper(r, w)' = Upper(r, w)
                /\ Middle(r, w)' = Middle(r, w)
                /\ Table0(r, w)' = Table0(r, w)
                /\ Leaf(r, w)' = Leaf(r, w)
      BY DEF Upper, Middle, Table0, Leaf
<1>3. \A r, w : /\ Leads(r, w)' <=> Leads(r, w)
                /\ PageAt(r, w)' = PageAt(r, w)
                /\ Mapped(r, w)' <=> Mapped(r, w)
      BY <1>2 DEF Leads, PageAt, Mapped, Walks
<1>4. \A r : AllPaths(r)' = AllPaths(r) /\ TablePaths(r)' = TablePaths(r)
      BY <1>3 DEF AllPaths, TablePaths
<1>5. KnownAddresses' /\ UpperPlain' /\ OwnTables' /\ MappedOnce' /\ Sharing'
      BY <1>2, <1>3, <1>4
      DEF IInv, KnownAddresses, UpperPlain, OwnTables, MappedOnce, Sharing
<1>6. \A p : Mappings(p)' = Mappings(p)
      BY <1>2, <1>3 DEF Mappings
<1>7. CountCoversSharers'
      BY <1>2, <1>3, <1>6 DEF IInv, CountCoversSharers
<1> QED BY <1>1, <1>5, <1>7 DEF IInv

LEMMA IdleInv ==
    ASSUME IInv, TypeOK', Idle
    PROVE  IInv'
BY SameEntries DEF Idle

\* A write without a fault goes to a page that is used.
LEMMA WriteInv ==
    ASSUME IInv, TypeOK',
           NEW a \in Addresses, NEW o \in Offsets, NEW x \in Values,
           Write(a, o, x)
    PROVE  IInv'
<1>1. root \in procs /\ Leaf(root, a).ppn < used /\ Leaf(root, a).ppn \in Pages
      BY MappedPath, PageBound DEF IInv, TypeOK, Write
<1>2. \A p \in Pages : p >= used => val'[p] = val[p]
      BY <1>1 DEF Write, IInv, TypeOK, Pages
<1> QED BY <1>2, SameEntries DEF Write

\* Both forks, with room or without.
LEMMA ForkInv ==
    ASSUME IInv, TypeOK', ForkCopyOnWrite \/ ForkCopy
    PROVE  IInv'
<1>1. ASSUME NEW paths, ForkOf(paths)
      PROVE  InUse' /\ UpperPlain' /\ OwnTables' /\ MappedOnce' /\ MappingsByPath'
      BY <1>1, ForkInUse, ForkTables, CountMappingsNext DEF IInv
<1>2. ASSUME NEW paths, ForkOf(paths)
      PROVE  KnownAddresses'
  <2> PICK c : c = used
      OBVIOUS
  <2>1. /\ procs' = procs \cup {c} /\ root \in procs
        /\ \A r \in procs : AllPaths(r)' = AllPaths(r)
        /\ AllPaths(c)' = AllPaths(root)
        BY <1>2, ForkPaths DEF IInv, TypeOK, ForkOf
  <2> QED BY <2>1 DEF IInv, KnownAddresses
<1>3. CASE ForkCopyOnWrite /\ Room(Cardinality(TablePaths(root)))
      BY <1>1, <1>2, <1>3, OnWriteIsFork, OnWriteSharing, OnWriteCounts DEF IInv
<1>4. CASE ForkCopy /\ Room(Cardinality(AllPaths(root)))
      BY <1>1, <1>2, <1>4, CopyIsFork, CopySharing, CopyCounts DEF IInv
<1>5. CASE Exit("ENOMEM")
      BY <1>5, IdleSteps, IdleInv DEF IInv
<1> QED BY <1>3, <1>4, <1>5 DEF ForkCopyOnWrite, ForkCopy

-----------------------------------------------------------------------------
(* The page fault handler.                                                 *)

\* What the two faults have in common.
Faults(a) ==
    /\ Mapped(root, a)
    /\ Leaf(root, a).custom
    /\ NeedsCopy(Leaf(root, a).ppn) => Room(1)
    /\ Handle(a)
    /\ \A p \in Pages : p # Target(a) => val'[p] = val[p]
    /\ root' = root
    /\ procs' = procs

\* One entry changes, in a table that is found by one path.
LEMMA FaultWalk ==
    ASSUME IInv, NEW a \in Addresses, Faults(a),
           NEW s \in procs, NEW w \in Paths
    PROVE  /\ w[1] # Stop => Upper(s, w)' = Upper(s, w)
           /\ w[1] # Stop /\ w[2] # Stop /\ Upper(s, w).valid =>
                  Middle(s, w)' = Middle(s, w)
           /\ w[1] # Stop /\ w[2] # Stop /\ w[3] # Stop
                  /\ Upper(s, w).valid /\ Middle(s, w).valid =>
                  Leaf(s, w)' = IF s = root /\ w = a THEN Resolved(a)
                                ELSE Leaf(s, w)
<1> DEFINE t == Table0(root, a)
           above == <<a[1], a[2], Stop>>
<1>1. /\ a[3] \in Index /\ a = <<a[1], a[2], a[3]>>
      /\ a[1] # Stop /\ a[2] # Stop /\ a[3] # Stop
      /\ root \in procs /\ root \in Pages /\ s \in Pages
      BY AddressPaths DEF IInv, TypeOK
<1>2. above \in AllPaths(root) /\ PageAt(root, above) = t
  <2>1. a \in AllPaths(root)
        BY <1>1, MappedPath DEF IInv, Faults
  <2> QED BY <1>1, <2>1, PathsAbove, SomePaths DEF Table0
<1>3. t \in Pages
      BY <1>1, AddressType DEF IInv
<1>4. Resolved(a) \in Entry
      BY <1>1, <1>3, AddressType, HandleType
      DEF Resolved, Entry, IInv, Faults
<1>5. /\ \A q \in Pages, i \in Index : q # t \/ i # a[3] => tab'[q][i] = tab[q][i]
      /\ tab'[t][a[3]] = Resolved(a)
  <2>1. tab \in [Pages -> [Index -> Entry]]
        BY DEF IInv, TypeOK, Entry
  <2>2. tab' = [tab EXCEPT ![t][a[3]] = Resolved(a)]
        BY DEF Faults, Handle
  <2> HIDE DEF t
  <2> QED BY <1>1, <1>3, <2>1, <2>2
<1>6. ASSUME NEW v \in TablePaths(s), PageAt(s, v) = t
      PROVE  s = root /\ v = above
      BY <1>1, <1>2, <1>6 DEF IInv, OwnTables
<1>7. s # t
  <2>1. Top \in TablePaths(s) /\ PageAt(s, Top) = s
        BY SomePaths DEF PageAt, Top
  <2>2. Top # above
        BY <1>1 DEF Top
  <2> QED BY <1>6, <2>1, <2>2
<1>8. w[1] # Stop => Upper(s, w)' = Upper(s, w)
      BY <1>1, <1>5, <1>7, PathParts DEF Upper
<1>9. ASSUME w[1] # Stop, w[2] # Stop, Upper(s, w).valid
      PROVE  Middle(s, w)' = Middle(s, w)
  <2>1. <<w[1], Stop, Stop>> \in TablePaths(s)
        BY <1>9, PathParts DEF TablePaths, Leads, Upper, Steps
  <2>2. PageAt(s, <<w[1], Stop, Stop>>) = Upper(s, w).ppn
        BY <1>9 DEF PageAt, Upper
  <2>3. Upper(s, w).ppn # t
        BY <1>1, <1>6, <2>1, <2>2
  <2>4. Upper(s, w).ppn \in Pages
        BY <1>1, <1>9, WalkType DEF IInv, Entry
  <2>5. Middle(s, w)' = tab'[Upper(s, w).ppn][w[2]]
        BY <1>8, <1>9 DEF Middle
  <2>6. w[2] \in Index
        BY <1>9, PathParts
  <2> QED BY <1>5, <2>3, <2>4, <2>5, <2>6 DEF Middle
<1>10. ASSUME w[1] # Stop, w[2] # Stop, w[3] # Stop,
              Upper(s, w).valid, Middle(s, w).valid
       PROVE  Leaf(s, w)' = IF s = root /\ w = a THEN Resolved(a) ELSE Leaf(s, w)
  <2>1. <<w[1], w[2], Stop>> \in TablePaths(s)
        BY <1>10, PathParts DEF TablePaths, Leads, Upper, Middle, Steps
  <2>2. PageAt(s, <<w[1], w[2], Stop>>) = Table0(s, w)
        BY <1>10 DEF PageAt, Upper, Middle, Table0
  <2>3. Table0(s, w) \in Pages /\ w[3] \in Index
        BY <1>1, <1>10, WalkType, PathParts DEF IInv, Entry, Table0
  <2>4. Leaf(s, w)' = tab'[Table0(s, w)][w[3]]
        BY <1>9, <1>10 DEF Leaf, Table0
  <2>5. CASE s = root /\ w = a
        BY <1>5, <2>4, <2>5
  <2>6. CASE ~(s = root /\ w = a)
    <3>1. Table0(s, w) # t \/ w[3] # a[3]
      <4> SUFFICES ASSUME Table0(s, w) = t, w[3] = a[3] PROVE FALSE
          OBVIOUS
      <4>1. s = root /\ <<w[1], w[2], Stop>> = above
            BY <1>6, <2>1, <2>2
      <4>2. w = <<w[1], w[2], w[3]>>
            BY PathParts
      <4> QED BY <1>1, <2>6, <4>1, <4>2
    <3> QED BY <1>5, <2>3, <2>4, <2>6, <3>1 DEF Leaf
  <2> QED BY <2>5, <2>6
<1> QED BY <1>8, <1>9, <1>10

\* Afterwards all paths are there, and only the address leads elsewhere.
LEMMA FaultPaths ==
    ASSUME IInv, NEW a \in Addresses, Faults(a)
    PROVE  /\ a \in AllPaths(root) /\ root \in procs /\ used \in Nat
           /\ Target(a) = IF NeedsCopy(PageAt(root, a)) THEN used
                          ELSE PageAt(root, a)
           /\ \A s \in procs :
                  AllPaths(s)' = AllPaths(s) /\ TablePaths(s)' = TablePaths(s)
           /\ \A s \in procs : \A w \in AllPaths(s) :
                  /\ PageAt(s, w) < used /\ PageAt(s, w) \in Pages
                  /\ PageAt(s, w) \in Int
                  /\ PageAt(s, w)' = IF s = root /\ w = a THEN Target(a)
                                     ELSE PageAt(s, w)
                  /\ w[3] # Stop =>
                         Leaf(s, w)' = IF s = root /\ w = a THEN Resolved(a)
                                       ELSE Leaf(s, w)
                  /\ w[1] # Stop => Upper(s, w)' = Upper(s, w)
                  /\ w[2] # Stop => Middle(s, w)' = Middle(s, w)
<1>1. a[1] # Stop /\ a[2] # Stop /\ a[3] # Stop
      BY AddressPaths
<1>2. /\ a \in AllPaths(root) /\ root \in procs /\ used \in Nat
      /\ PageAt(root, a) = Leaf(root, a).ppn
      BY MappedPath, SizesAssumption DEF IInv, TypeOK, Faults
<1>3. Target(a) = IF NeedsCopy(PageAt(root, a)) THEN used ELSE PageAt(root, a)
      BY <1>2 DEF Target
<1>4. Resolved(a).valid /\ Resolved(a).ppn = Target(a)
      BY DEF Resolved
<1>5. Leads(root, a)
      BY <1>2 DEF AllPaths
<1>6. ASSUME NEW s \in procs, NEW w \in Paths
      PROVE  Leads(s, w)' = Leads(s, w)
  <2>1. /\ w[1] # Stop => Upper(s, w)' = Upper(s, w)
        /\ w[1] # Stop /\ w[2] # Stop /\ Upper(s, w).valid =>
               Middle(s, w)' = Middle(s, w)
        /\ w[1] # Stop /\ w[2] # Stop /\ w[3] # Stop
               /\ Upper(s, w).valid /\ Middle(s, w).valid =>
               Leaf(s, w)' = IF s = root /\ w = a THEN Resolved(a)
                             ELSE Leaf(s, w)
        BY FaultWalk
  <2>2. w[1] # Stop /\ w[2] # Stop /\ w[3] # Stop
            /\ Upper(s, w).valid /\ Middle(s, w).valid =>
            (Leaf(s, w)'.valid <=> Leaf(s, w).valid)
        BY <1>1, <1>4, <1>5, <2>1 DEF Leads
  <2> QED BY <2>1, <2>2 DEF Leads
<1>7. ASSUME NEW s \in procs
      PROVE  AllPaths(s)' = AllPaths(s) /\ TablePaths(s)' = TablePaths(s)
  <2>1. \A w \in Paths : Leads(s, w)' = Leads(s, w)
        BY <1>6
  <2>2. AllPaths(s)' = AllPaths(s)
        BY <2>1 DEF AllPaths, Paths
  <2>3. TablePaths(s)' = TablePaths(s)
        BY <2>1 DEF TablePaths, Paths, Steps
  <2> QED BY <2>2, <2>3
<1>8. ASSUME NEW s \in procs, NEW w \in AllPaths(s)
      PROVE  /\ PageAt(s, w) < used /\ PageAt(s, w) \in Pages
             /\ PageAt(s, w) \in Int
             /\ PageAt(s, w)' = IF s = root /\ w = a THEN Target(a)
                                ELSE PageAt(s, w)
             /\ w[3] # Stop =>
                    Leaf(s, w)' = IF s = root /\ w = a THEN Resolved(a)
                                  ELSE Leaf(s, w)
             /\ w[1] # Stop => Upper(s, w)' = Upper(s, w)
             /\ w[2] # Stop => Middle(s, w)' = Middle(s, w)
  <2>1. PageAt(s, w) < used /\ PageAt(s, w) \in Pages
        BY PageBound DEF IInv
  <2>2. w \in Paths /\ Leads(s, w)
        BY SomePaths DEF AllPaths
  <2>3. /\ w[1] # Stop => Upper(s, w)' = Upper(s, w)
        /\ w[2] # Stop => Middle(s, w)' = Middle(s, w)
        /\ w[3] # Stop =>
               Leaf(s, w)' = IF s = root /\ w = a THEN Resolved(a)
                             ELSE Leaf(s, w)
        BY <2>2, FaultWalk DEF Leads
  <2>4. PageAt(s, w)' = IF s = root /\ w = a THEN Target(a) ELSE PageAt(s, w)
    <3>1. CASE w[3] = Stop
          BY <1>1, <2>2, <2>3, <3>1 DEF PageAt, Leads
    <3>2. CASE w[3] # Stop
      <4>1. w[1] # Stop /\ w[2] # Stop
            BY <2>2, <3>2 DEF Leads
      <4>2. PageAt(s, w) = Leaf(s, w).ppn /\ PageAt(s, w)' = Leaf(s, w)'.ppn
            BY <3>2, <4>1 DEF PageAt
      <4> QED BY <1>4, <2>3, <3>2, <4>2
    <3> QED BY <3>1, <3>2
  <2> QED BY <2>1, <2>3, <2>4 DEF Pages
<1> QED BY <1>2, <1>3, <1>7, <1>8

LEMMA FaultInUse ==
    ASSUME IInv, NEW a \in Addresses, Faults(a)
    PROVE  InUse'
<1>1. /\ \A p \in Pages : p \in Int
      /\ \A p \in Pages, i \in Index : tab[p][i].ppn < used
      BY DEF IInv, InUse, Pages
<1>2. /\ used \in Nat /\ used' \in Nat /\ used <= used'
      /\ Target(a) < used' /\ Target(a) \in Pages
  <2>1. /\ used' = IF NeedsCopy(Leaf(root, a).ppn) THEN used + 1 ELSE used
        /\ NeedsCopy(Leaf(root, a).ppn) => Room(1)
        BY DEF Faults, Handle
  <2>2. /\ Target(a) = IF NeedsCopy(Leaf(root, a).ppn) THEN used
                       ELSE Leaf(root, a).ppn
        /\ Leaf(root, a).ppn < used /\ Leaf(root, a).ppn \in Pages
        BY FaultPaths, MappedPath DEF Target, IInv
  <2>3. used \in Nat /\ MaxPages \in Nat
        BY SizesAssumption DEF IInv, TypeOK
  <2> QED BY <2>1, <2>2, <2>3 DEF Room, Pages
<1>3. /\ Table0(root, a) \in Pages /\ Table0(root, a) < used /\ a[3] \in Index
  <2>1. /\ a[2] # Stop /\ a[3] \in Index /\ a \in AllPaths(root) /\ root \in procs
        BY FaultPaths, AddressPaths
  <2>2. /\ <<a[1], a[2], Stop>> \in AllPaths(root)
        /\ PageAt(root, <<a[1], a[2], Stop>>) = Table0(root, a)
        BY <2>1, PathsAbove, SomePaths DEF Table0
  <2> QED BY <2>1, <2>2, PageBound DEF IInv
<1>4. \A p \in Pages, i \in Index :
          tab'[p][i] = IF p = Table0(root, a) /\ i = a[3] THEN Resolved(a)
                       ELSE tab[p][i]
  <2>1. tab \in [Pages -> [Index -> Entry]]
        BY DEF IInv, TypeOK, Entry
  <2>2. tab' = [tab EXCEPT ![Table0(root, a)][a[3]] = Resolved(a)]
        BY DEF Faults, Handle
  <2> QED BY <1>3, <2>1, <2>2
<1>5. Resolved(a).ppn = Target(a)
      BY DEF Resolved
<1>6. \A r \in procs' : r < used'
      BY <1>1, <1>2 DEF IInv, InUse, TypeOK, Faults
<1>7. \A p \in Pages, i \in Index : tab'[p][i].ppn < used'
  <2>1. \A p \in Pages, i \in Index : tab[p][i].ppn \in Int
        BY DEF IInv, TypeOK, Pages
  <2> QED BY <1>1, <1>2, <1>4, <1>5, <2>1
<1>8. \A p \in Pages : p >= used' =>
          /\ \A i \in Index : tab'[p][i] = NoEntry
          /\ \A o \in Offsets : val'[p][o] = 0
  <2> SUFFICES ASSUME NEW p \in Pages, p >= used'
               PROVE  /\ \A i \in Index : tab'[p][i] = NoEntry
                      /\ \A o \in Offsets : val'[p][o] = 0
      OBVIOUS
  <2>1. p >= used /\ p # Table0(root, a) /\ p # Target(a)
        BY <1>1, <1>2, <1>3
  <2> QED BY <1>4, <2>1 DEF IInv, InUse, Faults
<1> QED BY <1>6, <1>7, <1>8 DEF InUse

LEMMA FaultTables ==
    ASSUME IInv, NEW a \in Addresses, Faults(a)
    PROVE  KnownAddresses' /\ UpperPlain' /\ OwnTables' /\ MappedOnce'
<1>1. /\ a \in AllPaths(root) /\ root \in procs /\ used \in Nat /\ procs' = procs
      /\ Target(a) = used \/ Target(a) = PageAt(root, a)
      /\ \A s \in procs :
             AllPaths(s)' = AllPaths(s) /\ TablePaths(s)' = TablePaths(s)
      /\ \A s \in procs : \A w \in AllPaths(s) :
             /\ PageAt(s, w) < used /\ PageAt(s, w) \in Int
             /\ PageAt(s, w)' = IF s = root /\ w = a THEN Target(a)
                                ELSE PageAt(s, w)
             /\ w[1] # Stop => Upper(s, w)' = Upper(s, w)
             /\ w[2] # Stop => Middle(s, w)' = Middle(s, w)
      BY FaultPaths DEF Faults
<1>2. \A s \in procs : \A w \in AllPaths(s) : PageAt(s, w) # used
      BY <1>1
<1>3. KnownAddresses'
      BY <1>1 DEF IInv, KnownAddresses
<1>4. UpperPlain'
      BY <1>1 DEF IInv, UpperPlain, Plain
<1>5. OwnTables'
  <2> SUFFICES ASSUME NEW r \in procs, NEW s \in procs,
                      NEW w \in TablePaths(r), NEW v \in AllPaths(s),
                      PageAt(r, w)' = PageAt(s, v)'
               PROVE  r = s /\ w = v
      BY <1>1 DEF OwnTables
  <2>1. w \in AllPaths(r) /\ w[3] = Stop /\ a[3] # Stop
        BY SomePaths, AddressPaths
  <2>2. PageAt(r, w)' = PageAt(r, w) /\ PageAt(r, w) # used
        BY <1>1, <1>2, <2>1
  <2>3. PageAt(s, v)' = PageAt(s, v) \/ PageAt(s, v)' = used
        BY <1>1
  <2> QED BY <2>2, <2>3 DEF IInv, OwnTables
<1>6. MappedOnce'
  <2> SUFFICES ASSUME NEW r \in procs, NEW w \in AllPaths(r), NEW v \in AllPaths(r),
                      PageAt(r, w)' = PageAt(r, v)'
               PROVE  w = v
      BY <1>1 DEF MappedOnce
  <2> QED BY <1>1, <1>2 DEF IInv, MappedOnce
<1> QED BY <1>3, <1>4, <1>5, <1>6

\* A page that is taken over without a copy has no other mapping: its counter
\* would be two at least.
LEMMA NotShared ==
    ASSUME IInv, NEW a \in Addresses, Mapped(root, a), Leaf(root, a).custom,
           ~NeedsCopy(Leaf(root, a).ppn),
           NEW s \in procs, NEW b \in Addresses, b \in AllPaths(s),
           PageAt(s, b) = PageAt(root, a)
    PROVE  s = root /\ b = a
<1> SUFFICES ASSUME ~(s = root /\ b = a) PROVE FALSE
    OBVIOUS
<1> DEFINE p == Leaf(root, a).ppn
           m == <<root, a>>
           n == <<s, b>>
<1>1. MappingsByPath
      BY CountMappings DEF IInv
<1>2. root \in procs /\ p \in Pages /\ arr[p] \in Nat
      BY AddressType DEF IInv, TypeOK
<1>3. m \in Mappings(p) /\ n \in Mappings(p)
      BY <1>1, <1>2 DEF MappingsByPath
<1>4. m # n
      OBVIOUS
<1>5. IsFiniteSet(Mappings(p)) /\ Cardinality(Mappings(p)) \in Nat
      BY <1>1 DEF MappingsByPath
<1> HIDE DEF m, n
<1>6. Cardinality(Mappings(p)) > 1
  <2>1. Cardinality({m}) = 1 /\ IsFiniteSet({m})
        BY FS_Singleton
  <2>2. Cardinality({m} \cup {n}) = 2
    <3>1. n \notin {m}
          BY <1>4
    <3>2. Cardinality({m} \cup {n}) =
              IF n \in {m} THEN Cardinality({m}) ELSE Cardinality({m}) + 1
          BY <2>1, FS_AddElement
    <3> QED BY <2>1, <3>1, <3>2
  <2>3. {m} \cup {n} \subseteq Mappings(p)
        BY <1>3
  <2>4. Cardinality({m} \cup {n}) <= Cardinality(Mappings(p))
        BY <1>5, <2>3, FS_Subset
  <2> QED BY <1>5, <2>2, <2>4
<1>7. arr[p] >= Cardinality(Mappings(p))
      BY <1>2, <1>6 DEF IInv, CountCoversSharers
<1> QED BY <1>2, <1>5, <1>6, <1>7 DEF NeedsCopy

LEMMA FaultSharing ==
    ASSUME IInv, NEW a \in Addresses, Faults(a)
    PROVE  Sharing'
<1>1. /\ a \in AllPaths(root) /\ root \in procs /\ used \in Nat /\ procs' = procs
      /\ Target(a) = IF NeedsCopy(PageAt(root, a)) THEN used ELSE PageAt(root, a)
      /\ \A s \in procs : AllPaths(s)' = AllPaths(s)
      /\ \A s \in procs : \A w \in AllPaths(s) :
             /\ PageAt(s, w) < used /\ PageAt(s, w) \in Int
             /\ PageAt(s, w)' = IF s = root /\ w = a THEN Target(a)
                                ELSE PageAt(s, w)
             /\ w[3] # Stop =>
                    Leaf(s, w)' = IF s = root /\ w = a THEN Resolved(a)
                                  ELSE Leaf(s, w)
      BY FaultPaths DEF Faults
<1>2. ASSUME NEW s \in procs, NEW w \in AllPaths(s), w[3] # Stop,
             PageAt(s, w)' = Target(a)
      PROVE  s = root /\ w = a
  <2> SUFFICES ASSUME ~(s = root /\ w = a) PROVE FALSE
      OBVIOUS
  <2>1. PageAt(s, w) = Target(a) /\ PageAt(s, w) # used
        BY <1>1, <1>2
  <2>2. ~NeedsCopy(PageAt(root, a)) /\ PageAt(s, w) = PageAt(root, a)
        BY <1>1, <2>1
  <2>3. w \in Addresses
        BY <1>2 DEF IInv, KnownAddresses
  <2>4. PageAt(root, a) = Leaf(root, a).ppn
        BY <1>1, MappedPath DEF IInv
  <2> QED BY <2>2, <2>3, <2>4, NotShared DEF Faults
<1> SUFFICES ASSUME NEW r \in procs, NEW s \in procs,
                    NEW w \in AllPaths(r), NEW v \in AllPaths(s),
                    w[3] # Stop, v[3] # Stop, PageAt(r, w)' = PageAt(s, v)'
             PROVE  /\ Leaf(r, w)'.custom = Leaf(s, v)'.custom
                    /\ Leaf(r, w)'.write => r = s /\ w = v
    BY <1>1 DEF Sharing
<1>3. CASE r = root /\ w = a
      BY <1>1, <1>2, <1>3
<1>4. CASE s = root /\ v = a
      BY <1>1, <1>2, <1>4
<1>5. CASE ~(r = root /\ w = a) /\ ~(s = root /\ v = a)
      BY <1>1, <1>5 DEF IInv, Sharing
<1> QED BY <1>3, <1>4, <1>5

\* The process that copies leaves the sharers, and the counter goes down by
\* one with them.
LEMMA FaultCounts ==
    ASSUME IInv, NEW a \in Addresses, Faults(a), MappingsByPath'
    PROVE  CountCoversSharers'
<1> DEFINE p == Leaf(root, a).ppn
           m == <<root, a>>
<1>1. /\ a \in AllPaths(root) /\ root \in procs /\ used \in Nat /\ procs' = procs
      /\ Target(a) = IF NeedsCopy(PageAt(root, a)) THEN used ELSE PageAt(root, a)
      /\ \A s \in procs : AllPaths(s)' = AllPaths(s)
      /\ \A s \in procs : \A w \in AllPaths(s) :
             /\ PageAt(s, w) < used /\ PageAt(s, w) \in Int
             /\ PageAt(s, w) \in Pages
             /\ PageAt(s, w)' = IF s = root /\ w = a THEN Target(a)
                                ELSE PageAt(s, w)
             /\ w[3] # Stop =>
                    Leaf(s, w)' = IF s = root /\ w = a THEN Resolved(a)
                                  ELSE Leaf(s, w)
      BY FaultPaths DEF Faults
<1>2. MappingsByPath
      BY CountMappings DEF IInv
<1>3. PageAt(root, a) = p /\ p \in Pages /\ p # used
      BY <1>1, <1>2 DEF MappingsByPath
<1>4. \A x : /\ IsFiniteSet(Mappings(x)) /\ Cardinality(Mappings(x)) \in Nat
             /\ Mappings(x) \subseteq procs \X Addresses
             /\ Mappings(x)' \subseteq procs \X Addresses
      BY <1>1, <1>2 DEF MappingsByPath, Mappings
<1>5. \A x : \A s \in procs, b \in Addresses :
          <<s, b>> \in Mappings(x) <=> b \in AllPaths(s) /\ PageAt(s, b) = x
      BY <1>2 DEF MappingsByPath
<1>6. ASSUME NEW x, NEW s \in procs, NEW b \in Addresses
      PROVE  <<s, b>> \in Mappings(x)' <=>
                 /\ b \in AllPaths(s)
                 /\ x = IF s = root /\ b = a THEN Target(a) ELSE PageAt(s, b)
  <2>1. <<s, b>> \in Mappings(x)' <=> b \in AllPaths(s)' /\ PageAt(s, b)' = x
        BY <1>1 DEF MappingsByPath
  <2> QED BY <1>1, <2>1
<1>7. ASSUME NEW x \in Pages, NEW s \in procs, NEW b \in Addresses,
             <<s, b>> \in Mappings(x)
      PROVE  x # Table0(root, a)
  <2>1. /\ a[2] # Stop /\ b[3] # Stop /\ b \in AllPaths(s) /\ PageAt(s, b) = x
        BY <1>5, <1>7, AddressPaths
  <2>2. /\ <<a[1], a[2], Stop>> \in TablePaths(root)
        /\ PageAt(root, <<a[1], a[2], Stop>>) = Table0(root, a)
        BY <1>1, <2>1, PathsAbove DEF Table0
  <2>3. <<a[1], a[2], Stop>> # b
        BY <2>1
  <2> QED BY <1>1, <2>1, <2>2, <2>3 DEF IInv, OwnTables
<1>8. ASSUME NEW x \in Pages, x # Table0(root, a)
      PROVE  arr'[x] = IF x = p THEN CountDown(arr[x]) ELSE arr[x]
      BY <1>8 DEF Faults, Handle
<1>9. \A x \in Pages : arr[x] \in Nat
      BY DEF IInv, TypeOK
<1> SUFFICES ASSUME NEW s \in procs, NEW b \in Addresses,
                    Mapped(s, b)', Leaf(s, b)'.custom,
                    NEW x, x = Leaf(s, b)'.ppn,
                    Cardinality(Mappings(x)') > 1
             PROVE  arr'[x] >= Cardinality(Mappings(x)')
    BY <1>1 DEF CountCoversSharers
<1>10. /\ <<s, b>> \in Mappings(x)' /\ b \in AllPaths(s) /\ b[3] # Stop
       /\ PageAt(s, b)' = x
  <2>1. b \in AllPaths(s)' /\ PageAt(s, b)' = x
        BY <1>1 DEF MappingsByPath
  <2>2. <<s, b>> \in Mappings(x)'
        BY <1>1, <2>1 DEF MappingsByPath
  <2> QED BY <1>1, <2>1, <2>2, AddressPaths
<1>11. CASE NeedsCopy(p) /\ x = used
  <2>1. ASSUME NEW q \in procs, NEW d \in Addresses, <<q, d>> \in Mappings(x)'
        PROVE  q = root /\ d = a
    <3>1. d \in AllPaths(q) /\ x = IF q = root /\ d = a THEN Target(a)
                                   ELSE PageAt(q, d)
          BY <1>6, <2>1
    <3> QED BY <1>1, <1>11, <3>1
  <2>2. m \in Mappings(x)'
        BY <1>10, <2>1
  <2>3. Mappings(x)' = {m}
        BY <1>4, <2>1, <2>2
  <2>4. Cardinality({m}) = 1
        BY FS_Singleton
  <2> QED BY <2>3, <2>4
<1>12. CASE NeedsCopy(p) /\ x # used
  <2>1. /\ ~(s = root /\ b = a) /\ PageAt(s, b) = x /\ x \in Pages
        /\ Leaf(s, b).custom /\ <<s, b>> \in Mappings(x)
        BY <1>1, <1>3, <1>5, <1>10, <1>12
  <2>2. Mapped(s, b) /\ Leaf(s, b).ppn = x
        BY <1>2, <1>10, <2>1 DEF MappingsByPath
  <2>3. x # Table0(root, a)
        BY <1>7, <2>1
  <2>4. Cardinality(Mappings(x)) > 1 => arr[x] >= Cardinality(Mappings(x))
        BY <2>1, <2>2 DEF IInv, CountCoversSharers
  <2>5. ASSUME NEW q \in procs, NEW d \in Addresses
        PROVE  <<q, d>> \in Mappings(x)' <=>
                   <<q, d>> \in Mappings(x) /\ <<q, d>> # m
    <3>1. <<q, d>> \in Mappings(x)' <=>
              /\ d \in AllPaths(q)
              /\ x = IF q = root /\ d = a THEN Target(a) ELSE PageAt(q, d)
          BY <1>6
    <3>2. <<q, d>> \in Mappings(x) <=> d \in AllPaths(q) /\ PageAt(q, d) = x
          BY <1>5
    <3> QED BY <1>1, <1>3, <1>12, <3>1, <3>2
  <2>6. Mappings(x)' = Mappings(x) \ {m}
        BY <1>4, <2>5
  <2>7. CASE x = p
    <3>1. m \in Mappings(x)
          BY <1>1, <1>3, <1>5, <2>7
    <3>2. Cardinality(Mappings(x)') = Cardinality(Mappings(x)) - 1
          BY <1>4, <2>6, <3>1, FS_RemoveElement
    <3>3. arr'[x] = arr[x] - 1
          BY <1>8, <1>9, <1>12, <2>1, <2>3, <2>7 DEF CountDown, NeedsCopy
    <3> QED BY <1>4, <1>9, <2>1, <2>4, <3>2, <3>3
  <2>8. CASE x # p
    <3>1. m \notin Mappings(x)
          BY <1>1, <1>3, <1>5, <2>8
    <3>2. Mappings(x)' = Mappings(x)
          BY <2>6, <3>1
    <3>3. arr'[x] = arr[x]
          BY <1>8, <2>1, <2>3, <2>8
    <3> QED BY <2>4, <3>2, <3>3
  <2> QED BY <2>7, <2>8
<1>13. CASE ~NeedsCopy(p)
  <2>1. ASSUME NEW q \in procs, NEW d \in Addresses
        PROVE  <<q, d>> \in Mappings(x)' <=> <<q, d>> \in Mappings(x)
    <3>1. <<q, d>> \in Mappings(x)' <=>
              /\ d \in AllPaths(q)
              /\ x = IF q = root /\ d = a THEN Target(a) ELSE PageAt(q, d)
          BY <1>6
    <3>2. <<q, d>> \in Mappings(x) <=> d \in AllPaths(q) /\ PageAt(q, d) = x
          BY <1>5
    <3> QED BY <1>1, <1>3, <1>13, <3>1, <3>2
  <2>2. Mappings(x)' = Mappings(x)
        BY <1>4, <2>1
  <2>3. <<s, b>> \in Mappings(x) /\ PageAt(s, b) = x /\ x \in Pages
        BY <1>1, <1>5, <1>10, <2>1
  <2>4. CASE x = p
    <3>1. ASSUME NEW q \in procs, NEW d \in Addresses, <<q, d>> \in Mappings(x)
          PROVE  q = root /\ d = a
      <4>1. d \in AllPaths(q) /\ PageAt(q, d) = PageAt(root, a)
            BY <1>3, <1>5, <2>4, <3>1
      <4> QED BY <1>13, <4>1, NotShared DEF Faults
    <3>2. Mappings(x) = {m}
          BY <1>4, <2>3, <3>1
    <3>3. Cardinality({m}) = 1
          BY FS_Singleton
    <3> QED BY <2>2, <3>2, <3>3
  <2>5. CASE x # p
    <3>1. ~(s = root /\ b = a) /\ Leaf(s, b).custom
          BY <1>1, <1>3, <1>10, <2>3, <2>5
    <3>2. Mapped(s, b) /\ Leaf(s, b).ppn = x
          BY <1>2, <1>10, <2>3 DEF MappingsByPath
    <3>3. arr'[x] = arr[x]
          BY <1>7, <1>8, <2>3, <2>5
    <3> QED BY <2>2, <3>1, <3>2, <3>3 DEF IInv, CountCoversSharers
  <2> QED BY <2>4, <2>5
<1> QED BY <1>11, <1>12, <1>13

LEMMA FaultInv ==
    ASSUME IInv, TypeOK', NEW a \in Addresses, Faults(a)
    PROVE  IInv'
<1>1. InUse' /\ KnownAddresses' /\ UpperPlain' /\ OwnTables' /\ MappedOnce'
      /\ Sharing'
      BY FaultInUse, FaultTables, FaultSharing
<1>2. CountCoversSharers'
      BY <1>1, CountMappingsNext, FaultCounts
<1> QED BY <1>1, <1>2 DEF IInv

\* The two accesses that may fault.
LEMMA AccessInv ==
    ASSUME IInv, TypeOK', NEW a \in Addresses,
           \/ ReadFault(a)
           \/ \E o \in Offsets, x \in Values : WriteFault(a, o, x)
    PROVE  IInv'
<1>1. CASE Exit("ENOMEM")
      BY <1>1, IdleSteps, IdleInv DEF IInv
<1>2. CASE ~Exit("ENOMEM")
  <2>1. /\ Mapped(root, a) /\ Leaf(root, a).custom /\ Handle(a)
        /\ NeedsCopy(Leaf(root, a).ppn) => Room(1)
        /\ UNCHANGED <<root, procs>>
        /\ \E page : val' = [val EXCEPT ![Target(a)] = page]
        BY <1>2 DEF ReadFault, WriteFault
  <2>2. \A p \in Pages : p # Target(a) => val'[p] = val[p]
        BY <2>1 DEF IInv, TypeOK
  <2> QED BY <2>1, <2>2, FaultInv DEF Faults
<1> QED BY <1>1, <1>2

-----------------------------------------------------------------------------
(* Mapping a page, which the one process does that there is.               *)

\* The page p0 is mapped at a through the tables l1 and l0, which are there or
\* are new; r is the process, e the entry of the page.
Maps(r, a, l1, l0, p0, e) ==
    /\ r = root /\ procs = {r} /\ root' = r /\ procs' = {r}
    /\ a \notin AllPaths(r)
    /\ used' = p0 + 1 /\ used' \in 1..MaxPages
    /\ val' = val
    /\ \/ /\ ~Upper(r, a).valid
          /\ l1 = used /\ l0 = used + 1 /\ p0 = used + 2
       \/ /\ Upper(r, a).valid /\ ~Middle(r, a).valid
          /\ l1 = Upper(r, a).ppn /\ l0 = used /\ p0 = used + 1
       \/ /\ Upper(r, a).valid /\ Middle(r, a).valid
          /\ l1 = Upper(r, a).ppn /\ l0 = Table0(r, a) /\ p0 = used
    /\ l1 \in Pages /\ l0 \in Pages /\ p0 \in Pages
    /\ r # l1 /\ r # l0 /\ l1 # l0
    /\ e.ppn = p0 /\ e.valid /\ ~e.custom /\ e \in Entry
    /\ \A p \in Pages, i \in Index :
           tab'[p][i] = IF p = r /\ i = a[1] THEN Pointer(l1)
                        ELSE IF p = l1 /\ i = a[2] THEN Pointer(l0)
                        ELSE IF p = l0 /\ i = a[3] THEN e
                        ELSE tab[p][i]

LEMMA MapEffect ==
    ASSUME IInv, NEW a \in Addresses, NEW mode \in Modes[a], Map(a, mode)
    PROVE  \/ Exit("ENOMEM")
           \/ \E r, l1, l0, p0, e : Maps(r, a, l1, l0, p0, e)
<1> SUFFICES ASSUME ~Exit("ENOMEM")
             PROVE  \E r, l1, l0, p0, e : Maps(r, a, l1, l0, p0, e)
    OBVIOUS
<1> PICK r : r = root
    OBVIOUS
<1>1. /\ r \in Pages /\ r \in procs /\ r < used /\ procs = {r}
      /\ used \in 1..MaxPages /\ MaxPages \in Nat
      /\ a[1] \in Index /\ a[2] \in Index /\ a[3] \in Index
      /\ a[1] # Stop /\ a[2] # Stop /\ a[3] # Stop
      BY AddressPaths, SizesAssumption DEF IInv, TypeOK, InUse, Map
<1>2. /\ Upper(r, a) \in Entry /\ Middle(r, a) \in Entry /\ Leaf(r, a) \in Entry
      /\ Table0(r, a) \in Pages
      BY <1>1, AddressType DEF IInv
<1>3. a \notin AllPaths(r) /\ ~Mapped(r, a)
      BY <1>1, MappedPath DEF IInv, Map
<1>4. Upper(r, a).valid =>
          /\ <<a[1], Stop, Stop>> \in TablePaths(r)
          /\ PageAt(r, <<a[1], Stop, Stop>>) = Upper(r, a).ppn
          /\ UpperWalks(Upper(r, a))
  <2> SUFFICES ASSUME Upper(r, a).valid
               PROVE  /\ <<a[1], Stop, Stop>> \in TablePaths(r)
                      /\ PageAt(r, <<a[1], Stop, Stop>>) = Upper(r, a).ppn
                      /\ UpperWalks(Upper(r, a))
      OBVIOUS
  <2>1. <<a[1], Stop, Stop>> \in TablePaths(r)
        BY <1>1 DEF TablePaths, Leads, Upper, Steps
  <2>2. <<a[1], Stop, Stop>> \in AllPaths(r)
        BY <2>1, SomePaths
  <2>3. Plain(Upper(r, a))
        BY <1>1, <2>2 DEF IInv, UpperPlain, Upper
  <2> QED BY <1>1, <2>1, <2>3 DEF PageAt, Upper, Plain, UpperWalks
<1>5. Upper(r, a).valid /\ Middle(r, a).valid =>
          /\ <<a[1], a[2], Stop>> \in TablePaths(r)
          /\ PageAt(r, <<a[1], a[2], Stop>>) = Table0(r, a)
          /\ UpperWalks(Middle(r, a))
  <2> SUFFICES ASSUME Upper(r, a).valid, Middle(r, a).valid
               PROVE  /\ <<a[1], a[2], Stop>> \in TablePaths(r)
                      /\ PageAt(r, <<a[1], a[2], Stop>>) = Table0(r, a)
                      /\ UpperWalks(Middle(r, a))
      OBVIOUS
  <2>1. <<a[1], a[2], Stop>> \in TablePaths(r)
        BY <1>1 DEF TablePaths, Leads, Upper, Middle, Steps
  <2>2. <<a[1], a[2], Stop>> \in AllPaths(r)
        BY <2>1, SomePaths
  <2>3. Plain(Middle(r, a))
        BY <1>1, <2>2 DEF IInv, UpperPlain, Upper, Middle
  <2> QED BY <1>1, <2>1, <2>3 DEF PageAt, Upper, Middle, Table0, Plain, UpperWalks
<1>6. Walks(r, a) <=> Upper(r, a).valid /\ Middle(r, a).valid
      BY <1>4, <1>5 DEF Walks, UpperWalks
<1>7. Top \in TablePaths(r) /\ PageAt(r, Top) = r
      BY SomePaths DEF PageAt, Top
<1>8. \A v \in TablePaths(r), w \in TablePaths(r) :
          PageAt(r, v) = PageAt(r, w) => v = w
      BY <1>1, SomePaths DEF IInv, OwnTables
<1>9. \A w \in TablePaths(r) : PageAt(r, w) < used /\ PageAt(r, w) \in Pages
      BY <1>1, SomePaths, PageBound DEF IInv
<1> DEFINE level1 == IF Upper(r, a).valid THEN 0 ELSE 1
           level0 == IF Walks(r, a) THEN 0 ELSE 1
           l1 == IF level1 = 0 THEN Upper(r, a).ppn ELSE used
           l0 == IF level0 = 0 THEN Table0(r, a) ELSE used + level1
           p0 == used + level1 + level0
           e == [Pointer(p0) EXCEPT !.read = "read" \in mode,
                                    !.write = "write" \in mode]
<1>10. /\ p0 + 1 <= MaxPages /\ used' = p0 + 1
       /\ tab' = [tab EXCEPT ![r][a[1]] = Pointer(l1),
                             ![l1][a[2]] = Pointer(l0),
                             ![l0][a[3]] = e]
       /\ UNCHANGED <<machine, val, arr, root, procs>>
  <2>1. Room(level1 + level0 + 1)
        BY DEF Map
  <2> QED BY <1>1, <2>1 DEF Map, Room
<1>11. \/ /\ ~Upper(r, a).valid
          /\ l1 = used /\ l0 = used + 1 /\ p0 = used + 2
       \/ /\ Upper(r, a).valid /\ ~Middle(r, a).valid
          /\ l1 = Upper(r, a).ppn /\ l0 = used /\ p0 = used + 1
       \/ /\ Upper(r, a).valid /\ Middle(r, a).valid
          /\ l1 = Upper(r, a).ppn /\ l0 = Table0(r, a) /\ p0 = used
       BY <1>1, <1>6
<1>12. /\ l1 \in Pages /\ l0 \in Pages /\ p0 \in Pages
       /\ used' \in 1..MaxPages
       BY <1>1, <1>2, <1>10, <1>11 DEF Entry, Pages
<1>13. r # l1 /\ r # l0 /\ l1 # l0
  <2>1. Upper(r, a).valid => Upper(r, a).ppn # r /\ Upper(r, a).ppn < used
        BY <1>1, <1>4, <1>7, <1>8, <1>9 DEF Top
  <2>2. Upper(r, a).valid /\ Middle(r, a).valid =>
            Table0(r, a) # r /\ Table0(r, a) # Upper(r, a).ppn
        BY <1>1, <1>4, <1>5, <1>7, <1>8 DEF Top
  <2> QED BY <1>1, <1>11, <2>1, <2>2
<1>14. e.ppn = p0 /\ e.valid /\ ~e.custom /\ e \in Entry
  <2>1. \A b, c \in BOOLEAN :
            LET f == [Pointer(p0) EXCEPT !.read = b, !.write = c]
            IN f.ppn = p0 /\ f.valid /\ ~f.custom /\ f \in Entry
        BY <1>12 DEF Pointer, NoEntry, Entry
  <2>2. ("read" \in mode) \in BOOLEAN /\ ("write" \in mode) \in BOOLEAN
        OBVIOUS
  <2> QED BY <2>1, <2>2, Zenon
<1> HIDE DEF level1, level0, l1, l0, p0, e
<1>15. \A p \in Pages, i \in Index :
           tab'[p][i] = IF p = r /\ i = a[1] THEN Pointer(l1)
                        ELSE IF p = l1 /\ i = a[2] THEN Pointer(l0)
                        ELSE IF p = l0 /\ i = a[3] THEN e
                        ELSE tab[p][i]
  <2>1. tab \in [Pages -> [Index -> Entry]]
        BY DEF IInv, TypeOK, Entry
  <2> QED BY <1>1, <1>10, <1>12, <1>13, <2>1
<1>16. Maps(r, a, l1, l0, p0, e)
       BY <1>1, <1>3, <1>10, <1>11, <1>12, <1>13, <1>14, <1>15 DEF Maps
<1> QED BY <1>16 DEF e

\* The paths that a mapping makes or finds.
Onto(a) == {<<a[1], Stop, Stop>>, <<a[1], a[2], Stop>>, a}

LEMMA MapWalk ==
    ASSUME IInv, NEW a \in Addresses, NEW r, NEW l1, NEW l0, NEW p0, NEW e,
           Maps(r, a, l1, l0, p0, e), NEW w \in Paths
    PROVE  /\ w[1] # Stop =>
                  Upper(r, w)' = IF w[1] = a[1] THEN Pointer(l1) ELSE Upper(r, w)
           /\ w[1] # Stop /\ w[2] # Stop /\ Upper(r, w)'.valid =>
                  Middle(r, w)' =
                      IF w[1] = a[1] /\ w[2] = a[2] THEN Pointer(l0)
                      ELSE IF w[1] = a[1] /\ ~Upper(r, w).valid THEN NoEntry
                      ELSE Middle(r, w)
           /\ w[1] # Stop /\ w[2] # Stop /\ w[3] # Stop
                  /\ Upper(r, w)'.valid /\ Middle(r, w)'.valid =>
                  Leaf(r, w)' =
                      IF w = a THEN e
                      ELSE IF w[1] = a[1] /\ w[2] = a[2]
                              /\ ~(Upper(r, w).valid /\ Middle(r, w).valid)
                           THEN NoEntry
                      ELSE Leaf(r, w)
<1>1. /\ r \in Pages /\ r \in procs /\ procs = {r} /\ used \in Nat
      /\ a[1] # Stop /\ a[2] # Stop /\ a[3] # Stop /\ a = <<a[1], a[2], a[3]>>
      /\ w = <<w[1], w[2], w[3]>>
      /\ w[1] # Stop => w[1] \in Index
      /\ w[2] # Stop => w[2] \in Index
      /\ w[3] # Stop => w[3] \in Index
      BY AddressPaths, PathParts DEF IInv, TypeOK, Maps
<1>2. /\ l1 \in Pages /\ l0 \in Pages /\ r # l1 /\ r # l0 /\ l1 # l0
      /\ \A p \in Pages, i \in Index :
             tab'[p][i] = IF p = r /\ i = a[1] THEN Pointer(l1)
                          ELSE IF p = l1 /\ i = a[2] THEN Pointer(l0)
                          ELSE IF p = l0 /\ i = a[3] THEN e
                          ELSE tab[p][i]
      BY DEF Maps
<1>3. \A p : Pointer(p).ppn = p /\ Pointer(p).valid
      BY DEF Pointer, NoEntry
<1>4. \A p \in Pages, i \in Index : p >= used => tab[p][i] = NoEntry
      BY DEF IInv, InUse
<1>5. \A v \in TablePaths(r), u \in TablePaths(r) :
          PageAt(r, v) = PageAt(r, u) => v = u
      BY <1>1, SomePaths DEF IInv, OwnTables
<1>6. \A v \in TablePaths(r) : PageAt(r, v) < used /\ PageAt(r, v) \in Int
      BY <1>1, SomePaths, PageBound DEF IInv, Pages
<1>7. Top \in TablePaths(r) /\ PageAt(r, Top) = r
      BY SomePaths DEF PageAt, Top
<1>8. \A i \in Index : tab[r][i].valid =>
          /\ <<i, Stop, Stop>> \in TablePaths(r)
          /\ PageAt(r, <<i, Stop, Stop>>) = tab[r][i].ppn
          /\ tab[r][i].ppn \in Pages
  <2> SUFFICES ASSUME NEW i \in Index, tab[r][i].valid
               PROVE  /\ <<i, Stop, Stop>> \in TablePaths(r)
                      /\ PageAt(r, <<i, Stop, Stop>>) = tab[r][i].ppn
                      /\ tab[r][i].ppn \in Pages
      OBVIOUS
  <2> i # Stop
      BY StopNotIndex
  <2>1. <<i, Stop, Stop>> \in TablePaths(r)
        BY DEF TablePaths, Leads, Upper, Steps
  <2> QED BY <1>1, <2>1 DEF PageAt, Upper, IInv, TypeOK
<1>9. \A i \in Index, j \in Index :
          tab[r][i].valid /\ tab[tab[r][i].ppn][j].valid =>
              /\ <<i, j, Stop>> \in TablePaths(r)
              /\ PageAt(r, <<i, j, Stop>>) = tab[tab[r][i].ppn][j].ppn
              /\ tab[tab[r][i].ppn][j].ppn \in Pages
  <2> SUFFICES ASSUME NEW i \in Index, NEW j \in Index, tab[r][i].valid,
                      tab[tab[r][i].ppn][j].valid
               PROVE  /\ <<i, j, Stop>> \in TablePaths(r)
                      /\ PageAt(r, <<i, j, Stop>>) = tab[tab[r][i].ppn][j].ppn
                      /\ tab[tab[r][i].ppn][j].ppn \in Pages
      OBVIOUS
  <2> i # Stop /\ j # Stop
      BY StopNotIndex
  <2>1. <<i, j, Stop>> \in TablePaths(r)
        BY DEF TablePaths, Leads, Upper, Middle, Steps
  <2> QED BY <1>1, <1>8, <2>1 DEF PageAt, Upper, Middle, IInv, TypeOK
<1>10. a[1] \in Index /\ a[2] \in Index /\ a[3] \in Index
       BY AddressPaths
\* The tables that are there are those of the address.
<1>11. /\ Upper(r, a).valid <=> l1 < used
       /\ Upper(r, a).valid => l1 = Upper(r, a).ppn
       /\ ~Upper(r, a).valid => l1 = used
       /\ Upper(r, a).valid /\ Middle(r, a).valid <=> l0 < used
       /\ Upper(r, a).valid /\ Middle(r, a).valid => l0 = Table0(r, a)
       /\ ~(Upper(r, a).valid /\ Middle(r, a).valid) => l0 >= used
  <2>1. Upper(r, a).valid => Upper(r, a).ppn < used /\ Upper(r, a).ppn \in Int
        BY <1>6, <1>8, <1>10 DEF Upper
  <2>2. Upper(r, a).valid /\ Middle(r, a).valid =>
            Table0(r, a) < used /\ Table0(r, a) \in Int
        BY <1>6, <1>9, <1>10 DEF Upper, Middle, Table0
  <2> QED BY <1>1, <2>1, <2>2 DEF Maps
<1>12. w[1] # Stop =>
           Upper(r, w)' = IF w[1] = a[1] THEN Pointer(l1) ELSE Upper(r, w)
       BY <1>1, <1>2 DEF Upper
<1>13. ASSUME w[1] # Stop, w[2] # Stop, Upper(r, w)'.valid
       PROVE  Middle(r, w)' =
                  IF w[1] = a[1] /\ w[2] = a[2] THEN Pointer(l0)
                  ELSE IF w[1] = a[1] /\ ~Upper(r, w).valid THEN NoEntry
                  ELSE Middle(r, w)
  <2>1. CASE w[1] = a[1]
    <3>1. Upper(r, w) = Upper(r, a)
          BY <2>1 DEF Upper
    <3>2. Middle(r, w)' = tab'[l1][w[2]]
          BY <1>3, <1>12, <1>13, <2>1 DEF Middle
    <3>3. Middle(r, w)' = IF w[2] = a[2] THEN Pointer(l0) ELSE tab[l1][w[2]]
          BY <1>1, <1>2, <1>13, <3>2
    <3>4. CASE Upper(r, a).valid
          BY <1>11, <2>1, <3>1, <3>3, <3>4 DEF Middle
    <3>5. CASE ~Upper(r, a).valid
      <4>1. tab[l1][w[2]] = NoEntry
            BY <1>1, <1>2, <1>4, <1>11, <1>13, <3>5
      <4> QED BY <2>1, <3>1, <3>3, <3>5, <4>1
    <3> QED BY <3>4, <3>5
  <2>2. CASE w[1] # a[1]
    <3>1. Upper(r, w)' = Upper(r, w) /\ Upper(r, w).valid
          BY <1>12, <1>13, <2>2
    <3>2. /\ <<w[1], Stop, Stop>> \in TablePaths(r)
          /\ PageAt(r, <<w[1], Stop, Stop>>) = Upper(r, w).ppn
          /\ Upper(r, w).ppn \in Pages
          BY <1>1, <1>8, <1>13, <3>1 DEF Upper
    <3>3. Upper(r, w).ppn < used
          BY <1>6, <3>2
    <3>4. Upper(r, w).ppn # r
          BY <1>5, <1>7, <1>13, <3>2 DEF Top
    <3>5. Upper(r, w).ppn # l1
      <4>1. CASE Upper(r, a).valid
        <5>1. /\ <<a[1], Stop, Stop>> \in TablePaths(r)
              /\ PageAt(r, <<a[1], Stop, Stop>>) = l1
              BY <1>8, <1>10, <1>11, <4>1 DEF Upper
        <5> QED BY <1>5, <2>2, <3>2, <5>1
      <4>2. CASE ~Upper(r, a).valid
            BY <1>1, <1>11, <3>3, <4>2
      <4> QED BY <4>1, <4>2
    <3>6. Upper(r, w).ppn # l0
      <4>1. CASE Upper(r, a).valid /\ Middle(r, a).valid
        <5>1. /\ <<a[1], a[2], Stop>> \in TablePaths(r)
              /\ PageAt(r, <<a[1], a[2], Stop>>) = l0
              BY <1>9, <1>10, <1>11, <4>1 DEF Upper, Middle, Table0
        <5> QED BY <1>1, <1>5, <3>2, <5>1
      <4>2. CASE ~(Upper(r, a).valid /\ Middle(r, a).valid)
            BY <1>1, <1>2, <1>11, <3>2, <3>3, <4>2 DEF Pages
      <4> QED BY <4>1, <4>2
    <3> QED BY <1>1, <1>2, <1>13, <2>2, <3>1, <3>2, <3>4, <3>5, <3>6 DEF Middle
  <2> QED BY <2>1, <2>2
<1>14. ASSUME w[1] # Stop, w[2] # Stop, w[3] # Stop,
              Upper(r, w)'.valid, Middle(r, w)'.valid
       PROVE  Leaf(r, w)' =
                  IF w = a THEN e
                  ELSE IF w[1] = a[1] /\ w[2] = a[2]
                          /\ ~(Upper(r, w).valid /\ Middle(r, w).valid)
                       THEN NoEntry
                  ELSE Leaf(r, w)
  <2>1. CASE w[1] = a[1] /\ w[2] = a[2]
    <3>1. Upper(r, w) = Upper(r, a) /\ Middle(r, w) = Middle(r, a)
          BY <2>1 DEF Upper, Middle
    <3>2. Leaf(r, w)' = tab'[l0][w[3]]
          BY <1>3, <1>13, <1>14, <2>1 DEF Leaf, Table0
    <3>3. Leaf(r, w)' = IF w[3] = a[3] THEN e ELSE tab[l0][w[3]]
          BY <1>1, <1>2, <1>14, <3>2
    <3>4. w[3] = a[3] <=> w = a
          BY <1>1, <2>1
    <3>5. CASE Upper(r, a).valid /\ Middle(r, a).valid
      <4>1. Leaf(r, w) = tab[l0][w[3]]
            BY <1>11, <3>1, <3>5 DEF Leaf, Table0
      <4> QED BY <2>1, <3>1, <3>3, <3>4, <3>5, <4>1
    <3>6. CASE ~(Upper(r, a).valid /\ Middle(r, a).valid)
      <4>1. tab[l0][w[3]] = NoEntry
            BY <1>1, <1>2, <1>4, <1>11, <1>14, <3>6
      <4> QED BY <2>1, <3>1, <3>3, <3>4, <3>6, <4>1
    <3> QED BY <3>5, <3>6
  <2>2. CASE ~(w[1] = a[1] /\ w[2] = a[2])
    <3>1. ~NoEntry.valid
          BY DEF NoEntry
    <3>2. Middle(r, w)' = Middle(r, w) /\ Middle(r, w).valid /\ Upper(r, w).valid
          BY <1>12, <1>13, <1>14, <2>2, <3>1
    <3>3. /\ <<w[1], w[2], Stop>> \in TablePaths(r)
          /\ PageAt(r, <<w[1], w[2], Stop>>) = Table0(r, w)
          /\ Table0(r, w) \in Pages
          BY <1>1, <1>9, <1>14, <3>2 DEF Upper, Middle, Table0
    <3>4. Table0(r, w) < used
          BY <1>6, <3>3
    <3>5. Table0(r, w) # r
          BY <1>5, <1>7, <1>14, <3>3 DEF Top
    <3>6. Table0(r, w) # l1
      <4>1. CASE Upper(r, a).valid
        <5>1. /\ <<a[1], Stop, Stop>> \in TablePaths(r)
              /\ PageAt(r, <<a[1], Stop, Stop>>) = l1
              BY <1>8, <1>10, <1>11, <4>1 DEF Upper
        <5> QED BY <1>5, <1>14, <3>3, <5>1
      <4>2. CASE ~Upper(r, a).valid
            BY <1>1, <1>11, <3>4, <4>2
      <4> QED BY <4>1, <4>2
    <3>7. Table0(r, w) # l0
      <4>1. CASE Upper(r, a).valid /\ Middle(r, a).valid
        <5>1. /\ <<a[1], a[2], Stop>> \in TablePaths(r)
              /\ PageAt(r, <<a[1], a[2], Stop>>) = l0
              BY <1>9, <1>10, <1>11, <4>1 DEF Upper, Middle, Table0
        <5> QED BY <1>5, <2>2, <3>3, <5>1
      <4>2. CASE ~(Upper(r, a).valid /\ Middle(r, a).valid)
            BY <1>1, <1>2, <1>11, <3>3, <3>4, <4>2 DEF Pages
      <4> QED BY <4>1, <4>2
    <3>8. Leaf(r, w)' = tab'[Table0(r, w)][w[3]]
          BY <3>2 DEF Leaf, Table0
    <3>9. w # a
          BY <2>2
    <3> QED BY <1>1, <1>2, <1>14, <2>2, <3>3, <3>5, <3>6, <3>7, <3>8, <3>9 DEF Leaf
  <2> QED BY <2>1, <2>2
<1> QED BY <1>12, <1>13, <1>14

\* Afterwards the process has its paths and those of the address; what is new
\* leads to new pages.
LEMMA MapPaths ==
    ASSUME IInv, NEW a \in Addresses, NEW r, NEW l1, NEW l0, NEW p0, NEW e,
           Maps(r, a, l1, l0, p0, e)
    PROVE  /\ AllPaths(r)' = AllPaths(r) \cup Onto(a)
           /\ \A w \in AllPaths(r) :
                  /\ PageAt(r, w)' = PageAt(r, w)
                  /\ w[3] # Stop => w # a /\ Leaf(r, w)' = Leaf(r, w)
           /\ Leaf(r, a)' = e
           /\ \A w \in AllPaths(r)' :
                  /\ w[1] # Stop => Plain(Upper(r, w)')
                  /\ w[2] # Stop => Plain(Middle(r, w)')
           /\ \A w \in Onto(a) :
                  \/ w \in AllPaths(r)
                  \/ /\ PageAt(r, w)' >= used /\ PageAt(r, w)' \in Int
                     /\ \A v \in Onto(a) \ AllPaths(r) :
                            PageAt(r, v)' = PageAt(r, w)' => v = w
<1>1. /\ r \in procs /\ r \in Pages /\ used \in Nat /\ a \notin AllPaths(r)
      /\ a[1] # Stop /\ a[2] # Stop /\ a[3] # Stop
      /\ a = <<a[1], a[2], a[3]>> /\ a \in Paths
      /\ a[1] \in Index /\ a[2] \in Index
      BY AddressPaths DEF IInv, TypeOK, Maps
<1>2. /\ \A p : /\ Pointer(p).ppn = p /\ Pointer(p).valid /\ Plain(Pointer(p))
      /\ ~NoEntry.valid
      /\ e.ppn = p0 /\ e.valid
      BY DEF Pointer, NoEntry, Plain, Maps
<1>3. /\ Onto(a) \subseteq Paths
      /\ \A w \in Onto(a) : w[1] = a[1]
      BY <1>1 DEF Onto, Paths, Steps
<1>4. ASSUME NEW w \in Paths, Leads(r, w)
      PROVE  /\ Leads(r, w)' /\ PageAt(r, w)' = PageAt(r, w)
             /\ w[1] # Stop => Plain(Upper(r, w)')
             /\ w[2] # Stop => Plain(Middle(r, w)')
             /\ w[3] # Stop => w # a /\ Leaf(r, w)' = Leaf(r, w)
  <2>1. w \in AllPaths(r) /\ w # a
        BY <1>1, <1>4 DEF AllPaths, Paths
  <2>2. /\ w[1] # Stop => Plain(Upper(r, w))
        /\ w[2] # Stop => Plain(Middle(r, w))
        BY <1>1, <2>1 DEF IInv, UpperPlain
  <2>3. /\ w[1] = Stop => w[2] = Stop
        /\ w[2] = Stop => w[3] = Stop
        /\ w[1] # Stop => Upper(r, w).valid
        /\ w[2] # Stop => Middle(r, w).valid
        /\ w[3] # Stop => Leaf(r, w).valid
        BY <1>4 DEF Leads
  <2>4. w[1] # Stop /\ w[1] = a[1] => l1 = Upper(r, w).ppn
        BY <2>3 DEF Maps, Upper
  <2>5. w[2] # Stop /\ w[1] = a[1] /\ w[2] = a[2] => l0 = Middle(r, w).ppn
        BY <2>3 DEF Maps, Upper, Middle, Table0
  <2>6. w[1] # Stop => /\ Upper(r, w)'.valid
                       /\ Upper(r, w)'.ppn = Upper(r, w).ppn
                       /\ Plain(Upper(r, w)')
        BY <1>2, <2>2, <2>3, <2>4, MapWalk
  <2>7. w[2] # Stop => /\ Middle(r, w)'.valid
                       /\ Middle(r, w)'.ppn = Middle(r, w).ppn
                       /\ Plain(Middle(r, w)')
    <3>1. w[2] # Stop => Middle(r, w)' = IF w[1] = a[1] /\ w[2] = a[2]
                                         THEN Pointer(l0) ELSE Middle(r, w)
          BY <2>3, <2>6, MapWalk
    <3> QED BY <1>2, <2>2, <2>3, <2>5, <3>1
  <2>8. w[3] # Stop => Leaf(r, w)' = Leaf(r, w)
        BY <2>1, <2>3, <2>6, <2>7, MapWalk
  <2> QED BY <2>1, <2>3, <2>6, <2>7, <2>8 DEF Leads, PageAt
<1> DEFINE u1 == <<a[1], Stop, Stop>>
           u2 == <<a[1], a[2], Stop>>
<1>5. /\ Upper(r, a)' = Pointer(l1) /\ Middle(r, a)' = Pointer(l0)
      /\ Leaf(r, a)' = e
  <2>1. Upper(r, a)' = Pointer(l1)
        BY <1>1, MapWalk
  <2>2. Middle(r, a)' = Pointer(l0)
        BY <1>1, <1>2, <2>1, MapWalk
  <2>3. Leaf(r, a)' = e
        BY <1>1, <1>2, <2>1, <2>2, MapWalk
  <2> QED BY <2>1, <2>2, <2>3
<1>6. /\ Leads(r, u1)' /\ PageAt(r, u1)' = l1
      /\ Leads(r, u2)' /\ PageAt(r, u2)' = l0
      /\ Leads(r, a)' /\ PageAt(r, a)' = p0
      BY <1>1, <1>2, <1>5 DEF Leads, PageAt, Upper, Middle
<1>7. /\ Plain(Upper(r, u1)') /\ Plain(Upper(r, u2)') /\ Plain(Middle(r, u2)')
      /\ Plain(Upper(r, a)') /\ Plain(Middle(r, a)')
      BY <1>2, <1>5 DEF Upper, Middle
<1>8. ASSUME NEW w \in Paths, Leads(r, w)', w \notin Onto(a)
      PROVE  Leads(r, w)
  <2>1. w = <<w[1], w[2], w[3]>>
        BY PathParts
  <2>2. /\ w[1] = Stop => w[2] = Stop
        /\ w[2] = Stop => w[3] = Stop
        /\ w[1] # Stop => Upper(r, w)'.valid
        /\ w[2] # Stop => Middle(r, w)'.valid
        /\ w[3] # Stop => Leaf(r, w)'.valid
        BY <1>8 DEF Leads
  <2>3. CASE w[2] = Stop
    <3>1. w[1] # Stop => w[1] # a[1]
          BY <1>8, <2>1, <2>2, <2>3 DEF Onto
    <3>2. w[1] # Stop => Upper(r, w).valid
          BY <2>2, <3>1, MapWalk
    <3> QED BY <2>2, <2>3, <3>2 DEF Leads
  <2>4. CASE w[2] # Stop /\ w[3] = Stop
    <3>1. ~(w[1] = a[1] /\ w[2] = a[2])
          BY <1>8, <2>1, <2>4 DEF Onto
    <3>2. /\ ~(w[1] = a[1] /\ ~Upper(r, w).valid)
          /\ Middle(r, w)' = Middle(r, w)
          BY <1>2, <2>2, <2>4, <3>1, MapWalk
    <3>3. Upper(r, w).valid
          BY <2>2, <2>4, <3>2, MapWalk
    <3> QED BY <2>2, <2>4, <3>2, <3>3 DEF Leads
  <2>5. CASE w[3] # Stop
    <3>1. w # a
          BY <1>8 DEF Onto
    <3>2. /\ ~(w[1] = a[1] /\ w[2] = a[2]
                  /\ ~(Upper(r, w).valid /\ Middle(r, w).valid))
          /\ Leaf(r, w)' = Leaf(r, w)
          BY <1>2, <2>2, <2>5, <3>1, MapWalk
    <3>3. CASE w[1] = a[1] /\ w[2] = a[2]
          BY <2>2, <2>5, <3>2, <3>3 DEF Leads
    <3>4. CASE ~(w[1] = a[1] /\ w[2] = a[2])
      <4>1. /\ ~(w[1] = a[1] /\ ~Upper(r, w).valid)
            /\ Middle(r, w)' = Middle(r, w)
            BY <1>2, <2>2, <2>5, <3>4, MapWalk
      <4>2. Upper(r, w).valid
            BY <2>2, <2>5, <4>1, MapWalk
      <4> QED BY <2>2, <2>5, <3>2, <4>1, <4>2 DEF Leads
    <3> QED BY <3>3, <3>4
  <2> QED BY <2>3, <2>4, <2>5
<1>9. AllPaths(r)' = AllPaths(r) \cup Onto(a)
  <2>1. \A w \in Paths : Leads(r, w)' <=> Leads(r, w) \/ w \in Onto(a)
        BY <1>4, <1>6, <1>8 DEF Onto
  <2> QED BY <1>3, <2>1 DEF AllPaths, Paths
<1>10. \A w \in AllPaths(r) :
           /\ PageAt(r, w)' = PageAt(r, w)
           /\ w[3] # Stop => w # a /\ Leaf(r, w)' = Leaf(r, w)
       BY <1>4, SomePaths DEF AllPaths
<1>11. ASSUME NEW w \in AllPaths(r)'
       PROVE  /\ w[1] # Stop => Plain(Upper(r, w)')
              /\ w[2] # Stop => Plain(Middle(r, w)')
  <2>1. CASE w \in AllPaths(r)
        BY <1>4, <2>1, SomePaths DEF AllPaths
  <2>2. CASE w \in Onto(a)
        BY <1>7, <2>2 DEF Onto
  <2> QED BY <1>9, <2>1, <2>2
<1>12. /\ u1 \notin AllPaths(r) => ~Upper(r, a).valid
       /\ u2 \notin AllPaths(r) => ~(Upper(r, a).valid /\ Middle(r, a).valid)
       BY <1>1 DEF AllPaths, Leads, Upper, Middle, Steps
<1>13. /\ u1 \notin AllPaths(r) => l1 >= used /\ l1 \in Int
       /\ u2 \notin AllPaths(r) => l0 >= used /\ l0 \in Int
       /\ p0 >= used /\ p0 \in Int
       /\ u1 \notin AllPaths(r) => l1 # p0
       /\ u2 \notin AllPaths(r) => l0 # p0
       /\ l1 # l0
       BY <1>1, <1>12 DEF Maps
<1>14. ASSUME NEW w \in Onto(a), w \notin AllPaths(r)
       PROVE  /\ PageAt(r, w)' >= used /\ PageAt(r, w)' \in Int
              /\ \A v \in Onto(a) \ AllPaths(r) :
                     PageAt(r, v)' = PageAt(r, w)' => v = w
  <2>1. \A v \in Onto(a) : v = u1 \/ v = u2 \/ v = a
        BY DEF Onto
  <2> HIDE DEF u1, u2
  <2> QED BY <1>6, <1>13, <1>14, <2>1
<1> QED BY <1>5, <1>9, <1>10, <1>11, <1>14

LEMMA MapInv ==
    ASSUME IInv, TypeOK', NEW a \in Addresses, NEW mode \in Modes[a], Map(a, mode)
    PROVE  IInv'
<1> SUFFICES ASSUME NEW r, NEW l1, NEW l0, NEW p0, NEW e,
                    Maps(r, a, l1, l0, p0, e)
             PROVE  IInv'
  <2>1. CASE Exit("ENOMEM")
        BY <2>1, IdleSteps, IdleInv DEF IInv
  <2> QED BY <2>1, MapEffect
<1>1. /\ r \in procs /\ procs = {r} /\ procs' = {r} /\ used \in Nat
      BY DEF IInv, TypeOK, Maps
<1>2. /\ AllPaths(r)' = AllPaths(r) \cup Onto(a)
      /\ \A w \in AllPaths(r) : PageAt(r, w)' = PageAt(r, w)
      /\ \A w \in AllPaths(r)' : /\ w[1] # Stop => Plain(Upper(r, w)')
                                 /\ w[2] # Stop => Plain(Middle(r, w)')
      /\ \A w \in Onto(a) :
             \/ w \in AllPaths(r)
             \/ /\ PageAt(r, w)' >= used /\ PageAt(r, w)' \in Int
                /\ \A v \in Onto(a) \ AllPaths(r) :
                       PageAt(r, v)' = PageAt(r, w)' => v = w
      BY MapPaths
<1>3. \A w \in AllPaths(r) : PageAt(r, w) < used /\ PageAt(r, w) \in Int
      BY <1>1, PageBound DEF IInv, Pages
<1>4. KnownAddresses'
  <2>1. \A w \in Onto(a) : w[3] # Stop => w \in Addresses
        BY DEF Onto
  <2> QED BY <1>1, <1>2, <2>1 DEF IInv, KnownAddresses
<1>5. UpperPlain'
      BY <1>1, <1>2 DEF UpperPlain, Plain
<1>6. \A w \in AllPaths(r)', v \in AllPaths(r)' :
          PageAt(r, w)' = PageAt(r, v)' => w = v
  <2> SUFFICES ASSUME NEW w \in AllPaths(r)', NEW v \in AllPaths(r)',
                      PageAt(r, w)' = PageAt(r, v)'
               PROVE  w = v
      OBVIOUS
  <2>1. CASE w \in AllPaths(r) /\ v \in AllPaths(r)
        BY <1>1, <1>2, <2>1 DEF IInv, MappedOnce
  <2>2. CASE w \notin AllPaths(r) /\ v \notin AllPaths(r)
        BY <1>2, <2>2
  <2>3. CASE w \in AllPaths(r) /\ v \notin AllPaths(r)
        BY <1>1, <1>2, <1>3, <2>3
  <2>4. CASE w \notin AllPaths(r) /\ v \in AllPaths(r)
        BY <1>1, <1>2, <1>3, <2>4
  <2> QED BY <2>1, <2>2, <2>3, <2>4
<1>7. MappedOnce'
      BY <1>1, <1>6 DEF MappedOnce
<1>8. OwnTables'
  <2>1. \A w \in TablePaths(r)' : w \in AllPaths(r)'
        BY DEF TablePaths, AllPaths, Steps
  <2> QED BY <1>1, <1>6, <2>1 DEF OwnTables
<1>9. Sharing'
      BY <1>1, <1>6 DEF Sharing
<1>10. CountCoversSharers'
  <2>1. MappingsByPath'
        BY <1>5, CountMappingsNext
  <2> SUFFICES ASSUME NEW b \in Addresses, NEW x, x = Leaf(r, b)'.ppn,
                      Mapped(r, b)', Cardinality(Mappings(x)') > 1
               PROVE  FALSE
      BY <1>1 DEF CountCoversSharers
  <2>2. \A d \in Addresses : <<r, d>> \in Mappings(x)' =>
            d \in AllPaths(r)' /\ PageAt(r, d)' = x
        BY <1>1, <2>1 DEF MappingsByPath
  <2>3. b \in AllPaths(r)' /\ PageAt(r, b)' = x /\ <<r, b>> \in Mappings(x)'
        BY <1>1, <2>1 DEF MappingsByPath
  <2>4. \A d \in Addresses : <<r, d>> \in Mappings(x)' => d = b
        BY <1>6, <2>2, <2>3
  <2>5. Mappings(x)' \subseteq {r} \X Addresses
        BY <1>1 DEF Mappings
  <2>6. Mappings(x)' = {<<r, b>>}
        BY <2>3, <2>4, <2>5
  <2>7. Cardinality({<<r, b>>}) = 1
        BY FS_Singleton
  <2> QED BY <2>6, <2>7
<1>11. InUse'
  <2>1. /\ used' = p0 + 1 /\ p0 \in Pages /\ used <= p0 /\ val' = val
        /\ l1 \in Pages /\ l0 \in Pages
        BY <1>1 DEF Maps, Pages
  <2>2. r \in Int /\ r < used /\ r \in Pages
        BY <1>1 DEF IInv, TypeOK, InUse, Pages
  <2>3. l1 < used' /\ l0 < used' /\ used' \in Int
    <3>1. Upper(r, a).ppn < used /\ Upper(r, a).ppn \in Pages
          BY <2>2, AddressPaths DEF IInv, TypeOK, InUse, Upper
    <3>2. Table0(r, a) < used /\ Table0(r, a) \in Int
      <4>1. \A p \in Pages, i \in Index :
                tab[p][i].ppn < used /\ tab[p][i].ppn \in Pages
            BY EntryBound DEF IInv
      <4> QED BY <3>1, <4>1, AddressPaths DEF Middle, Table0, Pages
    <3> QED BY <1>1, <2>1, <3>1, <3>2 DEF Maps, Pages
  <2>4. /\ \A p \in Pages, i \in Index :
               tab'[p][i] = IF p = r /\ i = a[1] THEN Pointer(l1)
                            ELSE IF p = l1 /\ i = a[2] THEN Pointer(l0)
                            ELSE IF p = l0 /\ i = a[3] THEN e
                            ELSE tab[p][i]
        /\ e.ppn = p0
        /\ \A p : Pointer(p).ppn = p
        BY DEF Maps, Pointer, NoEntry
  <2>5. \A p \in Pages, i \in Index : tab'[p][i].ppn < used'
    <3>1. \A p \in Pages, i \in Index :
              tab[p][i].ppn < used /\ tab[p][i].ppn \in Int
          BY EntryBound DEF IInv
    <3>2. p0 \in Int /\ p0 < used' /\ used < used'
          BY <1>1, <2>1 DEF Pages
    <3> QED BY <1>1, <2>3, <2>4, <3>1, <3>2
  <2>6. \A p \in Pages : p >= used' =>
            /\ \A i \in Index : tab'[p][i] = NoEntry
            /\ \A o \in Offsets : val'[p][o] = 0
    <3> SUFFICES ASSUME NEW p \in Pages, p >= used'
                 PROVE  /\ \A i \in Index : tab'[p][i] = NoEntry
                        /\ \A o \in Offsets : val'[p][o] = 0
        OBVIOUS
    <3>1. p >= used /\ p # r /\ p # l1 /\ p # l0
          BY <1>1, <2>1, <2>2, <2>3 DEF Pages
    <3> QED BY <2>1, <2>4, <3>1 DEF IInv, InUse
  <2>7. r < used'
        BY <1>1, <2>1, <2>2, <2>3 DEF Pages
  <2> QED BY <1>1, <2>5, <2>6, <2>7 DEF InUse
<1> QED BY <1>4, <1>5, <1>7, <1>8, <1>9, <1>10, <1>11 DEF IInv

-----------------------------------------------------------------------------
(* The invariant, and what follows from it.                                *)

LEMMA NextInv == IInv /\ [Next]_vars => IInv'
<1> SUFFICES ASSUME IInv, [Next]_vars PROVE IInv'
    OBVIOUS
<1>1. TypeOK'
      BY NextType DEF IInv
<1>2. CASE \E a \in Addresses : \E mode \in Modes[a] : Map(a, mode)
      BY <1>1, <1>2, MapInv
<1>3. CASE ForkCopyOnWrite \/ ForkCopy
      BY <1>1, <1>3, ForkInv
<1>4. CASE \E a \in Addresses, o \in Offsets, x \in Values : Write(a, o, x)
      BY <1>1, <1>4, WriteInv
<1>5. CASE \E a \in Addresses :
               \/ ReadFault(a)
               \/ \E o \in Offsets, x \in Values : WriteFault(a, o, x)
      BY <1>1, <1>5, AccessInv
<1>6. ASSUME Idle PROVE IInv'
      BY <1>1, <1>6, IdleInv
<1> QED BY <1>2, <1>3, <1>4, <1>5, <1>6, IdleSteps DEF Next, IInv

LEMMA Invariance == Spec => []IInv
BY InitInv, NextInv, PTL DEF Spec

\* No fork and no page fault makes two processes use one table: what one maps
\* or takes over, no other finds.
THEOREM TablesPrivate == Spec => []TablesArePrivate
<1>1. IInv => TablesArePrivate
  <2> SUFFICES ASSUME IInv, NEW r \in procs, NEW s \in procs, r # s,
                      NEW p \in Tables(r), p \in Tables(s)
               PROVE  FALSE
      BY DEF TablesArePrivate
  <2>1. PICK w \in TablePaths(r) : p = PageAt(r, w)
        BY DEF Tables
  <2>2. PICK v \in TablePaths(s) : p = PageAt(s, v)
        BY DEF Tables
  <2>3. v \in AllPaths(s)
        BY SomePaths
  <2> QED BY <2>1, <2>2, <2>3 DEF IInv, OwnTables
<1> QED BY <1>1, Invariance, PTL

\* A page that can be written without a fault is mapped once, whatever order
\* of forks, reads and writes led there: the fault handler sets a write bit
\* only when nobody else uses the page.
THEOREM WritablePrivate == Spec => []WritableIsPrivate
<1>1. IInv => WritableIsPrivate
  <2> SUFFICES ASSUME IInv, NEW r \in procs, NEW a \in Addresses,
                      Mapped(r, a), Leaf(r, a).write
               PROVE  Mappings(Leaf(r, a).ppn) = {<<r, a>>}
      BY DEF WritableIsPrivate
  <2> DEFINE p == Leaf(r, a).ppn
  <2>1. MappingsByPath
        BY CountMappings DEF IInv
  <2>2. a \in AllPaths(r) /\ PageAt(r, a) = p /\ a[3] # Stop
        BY <2>1, AddressPaths DEF MappingsByPath
  <2>3. ASSUME NEW s \in procs, NEW b \in Addresses, <<s, b>> \in Mappings(p)
        PROVE  s = r /\ b = a
    <3>1. b \in AllPaths(s) /\ PageAt(s, b) = p /\ b[3] # Stop
          BY <2>1, <2>3, AddressPaths DEF MappingsByPath
    <3> QED BY <2>2, <3>1 DEF IInv, Sharing
  <2>4. <<r, a>> \in Mappings(p) /\ Mappings(p) \subseteq procs \X Addresses
        BY DEF Mappings
  <2> QED BY <2>3, <2>4
<1> QED BY <1>1, Invariance, PTL

\* The counter of a page that is shared copy-on-write never falls below the
\* number of its mappings, though recursive_cow counts the parent again with
\* every fork and page_fault_handler counts the new page at its table.
THEOREM CountsCover == Spec => []CountCoversSharers
<1>1. IInv => CountCoversSharers
      BY DEF IInv
<1> QED BY <1>1, Invariance, PTL

-----------------------------------------------------------------------------
(* The memory a process sees, and the steps of PrivateMemory.              *)

\* What the process r sees at the address a.
View(r, a) ==
    IF Mapped(r, a)
    THEN Private!Page(val[Leaf(r, a).ppn], Leaf(r, a).read,
                      Leaf(r, a).write \/ Leaf(r, a).custom)
    ELSE Private!Unmapped

LEMMA MemoryViews ==
    Memory = [r \in procs |-> [a \in Addresses |-> View(r, a)]]
BY DEF Memory, View, Private!Page, Private!Unmapped

LEMMA MemoryViewsNext ==
    Memory' = [r \in procs' |-> [a \in Addresses |-> View(r, a)']]
BY DEF Memory, View, Private!Page, Private!Unmapped

\* A step after which the running process r sees another cell at a.
LEMMA CellStep ==
    ASSUME TypeOK, NEW r, r = root, NEW a \in Addresses, NEW cell, procs' = procs,
           \A s \in procs, b \in Addresses :
               s # r \/ b # a => View(s, b)' = View(s, b),
           View(r, a)' = cell
    PROVE  /\ Memory' = [Memory EXCEPT ![r][a] = cell]
           /\ r \in procs
           /\ Memory = [q \in procs |-> [b \in Addresses |-> Memory[q][b]]]
           /\ Memory[r][a] = View(r, a)
<1> DEFINE m == Memory
           n == Memory'
<1>1. \A q \in procs, b \in Addresses :
          m[q][b] = View(q, b) /\ n[q][b] = View(q, b)'
      BY MemoryViews, MemoryViewsNext
<1>2. m = [q \in procs |-> [b \in Addresses |-> m[q][b]]]
      BY <1>1, MemoryViews
<1>3. n = [q \in procs |-> [b \in Addresses |-> n[q][b]]]
      BY <1>1, MemoryViewsNext
<1>4. r \in procs
      BY DEF TypeOK
<1> HIDE DEF m, n
<1>5. n = [m EXCEPT ![r][a] = cell]
  <2>1. \A q \in procs, b \in Addresses : q # r \/ b # a => n[q][b] = m[q][b]
        BY <1>1
  <2>2. n[r][a] = cell
        BY <1>1, <1>4
  <2> QED BY <1>2, <1>3, <1>4, <2>1, <2>2
<1> QED BY <1>1, <1>2, <1>4, <1>5 DEF m, n

\* A step that leaves the entries, the data and the processes.
LEMMA SameMemory ==
    ASSUME UNCHANGED <<tab, val, procs>>
    PROVE  Memory' = Memory
<1>1. \A r, a : /\ Upper(r, a)' = Upper(r, a)
                /\ Middle(r, a)' = Middle(r, a)
                /\ Leaf(r, a)' = Leaf(r, a)
      BY DEF Upper, Middle, Table0, Leaf
<1>2. \A r, a : View(r, a)' = View(r, a)
      BY <1>1 DEF View, Mapped, Walks
<1> QED BY <1>2, MemoryViews, MemoryViewsNext

LEMMA InitImplements == Init => Private!Init
<1> SUFFICES ASSUME Init PROVE Private!Init
    OBVIOUS
<1>1. \A a \in Addresses : ~Mapped(0, a)
      BY SizesAssumption, AddressPaths
      DEF Init, Mapped, Walks, UpperWalks, Upper, NoEntry, Pages
<1>2. Memory = [r \in {root} |-> [a \in Addresses |-> Private!Unmapped]]
      BY <1>1, MemoryViews DEF Init, View, Private!Unmapped
<1> QED BY <1>2, SizesAssumption DEF Init, Private!Init, Pages

LEMMA PageFields ==
    ASSUME NEW v, NEW rd, NEW wr
    PROVE  /\ Private!Page(v, rd, wr).mapped
           /\ Private!Page(v, rd, wr).val = v
           /\ Private!Page(v, rd, wr).readable = rd
           /\ Private!Page(v, rd, wr).writable = wr
BY DEF Private!Page

\* A step of the running process r that may write in the page it has at a, or
\* gives it a page of its own.
Access(r, a) ==
    /\ r = root /\ root' = root /\ procs' = procs
    /\ machine = "running" /\ machine' = machine
    /\ Mapped(r, a) /\ Mapped(r, a)'
    /\ Leaf(r, a).write \/ Leaf(r, a).custom
    /\ (Leaf(r, a).write \/ Leaf(r, a).custom)'
    /\ \A s \in procs, b \in Addresses : s # r \/ b # a => View(s, b)' = View(s, b)

LEMMA AccessCells ==
    ASSUME TypeOK, NEW r, NEW a \in Addresses, Access(r, a)
    PROVE  /\ Memory' = [Memory EXCEPT ![root][a] =
                            Private!Page(val'[Leaf(r, a)'.ppn], Leaf(r, a)'.read, TRUE)]
           /\ Private!Here(a).mapped /\ Private!Here(a).writable = TRUE
           /\ Private!Here(a).readable = Leaf(r, a).read
           /\ Private!Here(a).val = val[Leaf(r, a).ppn]
<1> DEFINE cell == Private!Page(val'[Leaf(r, a)'.ppn], Leaf(r, a)'.read, TRUE)
<1>1. View(r, a) = Private!Page(val[Leaf(r, a).ppn], Leaf(r, a).read, TRUE)
  <2>1. Mapped(r, a) /\ (Leaf(r, a).write \/ Leaf(r, a).custom)
        BY DEF Access
  <2>2. (Leaf(r, a).write \/ Leaf(r, a).custom) = TRUE
        BY <2>1
  <2> QED BY <2>1, <2>2, Zenon DEF View
<1>2. View(r, a)' = cell
  <2>1. Mapped(r, a)' /\ (Leaf(r, a)'.write \/ Leaf(r, a)'.custom)
        BY DEF Access
  <2>2. (Leaf(r, a)'.write \/ Leaf(r, a)'.custom) = TRUE
        BY <2>1
  <2> QED BY <2>1, <2>2, Zenon DEF View, Private!Page
<1> HIDE DEF cell
<1>3. /\ Memory' = [Memory EXCEPT ![r][a] = cell]
      /\ r \in procs
      /\ Memory[r][a] = View(r, a)
      BY <1>2, CellStep DEF Access
<1>4. Private!Here(a) = Memory[r][a] /\ r = root
      BY DEF Private!Here, Access
<1>5. Private!Here(a) = Private!Page(val[Leaf(r, a).ppn], Leaf(r, a).read, TRUE)
      BY <1>1, <1>3, <1>4
<1>6. /\ Private!Here(a).mapped /\ Private!Here(a).writable = TRUE
      /\ Private!Here(a).readable = Leaf(r, a).read
      /\ Private!Here(a).val = val[Leaf(r, a).ppn]
  <2> PICK h : h = Private!Here(a)
      OBVIOUS
  <2>1. h = Private!Page(val[Leaf(r, a).ppn], Leaf(r, a).read, TRUE)
        BY <1>5
  <2>2. h.mapped
        BY <2>1 DEF Private!Page
  <2>3. h.writable = TRUE
        BY <2>1 DEF Private!Page
  <2>4. h.readable = Leaf(r, a).read
        BY <2>1 DEF Private!Page
  <2>5. h.val = val[Leaf(r, a).ppn]
        BY <2>1 DEF Private!Page
  <2> QED BY <2>2, <2>3, <2>4, <2>5
<1> QED BY <1>3, <1>4, <1>6 DEF cell

LEMMA PrivateWrite ==
    ASSUME TypeOK, NEW r, NEW a \in Addresses, NEW o, NEW x, Access(r, a),
           val'[Leaf(r, a)'.ppn] = [val[Leaf(r, a).ppn] EXCEPT ![o] = x],
           Leaf(r, a)'.read = Leaf(r, a).read \/ Leaf(r, a)'.read = TRUE
    PROVE  Private!Write(a, o, x)
<1>1. TypeOK /\ Access(r, a) =>
          /\ Memory' = [Memory EXCEPT ![root][a] =
                   Private!Page(val'[Leaf(r, a)'.ppn], Leaf(r, a)'.read, TRUE)]
          /\ Private!Here(a).mapped /\ Private!Here(a).writable = TRUE
          /\ Private!Here(a).readable = Leaf(r, a).read
          /\ Private!Here(a).val = val[Leaf(r, a).ppn]
      BY AccessCells, Zenon
<1>2. Leaf(r, a)'.read \in Private!Gains(a)
      BY <1>1 DEF Private!Gains
<1>3. UNCHANGED <<machine, root>>
      BY DEF Access
<1> QED BY <1>1, <1>2, <1>3 DEF Private!Write

LEMMA PrivateRead ==
    ASSUME TypeOK, NEW r, NEW a \in Addresses, Access(r, a),
           val'[Leaf(r, a)'.ppn] = val[Leaf(r, a).ppn], Leaf(r, a)'.read \in {TRUE}
    PROVE  Private!Read(a)
<1>1. TypeOK /\ Access(r, a) =>
          /\ Memory' = [Memory EXCEPT ![root][a] =
                   Private!Page(val'[Leaf(r, a)'.ppn], Leaf(r, a)'.read, TRUE)]
          /\ Private!Here(a).mapped /\ Private!Here(a).writable = TRUE
          /\ Private!Here(a).readable = Leaf(r, a).read
          /\ Private!Here(a).val = val[Leaf(r, a).ppn]
      BY AccessCells, Zenon
<1>2. Leaf(r, a)'.read \in Private!Gains(a) /\ Leaf(r, a)'.read
      BY <1>1 DEF Private!Gains
<1>3. UNCHANGED <<machine, root>>
      BY DEF Access
<1> QED BY <1>1, <1>2, <1>3 DEF Private!Read

LEMMA WriteImplements ==
    ASSUME IInv, NEW a \in Addresses, NEW o \in Offsets, NEW x \in Values,
           Write(a, o, x)
    PROVE  Private!Write(a, o, x)
<1> PICK r : r = root
    OBVIOUS
<1> PICK p : p = Leaf(r, a).ppn
    OBVIOUS
<1>1. /\ machine = "running" /\ machine' = machine /\ root' = root
      /\ UNCHANGED <<tab, procs>> /\ r \in procs /\ p \in Pages
      /\ Mapped(r, a) /\ Leaf(r, a).write
      /\ val' = [val EXCEPT ![p][o] = x]
      BY AddressType DEF Write, IInv, TypeOK
<1>2. \A s, b : /\ Upper(s, b)' = Upper(s, b)
                /\ Middle(s, b)' = Middle(s, b)
                /\ Leaf(s, b)' = Leaf(s, b)
      BY <1>1 DEF Upper, Middle, Table0, Leaf
<1>3. \A s, b : Mapped(s, b)' <=> Mapped(s, b)
      BY <1>2 DEF Mapped, Walks
<1>4. /\ val'[p] = [val[p] EXCEPT ![o] = x]
      /\ \A q \in Pages : q # p => val'[q] = val[q]
      BY <1>1 DEF IInv, TypeOK
<1>5. ASSUME NEW s \in procs, NEW b \in Addresses, s # r \/ b # a
      PROVE  View(s, b)' = View(s, b)
  <2>1. Mapped(s, b) => Leaf(s, b).ppn # p /\ Leaf(s, b).ppn \in Pages
    <3> SUFFICES ASSUME Mapped(s, b)
                 PROVE  Leaf(s, b).ppn # p /\ Leaf(s, b).ppn \in Pages
        OBVIOUS
    <3>1. /\ b \in AllPaths(s) /\ PageAt(s, b) = Leaf(s, b).ppn /\ b[3] # Stop
          /\ a \in AllPaths(r) /\ PageAt(r, a) = p /\ a[3] # Stop
          BY <1>1, MappedPath, AddressPaths DEF IInv
    <3>2. Leaf(s, b).ppn # p
          BY <1>1, <1>5, <3>1 DEF IInv, Sharing
    <3> QED BY <3>2, AddressType DEF IInv, TypeOK
  <2> QED BY <1>2, <1>3, <1>4, <2>1 DEF View
<1>6. Access(r, a)
      BY <1>1, <1>2, <1>3, <1>5 DEF Access
<1>7. /\ val'[Leaf(r, a)'.ppn] = [val[Leaf(r, a).ppn] EXCEPT ![o] = x]
      /\ Leaf(r, a)'.read = Leaf(r, a).read
      BY <1>2, <1>4
<1> QED BY <1>6, <1>7, PrivateWrite DEF IInv

\* After a fault the running process has a page that it may write, and no other
\* process sees a difference.
LEMMA FaultAccess ==
    ASSUME IInv, TypeOK', NEW a \in Addresses, Faults(a), NEW r, r = root,
           machine = "running", machine' = machine
    PROVE  /\ Access(r, a)
           /\ Leaf(r, a)'.ppn = Target(a) /\ Target(a) \in Pages
           /\ Leaf(r, a)'.read = (Leaf(r, a).read \/ arr[Leaf(r, a).ppn] >= 1)
<1>1. /\ a \in AllPaths(r) /\ r \in procs /\ used \in Nat
      /\ root' = root /\ procs' = procs
      /\ Target(a) = IF NeedsCopy(PageAt(r, a)) THEN used ELSE PageAt(r, a)
      /\ \A s \in procs : AllPaths(s)' = AllPaths(s)
      /\ \A s \in procs : \A w \in AllPaths(s) :
             /\ PageAt(s, w) < used /\ PageAt(s, w) \in Int
             /\ w[3] # Stop => Leaf(s, w)' = IF s = r /\ w = a THEN Resolved(a)
                                             ELSE Leaf(s, w)
      BY FaultPaths DEF Faults
<1>2. /\ a[3] # Stop /\ Mapped(r, a) /\ Leaf(r, a).custom
      /\ Target(a) \in Pages
      BY AddressPaths, HandleType DEF Faults, IInv
<1>3. MappingsByPath
      BY CountMappings DEF IInv
<1>4. \A s \in procs, b \in Addresses :
          (Mapped(s, b)' <=> b \in AllPaths(s)') /\ PageAt(s, b)' = Leaf(s, b)'.ppn
  <2>1. MappingsByPath'
        BY FaultTables, CountMappingsNext
  <2> QED BY <1>1, <2>1 DEF MappingsByPath
<1>5. Leaf(r, a)' = Resolved(a) /\ Mapped(r, a)'
      BY <1>1, <1>2, <1>4
<1>6. /\ Leaf(r, a)'.ppn = Target(a) /\ Leaf(r, a)'.write
      /\ Leaf(r, a)'.read = (Leaf(r, a).read \/ arr[Leaf(r, a).ppn] >= 1)
      BY <1>5 DEF Resolved
<1>7. ASSUME NEW s \in procs, NEW b \in Addresses, s # r \/ b # a
      PROVE  View(s, b)' = View(s, b)
  <2>1. Mapped(s, b)' <=> Mapped(s, b)
        BY <1>1, <1>3, <1>4 DEF MappingsByPath
  <2>2. CASE ~Mapped(s, b)
        BY <2>1, <2>2 DEF View
  <2>3. CASE Mapped(s, b)
    <3>1. b \in AllPaths(s) /\ PageAt(s, b) = Leaf(s, b).ppn /\ b[3] # Stop
          BY <1>3, <2>3, AddressPaths DEF MappingsByPath
    <3>2. Leaf(s, b)' = Leaf(s, b)
          BY <1>1, <1>7, <3>1
    <3>3. Leaf(s, b).ppn # Target(a)
      <4>1. CASE NeedsCopy(PageAt(r, a))
            BY <1>1, <3>1, <4>1
      <4>2. CASE ~NeedsCopy(PageAt(r, a))
        <5>1. PageAt(r, a) = Leaf(r, a).ppn
              BY <1>1, <1>3 DEF MappingsByPath
        <5> QED BY <1>1, <1>2, <1>7, <3>1, <4>2, <5>1, NotShared
      <4> QED BY <4>1, <4>2
    <3>4. Leaf(s, b).ppn \in Pages
          BY AddressType DEF IInv, TypeOK
    <3>5. val'[Leaf(s, b).ppn] = val[Leaf(s, b).ppn]
          BY <3>3, <3>4 DEF Faults
    <3> QED BY <2>1, <3>2, <3>5 DEF View
  <2> QED BY <2>2, <2>3
<1>8. Access(r, a)
      BY <1>1, <1>2, <1>5, <1>6, <1>7 DEF Access
<1> QED BY <1>2, <1>6, <1>8

\* The two accesses that fault.
LEMMA FaultImplements ==
    ASSUME IInv, TypeOK', NEW a \in Addresses
    PROVE  /\ ReadFault(a) => Private!Read(a) \/ Exit("ENOMEM")
           /\ \A o \in Offsets, x \in Values :
                  WriteFault(a, o, x) => Private!Write(a, o, x) \/ Exit("ENOMEM")
<1> PICK r : r = root
    OBVIOUS
<1> PICK t : t = Target(a)
    OBVIOUS
<1> DEFINE p == Leaf(r, a).ppn
<1>1. ASSUME NEW page, Mapped(root, a), Leaf(root, a).custom, Handle(a),
             NeedsCopy(Leaf(root, a).ppn) => Room(1),
             UNCHANGED <<machine, root, procs>>, machine = "running",
             val' = [val EXCEPT ![Target(a)] = page]
      PROVE  /\ Access(r, a)
             /\ Leaf(r, a)'.read = (Leaf(r, a).read \/ arr[p] >= 1)
             /\ val'[Leaf(r, a)'.ppn] = page
  <2>1. \A q \in Pages : q # Target(a) => val'[q] = val[q]
        BY <1>1 DEF IInv, TypeOK
  <2>2. Faults(a)
        BY <1>1, <2>1 DEF Faults
  <2>3. /\ Access(r, a)
        /\ Leaf(r, a)'.ppn = t /\ t \in Pages
        /\ Leaf(r, a)'.read = (Leaf(r, a).read \/ arr[p] >= 1)
        BY <1>1, <2>2, FaultAccess
  <2>4. val'[t] = page
        BY <1>1, <2>3 DEF IInv, TypeOK
  <2> QED BY <2>3, <2>4
<1>2. ASSUME ReadFault(a), ~Exit("ENOMEM") PROVE Private!Read(a)
  <2>1. /\ Mapped(root, a) /\ Leaf(root, a).custom /\ Handle(a)
        /\ NeedsCopy(Leaf(root, a).ppn) => Room(1)
        /\ UNCHANGED <<machine, root, procs>> /\ machine = "running"
        /\ val' = [val EXCEPT ![Target(a)] = val[Leaf(root, a).ppn]]
        /\ arr[p] >= 1
        BY <1>2 DEF ReadFault, Contents
  <2>2. /\ Access(r, a)
        /\ Leaf(r, a)'.read = (Leaf(r, a).read \/ arr[p] >= 1)
        /\ val'[Leaf(r, a)'.ppn] = val[Leaf(root, a).ppn]
        BY <1>1, <2>1
  <2>3. Leaf(r, a)'.read \in {TRUE}
        BY <2>1, <2>2
  <2>4. val'[Leaf(r, a)'.ppn] = val[Leaf(r, a).ppn]
        BY <2>2
  <2> QED BY <2>2, <2>3, <2>4, PrivateRead DEF IInv
<1>3. ASSUME NEW o \in Offsets, NEW x \in Values, WriteFault(a, o, x),
             ~Exit("ENOMEM")
      PROVE  Private!Write(a, o, x)
  <2>1. /\ Mapped(root, a) /\ Leaf(root, a).custom /\ Handle(a)
        /\ NeedsCopy(Leaf(root, a).ppn) => Room(1)
        /\ UNCHANGED <<machine, root, procs>> /\ machine = "running"
        /\ val' = [val EXCEPT ![Target(a)] = [val[Leaf(root, a).ppn] EXCEPT ![o] = x]]
        BY <1>3 DEF WriteFault, Contents
  <2>2. /\ Access(r, a)
        /\ Leaf(r, a)'.read = (Leaf(r, a).read \/ arr[p] >= 1)
        /\ val'[Leaf(r, a)'.ppn] = [val[Leaf(root, a).ppn] EXCEPT ![o] = x]
        BY <1>1, <2>1
  <2>3. Leaf(r, a)'.read = Leaf(r, a).read \/ Leaf(r, a)'.read = TRUE
    <3>1. arr[p] >= 1 \/ (arr[p] >= 1) = FALSE
          OBVIOUS
    <3>2. Leaf(r, a) \in Entry
          BY AddressType DEF IInv, TypeOK
    <3> QED BY <2>2, <3>1, <3>2 DEF Entry
  <2>4. val'[Leaf(r, a)'.ppn] = [val[Leaf(r, a).ppn] EXCEPT ![o] = x]
        BY <2>2
  <2> QED BY <2>2, <2>3, <2>4, PrivateWrite DEF IInv
<1> QED BY <1>2, <1>3

\* The steps that change no page.
LEMMA IdleImplements ==
    ASSUME IInv, machine = "running"
    PROVE  /\ \A r \in Pages : Switch(r) => Private!Switch(r)
           /\ \A a \in Addresses :
                  /\ Read(a) => UNCHANGED Private!vars
                  /\ WriteFatal(a) => Private!Fault(a)
                  /\ ReadFatal(a) => Private!Fault(a)
           /\ Exit("ENOMEM") => Private!OutOfMemory
           /\ UNCHANGED vars => UNCHANGED Private!vars
<1>1. DOMAIN Memory = procs
      BY MemoryViews
<1>2. ASSUME NEW r \in Pages, Switch(r) PROVE Private!Switch(r)
      BY <1>1, <1>2, SameMemory DEF Switch, Private!Switch
<1>3. ASSUME UNCHANGED vars PROVE UNCHANGED Private!vars
      BY <1>3, SameMemory DEF vars, Private!vars
<1>4. ASSUME Exit("ENOMEM") PROVE Private!OutOfMemory
      BY <1>4, SameMemory DEF Exit, Private!OutOfMemory
<1>5. ASSUME NEW a \in Addresses, Exit("EFAULT"),
             Mapped(root, a) => \/ ~Leaf(root, a).write /\ ~Leaf(root, a).custom
                                \/ ~Leaf(root, a).read
      PROVE  Private!Fault(a)
  <2> PICK h : h = Private!Here(a)
      OBVIOUS
  <2> PICK r : r = root
      OBVIOUS
  <2>1. h = View(r, a)
        BY MemoryViews DEF Private!Here, IInv, TypeOK
  <2>2. h.mapped => Mapped(r, a)
        BY <2>1 DEF View, Private!Unmapped
  <2>3. h.mapped => /\ h.writable = (Leaf(r, a).write \/ Leaf(r, a).custom)
                    /\ h.readable = Leaf(r, a).read
        BY <2>1, <2>2 DEF View, Private!Page
  <2>4. h.mapped => ~h.writable \/ ~h.readable
        BY <1>5, <2>2, <2>3
  <2>5. UNCHANGED <<root, Memory>> /\ machine' = "EFAULT"
        BY <1>5, SameMemory DEF Exit
  <2> QED BY <2>4, <2>5 DEF Private!Fault
<1>6. ASSUME NEW a \in Addresses, WriteFatal(a) PROVE Private!Fault(a)
      BY <1>5, <1>6 DEF WriteFatal
<1>7. ASSUME NEW a \in Addresses, ReadFatal(a) PROVE Private!Fault(a)
      BY <1>5, <1>7 DEF ReadFatal
<1> QED BY <1>2, <1>3, <1>4, <1>6, <1>7 DEF Read

\* A page that is mapped is empty.
LEMMA MapImplements ==
    ASSUME IInv, TypeOK', NEW a \in Addresses, NEW mode \in Modes[a], Map(a, mode)
    PROVE  \/ \E rd, wr \in BOOLEAN : Private!Map(a, rd, wr)
           \/ Exit("ENOMEM")
<1> SUFFICES ASSUME ~Exit("ENOMEM")
             PROVE  \E rd, wr \in BOOLEAN : Private!Map(a, rd, wr)
    OBVIOUS
<1> PICK r, l1, l0, p0, e : Maps(r, a, l1, l0, p0, e)
    BY MapEffect
<1> PICK rd, wr : rd = e.read /\ wr = e.write
    OBVIOUS
<1>1. /\ r = root /\ r \in procs /\ procs' = procs /\ UNCHANGED <<machine, root>>
      /\ val' = val /\ p0 \in Pages /\ p0 >= used
      /\ ~Mapped(r, a)
  <2>1. used \in Nat
        BY DEF IInv, TypeOK
  <2>2. ~Mapped(root, a) /\ UNCHANGED machine
        BY DEF Map
  <2> QED BY <2>1, <2>2 DEF IInv, TypeOK, Maps
<1>2. /\ AllPaths(r)' = AllPaths(r) \cup Onto(a)
      /\ \A w \in AllPaths(r) : w[3] # Stop => w # a /\ Leaf(r, w)' = Leaf(r, w)
      /\ Leaf(r, a)' = e
      BY MapPaths
<1>3. procs = {r}
      BY DEF Maps
<1>4. MappingsByPath /\ MappingsByPath'
  <2>1. IInv'
        BY MapInv
  <2> QED BY <2>1, CountMappings, CountMappingsNext DEF IInv
<1>5. \A b \in Addresses : /\ Mapped(r, b) <=> b \in AllPaths(r)
                           /\ Mapped(r, b)' <=> b \in AllPaths(r)'
      BY <1>1, <1>4 DEF MappingsByPath
<1>6. ASSUME NEW b \in Addresses, b # a
      PROVE  View(r, b)' = View(r, b)
  <2>1. b \notin Onto(a)
        BY <1>6, AddressPaths DEF Onto
  <2>2. Mapped(r, b)' <=> Mapped(r, b)
        BY <1>2, <1>5, <2>1
  <2>3. Mapped(r, b) => Leaf(r, b)' = Leaf(r, b)
        BY <1>2, <1>5, AddressPaths
  <2> QED BY <1>1, <2>2, <2>3 DEF View
<1>7. e.ppn = p0 /\ e.custom = FALSE /\ rd \in BOOLEAN /\ wr \in BOOLEAN
      BY DEF Maps, Entry
<1>8. val[p0] = [o \in Offsets |-> 0]
  <2>1. /\ val[p0] \in [Offsets -> Values \cup {0}]
        /\ \A o \in Offsets : val[p0][o] = 0
        BY <1>1 DEF IInv, TypeOK, InUse
  <2> QED BY <2>1
<1>9. View(r, a)' = Private!Page([o \in Offsets |-> 0], rd, wr)
  <2>1. Mapped(r, a)'
        BY <1>2, <1>5 DEF Onto
  <2>2. /\ val'[Leaf(r, a)'.ppn] = [o \in Offsets |-> 0]
        /\ Leaf(r, a)'.read = rd
        /\ (Leaf(r, a)'.write \/ Leaf(r, a)'.custom) = wr
    <3>1. Leaf(r, a)'.write = wr /\ Leaf(r, a)'.custom = FALSE
          BY <1>2, <1>7
    <3>2. (Leaf(r, a)'.write \/ Leaf(r, a)'.custom) = wr
          BY <1>7, <3>1
    <3> QED BY <1>1, <1>2, <1>7, <1>8, <3>2
  <2> QED BY <2>1, <2>2 DEF View, Private!Page
<1>10. /\ Memory' = [Memory EXCEPT ![r][a] =
                        Private!Page([o \in Offsets |-> 0], rd, wr)]
       /\ Memory[r][a] = View(r, a)
       BY <1>1, <1>3, <1>6, <1>9, CellStep DEF IInv
<1>11. Private!Here(a) = Private!Unmapped
       BY <1>1, <1>10 DEF Private!Here, View
<1>12. ~Private!Here(a).mapped
       BY <1>11 DEF Private!Unmapped
<1> QED BY <1>1, <1>7, <1>10, <1>12 DEF Private!Map

\* A step that adds the process c, which sees what the running one sees.
LEMMA ForkStep ==
    ASSUME TypeOK, NEW c, NEW r, r = root, procs' = procs \cup {c}, c \notin procs,
           UNCHANGED <<machine, root>>,
           \A s \in procs, a \in Addresses : View(s, a)' = View(s, a),
           \A a \in Addresses : View(c, a)' = View(r, a)
    PROVE  Private!Fork(c)
<1> DEFINE m == Memory
           n == Memory'
<1>1. /\ DOMAIN m = procs /\ DOMAIN n = procs \cup {c} /\ r \in procs
      /\ \A q \in procs : m[q] = [a \in Addresses |-> View(q, a)]
      /\ n = [q \in procs \cup {c} |-> n[q]]
      /\ \A q \in procs \cup {c} : n[q] = [a \in Addresses |-> View(q, a)']
      BY MemoryViews, MemoryViewsNext DEF TypeOK
<1> HIDE DEF m, n
<1>2. ASSUME NEW q \in procs PROVE n[q] = m[q]
  <2>1. n[q] = [a \in Addresses |-> View(q, a)']
        BY <1>1
  <2>2. m[q] = [a \in Addresses |-> View(q, a)]
        BY <1>1
  <2> QED BY <2>1, <2>2
<1>3. n[c] = m[r]
  <2>1. n[c] = [a \in Addresses |-> View(c, a)']
        BY <1>1
  <2>2. m[r] = [a \in Addresses |-> View(r, a)]
        BY <1>1
  <2> QED BY <2>1, <2>2
<1>4. n = [q \in DOMAIN m \cup {c} |-> IF q = c THEN m[r] ELSE m[q]]
      BY <1>1, <1>2, <1>3
<1>5. c \in DOMAIN n \ DOMAIN m
      BY <1>1
<1> QED BY <1>4, <1>5 DEF m, n, Private!Fork

\* Copy-on-write: parent and child see the pages of the parent, write-protected
\* or not.
LEMMA OnWriteImplements ==
    ASSUME IInv, TypeOK', ForkCopyOnWrite, Room(Cardinality(TablePaths(root)))
    PROVE  \E c \in Pages : Private!Fork(c)
<1> PICK c : c = used
    OBVIOUS
<1> PICK r : r = root
    OBVIOUS
<1>1. /\ TypeOK /\ InUse /\ ForkOf(TablePaths(root))
      BY OnWriteIsFork DEF IInv
<1>2. /\ procs' = procs \cup {c} /\ c \notin procs /\ r \in procs
      /\ c \in Pages /\ UNCHANGED <<machine, val, root>>
      BY <1>1, ForkFacts DEF ForkOf, TypeOK, ForkCopyOnWrite
<1>3. MappingsByPath /\ MappingsByPath'
  <2>1. UpperPlain'
        BY ForkInv DEF IInv
  <2> QED BY <2>1, CountMappings, CountMappingsNext DEF IInv
<1>4. ASSUME NEW s \in procs', NEW q, q = (IF s = c THEN r ELSE s),
             NEW a \in Addresses
      PROVE  View(s, a)' = View(q, a)
  <2>1. /\ q \in procs /\ AllPaths(s)' = AllPaths(q)
        /\ \A w \in AllPaths(q) : w[3] # Stop =>
               /\ Leaf(s, w)' = IF q = r THEN Protected(Leaf(q, w)) ELSE Leaf(q, w)
               /\ Leaf(q, w) \in Entry /\ Leaf(q, w).valid
        BY <1>4, OnWriteLeaves
  <2>2. (Mapped(s, a)' <=> a \in AllPaths(s)') /\ (Mapped(q, a) <=> a \in AllPaths(q))
        BY <1>3, <2>1 DEF MappingsByPath
  <2>3. CASE Mapped(q, a)
    <3> PICK e : e = Leaf(q, a)
        OBVIOUS
    <3> PICK f : f = Leaf(s, a)'
        OBVIOUS
    <3>1. /\ Mapped(s, a)' /\ e \in Entry
          /\ f = Protected(e) \/ f = e
          BY <2>1, <2>2, <2>3, AddressPaths
    <3>2. /\ f.ppn = e.ppn /\ f.read = e.read
          /\ (f.write \/ f.custom) = (e.write \/ e.custom)
          BY <3>1 DEF Protected, Shares, Entry
    <3>3. View(q, a) = Private!Page(val[e.ppn], e.read, e.write \/ e.custom)
          BY <2>3 DEF View
    <3>4. View(s, a)' = Private!Page(val'[f.ppn], f.read, f.write \/ f.custom)
          BY <3>1 DEF View, Private!Page
    <3>5. val'[f.ppn] = val[e.ppn]
          BY <1>2, <3>2
    <3> QED BY <3>2, <3>3, <3>4, <3>5
  <2>4. CASE ~Mapped(q, a)
        BY <2>1, <2>2, <2>4 DEF View, Private!Unmapped
  <2> QED BY <2>3, <2>4
<1>5. \A s \in procs, a \in Addresses : View(s, a)' = View(s, a)
      BY <1>2, <1>4
<1>6. \A a \in Addresses : View(c, a)' = View(r, a)
      BY <1>2, <1>4
<1>7. Private!Fork(c)
      BY <1>1, <1>2, <1>5, <1>6, ForkStep
<1> QED BY <1>2, <1>7

\* vms_fork_copy: the child sees the copies.
LEMMA CopyImplements ==
    ASSUME IInv, TypeOK', ForkCopy, Room(Cardinality(AllPaths(root)))
    PROVE  \E c \in Pages : Private!Fork(c)
<1> PICK c : c = used
    OBVIOUS
<1> PICK r : r = root
    OBVIOUS
<1> DEFINE paths == AllPaths(root)
<1>1. /\ TypeOK /\ InUse /\ ForkOf(paths)
      BY CopyIsFork DEF IInv
<1>2. /\ procs' = procs \cup {c} /\ c \notin procs /\ r \in procs
      /\ c \in Pages /\ used \in Nat /\ UNCHANGED <<machine, root>>
      /\ \A p \in Copies(paths) : p >= used
      /\ \A p \in Pages \ Copies(paths) : val'[p] = val[p]
      BY <1>1, ForkFacts DEF ForkOf, TypeOK, ForkCopy
<1>3. MappingsByPath /\ MappingsByPath'
  <2>1. UpperPlain'
        BY ForkInv DEF IInv
  <2> QED BY <2>1, CountMappings, CountMappingsNext DEF IInv
<1>4. /\ \A s \in procs : AllPaths(s)' = AllPaths(s)
      /\ \A s \in procs : \A w \in AllPaths(s) :
             /\ PageAt(s, w) < used
             /\ w[3] # Stop => Leaf(s, w)' = Leaf(s, w)
      /\ AllPaths(c)' = AllPaths(r)
      /\ \A w \in AllPaths(r) :
             /\ PageAt(c, w)' = CopyOf(paths, w)
             /\ w[3] # Stop =>
                    /\ Leaf(r, w) \in Entry
                    /\ Leaf(c, w)' = [Leaf(r, w) EXCEPT !.ppn = PageAt(c, w)']
      BY CopyLeaves
<1>5. ASSUME NEW s \in procs, NEW a \in Addresses
      PROVE  View(s, a)' = View(s, a)
  <2>1. Mapped(s, a)' <=> Mapped(s, a)
        BY <1>2, <1>3, <1>4 DEF MappingsByPath
  <2>2. CASE Mapped(s, a)
    <3>1. /\ a \in AllPaths(s) /\ PageAt(s, a) = Leaf(s, a).ppn
          /\ Leaf(s, a)' = Leaf(s, a) /\ Leaf(s, a).ppn < used
          BY <1>3, <1>4, <2>2, AddressPaths DEF MappingsByPath
    <3>2. Leaf(s, a).ppn \in Pages
          BY <1>1, AddressType DEF TypeOK
    <3>3. Leaf(s, a).ppn \notin Copies(paths)
          BY <1>2, <3>1, <3>2 DEF Pages
    <3>4. val'[Leaf(s, a).ppn] = val[Leaf(s, a).ppn]
          BY <1>2, <3>2, <3>3
    <3> QED BY <2>1, <3>1, <3>4 DEF View
  <2>3. CASE ~Mapped(s, a)
        BY <2>1, <2>3 DEF View, Private!Unmapped
  <2> QED BY <2>2, <2>3
<1>6. ASSUME NEW a \in Addresses
      PROVE  View(c, a)' = View(r, a)
  <2>1. Mapped(c, a)' <=> Mapped(r, a)
        BY <1>2, <1>3, <1>4 DEF MappingsByPath
  <2>2. CASE Mapped(r, a)
    <3> PICK e : e = Leaf(r, a)
        OBVIOUS
    <3> PICK f : f = Leaf(c, a)'
        OBVIOUS
    <3>1. a \in AllPaths(root) /\ PageAt(root, a) = e.ppn
          BY <1>2, <1>3, <2>2 DEF MappingsByPath
    <3>2. e \in Entry /\ f = [e EXCEPT !.ppn = PageAt(c, a)']
          BY <1>4, <3>1, AddressPaths
    <3>3. /\ f.ppn = PageAt(c, a)' /\ f.read = e.read
          /\ f.write = e.write /\ f.custom = e.custom
          BY <3>2 DEF Entry
    <3>4. PageAt(c, a)' = CopyOf(AllPaths(root), a)
          BY <1>4, <3>1
    <3>5. val'[CopyOf(AllPaths(root), a)] = val[PageAt(root, a)]
          BY <1>1, <3>1, CopyIsFork
    <3>6. val'[f.ppn] = val[e.ppn]
          BY <3>1, <3>3, <3>4, <3>5
    <3>7. View(r, a) = Private!Page(val[e.ppn], e.read, e.write \/ e.custom)
          BY <2>2 DEF View
    <3>8. View(c, a)' = Private!Page(val'[f.ppn], f.read, f.write \/ f.custom)
          BY <2>1, <2>2 DEF View, Private!Page
    <3> QED BY <3>3, <3>6, <3>7, <3>8
  <2>3. CASE ~Mapped(r, a)
        BY <2>1, <2>3 DEF View, Private!Unmapped
  <2> QED BY <2>2, <2>3
<1>7. Private!Fork(c)
      BY <1>1, <1>2, <1>5, <1>6, ForkStep
<1> QED BY <1>2, <1>7

LEMMA NextImplements ==
    IInv /\ TypeOK' /\ [Next]_vars => [Private!Next]_(Private!vars)
<1> SUFFICES ASSUME IInv, TypeOK', [Next]_vars
             PROVE  [Private!Next]_(Private!vars)
    OBVIOUS
<1>1. CASE machine # "running" \/ UNCHANGED vars
  <2>1. UNCHANGED vars
        BY <1>1 DEF Next, Map, Switch, ForkCopyOnWrite, ForkCopy, Write,
                    WriteFault, WriteFatal, Read, ReadFault, ReadFatal, Stopped
  <2> QED BY <2>1, SameMemory DEF vars, Private!vars
<1>2. CASE machine = "running" /\ ~UNCHANGED vars
  <2>1. Exit("ENOMEM") => Private!Next
        BY <1>2, IdleImplements DEF Private!Next
  <2>2. ASSUME NEW a \in Addresses, NEW mode \in Modes[a], Map(a, mode)
        PROVE  Private!Next
    <3>1. (\E rd, wr \in BOOLEAN : Private!Map(a, rd, wr)) \/ Exit("ENOMEM")
          BY <2>2, MapImplements
    <3>2. ASSUME NEW rd \in BOOLEAN, NEW wr \in BOOLEAN, Private!Map(a, rd, wr)
          PROVE  Private!Next
          BY <1>2, <3>2 DEF Private!Next
    <3> QED BY <2>1, <3>1, <3>2
  <2>3. ASSUME NEW r \in Pages, Switch(r) PROVE Private!Next
        BY <1>2, <2>3, IdleImplements DEF Private!Next
  <2>4. ASSUME ForkCopyOnWrite PROVE Private!Next
    <3>1. CASE Room(Cardinality(TablePaths(root)))
          BY <1>2, <2>4, <3>1, OnWriteImplements DEF Private!Next
    <3>2. CASE ~Room(Cardinality(TablePaths(root)))
          BY <2>1, <2>4, <3>2 DEF ForkCopyOnWrite
    <3> QED BY <3>1, <3>2
  <2>5. ASSUME ForkCopy PROVE Private!Next
    <3>1. CASE Room(Cardinality(AllPaths(root)))
          BY <1>2, <2>5, <3>1, CopyImplements DEF Private!Next
    <3>2. CASE ~Room(Cardinality(AllPaths(root)))
          BY <2>1, <2>5, <3>2 DEF ForkCopy
    <3> QED BY <3>1, <3>2
  <2>6. ASSUME NEW a \in Addresses, NEW o \in Offsets, NEW x \in Values,
               Write(a, o, x) \/ WriteFault(a, o, x)
        PROVE  Private!Next
    <3>1. Private!Write(a, o, x) \/ Exit("ENOMEM")
          BY <2>6, WriteImplements, FaultImplements
    <3> QED BY <1>2, <2>1, <3>1 DEF Private!Next
  <2>7. ASSUME NEW a \in Addresses, WriteFatal(a) \/ ReadFatal(a)
        PROVE  Private!Next
        BY <1>2, <2>7, IdleImplements DEF Private!Next
  <2>8. ASSUME NEW a \in Addresses, Read(a)
        PROVE  UNCHANGED Private!vars
        BY <1>2, <2>8, IdleImplements
  <2>9. ASSUME NEW a \in Addresses, ReadFault(a)
        PROVE  Private!Next
    <3>1. Private!Read(a) \/ Exit("ENOMEM")
          BY <2>9, FaultImplements
    <3> QED BY <1>2, <2>1, <3>1 DEF Private!Next
  <2>10. ~Stopped
         BY <1>2 DEF Stopped
  <2> QED BY <1>2, <2>2, <2>3, <2>4, <2>5, <2>6, <2>7, <2>8, <2>9, <2>10 DEF Next
<1> QED BY <1>1, <1>2

\* Every process sees a memory of its own: whatever the order of mappings, forks
\* of either kind, reads and writes, what a process sees changes only where it
\* writes itself, and a child begins with what its parent saw.
THEOREM MemoryIsPrivate == Spec => ImplementsPrivate
<1>1. Init => Private!Init
      BY InitImplements
<1>2. IInv /\ IInv' /\ [Next]_vars => [Private!Next]_(Private!vars)
      BY NextImplements DEF IInv
<1> QED BY <1>1, <1>2, Invariance, PTL DEF Spec, ImplementsPrivate, Private!Spec

-----------------------------------------------------------------------------
(* PageEntries: the bits of an entry.                                      *)

\* The mask covers the bits 10 to 53.
LEMMA PpnMaskBits == PpnMask = 10..53
  BY SMT DEF PpnMask, ShiftRight, ShiftLeft, Bits, PpnStartBit

\* A page whose address has no more than 56 bits comes back out of an entry
\* (vms_page_to_ppn asserts 60 only; a page of a user process has 47).
THEOREM PageComesBack ==
  ASSUME NEW entry \in Word, NEW pointer \in SUBSET (0..55), Aligned(pointer)
  PROVE  PpnToPage(GetPpn(SetPpn(entry, PageToPpn(pointer)))) = pointer
<1> DEFINE ppn == PageToPpn(pointer)
<1>1. ppn = {b \in 0..43 : b + 12 \in pointer}
  BY SMT DEF PageToPpn, ShiftRight, Bits, OffsetBits
<1>2. GetPpn(SetPpn(entry, ppn)) = ppn
  <2>1. ShiftRight(ShiftLeft(ppn, 20), 10) = {b \in 10..53 : b - 10 \in ppn}
    BY <1>1, SMT DEF ShiftRight, ShiftLeft, Bits
  <2>2. SetPpn(entry, ppn) \cap PpnMask = {b \in 10..53 : b - 10 \in ppn}
    BY <2>1, PpnMaskBits, SMT DEF SetPpn, Complement, Bits, PpnStartBit
  <2> QED
    BY <1>1, <2>2, SMT DEF GetPpn, ShiftRight, Bits, PpnStartBit
<1>3. PpnToPage(ppn) = pointer
  <2>1. \A b \in pointer : b \in 12..55
    BY SMT DEF Aligned, OffsetBits
  <2>2. \A b \in pointer : b - 12 \in 0..43 /\ (b - 12) + 12 \in pointer
    BY <2>1, SMT
  <2>3. PpnToPage(ppn) = {b \in 0..63 : b - 12 \in ppn}
    BY SMT DEF PpnToPage, ShiftLeft, Bits, OffsetBits
  <2>4. \A b \in 0..63 : b - 12 \in ppn <=> b \in pointer
    BY <1>1, <2>2, SMT
  <2>5. \A b \in pointer : b \in 0..63
    BY <2>1, SMT
  <2> QED
    BY <2>3, <2>4, <2>5, Zenon
<1> QED
  BY <1>2, <1>3

\* Setting the page of an entry leaves its flags as they were, which is what
\* page_fault_handler and recursive_cow count on.
THEOREM FlagsSurvivePpn ==
  ASSUME NEW entry \in Word, NEW ppn \in Word, NEW flag \in Flags
  PROVE  Flag(SetPpn(entry, ppn), flag) <=> Flag(entry, flag)
<1>1. \A b \in 0..8 : b \in SetPpn(entry, ppn) <=> b \in entry
  BY PpnMaskBits, SMT
  DEF SetPpn, ShiftRight, ShiftLeft, Complement, Bits, PpnStartBit, Word
<1>2. \E b \in 0..8 : flag = {b}
  BY SMT DEF Flags, PteValid, PteRead, PteWrite, PteCustom
<1> QED
  BY <1>1, <1>2 DEF Flag

\* Setting or clearing a flag changes neither the page nor another flag.
THEOREM FlagsIndependent ==
  ASSUME NEW entry \in Word, NEW flag \in Flags
  PROVE  /\ GetPpn(FlagSet(entry, flag)) = GetPpn(entry)
         /\ GetPpn(FlagClear(entry, flag)) = GetPpn(entry)
         /\ \A other \in Flags \ {flag} :
               /\ Flag(FlagSet(entry, flag), other) <=> Flag(entry, other)
               /\ Flag(FlagClear(entry, flag), other) <=> Flag(entry, other)
         /\ Flag(FlagSet(entry, flag), flag)
         /\ ~Flag(FlagClear(entry, flag), flag)
<1>1. PICK b \in 0..8 : flag = {b}
  BY SMT DEF Flags, PteValid, PteRead, PteWrite, PteCustom
<1>2. /\ FlagSet(entry, flag) \cap PpnMask = entry \cap PpnMask
      /\ FlagClear(entry, flag) \cap PpnMask = entry \cap PpnMask
  BY <1>1, PpnMaskBits, SMT DEF FlagSet, FlagClear, Complement, Bits, Word
<1>3. ASSUME NEW other \in Flags \ {flag}
      PROVE  /\ Flag(FlagSet(entry, flag), other) <=> Flag(entry, other)
             /\ Flag(FlagClear(entry, flag), other) <=> Flag(entry, other)
  <2>1. PICK c \in 0..8 : other = {c}
    BY SMT DEF Flags, PteValid, PteRead, PteWrite, PteCustom
  <2>2. c # b
    BY <1>1, <2>1
  <2> QED
    BY <1>1, <2>1, <2>2, SMT DEF Flag, FlagSet, FlagClear, Complement, Bits, Word
<1>4. Flag(FlagSet(entry, flag), flag) /\ ~Flag(FlagClear(entry, flag), flag)
  BY <1>1, SMT DEF Flag, FlagSet, FlagClear, Complement, Bits
<1> QED
  BY <1>2, <1>3, <1>4 DEF GetPpn

-----------------------------------------------------------------------------
(* PageEntries: the bits of an address.                                    *)

\* The index of a level is nine bits of the address.
LEMMA IndexIsNineBits ==
  ASSUME NEW address \in Word, NEW level \in 0..2
  PROVE  PageTableIndex(address, level)
           = {b \in 0..8 : b + (9 * level + 12) \in address}
  BY SMT DEF PageTableIndex, StartBit, ShiftLeft, ShiftRight, Bits, Word,
     IndexBits, OffsetBits

\* Two addresses with the same index at every level and the same offset are
\* the same in the 39 bits that the walk translates: distinct addresses never
\* share an entry and an offset.
THEOREM IndexesDetermineAddress ==
  ASSUME NEW a \in SUBSET (0..38), NEW b \in SUBSET (0..38),
         \A level \in 0..2 : PageTableIndex(a, level) = PageTableIndex(b, level),
         Offset(a) = Offset(b)
  PROVE  a = b
<1>1. a \in Word /\ b \in Word
  BY SMT DEF Word, Bits
<1>2. ASSUME NEW level \in 0..2, NEW i \in 0..8
      PROVE  i + (9 * level + 12) \in a <=> i + (9 * level + 12) \in b
  BY <1>1, IndexIsNineBits
<1>3. ASSUME NEW n \in 0..38 PROVE n \in a <=> n \in b
  <2>1. CASE n \in 0..11
    BY <2>1, SMT DEF Offset
  <2>2. CASE n \in 12..20
    <3>1. n - 12 \in 0..8 /\ (n - 12) + (9 * 0 + 12) = n
      BY <2>2, SMT
    <3> QED
      BY <1>2, <3>1, SMT
  <2>3. CASE n \in 21..29
    <3>1. n - 21 \in 0..8 /\ (n - 21) + (9 * 1 + 12) = n
      BY <2>3, SMT
    <3> QED
      BY <1>2, <3>1, SMT
  <2>4. CASE n \in 30..38
    <3>1. n - 30 \in 0..8 /\ (n - 30) + (9 * 2 + 12) = n
      BY <2>4, SMT
    <3> QED
      BY <1>2, <3>1, SMT
  <2> QED
    BY <2>1, <2>2, <2>3, <2>4, SMT
<1> QED
  BY <1>3, Zenon
=============================================================================
