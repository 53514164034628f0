-------------------------------- MODULE Vms --------------------------------
(***************************************************************************)
(* The virtual memory simulator of src/vms/src: a pool of pages (pages.c), *)
(* three-level page tables in those pages (page_table.c, pte.c), the MMU   *)
(* that walks them (mmu.c), and fork with and without copy-on-write with   *)
(* the page fault handler behind it (vms.c).  The program is sequential:   *)
(* one action is one call.  A process is the page of its root table; its   *)
(* mappings are made the way main.c makes them.                            *)
(*                                                                         *)
(* A page is used as a table or for data.  Nothing in the repository frees *)
(* a page, so the pages allocated are the first `used` ones.  A vms_read   *)
(* returns what is in the page it ends at, and changes nothing unless it   *)
(* faults.                                                                 *)
(***************************************************************************)
EXTENDS Integers, FiniteSets

CONSTANTS
    MaxPages,    \* MAX_PAGES
    Entries,     \* NUM_PTE_ENTRIES
    Addresses,   \* <<i, j, k>>: the indexes of an address at levels 2, 1, 0
    Modes,       \* the permissions the client maps every address with
    Offsets,     \* the offsets in a page that are written
    Values,      \* the values that are written
    MaxForks     \* bound of the model: how often fork is called

Index == 0..(Entries - 1)
Pages == 0..(MaxPages - 1)

ASSUME SizesAssumption == MaxPages \in Nat \ {0} /\ Entries \in Nat /\ MaxForks \in Nat
ASSUME AddressAssumption == Addresses \subseteq Index \X Index \X Index
ASSUME ModesAssumption ==
    \A a \in Addresses : Modes[a] \subseteq (SUBSET {"read", "write"}) \ {{}}
ASSUME ValuesAssumption == Values \subseteq Int

NoEntry == [ppn |-> 0, valid |-> FALSE, read |-> FALSE, write |-> FALSE,
            custom |-> FALSE]

VARIABLES
    machine,     \* running, or the errno the program exited with
    used,        \* used_pages
    tab,         \* the page table entries in every page
    val,         \* the data in every page: offset -> value
    arr,         \* arr: the counter of every page
    root,        \* root_page_table
    procs        \* the root tables the client has

vars == <<machine, used, tab, val, arr, root, procs>>

\* vms_init, and main's first vms_new_page and vms_set_root_page_table.
Init ==
    /\ machine = "running"
    /\ used = 1
    /\ tab = [p \in Pages |-> [i \in Index |-> NoEntry]]
    /\ val = [p \in Pages |-> [o \in Offsets |-> 0]]
    /\ arr = [p \in Pages |-> 0]
    /\ root = 0
    /\ procs = {0}

\* exit(errno)
Exit(errno) ==
    /\ machine' = errno
    /\ UNCHANGED <<used, tab, val, arr, root, procs>>

\* vms_new_page finds n more pages.
Room(n) == used + n <= MaxPages

\* Where an address leads under the root table r: the tables at levels 1 and
\* 0, and the entry at level 0.
Upper(r, a) == tab[r][a[1]]
Middle(r, a) == tab[Upper(r, a).ppn][a[2]]
Table0(r, a) == Middle(r, a).ppn
Leaf(r, a) == tab[Table0(r, a)][a[3]]

\* should_generate_fault is false at levels 2 and 1.
UpperWalks(e) == e.valid /\ ~e.read /\ ~e.write
Walks(r, a) == UpperWalks(Upper(r, a)) /\ UpperWalks(Middle(r, a))

Mapped(r, a) == Walks(r, a) /\ Leaf(r, a).valid

(***************************************************************************)
(* The client maps a page, with the tables it needs.  As in main.c it does *)
(* so before it forks (a bound of the model).                              *)
(***************************************************************************)
Pointer(p) == [NoEntry EXCEPT !.ppn = p, !.valid = TRUE]

Map(a, mode) ==
    /\ machine = "running"
    /\ procs = {root}
    /\ ~Mapped(root, a)
    /\ LET level1 == IF Upper(root, a).valid THEN 0 ELSE 1
           level0 == IF Walks(root, a) THEN 0 ELSE 1
           l1 == IF level1 = 0 THEN Upper(root, a).ppn ELSE used
           l0 == IF level0 = 0 THEN Table0(root, a) ELSE used + level1
           p0 == used + level1 + level0
       IN IF Room(level1 + level0 + 1)
          THEN /\ used' = p0 + 1
               /\ tab' = [tab EXCEPT
                      ![root][a[1]] = Pointer(l1),
                      ![l1][a[2]] = Pointer(l0),
                      ![l0][a[3]] = [Pointer(p0) EXCEPT !.read = "read" \in mode,
                                               !.write = "write" \in mode]]
               /\ UNCHANGED <<machine, val, arr, root, procs>>
          ELSE Exit("ENOMEM")

\* vms_set_root_page_table
Switch(r) ==
    /\ machine = "running"
    /\ r \in procs
    /\ root' = r
    /\ UNCHANGED <<machine, used, tab, val, arr, procs>>

(***************************************************************************)
(* Fork.  A page of a process is found by a path: an index for every level *)
(* down to it, and Stop for the levels below.                              *)
(***************************************************************************)
Stop == -1
Steps == Index \cup {Stop}

\* Every entry on the path w under the root r is valid.
Leads(r, w) ==
    /\ w[1] = Stop => w[2] = Stop
    /\ w[2] = Stop => w[3] = Stop
    /\ w[1] # Stop => Upper(r, w).valid
    /\ w[2] # Stop => Middle(r, w).valid
    /\ w[3] # Stop => Leaf(r, w).valid

PageAt(r, w) ==
    CASE w[1] = Stop -> r
      [] w[1] # Stop /\ w[2] = Stop -> Upper(r, w).ppn
      [] w[2] # Stop /\ w[3] = Stop -> Middle(r, w).ppn
      [] w[3] # Stop -> Leaf(r, w).ppn

\* The tables of a process, and all its pages.
TablePaths(r) == {w \in Steps \X Steps \X {Stop} : Leads(r, w)}
AllPaths(r) == {w \in Steps \X Steps \X Steps : Leads(r, w)}
Tables(r) == {PageAt(r, w) : w \in TablePaths(r)}

\* The recursion of recursive_cow and the loops of vms_fork_copy meet v before
\* w: a table before the pages below it, and these in the order of its entries.
Before(v, w) ==
    \/ v[1] < w[1]
    \/ v[1] = w[1] /\ v[2] < w[2]
    \/ v[1] = w[1] /\ v[2] = w[2] /\ v[3] < w[3]

\* The new page for the one at w, when those at `paths` are copied.
CopyOf(paths, w) == used + Cardinality({v \in paths : Before(v, w)})
Copies(paths) == {CopyOf(paths, w) : w \in paths}

\* The path of the page that p is a copy of.
Copied(paths, p) == CHOOSE w \in paths : CopyOf(paths, w) = p

\* The path through entry i of the table at w.
Down(w, i) ==
    CASE w[1] = Stop -> <<i, Stop, Stop>>
      [] w[1] # Stop /\ w[2] = Stop -> <<w[1], i, Stop>>
      [] w[2] # Stop -> <<w[1], w[2], i>>

\* Entry i in the copy of the page at w: where the page below is copied too,
\* it points to the copy.  (Mutation: it still points to the parent's.)
Original(paths, w, i) == tab[PageAt(root, w)][i]
Moved(paths, w, i) ==
    LET e == tab[PageAt(root, w)][i]
    IN IF e.valid /\ Down(w, i) \in paths
       THEN [e EXCEPT !.ppn = CopyOf(paths, Down(w, i))]
       ELSE e

\* A writable page, or one shared already, becomes copy-on-write.
\* (Mutation: the parent's entry stays writable.)
Shares(e) == e.valid /\ (e.write \/ e.custom)
ParentWrites(e) == e
Protected(e) ==
    IF Shares(e) THEN [e EXCEPT !.write = FALSE, !.custom = TRUE] ELSE e
InParent(e) == Protected(e)

\* How much a fork adds to arr for each entry it shares.  (Mutation: for the
\* child alone.)
OneMore == 1
TwoMore == 2

ForkCopyOnWrite ==
    /\ machine = "running"
    /\ Cardinality(procs) <= MaxForks
    /\ LET paths == TablePaths(root)
       IN IF Room(Cardinality(paths))
          THEN /\ used' = used + Cardinality(paths)
               /\ tab' = [p \in Pages |-> [i \in Index |->
                      IF p \in Copies(paths)
                      THEN Protected(Moved(paths, Copied(paths, p), i))
                      ELSE IF p \in Tables(root) THEN InParent(tab[p][i])
                      ELSE tab[p][i]]]
               /\ arr' = [p \in Pages |-> arr[p] + TwoMore * Cardinality(
                      {e \in Tables(root) \X Index :
                          Shares(tab[e[1]][e[2]]) /\ tab[e[1]][e[2]].ppn = p})]
               /\ procs' = procs \cup {used}
               /\ UNCHANGED <<machine, val, root>>
          ELSE Exit("ENOMEM")

\* vms_fork_copy: the data pages are copied too, all bits stay as they are.
ForkCopy ==
    /\ machine = "running"
    /\ Cardinality(procs) <= MaxForks
    /\ LET paths == AllPaths(root)
       IN IF Room(Cardinality(paths))
          THEN /\ used' = used + Cardinality(paths)
               /\ tab' = [p \in Pages |-> [i \in Index |->
                      IF p \in Copies(paths)
                      THEN Moved(paths, Copied(paths, p), i)
                      ELSE tab[p][i]]]
               /\ val' = [p \in Pages |->
                      IF p \in Copies(paths)
                      THEN val[PageAt(root, Copied(paths, p))]
                      ELSE val[p]]
               /\ procs' = procs \cup {used}
               /\ UNCHANGED <<machine, arr, root>>
          ELSE Exit("ENOMEM")

(***************************************************************************)
(* page_fault_handler at level 0 for the address a, whose entry is custom. *)
(* The counter of the new page goes to the wrong place: to the page table. *)
(***************************************************************************)
\* The page is taken to be shared: it is copied.
NeedsCopy(p) == arr[p] > 1

\* Where the entry points afterwards.
Target(a) ==
    LET p == Leaf(root, a).ppn IN IF NeedsCopy(p) THEN used ELSE p

\* The entry afterwards; without a count only its write bit is set.
Resolved(a) ==
    LET e == Leaf(root, a)
    IN [ppn |-> Target(a), valid |-> TRUE, write |-> TRUE,
        read |-> e.read \/ arr[e.ppn] >= 1, custom |-> arr[e.ppn] = 0]

\* memcpy of the page.  (Mutation: the new page stays empty.)
EmptyPage(p) == val[used]
Contents(p) == val[p]

\* A counter goes down to zero and not below.  (Mutation: it is not checked.)
Unchecked(n) == n - 1
CountDown(n) == IF n >= 1 THEN n - 1 ELSE n

\* The pages and the counters afterwards.
Handle(a) ==
    LET p == Leaf(root, a).ppn
        t == Table0(root, a)
    IN /\ used' = IF NeedsCopy(p) THEN used + 1 ELSE used
       /\ tab' = [tab EXCEPT ![t][a[3]] = Resolved(a)]
       /\ arr' = [q \in Pages |->
              CASE q = p -> CountDown(arr[p])
                [] q = t /\ NeedsCopy(p) -> 1
                [] OTHER -> arr[q]]

(***************************************************************************)
(* vms_write and vms_read.  The handler is called when the MMU finds an    *)
(* entry without read and write bits, or the access finds its own missing; *)
(* a second call would change nothing.                                     *)
(***************************************************************************)
Write(a, o, x) ==
    /\ machine = "running"
    /\ Mapped(root, a)
    /\ Leaf(root, a).write
    /\ val' = [val EXCEPT ![Leaf(root, a).ppn][o] = x]
    /\ UNCHANGED <<machine, used, tab, arr, root, procs>>

WriteFault(a, o, x) ==
    /\ machine = "running"
    /\ Mapped(root, a)
    /\ ~Leaf(root, a).write
    /\ Leaf(root, a).custom
    /\ IF NeedsCopy(Leaf(root, a).ppn) /\ ~Room(1)
       THEN Exit("ENOMEM")
       ELSE /\ Handle(a)
            /\ val' = [val EXCEPT
                   ![Target(a)] = [Contents(Leaf(root, a).ppn) EXCEPT ![o] = x]]
            /\ UNCHANGED <<machine, root, procs>>

WriteFatal(a) ==
    /\ machine = "running"
    /\ Mapped(root, a) => ~Leaf(root, a).write /\ ~Leaf(root, a).custom
    /\ Exit("EFAULT")

Read(a) ==
    /\ machine = "running"
    /\ Mapped(root, a)
    /\ Leaf(root, a).read
    /\ UNCHANGED vars

ReadFault(a) ==
    /\ machine = "running"
    /\ Mapped(root, a)
    /\ ~Leaf(root, a).read
    /\ Leaf(root, a).custom
    /\ arr[Leaf(root, a).ppn] >= 1
    /\ IF NeedsCopy(Leaf(root, a).ppn) /\ ~Room(1)
       THEN Exit("ENOMEM")
       ELSE /\ Handle(a)
            /\ val' = [val EXCEPT ![Target(a)] = Contents(Leaf(root, a).ppn)]
            /\ UNCHANGED <<machine, root, procs>>

ReadFatal(a) ==
    /\ machine = "running"
    /\ Mapped(root, a) =>
           /\ ~Leaf(root, a).read
           /\ Leaf(root, a).custom => arr[Leaf(root, a).ppn] = 0
    /\ Exit("EFAULT")

Stopped == machine # "running" /\ UNCHANGED vars

Next ==
    \/ \E a \in Addresses : \E mode \in Modes[a] : Map(a, mode)
    \/ \E r \in Pages : Switch(r)
    \/ ForkCopyOnWrite
    \/ ForkCopy
    \/ \E a \in Addresses, o \in Offsets, x \in Values : Write(a, o, x)
    \/ \E a \in Addresses, o \in Offsets, x \in Values : WriteFault(a, o, x)
    \/ \E a \in Addresses : WriteFatal(a)
    \/ \E a \in Addresses : Read(a)
    \/ \E a \in Addresses : ReadFault(a)
    \/ \E a \in Addresses : ReadFatal(a)
    \/ Stopped

Spec == Init /\ [][Next]_vars

(***************************************************************************)
(* Properties.                                                             *)
(***************************************************************************)
\* The variables have their types.
TypeOK ==
    /\ machine \in {"running", "EFAULT", "ENOMEM"}
    /\ used \in 1..MaxPages
    /\ tab \in [Pages -> [Index -> [ppn : Pages, valid : BOOLEAN,
                   read : BOOLEAN, write : BOOLEAN, custom : BOOLEAN]]]
    /\ val \in [Pages -> [Offsets -> Values \cup {0}]]
    /\ arr \in [Pages -> Nat]
    /\ root \in procs
    /\ procs \subseteq Pages

\* The mappings of a page p: processes with addresses.
Mappings(p) ==
    {m \in procs \X Addresses : Mapped(m[1], m[2]) /\ Leaf(m[1], m[2]).ppn = p}

\* A page that some process can write without a fault is mapped nowhere else.
WritableIsPrivate ==
    \A r \in procs, a \in Addresses :
        Mapped(r, a) /\ Leaf(r, a).write => Mappings(Leaf(r, a).ppn) = {<<r, a>>}

\* The counter of a page that is shared copy-on-write is at least the number
\* of its mappings: a fault copies while anybody else still uses the page.
\* (The converse fails: recursive_cow adds two for every fork, vms.c:168, so
\* that a counter above one need not be "two pointers", vms.c:28, and the last
\* process to map a page may copy it once more.)
CountCoversSharers ==
    \A r \in procs, a \in Addresses :
        LET p == Leaf(r, a).ppn
        IN Mapped(r, a) /\ Leaf(r, a).custom /\ Cardinality(Mappings(p)) > 1
               => arr[p] >= Cardinality(Mappings(p))

\* The tables of a process are its own; data pages alone are shared.
TablesArePrivate ==
    \A r, s \in procs : r # s =>
        Tables(r) \cap Tables(s) = {}

(***************************************************************************)
(* Every process sees a memory of its own.                                 *)
(***************************************************************************)
Memory ==
    [r \in procs |-> [a \in Addresses |->
        IF Mapped(r, a)
        THEN LET e == Leaf(r, a)
             IN [mapped |-> TRUE, val |-> val[e.ppn], readable |-> e.read,
                 writable |-> e.write \/ e.custom]
        ELSE [mapped |-> FALSE]]]

Private == INSTANCE PrivateMemory
    WITH Processes <- Pages, current <- root, memory <- Memory
ImplementsPrivate == Private!Spec
=============================================================================
