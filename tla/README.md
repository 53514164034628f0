# A verification project for the labs in this repository

The repository holds six independent C programs from an operating-systems
course. They share no code and no state. This directory models the five whose
source is there: the user-level thread library `wut`, the concurrent hash tables
`pht`, the virtual memory simulator `vms`, the writer of an ext2 image
`hello-ext2` and the process lister `tps`. TLC checks the models on small
instances; TLAPS proves theorems about the thread library, the hash tables and
the virtual memory simulator for every number of threads, keys, buckets, pages
and addresses, refinement included, about the image writer for every file it may
find and every number of runs that stop, and about the arithmetic of page table
entries, hashes and directory entries.

To check a run, `tlc -config X.cfg M`; to check the proofs of a module,
`tlapm M.tla`.

## 1. The system

### wut (`src/wut/src/wut.c`): modelled

Cooperative threads on `ucontext`.

* State. `list_head`, a FIFO of the ids of the threads that can run, whose
  first entry is by convention the running thread; `tcb_queue_head`, a list of
  control blocks sorted by id; in a control block the status, `waiter_id` and
  `waiting_id` (the two ends of a join), `has_exited`, the saved context and
  `init` (the first thread, which runs on the process's own stack).
* Operations. `wut_init`, `wut_id`, `wut_create`, `wut_yield`, `wut_cancel`,
  `wut_join`, `wut_exit`, and `_exit_cleanup`, which runs when the function of
  a thread returns (`uc_link`).
* Interaction. There is one processor: a thread runs until it calls a function
  that switches. Threads meet only in the two queues and the links.
* What is hard. A thread blocked in `wut_join` is in no queue, and three
  different paths (exit, return, cancellation) have to bring it back. `wut_join`
  keeps a pointer to its target's control block over a context switch, and ids
  are reused as soon as a block is freed. The running thread is never recorded:
  every call takes the head of the FIFO for it.
* What makes it correct. The head of the FIFO is the running thread; no wakeup
  is lost; the links agree and never form a cycle; a finished thread never runs
  and its status is collected once; ids are the lowest free ones; the FIFO is
  fair; the library never crashes.

`src/wut/pt.c` and `src/wut/trial.c` are earlier drafts that nothing builds.

### pht (`src/pht/src`): modelled

Three versions of one chained hash table, and a tester that fills each of them.

* State. An array of buckets, each with a singly linked list of key/value
  nodes. Version 1 has one static mutex, version 2 a mutex in every bucket.
* Operations. `create`, `add_entry` (insert or update), `contains`,
  `get_value`, `destroy`. Only `add_entry` locks.
* Interaction. The tester starts `threads` threads that each add `size`
  strings, joins them, counts the strings it cannot find, and destroys the
  table. It goes through the base version with a single thread.
* What is hard. The search and the insertion of one `add_entry` are separate
  steps; two ways out of the function each have to unlock; tests with random
  strings hardly ever meet the update path.
* What makes it correct. Calls are equivalent to atomic ones; a key is in one
  node; nothing is lost; every thread returns.

### vms (`src/vms/src`): modelled

A simulator of three-level page tables.

* State. A pool of `MAX_PAGES` pages (`pages.c`), used as tables or as data; in
  a table, entries with a page number and the bits valid, read, write and
  custom (`pte.c`); the current root table (`mmu.c`); a counter per page
  (`arr` in `vms.c`).
* Operations. Making a mapping (as `main.c` does), `vms_set_root_page_table`,
  `vms_fork_copy`, `vms_fork_copy_on_write`, `vms_read` and `vms_write`, which
  may call `page_fault_handler`.
* Interaction. The MMU calls back the fault handler in the middle of an
  access; the handler changes the entry the MMU then reads again.
* What is hard. Long sequences of forks and faults: the counters are not the
  numbers of mappings, one array counts tables and data pages, the parent's
  own table has to be changed by a fork, and the pool can run out in the middle
  of an access.
* What makes it correct. Every process sees a memory of its own.

### hello-ext2 (`src/hello-ext2/src/ext2-create.c`): modelled

A straight list of system calls that writes `hello.img`.

* State. The file; the file offset of its descriptor.
* Operations. `main` empties and extends the file, then writes superblock,
  group descriptor, two bitmaps, four inodes, two directory blocks and a file
  block. The first call that fails ends the program (`errno_exit`).
* What is hard. One fact is written down several times, by hand: a block in use
  is in a bitmap byte, in two free counts and in an inode. The superblock struct
  is longer than its block. The program may stop anywhere and start again on
  what is left, or on an image that has been mounted since.
* What makes it correct. What `fsck` checks: structures do not overlap, bitmaps
  and counts agree with what is used, directories can be walked and are
  connected, link counts are the numbers of entries.

### tps (`src/tps/src/main.c`): modelled

Reads `/proc` entry by entry, opens the `status` file of each process and
prints the name in it. Processes start and end meanwhile. What is hard: a
process may end after the kernel has read its entry ahead, before or after
`readdir` returns it, and before `open` or `read`; neither result is looked at
properly; the buffer of one round keeps what the round before read.
It is correct when every process is listed under its own name.

### Not modelled

* `ssp`: the repository holds its header and tests, not its implementation.
* `src/wut/pt.c` and `src/wut/trial.c`, which nothing builds.
* In `pht`, the parsing of arguments, the random strings and the timing of the
  tester; in `vms`, `vms_free_page`, which nothing calls.
* In `hello-ext2`, writes that the kernel has accepted and loses when the
  machine stops: the program calls no `fsync` and promises nothing.

## 2. The modules

| Module | What it is |
|---|---|
| `Wut` | the thread library, one action per call up to its return or context switch |
| `JoinableThreads` | abstract: threads that are ready, blocked or done, without queues and links |
| `WutProofs` | lemmas on sequences without repetitions (append, tail, removal, insertion); what holds for any client |
| `WutSafetyProofs` | the inductive invariant for a client that makes no hazardous call, and the safety theorems |
| `WutClientProofs` | the order of the FIFO, and that `Wut` implements `JoinableThreads` |
| `HashTable` | abstract: `hash-table-base.c` used atomically by any number of threads |
| `PhtThreads` | what versions 1 and 2 and their tester have in common |
| `HashTableV1`, `HashTableV2` | the two versions: `PhtThreads` with their mutexes |
| `PhtProofs` | the invariant of the table, the steps of the atomic one, and why the overflow of the hash does not matter |
| `HashTableV1Proofs`, `HashTableV2Proofs` | the inductive invariants of the two versions and their theorems |
| `BernsteinHash` | the hash function |
| `PrivateMemory` | abstract: a memory per process, fork copies it |
| `Vms` | pages, page tables, MMU, the two forks and the fault handler |
| `PageEntries` | the bit arithmetic of entries and addresses |
| `VmsProofs` | the inductive invariant of `Vms`, its theorems, the refinement of `PrivateMemory`; the theorems about `PageEntries` |
| `Ext2Create` | the system calls of `ext2-create`, failures and restarts, and what a reader of the image finds |
| `Ext2Proofs` | theorems: the properties of `Ext2Create`, and the length of directory entries |
| `Tps` | the loop of `tps` with the processes it lists |
| `MC*` | the values of the constants for TLC |

### Wut and wut.c

`fifo` is `list_head`, `tcbq` is `tcb_queue_head`; `status`, `waiter`,
`waiting`, `exited`, `ctx`, `isInit` are the fields of the control blocks as
functions of the id (the slot of a freed block has default values).

What executes is a code, the function a thread was created with or `main`, and
`cpu` is the code on the processor. The library does not record it: it takes
the head of the FIFO for the running thread, saves the executing code in the
context of that thread (`ctx[t]` is the code the context of `t` resumes), and
changes the links of that thread. A code starts with the id of its thread, and
a disciplined client never sees the difference (`RunningIsHead`, `Contexts`).
After a lone `wut_yield` there is one. `wut_create` still works, its thread
becomes the head of the FIFO and stands for the code that goes on running:
that code can then cancel the control block it was created with and run on
(`wut_cancel(0)` from `main`), be saved in the control block of the other
thread, or in two blocks one after the other, and its own block can be joined,
freed and its id given to a new thread. `Create` names the new thread's code
after its id unless a code of that name is still executing or saved somewhere
(`NewCode`); `Code` has one name more than there are ids for that.

`pend[c]` is the local `waited` of a code inside `wut_join`, which is also the
pointer that must not dangle; `stack[c]` is the control block whose stack `c`
runs on, and None when that stack was unmapped; `over` is the history of the
codes with nothing left to run: they exited, returned, or the only context they
were saved in was freed by `wut_cancel` (`Lost`).

An action is a call. `wut_cancel` is `Cancel`, `CancelRefused` (its -1
returns) and `CancelNoThread` (`wut_id` dies on an empty FIFO); `wut_join` is
`JoinReap`, `JoinBlock` followed by `JoinReturn`, `JoinRefused` and
`JoinNoThread`; both are `UnmapOwnStack` when the stack they would unmap is the
one they run on, which takes a lone `wut_yield` before; `wut_exit` is `Exit`,
`ExitLast`, `ExitUnlinked` and `ExitNowhere`; the return of a thread's function
is `Return` and `ReturnNowhere`, which with `ExitUnlinked` share `ExitCleanup`, the
translation of `_exit_cleanup`. `Resume` is `setcontext`: it loses the process
when the context was freed or the stack it runs on was unmapped.

`getcontext` leaves `uc_link` of the first thread as `malloc` found it
(wut.c:147 is commented out), so `linkNull` is chosen nondeterministically in
`Init`.

Four calls lie outside what the code survives. `Hazards` names them and the
constant `Hazardous` says which of them the client makes: with none the
library is correct (run `wut_threads`, the theorems), with each one there is a
run that shows what happens.

Left out: failures of `malloc`, `mmap` and `munmap`; `main` returning, which
ends the process; the memory itself (the stack that `wut_join` leaks for a
thread that was cancelled, the traversal of the final clean-up that reads the
link of a block it has just freed, which glibc leaves intact).

`JoinableThreads` is what a client may rely on: which threads exist, which one
runs, who is blocked on whom, and the outcomes. A blocked thread can go on as
soon as its target is done, and the process ends only when every thread is
done. `Wut!ThreadsView` maps the control blocks to it: `has_exited` is the
phase `done`, `pend` is `blocked`. FIFO order, links, contexts and the history
are hidden; a wakeup in `Wut` is a step in which `JoinableThreads` stutters.

### PhtThreads, HashTableV1, HashTableV2, BernsteinHash

`pc[t]` says where thread `t` is in `add_entry`. The steps are the lock, the
search, the overwriting of a value, the allocation of a node with its pointer
to the old head, the store of the new head, and the unlock with the return. A
node is named by the call that allocated it, `link[t]` is the list behind the
node that `t` is about to insert. A search is one step because the nodes behind
a head never change while they are linked. `data` holds the strings and is any
assignment of keys to calls, so that keys repeat within and between threads.
`BucketOf` stands for `bernstein_hash(key) % HASH_TABLE_CAPACITY` and may be any
function. In the instances it is the bucket of real strings, some of which
share one; an assumption of the MC modules compares it with `BernsteinHash`.

A mutex that was destroyed has the owner `Destroyed` and can be taken by nobody.

`contains` is called as the tester calls it, after the joins. It takes no
lock: calling it while threads add is a data race that no caller in the
repository makes. `get_value`, which nothing calls, has the same search.

### Vms

A process is the page of its root table. `tab[p]` and `val[p]` are the entries
and the data of page `p`; a page is used for one of them.

A page of a process is named by its path: an index for each level down to it
and `Stop` for the levels below, so that `<<Stop, Stop, Stop>>` is the root
table and an address is a path without `Stop`. `TablePaths` are the paths that
the recursion of `recursive_cow` takes from level 2, `AllPaths` those of the
nested loops of `vms_fork_copy`, which copies data pages too. Both visit a table
before what is below it and the entries of a table in their order (`Before`),
and take a new page at each visit: the copy of the page at a path is `used` plus
the number of paths before it (`CopyOf`), and the entry that led to the page
leads to its copy (`Moved`). The counters are updated as the handler does, the new page's
counter included, which it writes at the index of the page table (vms.c:35).
`WriteFault` and `ReadFault` are an access with the handler it triggers, once
or twice; the second call changes nothing. Running out of pages ends the
program, so that a half-made fork is seen by nobody.

`Map` is enabled only while there is one process, the way `main.c` maps before
it forks: a client that changed the tables of two processes by hand could
break anything. `vms_free_page` has no caller and is left out; pages are
therefore allocated in order.

Table entries are records of a page and four flags, addresses are triples of
indexes and offsets are separate. `PageEntries` says why that is right: it
translates the masks and shifts of `pte.c` and `page_table.c`, a word being the
set of its bits, and `VmsProofs` proves that a page comes back out of an entry, that flags
and page do not disturb each other, and that indexes and offset determine the
translated bits of an address.

### Ext2Create

The program is the constant `Script`, the list of its system calls with what
they write; each `write_...` function is the operator of that name. `disk` maps
byte offsets to the structures that begin there, zeros left out, so that
writing a structure removes what it overlaps (`Put`): the last 28 bytes of the
superblock are zeros in the descriptor's block, which is why the order of
`WriteGroup` matters. The actions execute a call: whole, or a write that is
short (what is left of it is `torn`), or not at all (`Stop`, also a kill).
`RunAgain` starts the program on whatever file there is.

The properties read the image as its user would, from the superblock and the
descriptor on. Four are about the image when `main` returns;
`ReferencesResolve` is about every moment. The old file is any set of
structures, of at least a byte each, that end where an image ends
(`OldFilesAssumption`): nothing else is known of what a user has mounted.

### Tps

`procs` changes at any time. The kernel hands out entries in batches
(`ReadAhead`), so that an entry may name a process that is gone. `buf` is the
process whose name is in the buffer, or `Unknown` when no newline is known to be
there (at the start, or after a long name): then the scan runs past its end,
and may do anything. In every round the array has the same place on the stack
and only its first byte is overwritten.

## 3. The runs

| Run | Instance | What it shows |
|---|---|---|
| `wut_threads` | `MaxTid = 3`, no hazardous call | the properties of `Wut` for up to four threads, liveness included; `Wut` implements `JoinableThreads` |
| `wut_any_client` | `MaxTid = 2`, every hazardous call | what survives them: no code is run after its end, ids are the lowest, outcomes are kept |
| `wut_yield_alone`, `wut_main_exit`, `wut_last_exit`, `wut_unreaped` | `MaxTid = 2`, one hazardous call each | the four findings on `wut.c` |
| `pht_v2` | 3 threads, 2 calls each | mutual exclusion per bucket, the search stays valid, no key twice, nothing missing, every thread ends, and `HashTableV2` implements `HashTable` |
| `pht_v1` | 2 threads, 2 calls each | one thread inside at a time; implements `HashTable`; ends when no string repeats |
| `pht_v1_leak` | the same | the finding on `hash-table-v1.c` |
| `vms_cow` | 19 pages, 2 entries a table, 2 addresses, 2 forks | `Vms` implements `PrivateMemory`; writable pages are private; tables are private; counters cover the sharers |
| `ext2` | no file or a used one, 2 runs of the program | the finished image is consistent, an unfinished one has no dangling reference |
| `tps` | 3 processes, one with a long name | the finding on `tps` |

Deadlock is checked in every passing run but `pht_v1`, where the threads do
stop for ever after an update.

### Bounds, and why they are enough

* `MaxTid` bounds the number of control blocks, nothing else: `Create` has no
  other guard. Four threads allow a joiner, its target, a bystander and a
  canceller at once, a chain of three joins, and the reuse of a freed id below
  ids in use. In `wut_any_client` codes and control blocks come apart and there
  are some 430,000 states for three of them. Three are enough for that run:
  `main` is cancelled while it runs, its block is freed and its id reused while
  its code is running or saved elsewhere, two blocks hold one code, and either
  of the two is cancelled, joined or switched to.
* `ExitArgs` are -1 and 256, one below and one above what fits a byte.
* `NThreads`, `Size` and the keys. Two of three keys share a bucket (two of
  four in each bucket for version 1, which needs as many keys as calls to have
  runs without a repeated string) and every assignment of keys to calls is an initial state, so that two threads insert
  one key, update one key, and work in one bucket on different keys, in every
  order. With three threads one can wait while another is overtaken.
* `MaxPages = 19` is enough for three processes with both pages mapped and for
  some copies, and too little for all: the pool runs out in every place where
  it can. `MaxForks = 2` is the least number for which the counters go wrong,
  and lets a child fork too. The two addresses lie under different tables at
  every level; one is mapped readable and writable or writable only, the other
  read-only. Two offsets tell a page that was copied from one that was not;
  one value differs from the initial zero.

* `MaxRuns = 2`: the second run starts from every state the first can leave;
  since the file is emptied first a third would find nothing new. The used
  image has one more inode, block and directory entry, which are the three
  things that could stay behind. The sizes of the image are those of the code.
* `tps`: two processes make a stale name, the third has a name that is too long.

### Fairness

* `Wut`: `WF(Switch)` and `WF(JoinReturn)`. The library is cooperative and
  cannot take the processor away, so it can promise progress only if the
  running thread makes a switching call sooner or later; `JoinReturn` is the
  library's own code, which runs to its end. No fairness is assumed for a
  particular thread or a particular call.
* `HashTableV1`, `HashTableV2`: weak fairness of every thread and of `main`.
  The kernel runs every thread that is not blocked. Weak fairness of a thread
  says nothing of one that waits for a mutex others keep taking, and none is
  needed: every thread makes finitely many calls.

## 4. The proofs

### wut

The theorems hold for every value of `MaxTid`, `ExitArgs` and `linkNull`.

For any client, whatever hazardous calls it makes (`WutProofs`):

* `TypeCorrect`: every variable keeps its type.
* `TidsStaySorted`, by induction with the type invariant: the list of control
  blocks is strictly ordered by id. `LowestTidFirst` follows: the scan of
  `wut_create`, which compares an id with its position, stops at the lowest
  free id (`ScanLemma`), because in a strictly ordered list of naturals no id
  is below its position.
* `NoThreadResurrected` and `OutcomesKept`, from the invariant `AnyInv`. A
  hazardous call breaks most of what a disciplined client relies on:
  `YieldAlone` leaves the processor to a code whose thread is not in the FIFO,
  `ExitUnlinked` marks the next thread as exited in place of the one that ends,
  and the thread at the head of the FIFO need not be the one that executes.
  What survives while the process runs is said of the control blocks that are
  not marked as exited:
  * `QueueOK`: they alone are in the FIFO, each once;
  * `LinksOK`: their links agree, and nobody in the FIFO is to be woken;
  * `CodesOK`: those that queue or links can bring back to the processor
    (`Parked`, all but the head) resume different codes, none of them over,
    each inside the `wut_join` its thread waits in. Two blocks may hold one
    code, but only one of the two can then be switched to;
  * `RunningOK`: the executing code is not over, is saved in no context that
    can be resumed, and is inside `wut_join` exactly when the thread at the
    head of the FIFO waits on one.

  So a code that is over is never switched to, and the block of an exited
  thread is freed only for its joiner or, without one, by the caller. The
  history is needed for every code: `main` may be marked as cancelled, its
  context freed, and still not be over, because it executes.

For a client that makes no hazardous call, which the theorems assume by name
(`Disciplined == Hazardous = {}`), `WutSafetyProofs` proves `Spec => []IInv`.
None of the properties is inductive alone. `IInv` joins

* `TypeOK`, `TidsSorted`, `RunningIsHead`, `ReadyOnce`, `WaitersAgree`,
  `ExitedMeansOver`, `NoWaitCycle`;
* `ProcOK`: the process runs, or has left with an empty FIFO;
* `Contexts`: a context resumes its own thread, on a stack that is mapped, and
  only a cancelled thread's is freed early. It is why no switch loses the
  process;
* `ExitedWaitNot`: a thread that exited waits on nobody. With `QueuedIff` it is
  why a thread can be woken only once;
* `QueuedIff`: a thread that has not exited is out of the FIFO exactly while
  it waits on one that has not exited. It is the heart of the argument:
  `wut_join` accepts a target in the FIFO or an exited one, and by `QueuedIff`
  such a target waits on nobody, so no cycle closes.

From it follow `RunningThreadIsHead`, `FlagsTellTheTruth`, `NoWakeupLost`,
`WaitLinksAgree`, `NoWaitCycles`, `ReadyQueue`, `NoCrash` and
`NobodyLeftBehind`. The last is where `NoWaitCycle` is needed: with an empty
FIFO every thread that has not exited waits on another such thread, and a
non-empty set of those would contain one that waits outside of it
(`EmptyMeansOver`). `NoWaitCycle` quantifies over sets of threads, not paths:
in that form no recursion is needed, and removing a link preserves it by logic
alone (`FewerWaits`).

There is one lemma per action (`CreateInv`, `YieldInv`, `CancelInv`,
`ReapInv`, `JoinBlockInv`, `EndInv`, ...).

`WutClientProofs` uses `IInv` for two statements about steps.

* `ServedInOrder`: the FIFO is served in order. A switch removes the head, and
  what it or a cancellation puts back goes to the end, so the others move one
  place forward in a switch and never back (`PosTail`, `PosAppend`,
  `PosRemove`).
* `LibraryIsThreads`: `Wut` implements `JoinableThreads`. `ViewOK` is what the
  mapping needs of the invariant: the threads that `JoinableThreads` calls
  runnable are those in the FIFO, the running one is `cpu`, and a thread is
  `done` when it is marked as exited. Each action then has a lemma that shows
  it to be an action of `JoinableThreads` or a stutter (`CreateView`,
  `YieldView`, `CancelView`, `JoinBlockView`, `JoinReapView`, `JoinReturnView`,
  `FinishView`); the end of the process is allowed there because of
  `LeftBehindInv`, the lemma behind `NobodyLeftBehind`.

### pht

The theorems hold for every number of threads, of calls, of keys and of
buckets, and for every assignment of keys to calls and to buckets.

`TableInv` in `PhtProofs` is the part of the invariant that knows nothing of
mutexes. It joins `ThreadsTypeOK`, `OneEntryPerKey`, `NothingMissing` and

* `CallsOK`: what the search of a call found out is so until the call is over;
* `AfterJoin`: once `main` has joined the threads none is inside;
* `PastNodes`: a linked node was allocated by a call that has taken effect, so
  a new node is new;
* `KeptCalls`: the key of every call that has taken effect is in the table.

A step of one thread keeps `CallsOK` of another because they are in different
buckets. That is `MutualExclusion`, which each version gets from its own
mutexes: `OwnersInside` in `HashTableV2Proofs` (a mutex is held by `t` exactly
while `t` is inside on its bucket), `OneThreadInside` in `HashTableV1Proofs`.
The lemmas of `PhtProofs` (`EnterInv`, ...) assume only `TableInv` and that
exclusion, and both versions cite them. `IInv` is `TypeOK`, `TableInv` and the
statement about the mutexes.

`ConcurrentIsAtomic` and `LockedIsAtomic` show that the versions implement
`HashTable`: a call takes effect in `Update` or `Insert`, `main`'s steps are
those of the atomic tester and everything else stutters. That the search of the
atomic table finds a key exactly when the concurrent one did is `CallsOK`. For
version 1 this and `OneThreadAdds` hold although an update leaks the mutex:
that costs progress only.

`BucketIgnoresOverflow`: the capacity divides 2^32, so the 32-bit overflow of
the hash never reaches the bucket.

### vms

The theorems hold for every number of pages, of entries in a table and of
forks, every set of addresses and every choice of permissions. The assumptions
are that there is a page, that addresses are triples of indexes and that the
client maps a page with at least one permission, as an entry without any would
be taken for one that leads to a table.

`TypeCorrect` is inductive alone; that the copies of a fork are pages is
counting: different paths have different numbers of paths before them, all less
than the number of paths (`CopiesDiffer`), and `Room` was asked for as many.

`IInv` joins to `TypeOK` and `CountCoversSharers`

* `InUse`: no root and no entry names a page beyond `used`, and those pages are
  empty. It is why a new page collides with nothing;
* `UpperPlain`: an entry that leads to a table has no permission and is not
  marked copy-on-write. The MMU takes a step down only through such entries
  (`should_generate_fault`), the forks through every valid one: by `UpperPlain`
  both walk the same paths (`MappedPath`), and protecting the entries of a page
  that `recursive_cow` visits at level 0 changes no upper one;
* `OwnTables`: a table is found by one path of one process and is no data page.
  `TablesPrivate` follows from it, and that an entry the fault handler changes
  is seen by the faulting process at the faulting address only;
* `MappedOnce`: a process has a page at one path, so that the sharers of a page
  are different processes;
* `Sharing`: processes that have the same page agree on whether it is
  copy-on-write, and an entry with the write bit is the only one for its page.
  `WritablePrivate` follows;
* `KnownAddresses`: nothing is mapped that the client did not name. Without it
  two processes could share a page at an address the counters do not count.

The heart is `FaultSharing`. The handler sets the write bit without a copy when
the counter is at most one (vms.c:28); by `CountCoversSharers` a page that
several entries name has a counter of two at least (`NotShared`), so the bit is
set for a page of one process. The counters themselves go up by two for each
entry a fork shares and down by one in a fault, and the handler sets to one the
counter of the page *table* instead of that of the new page (vms.c:35): the
bound survives because a table is no data page (`OwnTables`), and because a fork
adds one mapping for each that the running process has (`OnWriteCounts`).

One lemma says what a step does to paths and entries (`ForkOld`, `ForkChild`,
`FaultWalk`, `MapWalk`); the conjuncts of the invariant follow from those. What
the two forks have in common is `ForkOf`.

`MemoryIsPrivate`: `Vms` implements `PrivateMemory`. `View(r, a)` is what the
process `r` sees at `a`. A write or fault changes one view (`AccessCells`), by
`Sharing` and `NotShared`; a mapping too; a fork leaves all views and gives the
child those of the parent (`ForkStep`), the write bit that becomes a
copy-on-write mark being the same permission to the process.

### hello-ext2

For every old file that fits into an image, and for any number of runs, each of
which may stop at any call (`Ext2Proofs`). Two lemmas lay the program out:
`Seeks` and `Writes` say what call number *k* of `Script` is, and `At` where the
descriptor stands before it. `WritesApart` is the fact about the layout that
matters: no write touches what an earlier one has written. The superblock's
write does go beyond its block, and the proof works because it comes first.

The invariant (`Inv`) says, beside the types, that while a run has not stopped
the descriptor is at `At[pc]`, and once the file has been emptied (`pc > 2`) it
holds exactly what the writes before `pc` wrote (`HasWritten`, `OnlyWritten`).
It says nothing of the content after a run that stopped, and needs not: the
next run begins with `ftruncate` to 0, and the cut leaves nothing because no
structure is empty.

* `TypeCorrect`: nothing goes beyond the end of the file.
* `ImageIsFresh`: when `main` returns the file is `Image`, the same for every
  old file and every history of stopped runs.
* `ReferencesHold`: `ReferencesResolve` holds at every moment if it did before
  the first run. Of a partial image (`WrittenOrTorn`, a short write included)
  it follows from the order of the calls: inodes are found only when both
  bitmaps are written, entries only when all inodes are.
* `BlocksAgree`, `InodesAgree`, `DirectoriesAgree`, `LinksAgree`: the four
  properties of the finished image. `BlockBits` and `InodeBits` compute the
  bitmaps, bit by bit, from the bytes the code writes; the counts are
  cardinalities of intervals and of small sets.

### Arithmetic

The four results on `PageEntries` (above) and `RecLenIsLeast` (an entry gets the
least multiple of four with room for header and name) hold for all words,
addresses and lengths.

### Only model-checked

* Liveness: `ReadyRuns`, `JoinEnds`, `TesterEnds`, `DistinctStringsEnd` need
  fairness and `ENABLED`, which the prover does not have.
* What a fold computes for every input, as in `BucketIndex`: that needs
  induction over data.
* The mutex that is held outside (`HeldInside` of `HashTableV1`) and the other
  violated properties have counterexamples, not proofs.

## 5. What disagrees with what the code says

Each has a run of its own (kind `violation`).

1. `wut_yield` by the only ready thread removes it from the FIFO and returns
   -1 (wut.c:227-231) although "the current thread is in FIFO queue since it's
   still running" (wut.c:225). A thread created then stands for the running
   one in every later call, which can cancel its own id and run on.
2. `wut_exit` by the first thread, when its `uc_link` is NULL, removes itself
   and then enters `_exit_cleanup`, which takes the next thread for "the
   thread that just finished" (wut.c:77).
3. `wut_exit` by the final thread enters `_exit_cleanup` with an empty FIFO
   and crashes instead of cleaning up (wut.c:454-457, 100).
4. The final clean-up reads the stack of a cancelled thread out of a context
   that `wut_cancel` set to NULL (wut.c:106, 323).
5. `hash_table_v1_add_entry` returns from an update with the mutex locked.
6. `tps` takes the -1 of a failed `open` for success (main.c:33) and prints the
   name that is still in its buffer: a process that ended after the kernel read
   its entry ahead, before or after `readdir` returned it, is listed under the
   name of another, not the one "in status file" (main.c:23, 34).

Two more that have no run. `recursive_cow` adds two to the counter of a page
for every fork, also when the page is shared already (vms.c:168): a counter
above one does not mean "two pointers pointing at it" (vms.c:28). The effect is
a page copied once too often; no process sees another's writes, as `vms_cow`
shows. And `vms_page_to_ppn` asserts that an address has at most 60 bits,
where an entry holds 56 of them (`PageComesBack`); the addresses of a user
process have 47.

## 6. Plan

Done, in this order: `Wut` and its runs; its type invariant and sorted list;
the safety theorems; the abstract table and the two concurrent ones; `Vms` and
`PrivateMemory`; `Ext2Create`; `JoinableThreads`; the mutexes' end; `Tps`;
`PageEntries` and `BernsteinHash`.

The proofs of `RoundRobin` and of the refinement of `JoinableThreads`; the
properties that hold for any client; the invariants and the refinement of the
two concurrent tables; those of `Vms`; the properties of `Ext2Create`.

With that, every safety property, action property and refinement that a passing
run checks has a theorem; liveness stays with TLC. Left: `Tps`, of which only
the violated property is checked, could get theorems about the entries it lists
while no process ends.
