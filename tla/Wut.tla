-------------------------------- MODULE Wut --------------------------------
(***************************************************************************)
(* The user-level thread library of src/wut/src/wut.c: cooperative threads *)
(* on ucontext, a FIFO of the threads that can run (list_head) whose first *)
(* entry is the running thread, and a list of thread control blocks sorted *)
(* by thread id (tcb_queue_head).  One action is one call of the library   *)
(* up to its return or to the context switch it ends in; a thread blocked  *)
(* in wut_join finishes that call in JoinReturn when it is resumed.        *)
(*                                                                         *)
(* What executes is a code: the function a thread was created with, or     *)
(* main.  The code on the processor is cpu; the thread the library takes   *)
(* for the running one is the head of the FIFO, and that is all it looks   *)
(* at.  A code has the id of its thread, until a client yields alone: from *)
(* then on codes and control blocks may come apart.                        *)
(***************************************************************************)
EXTENDS Integers, SequencesExt

CONSTANTS
    MaxTid,      \* bound on thread ids: at most MaxTid + 1 control blocks
    ExitArgs,    \* the values threads pass to wut_exit
    Hazardous    \* the calls outside the library's working range that the
                 \* client makes, a subset of Hazards

Hazards == {
    "yieldAlone",   \* wut_yield by the only thread of the FIFO
    "lastExit",     \* wut_exit by the last thread that can run
    "mainExit",     \* wut_exit by the initial thread when its uc_link is NULL
    "unreaped"}     \* the last thread returns, a cancelled one was not joined

ASSUME MaxTidAssumption == MaxTid \in Nat
ASSUME ExitArgsAssumption == ExitArgs \subseteq Int
ASSUME HazardousAssumption == Hazardous \subseteq Hazards

Tid == 0..MaxTid
Code == 0..(MaxTid + 1)       \* one per control block, and the running one
None == -1                    \* waiter_id and waiting_id of a fresh tcb
CancelStatus == 128
ProcessStack == -2            \* the stack main runs on
Procs == {"running", "exited", "died", "crashed"}

VARIABLES
    proc,      \* the process: running, exit(0), exit(errno), killed by a signal
    cpu,       \* the code that is executing
    fifo,      \* list_head: ids in queue order
    tcbq,      \* tcb_queue_head: ids in list order
    status,    \* tcb.status
    waiter,    \* tcb.waiter_id, the thread waiting on this one
    waiting,   \* tcb.waiting_id, the thread this one waits on
    exited,    \* tcb.has_exited
    ctx,       \* tcb.context: whose code it resumes, None when it was freed
    isInit,    \* tcb.init: runs on the process's own stack
    stack,     \* the tcb on whose stack a code runs, None when unmapped
    pend,      \* the local `waited` of a code inside wut_join, or None
    over,      \* history: the codes with nothing left to run (or not created)
    linkNull   \* the uninitialised uc_link of thread 0 happens to be NULL

vars == <<proc, cpu, fifo, tcbq, status, waiter, waiting, exited, ctx,
          isInit, stack, pend, over, linkNull>>

Live == ToSet(tcbq)           \* the ids that have a control block
Queued == ToSet(fifo)
Me == Head(fifo)              \* what wut_id returns
Pos(q, t) == CHOOSE i \in 1..Len(q) : q[i] = t

(***************************************************************************)
(* Building blocks.                                                        *)
(***************************************************************************)
\* The code on the processor is the client's, free to call the library.
Active == proc = "running" /\ pend[cpu] = None

\* The process stops here; nothing of it can be observed any more.
Halt(how) ==
    /\ proc' = how
    /\ UNCHANGED <<cpu, fifo, tcbq, status, waiter, waiting, exited, ctx,
                   isInit, stack, pend, over, linkNull>>

\* The queue q after the waiter of t, if t has one, was put at its back.
\* (Mutations: the waiter is not woken; it is put at the front.)
NoWake(q, t) == q
WakeFirst(q, t) == IF waiter[t] \in Live THEN <<waiter[t]>> \o q ELSE q
WakeWaiter(q, t) == IF waiter[t] \in Live THEN Append(q, waiter[t]) ELSE q

\* delete_stack for the thread t, and whether it returns: the code that calls
\* it may be running on that stack.
Unmapped(t) == [c \in Code |-> IF stack[c] = t THEN None ELSE stack[c]]
OtherStack(t) == stack[cpu] # t

\* setcontext or swapcontext to the head of q, with the contexts in c: the
\* process is lost when that context was freed, or its stack unmapped.
\* (Mutation: it switches to the last thread of the queue.)
Resume(q, c, next) ==
    /\ fifo' = q
    /\ IF q # <<>> /\ next \in Live /\ c[next] # None /\ stack[c[next]] # None
       THEN cpu' = c[next] /\ UNCHANGED proc
       ELSE proc' = "crashed" /\ UNCHANGED cpu
SwitchToLast(q, c) == Resume(q, c, Last(q))
SwitchTo(q, c) == Resume(q, c, Head(q))

\* The tcb of t is unlinked and freed, its stack unmapped if wut_cancel has not
\* done so: the slot goes back to the defaults.
Free(t) ==
    /\ tcbq' = RemoveAt(tcbq, Pos(tcbq, t))
    /\ status' = [status EXCEPT ![t] = 0]
    /\ waiter' = [waiter EXCEPT ![t] = None]
    /\ exited' = [exited EXCEPT ![t] = FALSE]
    /\ ctx' = [ctx EXCEPT ![t] = None]
    /\ isInit' = [isInit EXCEPT ![t] = FALSE]
    /\ stack' = Unmapped(t)

(***************************************************************************)
(* wut_init.                                                               *)
(***************************************************************************)
Init ==
    /\ proc = "running"
    /\ cpu = 0
    /\ fifo = <<0>>
    /\ tcbq = <<0>>
    /\ status = [t \in Tid |-> 0]
    /\ waiter = [t \in Tid |-> None]
    /\ waiting = [t \in Tid |-> None]
    /\ exited = [t \in Tid |-> FALSE]
    /\ ctx = [t \in Tid |-> IF t = 0 THEN 0 ELSE None]
    /\ isInit = [t \in Tid |-> t = 0]
    /\ stack = [c \in Code |-> IF c = 0 THEN ProcessStack ELSE None]
    /\ pend = [c \in Code |-> None]
    /\ over = Code \ {0}
    /\ linkNull \in BOOLEAN

(***************************************************************************)
(* wut_create.  The scan stops at the first tcb whose id is larger than    *)
(* the number of tcbs before it, or at the end of the list.                *)
(***************************************************************************)
\* (Mutation: gaps are not looked for.)
ScanAtEnd(i) == i = Len(tcbq) + 1
ScanStops(i) ==
    /\ \A j \in 1..(i - 1) : tcbq[j] <= j - 1
    /\ i <= Len(tcbq) => tcbq[i] > i - 1

\* The code of a new thread t: t, unless a code of that id outlived its own
\* control block and is executing or saved in the context of another one.
InUse == {cpu} \cup {ctx[t] : t \in Tid}
NewCode(t) == {c \in Code \ InUse : t \notin InUse => c = t}

\* The bound of the model: there are never more than MaxTid + 1 control blocks.
Create ==
    /\ Active
    /\ Len(tcbq) <= MaxTid
    /\ \E i \in 1..(Len(tcbq) + 1) :
        LET t == i - 1
        IN /\ ScanStops(i)
           /\ fifo' = Append(fifo, t)
           /\ tcbq' = InsertAt(tcbq, i, t)
           /\ status' = [status EXCEPT ![t] = 0]
           /\ waiter' = [waiter EXCEPT ![t] = None]
           /\ waiting' = [waiting EXCEPT ![t] = None]
           /\ exited' = [exited EXCEPT ![t] = FALSE]
           /\ isInit' = [isInit EXCEPT ![t] = FALSE]
           /\ \E c \in NewCode(t) :
                /\ ctx' = [ctx EXCEPT ![t] = c]
                /\ stack' = [stack EXCEPT ![c] = t]
                /\ pend' = [pend EXCEPT ![c] = None]
                /\ over' = over \ {c}
    /\ UNCHANGED <<proc, cpu, linkNull>>

(***************************************************************************)
(* wut_yield.  A thread alone in the FIFO is removed from it and the call  *)
(* returns -1 without putting it back.                                     *)
(***************************************************************************)
YieldNowhere ==
    /\ Active
    /\ fifo = <<>>
    /\ Halt("crashed")

YieldAlone ==
    /\ "yieldAlone" \in Hazardous
    /\ Active
    /\ Len(fifo) = 1
    /\ fifo' = <<>>
    /\ UNCHANGED <<proc, cpu, tcbq, status, waiter, waiting, exited, ctx,
                   isInit, stack, pend, over, linkNull>>

\* The running thread goes to the back.  (Mutation: behind the next thread.)
SwapFirst == <<fifo[2], fifo[1]>> \o SubSeq(fifo, 3, Len(fifo))
Rotated == Append(Tail(fifo), Me)

Yield ==
    /\ Active
    /\ Len(fifo) > 1
    /\ ctx' = [ctx EXCEPT ![Me] = cpu]
    /\ SwitchTo(Rotated, ctx')
    /\ UNCHANGED <<tcbq, status, waiter, waiting, exited, isInit, stack, pend,
                   over, linkNull>>

(***************************************************************************)
(* wut_cancel(id).                                                         *)
(***************************************************************************)
CancelNoThread ==
    /\ Active
    /\ fifo = <<>>
    /\ Halt("died")

\* (Mutation: has_exited is not looked at.)
CancellableZombie(id) == id # Me /\ id \in Live
Cancellable(id) == id # Me /\ id \in Live /\ ~exited[id]

CancelRefused(id) ==
    /\ Active
    /\ fifo # <<>>
    /\ ~Cancellable(id)
    /\ UNCHANGED vars

\* The FIFO without the thread id.  (Mutation: it stays queued.)
StillQueued(id) == fifo
Without(id) ==
    IF id \in Queued THEN RemoveAt(fifo, Pos(fifo, id)) ELSE fifo

\* The thread id waits on another, whose waiter_id is to be reset.
\* (Mutation: the link is forgotten.)
ForgetsLink(id) == FALSE
WaitsOnLive(id) == waiting[id] \in Live

\* The code whose only context is that of thread id, if there is one.
Lost(id) ==
    {c \in Code \ {cpu} : ctx[id] = c /\ \A t \in Tid \ {id} : ctx[t] # c}

Cancel(id) ==
    /\ Active
    /\ fifo # <<>>
    /\ Cancellable(id)
    /\ OtherStack(id)
    /\ exited' = [exited EXCEPT ![id] = TRUE]
    /\ fifo' = WakeWaiter(Without(id), id)
    /\ IF WaitsOnLive(id)
       THEN /\ waiting' = [waiting EXCEPT ![id] = None]
            /\ waiter' = [waiter EXCEPT ![waiting[id]] = None]
       ELSE UNCHANGED <<waiting, waiter>>
    /\ ctx' = [ctx EXCEPT ![id] = None]
    /\ status' = [status EXCEPT ![id] = CancelStatus]
    /\ stack' = Unmapped(id)
    /\ pend' = [c \in Code |-> IF c \in Lost(id) THEN None ELSE pend[c]]
    /\ over' = over \cup Lost(id)
    /\ UNCHANGED <<proc, cpu, tcbq, isInit, linkNull>>

(***************************************************************************)
(* wut_join(id).  A target that has exited is reaped at once; the caller   *)
(* leaves the FIFO until a running one exits.                              *)
(***************************************************************************)
JoinNoThread(id) ==
    /\ Active
    /\ id \in Live
    /\ fifo = <<>>
    /\ Halt("died")

\* Nobody waits on the thread id.  (Mutation: not checked.)
SharedTarget(id) == TRUE
Unjoined(id) == waiter[id] = None

\* The thread id has exited or can run: it is not itself blocked in wut_join.
\* (Mutation: not checked.)
AnyTarget(id) == TRUE
NotBlocked(id) == exited[id] \/ id \in Queued

Joinable(id) == id # Me /\ Unjoined(id) /\ NotBlocked(id)

JoinRefused(id) ==
    /\ Active
    /\ id \in Live => fifo # <<>> /\ ~Joinable(id)
    /\ UNCHANGED vars

JoinAccepted(id) ==
    /\ Active
    /\ fifo # <<>>
    /\ id \in Live
    /\ Joinable(id)

JoinReap(id) ==
    /\ JoinAccepted(id)
    /\ exited[id]
    /\ OtherStack(id)
    /\ Free(id)
    /\ waiting' = [waiting EXCEPT ![Me] = None, ![id] = None]
    /\ UNCHANGED <<proc, cpu, fifo, pend, over, linkNull>>

\* wut_cancel, or wut_join of an exited thread, unmaps the stack it runs on.
UnmapOwnStack(id) ==
    /\ Active
    /\ fifo # <<>>
    /\ Cancellable(id) \/ (JoinAccepted(id) /\ exited[id])
    /\ ~OtherStack(id)
    /\ Halt("crashed")

JoinBlock(id) ==
    /\ JoinAccepted(id)
    /\ ~exited[id]
    /\ waiting' = [waiting EXCEPT ![Me] = id]
    /\ waiter' = [waiter EXCEPT ![id] = Me]
    /\ ctx' = [ctx EXCEPT ![Me] = cpu]
    /\ pend' = [pend EXCEPT ![cpu] = id]
    /\ SwitchTo(Tail(fifo), ctx')
    /\ UNCHANGED <<tcbq, status, exited, isInit, stack, over, linkNull>>

\* The rest of wut_join, when the blocked code is switched back to.
JoinReturn ==
    /\ proc = "running"
    /\ pend[cpu] # None
    /\ LET waited == pend[cpu]
       IN IF waited \in Live /\ OtherStack(waited)
          THEN /\ Free(waited)
               /\ waiting' = [waiting EXCEPT ![Me] = None, ![waited] = None]
               /\ pend' = [pend EXCEPT ![cpu] = None]
               /\ UNCHANGED <<proc, cpu, fifo, over, linkNull>>
          ELSE Halt("crashed")

(***************************************************************************)
(* _exit_cleanup, entered with the FIFO q and the flags ex: the head of q  *)
(* is taken for the thread that just finished.  The last step frees every  *)
(* tcb and exits; it reads the stack out of the context of every thread    *)
(* but the initial one, which wut_cancel has set to NULL.                  *)
(***************************************************************************)
CancelledUnreaped == \E t \in Live : ~isInit[t] /\ ctx[t] = None

\* (Mutation: the last entry of the FIFO is taken.)
LastEntry(q) == Last(q)
Finished(q) == Head(q)

ExitCleanup(q, ex) ==
    LET done == Finished(q)
        rest == WakeWaiter(Tail(q), done)
    IN /\ exited' = [ex EXCEPT ![done] = TRUE]
       /\ over' = over \cup {cpu}
       /\ IF rest # <<>>
          THEN SwitchTo(rest, ctx)
          ELSE /\ CancelledUnreaped => "unreaped" \in Hazardous
               /\ proc' = IF CancelledUnreaped THEN "crashed" ELSE "exited"
               /\ fifo' = rest
               /\ UNCHANGED cpu
       /\ UNCHANGED <<tcbq, waiter, waiting, ctx, isInit, stack, pend, linkNull>>

\* The function of a thread made by wut_create returns: uc_link is cleanup_ctx.
ReturnNowhere ==
    /\ Active
    /\ stack[cpu] # ProcessStack
    /\ fifo = <<>>
    /\ Halt("crashed")

Return ==
    /\ Active
    /\ stack[cpu] # ProcessStack
    /\ fifo # <<>>
    /\ ExitCleanup(fifo, exited)
    /\ UNCHANGED status

(***************************************************************************)
(* wut_exit(arg).                                                          *)
(***************************************************************************)
\* The FIFO without the exiting thread, its waiter woken.
\* (Mutation: the exiting thread goes to the back, as in wut_yield.)
AfterYield == WakeWaiter(Append(Tail(fifo), Me), Me)
AfterExit == WakeWaiter(Tail(fifo), Me)

ExitNowhere ==
    /\ Active
    /\ fifo = <<>>
    /\ Halt("crashed")

\* status &= 0xFF.  (Mutation: the status is not masked.)
Unmasked(arg) == arg
Masked(arg) == arg % 256

\* The exiting thread has no uc_link.
NoLink == isInit[Me] /\ linkNull

\* cleanup_ctx is entered with an empty FIFO and takes its first entry.
ExitLast ==
    /\ "lastExit" \in Hazardous
    /\ Active
    /\ fifo # <<>>
    /\ AfterExit = <<>>
    /\ Halt("crashed")

\* No uc_link: _exit_cleanup runs although this thread was already removed.
ExitUnlinked(arg) ==
    /\ "mainExit" \in Hazardous
    /\ Active
    /\ fifo # <<>>
    /\ AfterExit # <<>>
    /\ NoLink
    /\ status' = [status EXCEPT ![Me] = Masked(arg)]
    /\ ExitCleanup(AfterExit, [exited EXCEPT ![Me] = TRUE])

Exit(arg) ==
    /\ Active
    /\ fifo # <<>>
    /\ AfterExit # <<>>
    /\ ~NoLink
    /\ status' = [status EXCEPT ![Me] = Masked(arg)]
    /\ exited' = [exited EXCEPT ![Me] = TRUE]
    /\ over' = over \cup {cpu}
    /\ SwitchTo(AfterExit, ctx)
    /\ UNCHANGED <<tcbq, waiter, waiting, ctx, isInit, stack, pend, linkNull>>

Stopped == proc # "running" /\ UNCHANGED vars

\* The steps that hand the processor to another thread or end the process.
Switch ==
    \/ Yield
    \/ \E id \in Tid : JoinBlock(id)
    \/ Return
    \/ \E arg \in ExitArgs : Exit(arg)

Next ==
    \/ Create
    \/ YieldNowhere
    \/ YieldAlone
    \/ CancelNoThread
    \/ \E id \in Tid : CancelRefused(id)
    \/ \E id \in Tid : Cancel(id)
    \/ \E id \in Tid : JoinNoThread(id)
    \/ \E id \in Tid : JoinRefused(id)
    \/ \E id \in Tid : JoinReap(id)
    \/ \E id \in Tid : UnmapOwnStack(id)
    \/ JoinReturn
    \/ ReturnNowhere
    \/ ExitNowhere
    \/ ExitLast
    \/ \E arg \in ExitArgs : ExitUnlinked(arg)
    \/ Switch
    \/ Stopped

Spec == Init /\ [][Next]_vars

\* The client's side of cooperative scheduling: the running thread makes a
\* switching call sooner or later, and a resumed wut_join goes on.
Fairness == WF_vars(Switch) /\ WF_vars(JoinReturn)
FairSpec == Spec /\ Fairness

(***************************************************************************)
(* Properties.                                                             *)
(***************************************************************************)
\* The fields of the control blocks, the queues and the contexts have their
\* types; a status in particular fits a byte, whatever wut_exit is given.
TypeOK ==
    /\ proc \in Procs
    /\ cpu \in Code
    /\ fifo \in Seq(Tid)
    /\ tcbq \in Seq(Tid)
    /\ status \in [Tid -> 0..255]
    /\ waiter \in [Tid -> Tid \cup {None}]
    /\ waiting \in [Tid -> Tid \cup {None}]
    /\ exited \in [Tid -> BOOLEAN]
    /\ ctx \in [Tid -> Code \cup {None}]
    /\ isInit \in [Tid -> BOOLEAN]
    /\ stack \in [Code -> Tid \cup {None, ProcessStack}]
    /\ pend \in [Code -> Tid \cup {None}]
    /\ over \subseteq Code
    /\ linkNull \in BOOLEAN

\* "the current thread is in FIFO queue since it's still running" (wut.c:225):
\* the thread on the processor is the one wut_id names.
RunningIsHead == proc = "running" => fifo # <<>> /\ Me = cpu

\* Every entry of the FIFO is there once, and belongs to a control block of a
\* thread that has not exited: neither wut_cancel nor an exit wakes a thread
\* that is queued already, or one whose tcb and queue entry were freed.
ReadyOnce ==
    /\ IsInjective(fifo)
    /\ \A t \in Queued : t \in Live /\ ~exited[t]

\* A thread that has not exited can run, or its waiting_id names a thread that
\* has not exited either and will wake it: no interleaving of joins, cancels
\* and exits loses a wakeup.
NoLostWakeup ==
    \A t \in Live : ~exited[t] =>
        \/ t \in Queued
        \/ /\ waiting[t] \in Live
           /\ ~exited[waiting[t]]
           /\ waiter[waiting[t]] = t

\* waiter_id and waiting_id are two ends of one link between two control
\* blocks, and the tcb a thread inside wut_join holds a pointer to is that of
\* its waiting_id: the pointer is never left to a freed or reused tcb.
WaitersAgree ==
    /\ \A t \in Tid : pend[t] = waiting[t]
    /\ \A t \in Tid :
        /\ waiting[t] # None => waiting[t] \in Live /\ waiter[waiting[t]] = t
        /\ waiter[t] # None => waiter[t] \in Live /\ waiting[waiter[t]] = t

\* wut_join never closes a cycle: no set of threads wait only on each other.
NoWaitCycle ==
    \A B \in SUBSET Tid : B # {} => \E t \in B : waiting[t] \notin B

\* has_exited tells the truth: it is set for exactly the threads whose code
\* will not run again ("Get the thread that just finished", wut.c:77).
ExitedMeansOver == \A t \in Live : exited[t] <=> t \in over

\* The process leaves through exit(0) only when every thread has finished; in
\* particular no thread is left blocked in wut_join for ever.
NothingLeftBehind ==
    proc = "exited" => \A t \in Live : exited[t] /\ t \in over

\* No call dereferences NULL or a freed tcb, unmaps a stack twice, resumes a
\* freed context, or gives up because the FIFO is empty.
NeverCrashes == proc \in {"running", "exited"}

\* A code that has exited or returned, or whose only context wut_cancel freed,
\* is never executed again, whatever the client does: after a lone wut_yield
\* one code can be saved in several control blocks, of which some are cancelled,
\* freed and reused, and no stale context is ever switched to.
NoResurrection == proc = "running" => cpu \notin over

\* wut_create hands out the lowest id that has no control block, although the
\* scan compares each id only with its position in the list.
LowestFreeTid == [][\A t \in Live' \ Live : 0..(t - 1) \subseteq Live]_vars

\* The outcome of a thread stays as it was when it exited or was cancelled,
\* until the thread joined to it (or, if there is none, the one wut_id names)
\* collects it: no other call overwrites the status or frees the tcb.
OutcomeKept ==
    [][\A t \in Live : exited[t] =>
        \/ t \in Live' /\ exited'[t] /\ status'[t] = status[t]
        \/ t \notin Live' /\ waiter[t] \in {None, Me}]_vars

\* The FIFO is served in order: a context switch moves every thread that stays
\* queued one place forward, any other call moves none of them back.
RoundRobin ==
    [][\A t \in Queued \ {cpu} : t \in Queued' =>
        IF cpu' # cpu THEN Pos(fifo', t) = Pos(fifo, t) - 1
        ELSE Pos(fifo', t) <= Pos(fifo, t)]_vars

\* A thread in the FIFO runs, if it is not cancelled first.
ReadyRuns ==
    \A t \in Tid : t \in Queued ~> t \notin Queued \/ cpu = t

\* A thread blocked in wut_join returns from it once its target has exited,
\* unless it is cancelled.
JoinEnds ==
    \A t \in Tid :
        pend[t] # None /\ exited[pend[t]] ~> pend[t] = None

\* What a client sees of the threads: that they can run, wait or are done.
ClientView ==
    [t \in Live |->
        IF exited[t] THEN [phase |-> "done", on |-> None, outcome |-> status[t]]
        ELSE IF pend[t] # None
        THEN [phase |-> "blocked", on |-> pend[t], outcome |-> 0]
        ELSE [phase |-> "ready", on |-> None, outcome |-> 0]]

\* A client that only sees ids and outcomes cannot tell the library from
\* JoinableThreads, in which a blocked thread can go on as soon as its target
\* is done: the FIFO, the links and the reuse of ids and control blocks never
\* show, and the process ends only when every thread is done.
ThreadsView == INSTANCE JoinableThreads WITH
    Ids <- Tid,
    alive <- proc = "running",
    current <- cpu,
    threads <- ClientView
ImplementsThreads == ThreadsView!Spec
=============================================================================
