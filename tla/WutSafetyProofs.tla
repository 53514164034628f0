-------------------------- MODULE WutSafetyProofs --------------------------
(***************************************************************************)
(* The safety of the library for a client that makes none of the hazardous *)
(* calls, for every bound on thread ids.  The inductive invariant relates  *)
(* the FIFO, the wait links and the exit flags; the properties of Wut      *)
(* follow from it.                                                         *)
(***************************************************************************)
EXTENDS WutProofs

Disciplined == Hazardous = {}

-----------------------------------------------------------------------------
(* The inductive invariant.                                                *)

\* The process runs, or left through exit(0) with nothing left to run.
ProcOK ==
    /\ proc \in {"running", "exited"}
    /\ proc = "exited" => fifo = <<>>

\* A thread that exited or was cancelled waits on nobody.
ExitedWaitNot == \A t \in Tid : waiting[t] # None => ~exited[t]

\* A thread that has not exited is out of the FIFO exactly while it waits on a
\* thread that has not exited.
QueuedIff ==
    \A t \in Live : ~exited[t] =>
        (t \in Queued <=> waiting[t] = None \/ exited[waiting[t]])

\* A context resumes the code of its own thread, on that thread's stack; only
\* that of a thread that was cancelled is freed before the tcb is.
Contexts ==
    /\ \A t \in Live : \/ ctx[t] = t /\ stack[t] # None
                       \/ ctx[t] = None /\ exited[t]
    /\ \A t \in Tid \ Live : ctx[t] = None
    /\ \A c \in Code : stack[c] \in {None, ProcessStack, c}

IInv ==
    /\ TypeOK
    /\ TidsSorted
    /\ ProcOK
    /\ RunningIsHead
    /\ ReadyOnce
    /\ Contexts
    /\ WaitersAgree
    /\ ExitedWaitNot
    /\ QueuedIff
    /\ ExitedMeansOver
    /\ NoWaitCycle

-----------------------------------------------------------------------------
(* What the invariant says.                                                *)

\* The invariant has no lost wakeup in it.
LEMMA NoLostWakeupInv == IInv => NoLostWakeup
BY LiveType DEF IInv, NoLostWakeup, QueuedIff, WaitersAgree

\* With nothing in the FIFO every thread has exited: the threads that have not
\* would wait for each other only.
LEMMA EmptyMeansOver ==
    ASSUME TypeOK, WaitersAgree, QueuedIff, NoWaitCycle, fifo = <<>>
    PROVE  \A t \in Live : exited[t]
<1> DEFINE B == {t \in Live : ~exited[t]}
<1>1. Queued = {} BY DEF Queued, ToSet
<1>2. B \in SUBSET Tid BY LiveType
<1>3. ASSUME NEW t \in B PROVE waiting[t] \in B
  <2>1. t \in Tid /\ t \in Live /\ ~exited[t] BY LiveType
  <2>2. waiting[t] # None /\ ~exited[waiting[t]]
        BY <1>1, <2>1 DEF QueuedIff
  <2>3. waiting[t] \in Live BY <2>1, <2>2 DEF WaitersAgree
  <2> QED BY <2>2, <2>3
<1>4. B = {} BY <1>2, <1>3 DEF NoWaitCycle
<1> QED BY <1>4

\* What the invariant says of the thread that is executing the client's code.
LEMMA ActiveFacts ==
    ASSUME IInv, Active
    PROVE  /\ fifo # <<>> /\ Me = cpu /\ cpu \in Tid /\ cpu \in Queued
           /\ cpu \in Live /\ ~exited[cpu] /\ waiting[cpu] = None
           /\ ctx[cpu] = cpu /\ cpu \in Code
           /\ Tail(fifo) \in Seq(Tid) /\ IsInjective(Tail(fifo))
           /\ ToSet(Tail(fifo)) = Queued \ {cpu}
<1>1. fifo # <<>> /\ Me = cpu BY DEF IInv, RunningIsHead, Active
<1>2. cpu \in Tid /\ cpu \in Queued BY <1>1, MeType DEF IInv
<1>3. cpu \in Live /\ ~exited[cpu] BY <1>2 DEF IInv, ReadyOnce
<1>4. waiting[cpu] = None BY <1>2 DEF IInv, WaitersAgree, Active
<1>5. ctx[cpu] = cpu /\ cpu \in Code BY <1>3 DEF IInv, Contexts, TypeOK
<1>6. /\ Tail(fifo) \in Seq(Tid) /\ IsInjective(Tail(fifo))
      /\ Queued = ToSet(Tail(fifo)) \cup {cpu} /\ cpu \notin ToSet(Tail(fifo))
      BY <1>1, TailLemma DEF IInv, TypeOK, ReadyOnce, Queued, Me
<1> QED BY <1>1, <1>2, <1>3, <1>4, <1>5, <1>6

\* A switch to a thread of the FIFO succeeds.
LEMMA SwitchLemma ==
    ASSUME Contexts, NEW q, q # <<>>, SwitchTo(q, ctx), Head(q) \in Live,
           ctx[Head(q)] = Head(q), None \notin Live
    PROVE  cpu' = Head(q) /\ proc' = proc /\ fifo' = q
<1>1. Head(q) # None /\ stack[Head(q)] # None BY DEF Contexts
<1> QED BY <1>1 DEF SwitchTo, Resume

\* Every thread id is a code.
LEMMA TidCode == Tid \subseteq Code
BY MaxTidAssumption DEF Tid, Code

\* The stack of another thread is not the one that is executing.
LEMMA NotOwnStack ==
    ASSUME IInv, NEW t \in Tid, t # cpu
    PROVE  OtherStack(t)
BY NoneNotTid DEF IInv, Contexts, TypeOK, OtherStack

\* Unmapping the stack of a thread and freeing its context leaves those of the
\* others.
LEMMA UnmapContexts ==
    ASSUME Contexts, TypeOK, NEW t \in Tid, stack' = Unmapped(t),
           ctx'[t] = None, \A s \in Tid \ {t} : ctx'[s] = ctx[s] /\ exited'[s] = exited[s],
           Live \ {t} \subseteq Live', Live' \subseteq Live, t \in Live' => exited'[t]
    PROVE  Contexts'
<1>1. Live \subseteq Tid BY LiveType
<1>2. Tid \subseteq Code BY TidCode
<1>3. \A c \in Code : stack'[c] = IF stack[c] = t THEN None ELSE stack[c]
      BY DEF Unmapped
<1>4. ASSUME NEW s \in Live', s # t
      PROVE  (ctx'[s] = s /\ stack'[s] # None) \/ (ctx'[s] = None /\ exited'[s])
  <2>1. s \in Live /\ s \in Tid /\ s \in Code BY <1>1, <1>2
  <2>2. (ctx[s] = s /\ stack[s] # None) \/ (ctx[s] = None /\ exited[s])
        BY <2>1 DEF Contexts
  <2>3. stack[s] # t BY <1>4, <2>1, NoneNotTid DEF Contexts
  <2> QED BY <1>3, <1>4, <2>1, <2>2, <2>3
<1>5. \A s \in Tid \ Live' : ctx'[s] = None BY DEF Contexts
<1>6. \A c \in Code : stack'[c] \in {None, ProcessStack, c}
      BY <1>3 DEF Contexts
<1> QED BY <1>4, <1>5, <1>6 DEF Contexts

\* Waking the waiter of a thread that has not exited puts a thread into the
\* queue that is not in it.
LEMMA WakeLemma ==
    ASSUME IInv, NEW t \in Live, ~exited[t],
           NEW q \in Seq(Tid), IsInjective(q), ToSet(q) \subseteq Queued
    PROVE  /\ WakeWaiter(q, t) \in Seq(Tid)
           /\ IsInjective(WakeWaiter(q, t))
           /\ ToSet(WakeWaiter(q, t)) =
                ToSet(q) \cup {w \in Live : waiting[w] = t}
           /\ q # <<>> => /\ WakeWaiter(q, t) # <<>>
                          /\ Head(WakeWaiter(q, t)) = Head(q)
           /\ \A w \in Live : waiting[w] = t => ~exited[w] /\ w # t
<1>1. t \in Tid BY LiveType DEF IInv
<1>2. \A w \in Live : waiting[w] = t <=> waiter[t] = w
      BY <1>1, LiveType, NoneNotTid DEF IInv, WaitersAgree
<1>3. \A w \in Live : waiting[w] = t => ~exited[w] /\ w \notin Queued
      BY <1>1, LiveType, NoneNotTid DEF IInv, ExitedWaitNot, QueuedIff
<1>4. waiting[t] # t
  <2>1. {t} \in SUBSET Tid /\ {t} # {} BY <1>1
  <2>2. \E s \in {t} : waiting[s] \notin {t} BY <2>1 DEF IInv, NoWaitCycle
  <2> QED BY <2>2
<1>5. CASE waiter[t] \in Live
  <2>1. WakeWaiter(q, t) = Append(q, waiter[t]) BY <1>5 DEF WakeWaiter
  <2>2. waiter[t] \in Tid /\ waiter[t] \notin ToSet(q)
        BY <1>2, <1>3, <1>5, LiveType DEF IInv
  <2>3. {w \in Live : waiting[w] = t} = {waiter[t]} BY <1>2, <1>5
  <2> QED BY <1>3, <1>4, <2>1, <2>2, <2>3, AppendLemma
<1>6. CASE waiter[t] \notin Live
  <2>1. WakeWaiter(q, t) = q BY <1>6 DEF WakeWaiter
  <2>2. {w \in Live : waiting[w] = t} = {} BY <1>2, <1>6
  <2> QED BY <2>1, <2>2
<1> QED BY <1>5, <1>6

\* Dropping wait links closes no cycle.
LEMMA FewerWaits ==
    ASSUME NoWaitCycle,
           \A t \in Tid : waiting'[t] = waiting[t] \/ waiting'[t] = None
    PROVE  NoWaitCycle'
BY NoneNotTid DEF NoWaitCycle

\* The process does not exit before every thread has finished.
LEMMA LeftBehindInv == IInv => NothingLeftBehind
BY EmptyMeansOver DEF IInv, ProcOK, ExitedMeansOver, NothingLeftBehind

-----------------------------------------------------------------------------
(* The invariant is inductive: one lemma per action.                       *)

\* wut_init.
LEMMA InitInv == Init => IInv
<1> SUFFICES ASSUME Init PROVE IInv OBVIOUS
<1>1. 0 \in Tid /\ 0 \in Code /\ Tid \subseteq Code
      BY MaxTidAssumption DEF Tid, Code
<1>2. TypeOK
  <2>1. <<0>> \in Seq(Tid) BY <1>1
  <2> QED BY <1>1, <2>1 DEF Init, TypeOK, Procs, None, ProcessStack
<1>3. TidsSorted
  <2>1. Len(tcbq) = 1 /\ tcbq[1] = 0 BY DEF Init
  <2> QED BY <2>1 DEF TidsSorted
<1>4. Live = {0} /\ Queued = {0} /\ Me = 0 /\ fifo # <<>> /\ IsInjective(fifo)
      BY DEF Init, Live, Queued, ToSet, Me, IsInjective
<1>5. /\ cpu = 0 /\ 0 \notin over
      /\ \A t \in Tid : /\ waiting[t] = None /\ waiter[t] = None /\ ~exited[t]
                        /\ pend[t] = None
      BY <1>1 DEF Init
<1>6. NoWaitCycle BY <1>5, NoneNotTid DEF NoWaitCycle
<1>7. ProcOK BY DEF Init, ProcOK
<1>8. Contexts
  <2>1. ctx = [t \in Tid |-> IF t = 0 THEN 0 ELSE None]
        /\ stack = [c \in Code |-> IF c = 0 THEN ProcessStack ELSE None]
        BY DEF Init
  <2> QED BY <1>1, <1>4, <2>1 DEF Contexts, ProcessStack, None
<1> QED BY <1>1, <1>2, <1>3, <1>4, <1>5, <1>6, <1>7, <1>8
        DEF IInv, RunningIsHead, ReadyOnce, WaitersAgree,
            ExitedWaitNot, QueuedIff, ExitedMeansOver

\* wut_create.
LEMMA CreateInv ==
    ASSUME IInv, Create, TypeOK'
    PROVE  IInv'
<1>1. PICK i \in 1..(Len(tcbq) + 1) :
        /\ ScanStops(i)
        /\ fifo' = Append(fifo, i - 1)
        /\ tcbq' = InsertAt(tcbq, i, i - 1)
        /\ waiter' = [waiter EXCEPT ![i - 1] = None]
        /\ waiting' = [waiting EXCEPT ![i - 1] = None]
        /\ exited' = [exited EXCEPT ![i - 1] = FALSE]
        /\ \E c \in NewCode(i - 1) :
             /\ ctx' = [ctx EXCEPT ![i - 1] = c]
             /\ stack' = [stack EXCEPT ![c] = i - 1]
             /\ pend' = [pend EXCEPT ![c] = None]
             /\ over' = over \ {c}
      BY DEF Create
<1> DEFINE new == i - 1
<1>2. new \in Tid /\ new \notin Live
  <2>1. new \in Tid
        BY LenProperties, MaxTidAssumption DEF Create, Tid, IInv, TypeOK
  <2> QED BY <1>1, <2>1, ScanLemma DEF IInv
<1>3. Live' = Live \cup {new} /\ Live \subseteq Tid
  <2>1. tcbq \in Seq(Tid) BY DEF IInv, TypeOK
  <2>2. Live' = Live \cup {new} BY <1>1, <1>2, <2>1, InsertLemma DEF Live
  <2> QED BY <2>2, LiveType DEF IInv
<1> HIDE DEF new
<1>4. /\ ctx' = [ctx EXCEPT ![new] = new] /\ stack' = [stack EXCEPT ![new] = new]
      /\ pend' = [pend EXCEPT ![new] = None] /\ over' = over \ {new}
  <2>1. PICK c \in NewCode(new) :
          /\ ctx' = [ctx EXCEPT ![new] = c] /\ stack' = [stack EXCEPT ![c] = new]
          /\ pend' = [pend EXCEPT ![c] = None] /\ over' = over \ {c}
        BY <1>1 DEF new
  <2>2. new # cpu
    <3>1. Active BY DEF Create
    <3> QED BY <1>2, <3>1, ActiveFacts
  <2>3. \A t \in Tid : ctx[t] # new
    <3>1. ASSUME NEW t \in Tid, ctx[t] = new PROVE FALSE
      <4>1. new # None BY <1>2, NoneNotTid
      <4>2. t \in Live /\ ctx[t] = t BY <3>1, <4>1 DEF IInv, Contexts
      <4> QED BY <1>2, <3>1, <4>2
    <3> QED BY <3>1
  <2>4. new \notin InUse BY <2>2, <2>3 DEF InUse
  <2>5. c = new BY <2>4 DEF NewCode
  <2> QED BY <2>1, <2>5
<1>5. /\ fifo' # <<>> /\ IsInjective(fifo') /\ Queued' = Queued \cup {new}
      /\ Me' = Me
  <2>1. fifo # <<>>
    <3>1. Active BY DEF Create
    <3> QED BY <3>1, ActiveFacts
  <2>2. fifo' = Append(fifo, new) BY <1>1 DEF new
  <2>3. fifo \in Seq(Tid) /\ IsInjective(fifo) /\ new \notin ToSet(fifo)
        BY <1>2 DEF IInv, TypeOK, ReadyOnce, Queued
  <2> QED BY <1>2, <2>1, <2>2, <2>3, AppendLemma DEF Queued, Me
<1>6. /\ \A t \in Tid \ {new} : /\ waiter'[t] = waiter[t]
                                /\ waiting'[t] = waiting[t]
                                /\ exited'[t] = exited[t]
                                /\ ctx'[t] = ctx[t]
      /\ waiter'[new] = None /\ waiting'[new] = None
      /\ exited'[new] = FALSE /\ ctx'[new] = new
      /\ \A t \in Tid \ {new} : pend'[t] = pend[t]
      /\ pend'[new] = None
      BY <1>1, <1>2, <1>4, TidCode DEF IInv, TypeOK, new
<1>7. UNCHANGED <<proc, cpu>> /\ Active BY DEF Create
<1>8. waiting[new] = None /\ waiter[new] = None
      /\ \A t \in Tid : waiting[t] # new /\ waiter[t] # new
  <2>1. \A t \in Tid : waiting[t] # new /\ waiter[t] # new
        BY <1>2, NoneNotTid DEF IInv, WaitersAgree
  <2>2. waiting[new] # None =>
            waiting[new] \in Tid /\ waiter[waiting[new]] = new
        BY <1>2, LiveType DEF IInv, WaitersAgree
  <2>3. waiter[new] # None =>
            waiter[new] \in Tid /\ waiting[waiter[new]] = new
        BY <1>2, LiveType DEF IInv, WaitersAgree
  <2> QED BY <2>1, <2>2, <2>3
<1>9. /\ waiting' = waiting /\ waiter' = waiter
      /\ \A t \in Tid : pend'[t] = waiting[t]
  <2>1. waiting' = waiting /\ waiter' = waiter
        BY <1>1, <1>2, <1>8 DEF IInv, TypeOK, new
  <2>2. \A t \in Tid : pend[t] = waiting[t] BY DEF IInv, WaitersAgree
  <2> QED BY <1>6, <1>8, <2>1, <2>2
<1>10. TidsSorted' BY CreateSorted DEF IInv
<1>11. ProcOK' BY <1>7 DEF IInv, ProcOK, Active
<1>12. RunningIsHead' BY <1>5, <1>7 DEF IInv, RunningIsHead
<1>13. ReadyOnce'
       BY <1>2, <1>3, <1>5, <1>6, LiveType DEF IInv, ReadyOnce
<1>14. Contexts'
  <2>1. /\ \A c \in Code \ {new} : stack'[c] = stack[c]
        /\ stack'[new] = new /\ new # None
        BY <1>2, <1>4, TidCode, NoneNotTid DEF IInv, TypeOK
  <2>2. /\ \A t \in Live : \/ ctx[t] = t /\ stack[t] # None
                           \/ ctx[t] = None /\ exited[t]
        /\ \A t \in Tid \ Live : ctx[t] = None
        /\ \A c \in Code : stack[c] \in {None, ProcessStack, c}
        BY DEF IInv, Contexts
  <2>3. ASSUME NEW t \in Live'
        PROVE  (ctx'[t] = t /\ stack'[t] # None) \/ (ctx'[t] = None /\ exited'[t])
    <3>1. CASE t = new BY <1>6, <2>1, <3>1
    <3>2. CASE t # new
      <4>1. t \in Live /\ t \in Tid /\ t \in Code BY <1>3, <3>2, TidCode
      <4> QED BY <1>6, <2>1, <2>2, <3>2, <4>1
    <3> QED BY <3>1, <3>2
  <2>4. \A t \in Tid \ Live' : ctx'[t] = None BY <1>3, <1>6, <2>2
  <2>5. \A c \in Code : stack'[c] \in {None, ProcessStack, c} BY <2>1, <2>2
  <2> QED BY <2>3, <2>4, <2>5 DEF Contexts
<1>15. WaitersAgree' BY <1>3, <1>7, <1>9 DEF IInv, WaitersAgree
<1>16. ExitedWaitNot' BY <1>6, <1>9, <1>2 DEF IInv, ExitedWaitNot
<1>17. QueuedIff'
  <2>1. ASSUME NEW t \in Live, ~exited'[t]
        PROVE  t \in Queued' <=> waiting'[t] = None \/ exited'[waiting'[t]]
    <3>1. t \in Tid /\ t # new BY <1>2, LiveType DEF IInv
    <3>2. t \in Queued <=> waiting[t] = None \/ exited[waiting[t]]
          BY <2>1, <3>1, <1>6 DEF IInv, QueuedIff
    <3>3. waiting[t] # None => waiting[t] \in Tid \ {new}
          BY <1>8, <3>1 DEF IInv, TypeOK
    <3> QED BY <1>5, <1>6, <1>9, <3>1, <3>2, <3>3
  <2>2. new \in Queued' /\ waiting'[new] = None BY <1>5, <1>6
  <2> QED BY <1>3, <2>1, <2>2 DEF QueuedIff
<1>18. ExitedMeansOver'
       BY <1>2, <1>3, <1>4, <1>6 DEF IInv, ExitedMeansOver
<1>19. NoWaitCycle' BY <1>9 DEF IInv, NoWaitCycle
<1> QED BY <1>10, <1>11, <1>12, <1>13, <1>14, <1>15, <1>16, <1>17, <1>18, <1>19
        DEF IInv

\* wut_yield, when there is another thread to run.
LEMMA YieldInv ==
    ASSUME IInv, Yield, TypeOK'
    PROVE  IInv'
<1> DEFINE q == Append(Tail(fifo), cpu)
<1>1. Active /\ Len(fifo) > 1 BY DEF Yield
<1>2. /\ fifo # <<>> /\ Me = cpu /\ cpu \in Tid /\ cpu \in Queued
      /\ cpu \in Live /\ ~exited[cpu] /\ ctx[cpu] = cpu
      /\ Tail(fifo) \in Seq(Tid) /\ IsInjective(Tail(fifo))
      /\ ToSet(Tail(fifo)) = Queued \ {cpu}
      BY <1>1, ActiveFacts
<1>3. fifo \in Seq(Tid) /\ IsInjective(fifo) BY DEF IInv, TypeOK, ReadyOnce
<1>4. /\ q # <<>> /\ IsInjective(q) /\ ToSet(q) = Queued
      /\ Head(q) \in Queued \ {cpu}
      BY <1>1, <1>2, <1>3, RotateLemma DEF Queued, Me
<1> HIDE DEF q
<1>5. ctx' = ctx
      BY <1>2 DEF Yield, IInv, TypeOK
<1>6. Head(q) \in Live /\ ctx[Head(q)] = Head(q) /\ Head(q) \in Tid
      BY <1>4, LiveType DEF IInv, ReadyOnce, Contexts
<1>7. SwitchTo(q, ctx) BY <1>2, <1>5 DEF Yield, Rotated, q
<1>8. cpu' = Head(q) /\ proc' = proc /\ fifo' = q
      BY <1>4, <1>6, <1>7, SwitchLemma, LiveType, NoneNotTid DEF IInv
<1>9. Queued' = Queued /\ Me' = cpu' BY <1>4, <1>8 DEF Queued, Me
<1>10. UNCHANGED <<tcbq, waiter, waiting, exited, stack, pend, over>>
       BY DEF Yield
<1>11. Live' = Live BY <1>10 DEF Live
<1>12. ProcOK' BY <1>1, <1>8 DEF ProcOK, Active, IInv
<1>13. RunningIsHead' BY <1>4, <1>8, <1>9 DEF RunningIsHead
<1>14. ReadyOnce' BY <1>4, <1>8, <1>9, <1>10, <1>11 DEF IInv, ReadyOnce
<1>15. TidsSorted' BY <1>10 DEF IInv, TidsSorted
<1>16. Contexts' /\ WaitersAgree' /\ ExitedWaitNot' /\ QueuedIff'
       BY <1>5, <1>9, <1>10, <1>11
       DEF IInv, Contexts, WaitersAgree, ExitedWaitNot, QueuedIff
<1>17. ExitedMeansOver' /\ NoWaitCycle'
       BY <1>10, <1>11 DEF IInv, ExitedMeansOver, NoWaitCycle
<1> QED BY <1>12, <1>13, <1>14, <1>15, <1>16, <1>17 DEF IInv

\* wut_cancel, when it is not refused.
LEMMA CancelInv ==
    ASSUME IInv, NEW id \in Tid, Cancel(id), TypeOK'
    PROVE  IInv'
<1> DEFINE q == Without(id)
           W == {w \in Live : waiting[w] = id}
<1>1. Active /\ id # Me /\ id \in Live /\ ~exited[id]
      BY DEF Cancel, Cancellable
<1>2. /\ fifo # <<>> /\ Me = cpu /\ cpu \in Tid /\ cpu \in Queued
      /\ cpu \in Live
      BY <1>1, ActiveFacts
<1>3. /\ q \in Seq(Tid) /\ IsInjective(q) /\ ToSet(q) = Queued \ {id}
      /\ q # <<>> /\ Head(q) = cpu
  <2>1. fifo \in Seq(Tid) /\ IsInjective(fifo) BY DEF IInv, TypeOK, ReadyOnce
  <2>2. CASE id \in Queued
    <3>1. Pos(fifo, id) \in 1..Len(fifo) /\ fifo[Pos(fifo, id)] = id
          BY <2>1, <2>2, PosLemma DEF Queued
    <3> QED BY <1>1, <1>2, <2>1, <2>2, <3>1, RemoveLemma
             DEF Queued, Me, Without
  <2>3. CASE id \notin Queued BY <1>2, <2>1, <2>3 DEF Queued, Me, Without
  <2> QED BY <2>2, <2>3
<1>4. fifo' = WakeWaiter(q, id) BY DEF Cancel
<1> HIDE DEF q
<1>5. /\ IsInjective(fifo') /\ Queued' = (Queued \ {id}) \cup W
      /\ fifo' # <<>> /\ Me' = cpu
      /\ \A w \in W : ~exited[w] /\ w # id
      BY <1>1, <1>3, <1>4, WakeLemma DEF Queued, Me
<1>6. UNCHANGED <<proc, cpu, tcbq>> /\ Live' = Live BY DEF Cancel, Live
<1>7. /\ \A t \in Tid \ {id} : exited'[t] = exited[t] /\ ctx'[t] = ctx[t]
      /\ exited'[id] /\ ctx'[id] = None /\ over' = over \cup {id}
      /\ stack' = Unmapped(id)
      /\ \A t \in Tid : pend'[t] = IF t = id THEN None ELSE pend[t]
  <2>1. Lost(id) = {id}
    <3>1. id # cpu /\ id \in Code BY <1>1, <1>2, TidCode
    <3>2. ctx[id] = id BY <1>1 DEF IInv, Contexts
    <3>3. \A t \in Tid \ {id} : ctx[t] # id BY NoneNotTid DEF IInv, Contexts
    <3> QED BY <3>1, <3>2, <3>3 DEF Lost
  <2> QED BY <2>1, TidCode DEF Cancel, IInv, TypeOK
<1>8. /\ waiting' = [waiting EXCEPT ![id] = None]
      /\ \A t \in Tid : pend'[t] = waiting'[t]
      /\ IF waiting[id] = None THEN waiter' = waiter
         ELSE waiter' = [waiter EXCEPT ![waiting[id]] = None]
  <2>1. \A t \in Tid : pend[t] = waiting[t] BY DEF IInv, WaitersAgree
  <2>2. CASE waiting[id] = None
    <3>1. waiting[id] \notin Live BY <2>2, LiveType, NoneNotTid DEF IInv
    <3>2. waiting' = waiting /\ waiter' = waiter
          BY <3>1 DEF Cancel, WaitsOnLive
    <3>3. waiting = [waiting EXCEPT ![id] = None] BY <2>2 DEF IInv, TypeOK
    <3>4. \A t \in Tid : pend'[t] = waiting'[t] BY <1>7, <2>1, <2>2, <3>2
    <3> QED BY <2>2, <3>2, <3>3, <3>4
  <2>3. CASE waiting[id] # None
    <3>1. waiting[id] \in Live BY <2>3 DEF IInv, WaitersAgree
    <3>2. waiting' = [waiting EXCEPT ![id] = None]
          BY <3>1 DEF Cancel, WaitsOnLive
    <3>3. waiter' = [waiter EXCEPT ![waiting[id]] = None]
          BY <3>1 DEF Cancel, WaitsOnLive
    <3>4. \A t \in Tid : pend'[t] = waiting'[t]
          BY <1>7, <2>1, <3>2 DEF IInv, TypeOK
    <3> QED BY <2>3, <3>2, <3>3, <3>4
  <2> QED BY <2>2, <2>3
<1>9. /\ \A t \in Tid \ {id} : waiting'[t] = waiting[t]
      /\ waiting'[id] = None
      /\ \A t \in Tid : waiter'[t] = IF t = waiting[id] THEN None ELSE waiter[t]
      BY <1>8, NoneNotTid DEF IInv, TypeOK
<1>10. waiting[id] # id
  <2>1. {id} \in SUBSET Tid /\ {id} # {} OBVIOUS
  <2>2. \E s \in {id} : waiting[s] \notin {id} BY <2>1 DEF IInv, NoWaitCycle
  <2> QED BY <2>2
<1>11. TidsSorted' BY <1>6 DEF IInv, TidsSorted
<1>12. ProcOK' BY <1>1, <1>6 DEF Active, ProcOK
<1>13. RunningIsHead' BY <1>5, <1>6 DEF RunningIsHead
<1>14. ReadyOnce'
  <2>1. ASSUME NEW t \in Queued' PROVE t \in Live' /\ ~exited'[t]
    <3>1. t \in Live /\ ~exited[t] /\ t # id
          BY <1>5, <2>1 DEF IInv, ReadyOnce
    <3> QED BY <1>6, <1>7, <3>1, LiveType DEF IInv
  <2> QED BY <1>5, <2>1 DEF ReadyOnce
<1>15. Contexts' BY <1>6, <1>7, UnmapContexts DEF IInv
<1>16. WaitersAgree'
  <2>1. ASSUME NEW t \in Tid, waiting'[t] # None
        PROVE  waiting'[t] \in Live /\ waiter'[waiting'[t]] = t
    <3>1. t # id /\ waiting'[t] = waiting[t] BY <1>9, <2>1
    <3>2. waiting[t] \in Live /\ waiter[waiting[t]] = t
          BY <2>1, <3>1 DEF IInv, WaitersAgree
    <3>3. waiting[t] # waiting[id]
          BY <2>1, <3>1, <3>2 DEF IInv, WaitersAgree
    <3> QED BY <1>9, <3>1, <3>2, <3>3, LiveType DEF IInv
  <2>2. ASSUME NEW t \in Tid, waiter'[t] # None
        PROVE  waiter'[t] \in Live /\ waiting'[waiter'[t]] = t
    <3>1. t # waiting[id] /\ waiter'[t] = waiter[t] BY <1>9, <2>2
    <3>2. waiter[t] \in Live /\ waiting[waiter[t]] = t
          BY <2>2, <3>1 DEF IInv, WaitersAgree
    <3>3. waiter[t] # id BY <3>1, <3>2
    <3> QED BY <1>9, <3>1, <3>2, <3>3, LiveType DEF IInv
  <2> QED BY <1>6, <1>8, <2>1, <2>2 DEF WaitersAgree
<1>17. ExitedWaitNot' BY <1>7, <1>9 DEF IInv, ExitedWaitNot
<1>18. QueuedIff'
  <2>1. ASSUME NEW t \in Live, ~exited'[t]
        PROVE  t \in Queued' <=> waiting'[t] = None \/ exited'[waiting'[t]]
    <3>1. t \in Tid /\ t # id /\ ~exited[t] /\ waiting'[t] = waiting[t]
          BY <1>7, <1>9, <2>1, LiveType DEF IInv
    <3>2. t \in Queued <=> waiting[t] = None \/ exited[waiting[t]]
          BY <3>1 DEF IInv, QueuedIff
    <3>3. CASE waiting[t] = id BY <1>5, <1>7, <3>1, <3>3
    <3>4. CASE waiting[t] # id
      <4>1. waiting[t] # None => exited'[waiting[t]] = exited[waiting[t]]
            BY <1>7, <3>1, <3>4 DEF IInv, TypeOK
      <4>2. t \in Queued' <=> t \in Queued BY <1>5, <3>1, <3>4
      <4> QED BY <3>1, <3>2, <4>1, <4>2
    <3> QED BY <3>3, <3>4
  <2> QED BY <1>6, <2>1 DEF QueuedIff
<1>19. ExitedMeansOver'
       BY <1>1, <1>6, <1>7, LiveType DEF IInv, ExitedMeansOver
<1>20. NoWaitCycle' BY <1>9, FewerWaits DEF IInv
<1> QED BY <1>11, <1>12, <1>13, <1>14, <1>15, <1>16, <1>17, <1>18, <1>19, <1>20
        DEF IInv

\* A tcb is freed for the running thread cpu, which waits on it or on nobody.
LEMMA ReapInv ==
    ASSUME IInv, proc = "running", NEW t \in Live \ {cpu}, exited[t], Free(t),
           waiter[t] \in {None, cpu}, waiting[cpu] \in {None, t},
           waiting' = [waiting EXCEPT ![cpu] = None, ![t] = None],
           pend' = [pend EXCEPT ![cpu] = None],
           UNCHANGED <<proc, cpu, fifo, over>>, TypeOK'
    PROVE  IInv'
<1>1. fifo # <<>> /\ Me = cpu /\ cpu \in Tid /\ cpu \in Queued /\ t \in Tid
      BY MeType, LiveType DEF IInv, RunningIsHead
<1>2. cpu \in Live /\ ~exited[cpu] /\ t \notin Queued
      BY <1>1 DEF IInv, ReadyOnce
<1>3. Live' = Live \ {t} /\ Queued' = Queued /\ Me' = Me
      BY FreeSet DEF IInv, Queued, Me
<1>4. /\ \A s \in Tid \ {t} : /\ waiter'[s] = waiter[s]
                              /\ exited'[s] = exited[s]
                              /\ ctx'[s] = ctx[s]
      /\ waiter'[t] = None /\ exited'[t] = FALSE
      /\ ctx'[t] = None /\ stack' = Unmapped(t)
      BY <1>1 DEF Free, IInv, TypeOK
<1>5. /\ waiting'[cpu] = None /\ waiting'[t] = None
      /\ \A s \in Tid \ {cpu} : waiting'[s] = waiting[s]
  <2>1. waiting[t] = None BY <1>1 DEF IInv, ExitedWaitNot
  <2> QED BY <1>1, <2>1 DEF IInv, TypeOK
<1>6. \A s \in Tid \ {cpu} : waiting[s] # t
      BY <1>1, NoneNotTid DEF IInv, WaitersAgree
<1>7. \A s \in Tid \ {t} : waiter[s] # cpu
      BY <1>1, NoneNotTid DEF IInv, WaitersAgree
<1>8. TidsSorted' BY FreeSorted DEF IInv
<1>9. ProcOK' BY DEF ProcOK
<1>10. RunningIsHead' BY <1>1, <1>3 DEF RunningIsHead
<1>11. ReadyOnce'
       BY <1>1, <1>2, <1>3, <1>4, LiveType DEF IInv, ReadyOnce
<1>12. Contexts' BY <1>1, <1>3, <1>4, UnmapContexts DEF IInv
<1>13. WaitersAgree'
  <2>1. ASSUME NEW s \in Tid, waiting'[s] # None
        PROVE  waiting'[s] \in Live' /\ waiter'[waiting'[s]] = s
    <3>1. s # cpu /\ waiting'[s] = waiting[s] BY <1>5, <2>1
    <3>2. waiting[s] \in Live /\ waiter[waiting[s]] = s
          BY <2>1, <3>1 DEF IInv, WaitersAgree
    <3>3. waiting[s] # t BY <1>6, <3>1
    <3> QED BY <1>3, <1>4, <3>1, <3>2, <3>3, LiveType DEF IInv
  <2>2. ASSUME NEW s \in Tid, waiter'[s] # None
        PROVE  waiter'[s] \in Live' /\ waiting'[waiter'[s]] = s
    <3>1. s # t /\ waiter'[s] = waiter[s] BY <1>4, <2>2
    <3>2. waiter[s] \in Live /\ waiting[waiter[s]] = s
          BY <2>2, <3>1 DEF IInv, WaitersAgree
    <3>3. waiter[s] # cpu BY <1>7, <3>1
    <3>4. waiter[s] # t
          BY <1>1, <2>2, <3>1, <3>2, NoneNotTid DEF IInv, ExitedWaitNot
    <3> QED BY <1>3, <1>5, <3>1, <3>2, <3>3, <3>4, LiveType DEF IInv
  <2>3. ASSUME NEW s \in Tid PROVE pend'[s] = waiting'[s]
    <3>1. pend[s] = waiting[s] BY DEF IInv, WaitersAgree
    <3> QED BY <1>1, <1>5, <3>1, TidCode DEF IInv, TypeOK
  <2> QED BY <2>1, <2>2, <2>3 DEF WaitersAgree
<1>14. ExitedWaitNot' BY <1>1, <1>4, <1>5 DEF IInv, ExitedWaitNot
<1>15. QueuedIff'
  <2>1. ASSUME NEW s \in Live', ~exited'[s]
        PROVE  s \in Queued' <=> waiting'[s] = None \/ exited'[waiting'[s]]
    <3>1. s \in Tid /\ s # t /\ s \in Live /\ ~exited[s]
          BY <1>3, <1>4, <2>1, LiveType DEF IInv
    <3>2. CASE s = cpu BY <1>1, <1>3, <1>5, <3>2
    <3>3. CASE s # cpu
      <4>1. s \in Queued <=> waiting[s] = None \/ exited[waiting[s]]
            BY <3>1 DEF IInv, QueuedIff
      <4>2. waiting'[s] = waiting[s] /\ waiting[s] # t
            BY <1>5, <1>6, <3>1, <3>3
      <4>3. waiting[s] # None => exited'[waiting[s]] = exited[waiting[s]]
            BY <1>4, <3>1, <4>2 DEF IInv, TypeOK
      <4> QED BY <1>3, <4>1, <4>2, <4>3
    <3> QED BY <3>2, <3>3
  <2> QED BY <2>1 DEF QueuedIff
<1>16. ExitedMeansOver'
       BY <1>3, <1>4, LiveType DEF IInv, ExitedMeansOver
<1>17. NoWaitCycle' BY <1>5, FewerWaits DEF IInv
<1> QED BY <1>8, <1>9, <1>10, <1>11, <1>12, <1>13, <1>14, <1>15, <1>16, <1>17
        DEF IInv

\* wut_join of a thread that has exited.
LEMMA JoinReapInv ==
    ASSUME IInv, NEW id \in Tid, JoinReap(id), TypeOK'
    PROVE  IInv'
<1>1. Active /\ id \in Live \ {Me} /\ waiter[id] = None /\ exited[id] /\ Free(id)
      BY DEF JoinReap, JoinAccepted, Joinable, Unjoined, NotBlocked
<1>2. Me = cpu /\ cpu \in Tid /\ waiting[cpu] = None
      BY <1>1, ActiveFacts
<1>3. waiting' = [waiting EXCEPT ![cpu] = None, ![id] = None]
      BY <1>2 DEF JoinReap
<1>4. pend' = [pend EXCEPT ![cpu] = None] /\ UNCHANGED <<proc, cpu, fifo, over>>
      BY <1>1 DEF JoinReap, Active, IInv, TypeOK
<1> QED BY <1>1, <1>2, <1>3, <1>4, ReapInv DEF Active

\* The end of wut_join for a thread that was blocked in it.
LEMMA JoinReturnInv ==
    ASSUME IInv, JoinReturn, TypeOK'
    PROVE  IInv'
<1> DEFINE u == pend[cpu]
<1>1. proc = "running" /\ u # None BY DEF JoinReturn
<1>2. /\ fifo # <<>> /\ Me = cpu /\ cpu \in Tid /\ cpu \in Queued
      BY <1>1, MeType DEF IInv, RunningIsHead
<1>3. cpu \in Live /\ ~exited[cpu] BY <1>2 DEF IInv, ReadyOnce
<1>4. u = waiting[cpu] /\ u \in Live /\ waiter[u] = cpu
      BY <1>1, <1>2 DEF IInv, WaitersAgree
<1>5. exited[u] BY <1>1, <1>2, <1>3, <1>4 DEF IInv, QueuedIff
<1>6. u # cpu BY <1>3, <1>5
<1>7. OtherStack(u) BY <1>4, <1>6, NotOwnStack, LiveType DEF IInv
<1>8. /\ Free(u) /\ UNCHANGED <<proc, cpu, fifo, over>>
      /\ waiting' = [waiting EXCEPT ![cpu] = None, ![u] = None]
      /\ pend' = [pend EXCEPT ![cpu] = None]
      BY <1>2, <1>4, <1>7 DEF JoinReturn
<1> HIDE DEF u
<1> QED BY <1>1, <1>4, <1>5, <1>6, <1>8, ReapInv

\* wut_join of a thread that has not exited: the caller leaves the FIFO.
LEMMA JoinBlockInv ==
    ASSUME IInv, NEW id \in Tid, JoinBlock(id), TypeOK'
    PROVE  IInv'
<1> DEFINE q == Tail(fifo)
<1>1. /\ Active /\ id \in Live /\ id # Me /\ waiter[id] = None /\ ~exited[id]
      /\ id \in Queued
      BY DEF JoinBlock, JoinAccepted, Joinable, Unjoined, NotBlocked
<1>2. /\ fifo # <<>> /\ Me = cpu /\ cpu \in Tid /\ cpu \in Queued
      /\ cpu \in Live /\ ~exited[cpu] /\ waiting[cpu] = None
      /\ ctx[cpu] = cpu
      /\ q \in Seq(Tid) /\ IsInjective(q) /\ ToSet(q) = Queued \ {cpu}
      BY <1>1, ActiveFacts
<1>3. q # <<>> /\ Head(q) \in Queued \ {cpu}
  <2>1. id \in ToSet(q) BY <1>1, <1>2
  <2>2. q # <<>> BY <2>1 DEF ToSet
  <2> QED BY <1>2, <2>2, TailLemma
<1> HIDE DEF q
<1>4. /\ ctx' = ctx
      /\ waiting' = [waiting EXCEPT ![cpu] = id]
      /\ waiter' = [waiter EXCEPT ![id] = cpu]
      /\ pend' = [pend EXCEPT ![cpu] = id]
      BY <1>2 DEF JoinBlock, IInv, TypeOK
<1>5. Head(q) \in Live /\ ctx[Head(q)] = Head(q) /\ Head(q) \in Tid
      BY <1>3, LiveType DEF IInv, ReadyOnce, Contexts
<1>6. SwitchTo(q, ctx) BY <1>4 DEF JoinBlock, q
<1>7. cpu' = Head(q) /\ proc' = proc /\ fifo' = q
      BY <1>3, <1>5, <1>6, SwitchLemma, LiveType, NoneNotTid DEF IInv
<1>8. Queued' = Queued \ {cpu} /\ Me' = cpu' BY <1>2, <1>7 DEF Queued, Me
<1>9. UNCHANGED <<tcbq, exited, stack, over>> /\ Live' = Live
      BY DEF JoinBlock, Live
<1>10. /\ \A t \in Tid \ {cpu} : waiting'[t] = waiting[t]
       /\ waiting'[cpu] = id
       /\ \A t \in Tid \ {id} : waiter'[t] = waiter[t]
       /\ waiter'[id] = cpu
       BY <1>2, <1>4 DEF IInv, TypeOK
<1>11. TidsSorted' BY <1>9 DEF IInv, TidsSorted
<1>12. ProcOK' BY <1>1, <1>7 DEF Active, ProcOK
<1>13. RunningIsHead' BY <1>3, <1>7, <1>8 DEF RunningIsHead
<1>14. ReadyOnce'
       BY <1>2, <1>7, <1>8, <1>9 DEF IInv, ReadyOnce
<1>15. Contexts' BY <1>4, <1>9 DEF IInv, Contexts
<1>16. WaitersAgree'
  <2>1. ASSUME NEW t \in Tid, waiting'[t] # None
        PROVE  waiting'[t] \in Live /\ waiter'[waiting'[t]] = t
    <3>1. CASE t = cpu BY <1>1, <1>10, <3>1
    <3>2. CASE t # cpu
      <4>1. waiting[t] \in Live /\ waiter[waiting[t]] = t
            BY <1>10, <2>1, <3>2 DEF IInv, WaitersAgree
      <4>2. waiting[t] # id BY <1>1, <4>1, NoneNotTid
      <4> QED BY <1>10, <3>2, <4>1, <4>2, LiveType DEF IInv
    <3> QED BY <3>1, <3>2
  <2>2. ASSUME NEW t \in Tid, waiter'[t] # None
        PROVE  waiter'[t] \in Live /\ waiting'[waiter'[t]] = t
    <3>1. CASE t = id BY <1>2, <1>10, <3>1
    <3>2. CASE t # id
      <4>1. waiter[t] \in Live /\ waiting[waiter[t]] = t
            BY <1>10, <2>2, <3>2 DEF IInv, WaitersAgree
      <4>2. waiter[t] # cpu BY <1>2, <4>1, NoneNotTid
      <4> QED BY <1>10, <3>2, <4>1, <4>2, LiveType DEF IInv
    <3> QED BY <3>1, <3>2
  <2>3. ASSUME NEW t \in Tid PROVE pend'[t] = waiting'[t]
    <3>1. pend[t] = waiting[t] BY DEF IInv, WaitersAgree
    <3> QED BY <1>2, <1>4, <1>10, <3>1, TidCode DEF IInv, TypeOK
  <2> QED BY <1>9, <2>1, <2>2, <2>3 DEF WaitersAgree
<1>17. ExitedWaitNot' BY <1>2, <1>9, <1>10 DEF IInv, ExitedWaitNot
<1>18. QueuedIff'
  <2>1. ASSUME NEW t \in Live, ~exited[t]
        PROVE  t \in Queued' <=> waiting'[t] = None \/ exited[waiting'[t]]
    <3>1. CASE t = cpu BY <1>1, <1>8, <1>10, <3>1, NoneNotTid
    <3>2. CASE t # cpu
      <4>1. t \in Queued <=> waiting[t] = None \/ exited[waiting[t]]
            BY <2>1 DEF IInv, QueuedIff
      <4> QED BY <1>8, <1>10, <3>2, <4>1, LiveType DEF IInv
    <3> QED BY <3>1, <3>2
  <2> QED BY <1>9, <2>1 DEF QueuedIff
<1>19. ExitedMeansOver' BY <1>9 DEF IInv, ExitedMeansOver
<1>20. NoWaitCycle'
  <2> SUFFICES ASSUME NEW B \in SUBSET Tid, B # {},
                      \A t \in B : waiting'[t] \in B
               PROVE  FALSE
        BY DEF NoWaitCycle
  <2>1. CASE cpu \notin B
        BY <1>10, <2>1 DEF IInv, NoWaitCycle
  <2>2. CASE cpu \in B
    <3>1. id \in B /\ waiting[id] \in B BY <1>1, <1>2, <1>10, <2>2
    <3>2. waiting[id] # None /\ exited[waiting[id]]
          BY <1>1, <3>1, NoneNotTid DEF IInv, QueuedIff
    <3>3. waiting[id] # cpu BY <1>2, <3>2
    <3>4. waiting[waiting[id]] \in B BY <1>10, <3>1, <3>3
    <3>5. waiting[waiting[id]] = None
          BY <3>1, <3>2 DEF IInv, ExitedWaitNot
    <3> QED BY <3>4, <3>5, NoneNotTid
  <2> QED BY <2>1, <2>2
<1> QED BY <1>11, <1>12, <1>13, <1>14, <1>15, <1>16, <1>17, <1>18, <1>19, <1>20
        DEF IInv

\* The running thread ends, by wut_exit or by returning: it leaves the FIFO,
\* its waiter is woken, and the next thread runs or the process exits.
LEMMA EndInv ==
    ASSUME IInv, Active,
           exited' = [exited EXCEPT ![cpu] = TRUE],
           over' = over \cup {cpu},
           UNCHANGED <<tcbq, waiter, waiting, ctx, stack, pend>>,
           IF AfterExit # <<>> THEN SwitchTo(AfterExit, ctx)
           ELSE proc' = "exited" /\ fifo' = <<>>,
           TypeOK'
    PROVE  IInv'
<1> DEFINE W == {w \in Live : waiting[w] = cpu}
<1>1. /\ fifo # <<>> /\ Me = cpu /\ cpu \in Tid /\ cpu \in Queued
      /\ cpu \in Live /\ ~exited[cpu] /\ waiting[cpu] = None
      /\ Tail(fifo) \in Seq(Tid) /\ IsInjective(Tail(fifo))
      /\ ToSet(Tail(fifo)) = Queued \ {cpu}
      BY ActiveFacts
<1>2. /\ AfterExit \in Seq(Tid) /\ IsInjective(AfterExit)
      /\ ToSet(AfterExit) = (Queued \ {cpu}) \cup W
      /\ \A w \in W : ~exited[w] /\ w # cpu
      BY <1>1, WakeLemma DEF AfterExit
<1>3. \A t \in ToSet(AfterExit) : t \in Live /\ ~exited[t] /\ t # cpu
      BY <1>2 DEF IInv, ReadyOnce
<1>4. /\ fifo' = AfterExit
      /\ proc' = "running" => fifo' # <<>> /\ Me' = cpu'
      /\ proc' \in {"running", "exited"} /\ (proc' = "exited" => fifo' = <<>>)
  <2>1. CASE AfterExit # <<>>
    <3>1. Head(AfterExit) \in ToSet(AfterExit) BY <1>2, <2>1, TailLemma
    <3>2. /\ Head(AfterExit) \in Live /\ ctx[Head(AfterExit)] = Head(AfterExit)
          /\ Head(AfterExit) \in Tid
          BY <1>3, <3>1, LiveType DEF IInv, Contexts
    <3>3. cpu' = Head(AfterExit) /\ proc' = proc /\ fifo' = AfterExit
          BY <2>1, <3>2, SwitchLemma, LiveType, NoneNotTid DEF IInv
    <3> QED BY <2>1, <3>3 DEF Active, Me
  <2>2. CASE AfterExit = <<>> BY <2>2
  <2> QED BY <2>1, <2>2
<1>5. Queued' = (Queued \ {cpu}) \cup W /\ Live' = Live
      BY <1>2, <1>4 DEF Queued, Live
<1>6. /\ \A t \in Tid \ {cpu} : exited'[t] = exited[t]
      /\ exited'[cpu] = TRUE
      BY <1>1 DEF IInv, TypeOK
<1>7. TidsSorted' BY DEF IInv, TidsSorted
<1>8. ProcOK' BY <1>4 DEF ProcOK
<1>9. RunningIsHead' BY <1>4 DEF RunningIsHead
<1>10. ReadyOnce'
  <2>1. ASSUME NEW t \in Queued' PROVE t \in Live' /\ ~exited'[t]
        BY <1>2, <1>3, <1>5, <1>6, <2>1, LiveType DEF IInv
  <2> QED BY <1>2, <1>4, <2>1 DEF ReadyOnce
<1>11. Contexts' BY <1>1, <1>5, <1>6, LiveType DEF IInv, Contexts
<1>12. WaitersAgree' BY <1>5 DEF IInv, WaitersAgree
<1>13. ExitedWaitNot' BY <1>1, <1>6 DEF IInv, ExitedWaitNot
<1>14. QueuedIff'
  <2>1. ASSUME NEW t \in Live, ~exited'[t]
        PROVE  t \in Queued' <=> waiting[t] = None \/ exited'[waiting[t]]
    <3>1. t \in Tid /\ t # cpu /\ ~exited[t]
          BY <1>6, <2>1, LiveType DEF IInv
    <3>2. t \in Queued <=> waiting[t] = None \/ exited[waiting[t]]
          BY <3>1 DEF IInv, QueuedIff
    <3>3. CASE waiting[t] = cpu BY <1>5, <1>6, <3>1, <3>3
    <3>4. CASE waiting[t] # cpu
      <4>1. waiting[t] # None => exited'[waiting[t]] = exited[waiting[t]]
            BY <1>6, <3>1, <3>4 DEF IInv, TypeOK
      <4>2. t \in Queued' <=> t \in Queued BY <1>5, <3>1, <3>4
      <4> QED BY <3>2, <4>1, <4>2
    <3> QED BY <3>3, <3>4
  <2> QED BY <1>5, <2>1 DEF QueuedIff
<1>15. ExitedMeansOver'
       BY <1>1, <1>5, <1>6, LiveType DEF IInv, ExitedMeansOver
<1>16. NoWaitCycle' BY DEF IInv, NoWaitCycle
<1> QED BY <1>7, <1>8, <1>9, <1>10, <1>11, <1>12, <1>13, <1>14, <1>15, <1>16
        DEF IInv

\* The function of a thread returns.
LEMMA ReturnInv ==
    ASSUME Disciplined, IInv, Return, TypeOK'
    PROVE  IInv'
<1>1. Active /\ ExitCleanup(fifo, exited) BY DEF Return
<1>2. Me = cpu BY <1>1, ActiveFacts
<1>3. WakeWaiter(Tail(fifo), Head(fifo)) = AfterExit BY DEF AfterExit, Me
<1>4. ~CancelledUnreaped \/ AfterExit # <<>>
      BY <1>1, <1>3 DEF ExitCleanup, Finished, Disciplined
<1>5. /\ exited' = [exited EXCEPT ![cpu] = TRUE]
      /\ over' = over \cup {cpu}
      /\ UNCHANGED <<tcbq, waiter, waiting, ctx, stack, pend>>
      /\ IF AfterExit # <<>> THEN SwitchTo(AfterExit, ctx)
         ELSE proc' = "exited" /\ fifo' = <<>>
      BY <1>1, <1>2, <1>3, <1>4 DEF ExitCleanup, Finished, Me
<1> QED BY <1>1, <1>5, EndInv

\* wut_exit by a thread that is not the last to run.
LEMMA ExitInv ==
    ASSUME IInv, NEW arg \in ExitArgs, Exit(arg), TypeOK'
    PROVE  IInv'
<1>1. Active /\ AfterExit # <<>> BY DEF Exit
<1>2. Me = cpu BY <1>1, ActiveFacts
<1>3. /\ exited' = [exited EXCEPT ![cpu] = TRUE]
      /\ over' = over \cup {cpu}
      /\ UNCHANGED <<tcbq, waiter, waiting, ctx, stack, pend>>
      /\ SwitchTo(AfterExit, ctx)
      BY <1>2 DEF Exit
<1> QED BY <1>1, <1>3, EndInv

\* Every step of a disciplined client preserves the invariant.
LEMMA NextInv ==
    ASSUME Disciplined, IInv, TypeOK', [Next]_vars
    PROVE  IInv'
<1>1. Active => fifo # <<>> BY ActiveFacts
<1>2. CASE Create BY <1>2, CreateInv
<1>3. CASE Yield BY <1>3, YieldInv
<1>4. ASSUME NEW id \in Tid, Cancel(id) PROVE IInv' BY <1>4, CancelInv
<1>5. ASSUME NEW id \in Tid, JoinReap(id) PROVE IInv' BY <1>5, JoinReapInv
<1>6. ASSUME NEW id \in Tid, JoinBlock(id) PROVE IInv' BY <1>6, JoinBlockInv
<1>7. CASE JoinReturn BY <1>7, JoinReturnInv
<1>8. CASE Return BY <1>8, ReturnInv
<1>9. ASSUME NEW arg \in ExitArgs, Exit(arg) PROVE IInv' BY <1>9, ExitInv
<1>10. CASE \/ YieldNowhere \/ CancelNoThread \/ ReturnNowhere \/ ExitNowhere
            \/ \E id \in Tid : JoinNoThread(id)
       BY <1>1, <1>10
       DEF YieldNowhere, CancelNoThread, ReturnNowhere, ExitNowhere, JoinNoThread
<1>11. ASSUME NEW id \in Tid, UnmapOwnStack(id) PROVE IInv'
  <2>1. Active /\ id # Me
        BY <1>11 DEF UnmapOwnStack, Cancellable, JoinAccepted, Joinable
  <2>2. id # cpu BY <2>1, ActiveFacts
  <2> QED BY <1>11, <2>2, NotOwnStack DEF UnmapOwnStack
<1>12. CASE YieldAlone \/ ExitLast \/ \E arg \in ExitArgs : ExitUnlinked(arg)
       BY <1>12 DEF Disciplined, YieldAlone, ExitLast, ExitUnlinked
<1>13. CASE UNCHANGED vars
  <2>1. UNCHANGED <<Live, Queued, Me>> BY <1>13 DEF vars, Live, Queued, Me
  <2> QED BY <1>13, <2>1
      DEF vars, IInv, TidsSorted, ProcOK, RunningIsHead, ReadyOnce, Contexts,
          WaitersAgree, ExitedWaitNot, QueuedIff, ExitedMeansOver,
          NoWaitCycle
<1> QED BY <1>2, <1>3, <1>4, <1>5, <1>6, <1>7, <1>8, <1>9, <1>10, <1>11, <1>12,
           <1>13
        DEF Next, Switch, CancelRefused, JoinRefused, Stopped

-----------------------------------------------------------------------------
(* The theorems.                                                           *)

\* The invariant holds in every state a disciplined client can reach.
THEOREM Invariance == ASSUME Disciplined PROVE Spec => []IInv
<1>1. Init => IInv BY InitInv
<1>2. TypeOK' /\ IInv /\ [Next]_vars => IInv' BY NextInv
<1> QED BY <1>1, <1>2, TypeCorrect, PTL DEF Spec

\* No call leaves a thread neither ready nor waiting for a thread that will
\* wake it.
THEOREM NoWakeupLost == ASSUME Disciplined PROVE Spec => []NoLostWakeup
BY Invariance, NoLostWakeupInv, PTL

\* The two ends of every wait link agree, and the tcb that a blocked wut_join
\* holds on to exists.
THEOREM WaitLinksAgree == ASSUME Disciplined PROVE Spec => []WaitersAgree
<1>1. IInv => WaitersAgree BY DEF IInv
<1> QED BY <1>1, Invariance, PTL

\* Threads never wait on each other in a cycle.
THEOREM NoWaitCycles == ASSUME Disciplined PROVE Spec => []NoWaitCycle
<1>1. IInv => NoWaitCycle BY DEF IInv
<1> QED BY <1>1, Invariance, PTL

\* Every entry of the FIFO is there once, and is a thread that can run.
THEOREM ReadyQueue == ASSUME Disciplined PROVE Spec => []ReadyOnce
<1>1. IInv => ReadyOnce BY DEF IInv
<1> QED BY <1>1, Invariance, PTL

\* The thread on the processor is the head of the FIFO, which wut_id names.
THEOREM RunningThreadIsHead == ASSUME Disciplined PROVE Spec => []RunningIsHead
<1>1. IInv => RunningIsHead BY DEF IInv
<1> QED BY <1>1, Invariance, PTL

\* No call crashes: none dereferences NULL or a freed tcb, or resumes a freed
\* context.
THEOREM NoCrash == ASSUME Disciplined PROVE Spec => []NeverCrashes
<1>1. IInv => NeverCrashes BY DEF IInv, ProcOK, NeverCrashes
<1> QED BY <1>1, Invariance, PTL

\* has_exited is set for exactly the threads whose code will not run again.
THEOREM FlagsTellTheTruth == ASSUME Disciplined PROVE Spec => []ExitedMeansOver
<1>1. IInv => ExitedMeansOver BY DEF IInv
<1> QED BY <1>1, Invariance, PTL

\* exit(0) leaves no thread unfinished: an empty FIFO means that every thread
\* has exited, because the threads that have not would be a wait cycle.
THEOREM NobodyLeftBehind == ASSUME Disciplined PROVE Spec => []NothingLeftBehind
BY Invariance, LeftBehindInv, PTL
=============================================================================
