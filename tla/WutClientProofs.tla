-------------------------- MODULE WutClientProofs --------------------------
(***************************************************************************)
(* What a client that makes none of the hazardous calls can rely on: the   *)
(* threads take turns in the order of the FIFO, and the library implements *)
(* JoinableThreads.  Both follow from the inductive invariant IInv.        *)
(***************************************************************************)
EXTENDS WutSafetyProofs

-----------------------------------------------------------------------------
(* The end of a thread.                                                    *)

\* Waking a waiter moves no thread of the queue.
LEMMA WakePos ==
    ASSUME IInv, NEW t \in Live, ~exited[t],
           NEW q \in Seq(Tid), IsInjective(q), ToSet(q) \subseteq Queued,
           NEW u \in ToSet(q)
    PROVE  Pos(WakeWaiter(q, t), u) = Pos(q, u)
<1>1. IsInjective(WakeWaiter(q, t)) BY WakeLemma
<1>2. CASE waiter[t] \in Live
  <2>1. WakeWaiter(q, t) = Append(q, waiter[t]) BY <1>2 DEF WakeWaiter
  <2>2. waiter[t] \in Tid BY <1>2, LiveType DEF IInv
  <2> QED BY <1>1, <2>1, <2>2, PosAppend
<1>3. CASE waiter[t] \notin Live BY <1>3 DEF WakeWaiter
<1> QED BY <1>2, <1>3

\* A thread that returns or calls wut_exit is marked as exited, its waiter is
\* woken, and the process goes on unless nobody is left to run.
LEMMA EndStep ==
    ASSUME Disciplined, IInv, Return \/ \E arg \in ExitArgs : Exit(arg)
    PROVE  /\ Active
           /\ exited' = [exited EXCEPT ![cpu] = TRUE]
           /\ UNCHANGED <<tcbq, waiter, waiting, pend>>
           /\ status' = [status EXCEPT ![cpu] = status'[cpu]]
           /\ fifo' = AfterExit
           /\ AfterExit # <<>> => proc' = "running"
           /\ AfterExit = <<>> => proc' = "exited" /\ cpu' = cpu
<1>1. Active BY DEF Return, Exit
<1>2. /\ fifo # <<>> /\ Me = cpu /\ cpu \in Tid /\ cpu \in Live /\ ~exited[cpu]
      /\ Tail(fifo) \in Seq(Tid) /\ IsInjective(Tail(fifo))
      /\ ToSet(Tail(fifo)) = Queued \ {cpu}
      BY <1>1, ActiveFacts
<1>3. ASSUME AfterExit # <<>>, SwitchTo(AfterExit, ctx)
      PROVE  fifo' = AfterExit /\ proc' = "running"
  <2>1. /\ AfterExit \in Seq(Tid)
        /\ \A t \in ToSet(AfterExit) : t \in Live /\ ~exited[t]
        BY <1>2, WakeLemma DEF AfterExit, IInv, ReadyOnce
  <2>2. Head(AfterExit) \in ToSet(AfterExit) BY <1>3, <2>1, TailLemma
  <2>3. /\ Head(AfterExit) \in Live /\ ctx[Head(AfterExit)] = Head(AfterExit)
        /\ Head(AfterExit) \in Tid
        BY <2>1, <2>2, LiveType DEF IInv, Contexts
  <2>4. proc' = proc /\ fifo' = AfterExit
        BY <1>3, <2>3, SwitchLemma, LiveType, NoneNotTid DEF IInv
  <2> QED BY <1>1, <2>4 DEF Active
<1>4. CASE Return
  <2>1. ExitCleanup(fifo, exited) /\ UNCHANGED status BY <1>4 DEF Return
  <2>2. WakeWaiter(Tail(fifo), Head(fifo)) = AfterExit BY DEF AfterExit, Me
  <2>3. /\ exited' = [exited EXCEPT ![cpu] = TRUE]
        /\ UNCHANGED <<tcbq, waiter, waiting, pend>>
        /\ AfterExit # <<>> => SwitchTo(AfterExit, ctx)
        /\ AfterExit = <<>> =>
                proc' = "exited" /\ fifo' = AfterExit /\ cpu' = cpu
        BY <1>2, <2>1, <2>2 DEF ExitCleanup, Finished, Disciplined, Me
  <2>4. status' = [status EXCEPT ![cpu] = status'[cpu]]
        BY <1>2, <2>1 DEF IInv, TypeOK
  <2> QED BY <1>1, <1>3, <2>3, <2>4
<1>5. CASE \E arg \in ExitArgs : Exit(arg)
  <2>1. PICK arg \in ExitArgs : Exit(arg) BY <1>5
  <2>2. /\ exited' = [exited EXCEPT ![cpu] = TRUE]
        /\ UNCHANGED <<tcbq, waiter, waiting, pend>>
        /\ AfterExit # <<>> /\ SwitchTo(AfterExit, ctx)
        /\ status' = [status EXCEPT ![cpu] = Masked(arg)]
        BY <1>2, <2>1 DEF Exit
  <2>3. status' = [status EXCEPT ![cpu] = status'[cpu]]
        BY <1>2, <2>2 DEF IInv, TypeOK
  <2> QED BY <1>1, <1>3, <2>2, <2>3
<1> QED BY <1>4, <1>5

\* The calls that refuse, or that the client does not make.
LEMMA IdleSteps ==
    ASSUME Disciplined, IInv, [Next]_vars
    PROVE  \/ Create \/ Yield \/ JoinReturn
           \/ \E id \in Tid : Cancel(id) \/ JoinReap(id) \/ JoinBlock(id)
           \/ Return \/ \E arg \in ExitArgs : Exit(arg)
           \/ UNCHANGED vars
<1>1. Active => fifo # <<>> BY ActiveFacts
<1>2. CASE \/ YieldNowhere \/ CancelNoThread \/ ReturnNowhere \/ ExitNowhere
           \/ \E id \in Tid : JoinNoThread(id)
      BY <1>1, <1>2
      DEF YieldNowhere, CancelNoThread, ReturnNowhere, ExitNowhere, JoinNoThread
<1>3. CASE YieldAlone \/ ExitLast \/ \E arg \in ExitArgs : ExitUnlinked(arg)
      BY <1>3 DEF Disciplined, YieldAlone, ExitLast, ExitUnlinked
<1>4. ASSUME NEW id \in Tid, UnmapOwnStack(id) PROVE FALSE
  <2>1. Active /\ id # Me
        BY <1>4 DEF UnmapOwnStack, Cancellable, JoinAccepted, Joinable
  <2>2. id # cpu BY <2>1, ActiveFacts
  <2> QED BY <1>4, <2>2, NotOwnStack DEF UnmapOwnStack
<1> QED BY <1>2, <1>3, <1>4 DEF Next, Switch, CancelRefused, JoinRefused, Stopped

-----------------------------------------------------------------------------
(* The order of the FIFO.                                                  *)

\* A context switch moves every thread that stays queued one place forward,
\* any other call moves none of them back.
LEMMA RoundRobinStep ==
    ASSUME Disciplined, IInv, IInv', [Next]_vars,
           NEW t \in Queued \ {cpu}, t \in Queued'
    PROVE  IF cpu' # cpu THEN Pos(fifo', t) = Pos(fifo, t) - 1
           ELSE Pos(fifo', t) <= Pos(fifo, t)
<1>1. /\ fifo \in Seq(Tid) /\ IsInjective(fifo) /\ t \in ToSet(fifo)
      /\ IsInjective(fifo')
      BY DEF IInv, TypeOK, ReadyOnce, Queued
<1>2. Pos(fifo, t) \in Int BY <1>1, PosLemma, LenProperties
<1>3. ASSUME UNCHANGED <<fifo, cpu>> PROVE Pos(fifo', t) <= Pos(fifo, t)
      BY <1>2, <1>3 DEF Pos
<1>4. ASSUME Active
      PROVE  /\ fifo # <<>> /\ Me = cpu /\ cpu \in Tid /\ cpu \in Live
             /\ ~exited[cpu] /\ Tail(fifo) \in Seq(Tid)
             /\ IsInjective(Tail(fifo)) /\ ToSet(Tail(fifo)) = Queued \ {cpu}
             /\ Pos(Tail(fifo), t) = Pos(fifo, t) - 1
  <2>1. /\ fifo # <<>> /\ Me = cpu /\ cpu \in Tid /\ cpu \in Live
        /\ ~exited[cpu] /\ Tail(fifo) \in Seq(Tid)
        /\ IsInjective(Tail(fifo)) /\ ToSet(Tail(fifo)) = Queued \ {cpu}
        BY <1>4, ActiveFacts
  <2> QED BY <1>1, <2>1, PosTail DEF Me
<1>5. ASSUME proc' = "running", IsInjective(fifo'),
             cpu \notin Queued' \/ Head(fifo') # cpu
      PROVE  cpu' # cpu
  <2>1. cpu' = Head(fifo') /\ fifo' # <<>>
        BY <1>5 DEF IInv, RunningIsHead, Me
  <2>2. cpu' \in Queued' BY <2>1, TailLemma DEF IInv, TypeOK, Queued
  <2> QED BY <1>5, <2>1, <2>2
<1>6. CASE Create
  <2>1. Active /\ cpu' = cpu BY <1>6 DEF Create
  <2>2. PICK e \in Tid : fifo' = Append(fifo, e)
        BY <1>6, LenProperties, MaxTidAssumption DEF Create, Tid, IInv, TypeOK
  <2> QED BY <1>1, <1>2, <2>1, <2>2, PosAppend
<1>7. CASE Yield
  <2>1. Active /\ Len(fifo) > 1 BY <1>7 DEF Yield
  <2>2. fifo' = Append(Tail(fifo), cpu) /\ cpu \in Tid
        BY <1>4, <1>7, <2>1 DEF Yield, Rotated, SwitchTo, Resume
  <2>3. Pos(fifo', t) = Pos(Tail(fifo), t)
        BY <1>1, <1>4, <2>1, <2>2, PosAppend DEF Queued
  <2>4. cpu' # cpu
    <3>1. Head(fifo') \in ToSet(fifo) \ {cpu}
          BY <1>1, <1>4, <2>1, <2>2, RotateLemma DEF Me
    <3>2. proc' = "running"
      <4>1. fifo' # <<>> BY <1>1, <1>4, <2>1, <2>2, RotateLemma DEF Me
      <4> QED BY <4>1 DEF IInv, ProcOK
    <3> QED BY <1>1, <1>5, <3>1, <3>2
  <2> QED BY <1>4, <2>1, <2>3, <2>4
<1>8. ASSUME NEW id \in Tid, Cancel(id)
      PROVE  cpu' = cpu /\ Pos(fifo', t) <= Pos(fifo, t)
  <2>1. /\ Active /\ id \in Live /\ id # Me /\ ~exited[id] /\ cpu' = cpu
        /\ fifo' = WakeWaiter(Without(id), id) /\ exited'[id]
        BY <1>8 DEF Cancel, Cancellable, IInv, TypeOK
  <2>2. t # id BY <2>1 DEF IInv, ReadyOnce
  <2>3. /\ Without(id) \in Seq(Tid) /\ IsInjective(Without(id))
        /\ ToSet(Without(id)) = Queued \ {id}
        /\ Pos(Without(id), t) <= Pos(fifo, t)
    <3>1. CASE id \in Queued
      <4>1. /\ Pos(fifo, id) \in 1..Len(fifo) /\ fifo[Pos(fifo, id)] = id
            BY <1>1, <3>1, PosLemma DEF Queued
      <4> QED BY <1>1, <2>2, <3>1, <4>1, RemoveLemma, PosRemove
              DEF Without, Queued
    <3>2. CASE id \notin Queued BY <1>1, <1>2, <3>2 DEF Without, Queued
    <3> QED BY <3>1, <3>2
  <2>4. Pos(fifo', t) = Pos(Without(id), t)
        BY <2>1, <2>2, <2>3, WakePos
  <2> QED BY <2>1, <2>3, <2>4
<1>9. ASSUME NEW id \in Tid, JoinBlock(id) PROVE
      cpu' # cpu /\ Pos(fifo', t) = Pos(fifo, t) - 1
  <2>1. Active /\ fifo' = Tail(fifo)
        BY <1>9 DEF JoinBlock, JoinAccepted, SwitchTo, Resume
  <2>2. cpu \notin Queued' BY <1>4, <2>1 DEF Queued
  <2>3. fifo' # <<>> BY DEF Queued, ToSet
  <2>4. proc' = "running" BY <2>3 DEF IInv, ProcOK
  <2> QED BY <1>1, <1>4, <1>5, <2>1, <2>2, <2>4
<1>10. ASSUME Return \/ \E arg \in ExitArgs : Exit(arg)
       PROVE  cpu' # cpu /\ Pos(fifo', t) = Pos(fifo, t) - 1
  <2>1. Active /\ fifo' = AfterExit /\ exited'[cpu]
        BY <1>10, EndStep, ActiveFacts DEF IInv, TypeOK
  <2>2. Pos(fifo', t) = Pos(Tail(fifo), t)
        BY <1>4, <2>1, WakePos DEF AfterExit
  <2>3. cpu \notin Queued' BY <2>1 DEF IInv, ReadyOnce
  <2>4. fifo' # <<>> BY DEF Queued, ToSet
  <2>5. proc' = "running" BY <2>4 DEF IInv, ProcOK
  <2> QED BY <1>1, <1>4, <1>5, <2>1, <2>2, <2>3, <2>5
<1>11. CASE JoinReturn \/ \E id \in Tid : JoinReap(id)
  <2>1. UNCHANGED <<fifo, cpu>> BY <1>11 DEF JoinReturn, JoinReap, Halt
  <2> QED BY <1>3, <2>1
<1>12. CASE UNCHANGED vars BY <1>3, <1>12 DEF vars
<1> QED BY <1>6, <1>7, <1>8, <1>9, <1>10, <1>11, <1>12, IdleSteps

\* The FIFO is served in order: RoundRobin of the runs.
THEOREM ServedInOrder == ASSUME Disciplined PROVE Spec => RoundRobin
<1> DEFINE A == \A t \in Queued \ {cpu} : t \in Queued' =>
                    IF cpu' # cpu THEN Pos(fifo', t) = Pos(fifo, t) - 1
                    ELSE Pos(fifo', t) <= Pos(fifo, t)
<1>1. IInv /\ IInv' /\ [Next]_vars => [A]_vars
      BY RoundRobinStep
<1> QED BY <1>1, Invariance, PTL DEF Spec, RoundRobin

-----------------------------------------------------------------------------
(* What the client sees: JoinableThreads.                                  *)

\* The view of a thread shows its flag, its status and its wait link, and the
\* threads that can go on are those of the FIFO.
ViewOK ==
    /\ DOMAIN ClientView = Live
    /\ \A t \in Live :
        /\ exited[t] => ClientView[t] = ThreadsView!DoneWith(status[t])
        /\ ~exited[t] /\ waiting[t] # None =>
                ClientView[t] = ThreadsView!BlockedOn(waiting[t])
        /\ ~exited[t] /\ waiting[t] = None => ClientView[t] = ThreadsView!Ready
        /\ ClientView[t].phase = "done" <=> exited[t]
    /\ ThreadsView!Runnable(ClientView) = Queued

LEMMA ViewInv == IInv => ViewOK
<1> SUFFICES ASSUME IInv PROVE ViewOK OBVIOUS
<1>1. DOMAIN ClientView = Live BY DEF ClientView
<1>2. \A t \in Live : pend[t] = waiting[t]
      BY LiveType DEF IInv, WaitersAgree
<1>3. ASSUME NEW t \in Live
      PROVE  /\ exited[t] => ClientView[t] = ThreadsView!DoneWith(status[t])
             /\ ~exited[t] /\ waiting[t] # None =>
                    ClientView[t] = ThreadsView!BlockedOn(waiting[t])
             /\ ~exited[t] /\ waiting[t] = None =>
                    ClientView[t] = ThreadsView!Ready
      BY <1>2, NoneNotTid
      DEF ClientView, ThreadsView!DoneWith, ThreadsView!BlockedOn,
          ThreadsView!Ready, ThreadsView!Thread, ThreadsView!Nobody, None
<1>4. /\ \A o : ThreadsView!DoneWith(o).phase = "done"
      /\ \A u : /\ ThreadsView!BlockedOn(u).phase = "blocked"
                /\ ThreadsView!BlockedOn(u).on = u
      /\ ThreadsView!Ready.phase = "ready"
      BY DEF ThreadsView!DoneWith, ThreadsView!BlockedOn, ThreadsView!Ready,
             ThreadsView!Thread
<1>5. ASSUME NEW t \in Live
      PROVE  /\ ClientView[t].phase = "done" <=> exited[t]
             /\ ClientView[t].phase = "ready" <=> ~exited[t] /\ waiting[t] = None
             /\ ClientView[t].phase = "blocked" <=>
                    ~exited[t] /\ waiting[t] # None
             /\ ClientView[t].phase = "blocked" => ClientView[t].on = waiting[t]
  <2>1. CASE exited[t] BY <1>3, <1>4, <2>1
  <2>2. CASE ~exited[t] /\ waiting[t] # None BY <1>3, <1>4, <2>2
  <2>3. CASE ~exited[t] /\ waiting[t] = None BY <1>3, <1>4, <2>3
  <2> QED BY <2>1, <2>2, <2>3
<1>6. ASSUME NEW t \in Live
      PROVE  t \in ThreadsView!Runnable(ClientView) <=> t \in Queued
  <2>1. t \in ThreadsView!Runnable(ClientView) <=>
            \/ ClientView[t].phase = "ready"
            \/ /\ ClientView[t].phase = "blocked"
               /\ ClientView[t].on \in Live
               /\ ClientView[ClientView[t].on].phase = "done"
        BY <1>1 DEF ThreadsView!Runnable
  <2>2. CASE exited[t] BY <1>5, <2>1, <2>2 DEF IInv, ReadyOnce
  <2>3. CASE ~exited[t] /\ waiting[t] = None
        BY <1>5, <2>1, <2>3 DEF IInv, QueuedIff
  <2>4. CASE ~exited[t] /\ waiting[t] # None
    <3>1. waiting[t] \in Live
          BY <2>4, LiveType DEF IInv, WaitersAgree
    <3>2. ClientView[waiting[t]].phase = "done" <=> exited[waiting[t]]
          BY <1>5, <3>1
    <3> QED BY <1>5, <2>1, <2>4, <3>1, <3>2 DEF IInv, QueuedIff
  <2> QED BY <2>2, <2>3, <2>4
<1>7. Queued \subseteq Live BY DEF IInv, ReadyOnce
<1>8. ThreadsView!Runnable(ClientView) \subseteq Live
      BY <1>1 DEF ThreadsView!Runnable
<1>9. ThreadsView!Runnable(ClientView) = Queued BY <1>6, <1>7, <1>8
<1> QED BY <1>1, <1>3, <1>5, <1>9 DEF ViewOK

LEMMA ViewInvNext == IInv' => ViewOK'
BY ViewInv, PTL

\* The view of a thread depends on its own fields only.
LEMMA SameThread ==
    ASSUME ViewOK, ViewOK', NEW t \in Live, t \in Live',
           exited'[t] = exited[t], status'[t] = status[t],
           waiting'[t] = waiting[t]
    PROVE  ClientView'[t] = ClientView[t]
<1>1. CASE exited[t] BY <1>1 DEF ViewOK
<1>2. CASE ~exited[t] /\ waiting[t] # None
      BY <1>2 DEF ViewOK, ThreadsView!BlockedOn, ThreadsView!Thread
<1>3. CASE ~exited[t] /\ waiting[t] = None
      BY <1>3 DEF ViewOK, ThreadsView!Ready, ThreadsView!Thread
<1> QED BY <1>1, <1>2, <1>3

\* The thread that executes the client's code is ready, and is not waiting.
LEMMA RunningView ==
    ASSUME IInv, Active
    PROVE  ThreadsView!Running
<1>1. ViewOK BY ViewInv
<1>2. cpu \in Live /\ ~exited[cpu] /\ waiting[cpu] = None BY ActiveFacts
<1>3. proc = "running" BY DEF Active
<1> QED BY <1>1, <1>2, <1>3 DEF ViewOK, ThreadsView!Running

\* wut_create adds a thread that is ready.
LEMMA CreateView ==
    ASSUME IInv, IInv', Create
    PROVE  ThreadsView!Create
<1>1. ViewOK /\ ViewOK' BY ViewInv, ViewInvNext
<1>2. Active /\ UNCHANGED <<proc, cpu>> BY DEF Create
<1>3. PICK i \in 1..(Len(tcbq) + 1) :
        /\ ScanStops(i)
        /\ tcbq' = InsertAt(tcbq, i, i - 1)
        /\ status' = [status EXCEPT ![i - 1] = 0]
        /\ waiting' = [waiting EXCEPT ![i - 1] = None]
        /\ exited' = [exited EXCEPT ![i - 1] = FALSE]
      BY DEF Create
<1> DEFINE new == i - 1
<1>4. new \in Tid /\ new \notin Live
  <2>1. new \in Tid
        BY LenProperties, MaxTidAssumption DEF Create, Tid, IInv, TypeOK
  <2> QED BY <1>3, <2>1, ScanLemma DEF IInv
<1>5. Live' = Live \cup {new}
      BY <1>3, <1>4, InsertLemma DEF IInv, TypeOK, Live
<1>6. /\ ~exited'[new] /\ waiting'[new] = None
      /\ \A t \in Tid \ {new} : /\ exited'[t] = exited[t]
                                /\ status'[t] = status[t]
                                /\ waiting'[t] = waiting[t]
      BY <1>3, <1>4 DEF IInv, TypeOK
<1> HIDE DEF new
<1>7. ASSUME NEW u \in Live'
      PROVE  ClientView'[u] = IF u = new THEN ThreadsView!Ready
                              ELSE ClientView[u]
  <2>1. CASE u = new
        BY <1>1, <1>6, <2>1 DEF ViewOK, ThreadsView!Ready, ThreadsView!Thread
  <2>2. CASE u # new
    <3>1. u \in Live /\ u \in Tid \ {new} BY <1>5, <2>2, LiveType DEF IInv
    <3> QED BY <1>1, <1>6, <2>2, <3>1, SameThread
  <2> QED BY <2>1, <2>2
<1>8. ClientView' = [u \in Live \cup {new} |->
                        IF u = new THEN ThreadsView!Ready ELSE ClientView[u]]
  <2>1. ClientView' = [u \in Live' |-> ClientView'[u]] BY DEF ClientView
  <2> QED BY <1>5, <1>7, <2>1
<1>9. DOMAIN ClientView = Live BY <1>1 DEF ViewOK
<1>10. ThreadsView!Running BY <1>2, RunningView
<1> QED BY <1>2, <1>4, <1>8, <1>9, <1>10 DEF ThreadsView!Create

\* wut_yield hands over to a thread that can go on, and changes none.
LEMMA YieldView ==
    ASSUME IInv, IInv', Yield
    PROVE  ThreadsView!Yield
<1>1. ViewOK /\ ViewOK' BY ViewInv, ViewInvNext
<1>2. /\ Active /\ Len(fifo) > 1
      /\ UNCHANGED <<tcbq, status, waiting, exited, pend>>
      BY DEF Yield
<1>3. /\ fifo # <<>> /\ Me = cpu /\ cpu \in Tid
      /\ fifo \in Seq(Tid) /\ IsInjective(fifo)
      BY <1>2, ActiveFacts DEF IInv, TypeOK, ReadyOnce
<1>4. fifo' = Append(Tail(fifo), Me)
      BY DEF Yield, Rotated, SwitchTo, Resume
<1>5. fifo' # <<>> /\ Head(fifo') \in Queued \ {cpu}
      BY <1>2, <1>3, <1>4, RotateLemma DEF Queued, Me
<1>6. proc' = "running" /\ cpu' = Head(fifo')
      BY <1>5 DEF IInv, ProcOK, RunningIsHead, Me
<1>7. ClientView' = ClientView BY <1>2 DEF ClientView, Live
<1>8. ThreadsView!Running BY <1>2, RunningView
<1>9. UNCHANGED (proc = "running") BY <1>2, <1>6 DEF Active
<1> QED BY <1>1, <1>5, <1>6, <1>7, <1>8, <1>9 DEF ViewOK, ThreadsView!Yield

\* wut_cancel gives its target the outcome of a cancelled thread.
LEMMA CancelView ==
    ASSUME IInv, IInv', NEW id \in Tid, Cancel(id)
    PROVE  id \in ThreadsView!Others /\ ThreadsView!Cancel(id)
<1>1. ViewOK /\ ViewOK' BY ViewInv, ViewInvNext
<1>2. /\ Active /\ id \in Live /\ id # Me /\ ~exited[id]
      /\ UNCHANGED <<proc, cpu, tcbq>> /\ Live' = Live
      BY DEF Cancel, Cancellable, Live
<1>3. Me = cpu BY <1>2, ActiveFacts
<1>4. /\ exited'[id] /\ status'[id] = CancelStatus
      /\ \A t \in Tid \ {id} : /\ exited'[t] = exited[t]
                               /\ status'[t] = status[t]
                               /\ waiting'[t] = waiting[t]
  <2>1. waiting' = waiting \/ waiting' = [waiting EXCEPT ![id] = None]
        BY DEF Cancel, WaitsOnLive
  <2> QED BY <2>1 DEF Cancel, IInv, TypeOK
<1>5. ASSUME NEW u \in Live
      PROVE  ClientView'[u] =
                IF u = id THEN ThreadsView!DoneWith(128) ELSE ClientView[u]
  <2>1. CASE u = id
        BY <1>1, <1>2, <1>4, <2>1
        DEF ViewOK, ThreadsView!DoneWith, ThreadsView!Thread, CancelStatus
  <2>2. CASE u # id
        BY <1>1, <1>2, <1>4, <2>2, LiveType, SameThread DEF IInv
  <2> QED BY <2>1, <2>2
<1>6. ClientView' = [ClientView EXCEPT ![id] =
                        ThreadsView!DoneWith(ThreadsView!Cancelled)]
  <2>1. /\ ClientView' = [u \in Live |-> ClientView'[u]]
        /\ ClientView = [u \in Live |-> ClientView[u]]
        BY <1>2 DEF ClientView
  <2> QED BY <1>5, <2>1 DEF ThreadsView!Cancelled
<1>7. ThreadsView!Running BY <1>2, RunningView
<1>8. ~ThreadsView!Done(id) /\ id \in ThreadsView!Others
      BY <1>1, <1>2, <1>3 DEF ViewOK, ThreadsView!Done, ThreadsView!Others
<1> QED BY <1>2, <1>6, <1>7, <1>8 DEF ThreadsView!Cancel

\* Somebody waits on a thread only if its waiter_id says so.
LEMMA UnjoinedView ==
    ASSUME IInv, NEW id \in Live, waiter[id] = None
    PROVE  ~ThreadsView!Joined(id)
<1>1. ViewOK BY ViewInv
<1> SUFFICES ASSUME NEW u \in Live, ClientView[u] = ThreadsView!BlockedOn(id)
             PROVE  FALSE
    BY <1>1 DEF ThreadsView!Joined, ViewOK
<1>2. CASE exited[u]
      BY <1>1, <1>2
      DEF ViewOK, ThreadsView!DoneWith, ThreadsView!BlockedOn, ThreadsView!Thread
<1>3. CASE ~exited[u] /\ waiting[u] = None
      BY <1>1, <1>3
      DEF ViewOK, ThreadsView!Ready, ThreadsView!BlockedOn, ThreadsView!Thread
<1>4. CASE ~exited[u] /\ waiting[u] # None
  <2>1. ClientView[u] = ThreadsView!BlockedOn(waiting[u])
        BY <1>1, <1>4 DEF ViewOK
  <2>2. /\ ThreadsView!BlockedOn(waiting[u]).on = waiting[u]
        /\ ThreadsView!BlockedOn(id).on = id
        BY DEF ThreadsView!BlockedOn, ThreadsView!Thread
  <2>3. waiting[u] = id BY <2>1, <2>2
  <2>4. u \in Tid /\ waiter[waiting[u]] = u
        BY <1>4, LiveType DEF IInv, WaitersAgree
  <2> QED BY <2>3, <2>4, NoneNotTid
<1> QED BY <1>2, <1>3, <1>4

\* A caller of wut_join that has to wait is blocked on a thread that can go on
\* and that nobody else waits for.
LEMMA JoinBlockView ==
    ASSUME IInv, IInv', NEW id \in Tid, JoinBlock(id)
    PROVE  id \in ThreadsView!Others /\ ThreadsView!Block(id)
<1>1. ViewOK /\ ViewOK' BY ViewInv, ViewInvNext
<1>2. /\ Active /\ id \in Live /\ id # Me /\ waiter[id] = None /\ ~exited[id]
      /\ id \in Queued
      BY DEF JoinBlock, JoinAccepted, Joinable, Unjoined, NotBlocked
<1>3. /\ fifo # <<>> /\ Me = cpu /\ cpu \in Tid /\ cpu \in Live /\ ~exited[cpu]
      /\ ToSet(Tail(fifo)) = Queued \ {cpu}
      BY <1>2, ActiveFacts
<1>4. /\ fifo' = Tail(fifo) /\ UNCHANGED <<tcbq, status, exited>>
      /\ waiting' = [waiting EXCEPT ![cpu] = id]
      BY <1>3 DEF JoinBlock, SwitchTo, Resume
<1>5. Live' = Live BY <1>4 DEF Live
<1>6. /\ \A t \in Tid \ {cpu} : waiting'[t] = waiting[t]
      /\ waiting'[cpu] = id
      BY <1>3, <1>4 DEF IInv, TypeOK
<1>7. ASSUME NEW u \in Live
      PROVE  ClientView'[u] =
                IF u = cpu THEN ThreadsView!BlockedOn(id) ELSE ClientView[u]
  <2>1. CASE u = cpu
    <3>1. ~exited'[cpu] /\ waiting'[cpu] = id /\ id # None
          BY <1>3, <1>4, <1>6, NoneNotTid
    <3>2. ClientView'[cpu] = ThreadsView!BlockedOn(id)
          BY <1>1, <1>3, <1>5, <3>1
          DEF ViewOK, ThreadsView!BlockedOn, ThreadsView!Thread
    <3> QED BY <2>1, <3>2
  <2>2. CASE u # cpu
        BY <1>1, <1>4, <1>5, <1>6, <2>2, LiveType, SameThread DEF IInv
  <2> QED BY <2>1, <2>2
<1>8. ClientView' = [ClientView EXCEPT ![cpu] = ThreadsView!BlockedOn(id)]
  <2>1. /\ ClientView' = [u \in Live |-> ClientView'[u]]
        /\ ClientView = [u \in Live |-> ClientView[u]]
        BY <1>5 DEF ClientView
  <2> QED BY <1>7, <2>1
<1>9. proc' = "running" /\ cpu' \in ThreadsView!Runnable(ClientView')
  <2>1. id \in Queued' BY <1>2, <1>3, <1>4 DEF Queued
  <2>2. fifo' # <<>> BY <2>1 DEF Queued, ToSet
  <2>3. proc' = "running" /\ cpu' = Head(fifo')
        BY <2>2 DEF IInv, ProcOK, RunningIsHead, Me
  <2>4. cpu' \in Queued' BY <2>2, <2>3, TailLemma DEF IInv, TypeOK, Queued
  <2>5. ThreadsView!Runnable(ClientView') = Queued'
        BY <1>1 DEF ViewOK, ThreadsView!Runnable
  <2> QED BY <2>3, <2>4, <2>5
<1>10. ThreadsView!Running BY <1>2, RunningView
<1>11. /\ ~ThreadsView!Done(id) /\ id \in ThreadsView!Others
       /\ id \in ThreadsView!Runnable(ClientView)
       BY <1>1, <1>2, <1>3 DEF ViewOK, ThreadsView!Done, ThreadsView!Others
<1>12. ~ThreadsView!Joined(id) BY <1>2, UnjoinedView
<1>13. UNCHANGED (proc = "running") BY <1>2, <1>9 DEF Active
<1> QED BY <1>8, <1>9, <1>10, <1>11, <1>12, <1>13 DEF ThreadsView!Block

\* Freeing the tcb of a thread that has exited takes it out of the view, and
\* leaves the running thread ready.
LEMMA ReapView ==
    ASSUME IInv, IInv', proc = "running", NEW t \in Live, exited[t], Free(t),
           waiting' = [waiting EXCEPT ![cpu] = None, ![t] = None],
           UNCHANGED <<proc, cpu, fifo>>
    PROVE  ClientView' = ThreadsView!Uncollected(t)
<1>1. ViewOK /\ ViewOK' BY ViewInv, ViewInvNext
<1>2. Live' = Live \ {t} BY FreeSet DEF IInv
<1>3. /\ \A s \in Tid \ {t} : exited'[s] = exited[s] /\ status'[s] = status[s]
      /\ \A s \in Tid \ {t, cpu} : waiting'[s] = waiting[s]
      BY DEF Free, IInv, TypeOK
<1>4. cpu \in Tid /\ cpu \in Live /\ ~exited[cpu] /\ cpu # t
  <2>1. fifo # <<>> /\ Me = cpu BY DEF IInv, RunningIsHead
  <2>2. cpu \in Tid /\ cpu \in Queued BY <2>1, MeType DEF IInv
  <2> QED BY <2>2 DEF IInv, ReadyOnce
<1>5. ASSUME NEW u \in Live \ {t}
      PROVE  ClientView'[u] =
                IF u = cpu THEN ThreadsView!Ready ELSE ClientView[u]
  <2>1. CASE u = cpu
    <3>1. waiting'[cpu] = None /\ ~exited'[cpu]
          BY <1>3, <1>4 DEF IInv, TypeOK
    <3>2. ClientView'[cpu] = ThreadsView!Ready
          BY <1>1, <1>2, <1>4, <3>1
          DEF ViewOK, ThreadsView!Ready, ThreadsView!Thread
    <3> QED BY <2>1, <3>2
  <2>2. CASE u # cpu
        BY <1>1, <1>2, <1>3, <2>2, LiveType, SameThread DEF IInv
  <2> QED BY <2>1, <2>2
<1>6. ClientView' = [u \in Live \ {t} |-> ClientView'[u]]
      BY <1>2 DEF ClientView
<1> QED BY <1>1, <1>5, <1>6 DEF ViewOK, ThreadsView!Uncollected

\* wut_join of a thread that is done collects it at once.
LEMMA JoinReapView ==
    ASSUME IInv, IInv', NEW id \in Tid, JoinReap(id)
    PROVE  id \in ThreadsView!Others /\ ThreadsView!Collect(id)
<1>1. ViewOK BY ViewInv
<1>2. /\ Active /\ id \in Live \ {Me} /\ waiter[id] = None /\ exited[id]
      /\ Free(id) /\ UNCHANGED <<proc, cpu, fifo>>
      BY DEF JoinReap, JoinAccepted, Joinable, Unjoined, NotBlocked
<1>3. Me = cpu BY <1>2, ActiveFacts
<1>4. ClientView' = ThreadsView!Uncollected(id)
      BY <1>2, <1>3, ReapView DEF JoinReap, Active
<1>5. ThreadsView!Running BY <1>2, RunningView
<1>6. ThreadsView!Done(id) /\ id \in ThreadsView!Others
      BY <1>1, <1>2, <1>3 DEF ViewOK, ThreadsView!Done, ThreadsView!Others
<1>7. ~ThreadsView!Joined(id) BY <1>2, UnjoinedView
<1> QED BY <1>2, <1>4, <1>5, <1>6, <1>7 DEF ThreadsView!Collect

\* A thread resumed inside wut_join collects the thread it waited for.
LEMMA JoinReturnView ==
    ASSUME IInv, IInv', JoinReturn
    PROVE  ThreadsView!GoOn
<1> DEFINE u == pend[cpu]
<1>1. ViewOK BY ViewInv
<1>2. proc = "running" /\ u # None BY DEF JoinReturn
<1>3. fifo # <<>> /\ Me = cpu /\ cpu \in Tid /\ cpu \in Queued
      BY <1>2, MeType DEF IInv, RunningIsHead
<1>4. cpu \in Live /\ ~exited[cpu] BY <1>3 DEF IInv, ReadyOnce
<1>5. u = waiting[cpu] /\ u \in Live
      BY <1>2, <1>3 DEF IInv, WaitersAgree
<1>6. exited[u] BY <1>2, <1>3, <1>4, <1>5 DEF IInv, QueuedIff
<1>7. /\ Free(u) /\ UNCHANGED <<proc, cpu, fifo>>
      /\ waiting' = [waiting EXCEPT ![cpu] = None, ![u] = None]
  <2>1. OtherStack(u) BY <1>4, <1>5, <1>6, NotOwnStack, LiveType DEF IInv
  <2> QED BY <1>3, <1>5, <2>1 DEF JoinReturn
<1> HIDE DEF u
<1>8. ClientView' = ThreadsView!Uncollected(u)
      BY <1>2, <1>5, <1>6, <1>7, ReapView
<1>9. /\ ClientView[cpu] = ThreadsView!BlockedOn(u)
      /\ ThreadsView!Done(u) /\ u \in ThreadsView!Others
      BY <1>1, <1>2, <1>4, <1>5, <1>6
      DEF ViewOK, ThreadsView!Done, ThreadsView!Others
<1> QED BY <1>2, <1>7, <1>8, <1>9 DEF ThreadsView!GoOn

\* A thread that returns or calls wut_exit is done, and the process ends only
\* when all are.
LEMMA FinishView ==
    ASSUME Disciplined, IInv, IInv', Return \/ \E arg \in ExitArgs : Exit(arg)
    PROVE  ThreadsView!Finish
<1>1. ViewOK /\ ViewOK' BY ViewInv, ViewInvNext
<1>2. /\ Active
      /\ exited' = [exited EXCEPT ![cpu] = TRUE]
      /\ UNCHANGED <<tcbq, waiting>>
      /\ status' = [status EXCEPT ![cpu] = status'[cpu]]
      /\ fifo' = AfterExit
      /\ AfterExit # <<>> => proc' = "running"
      /\ AfterExit = <<>> => proc' = "exited" /\ cpu' = cpu
      BY EndStep
<1>3. cpu \in Tid /\ cpu \in Live BY <1>2, ActiveFacts
<1>4. Live' = Live BY <1>2 DEF Live
<1>5. /\ exited'[cpu] /\ status'[cpu] \in 0..255
      /\ \A t \in Tid \ {cpu} :
            exited'[t] = exited[t] /\ status'[t] = status[t]
      BY <1>2, <1>3 DEF IInv, TypeOK
<1>6. ASSUME NEW u \in Live
      PROVE  ClientView'[u] = IF u = cpu THEN ThreadsView!DoneWith(status'[cpu])
                              ELSE ClientView[u]
  <2>1. CASE u = cpu
    <3>1. ClientView'[cpu] = ThreadsView!DoneWith(status'[cpu])
          BY <1>1, <1>3, <1>4, <1>5
          DEF ViewOK, ThreadsView!DoneWith, ThreadsView!Thread
    <3> QED BY <2>1, <3>1
  <2>2. CASE u # cpu
        BY <1>1, <1>2, <1>4, <1>5, <2>2, LiveType, SameThread DEF IInv
  <2> QED BY <2>1, <2>2
<1>7. ClientView' =
        [ClientView EXCEPT ![cpu] = ThreadsView!DoneWith(status'[cpu])]
  <2>1. /\ ClientView' = [u \in Live |-> ClientView'[u]]
        /\ ClientView = [u \in Live |-> ClientView[u]]
        BY <1>4 DEF ClientView
  <2> QED BY <1>6, <2>1
<1>8. ThreadsView!Running BY <1>2, RunningView
<1>9. CASE AfterExit # <<>>
  <2>1. proc' = "running" /\ fifo' # <<>> BY <1>2, <1>9
  <2>2. cpu' = Head(fifo') BY <2>1 DEF IInv, RunningIsHead, Me
  <2>3. cpu' \in Queued' BY <2>1, <2>2, TailLemma DEF IInv, TypeOK, Queued
  <2>4. ThreadsView!Runnable(ClientView') = Queued'
        BY <1>1 DEF ViewOK, ThreadsView!Runnable
  <2> QED BY <1>5, <1>7, <1>8, <2>1, <2>3, <2>4 DEF ThreadsView!Finish
<1>10. CASE AfterExit = <<>>
  <2>1. proc' = "exited" /\ cpu' = cpu /\ fifo' = <<>> BY <1>2, <1>10
  <2>2. IInv' => NothingLeftBehind'
        BY LeftBehindInv, PTL
  <2>3. \A t \in Live : exited'[t] BY <1>4, <2>1, <2>2 DEF NothingLeftBehind
  <2>4. \A t \in DOMAIN ClientView : ClientView'[t].phase = "done"
        BY <1>1, <1>4, <2>3 DEF ViewOK
  <2>5. (proc' = "running") = FALSE BY <2>1
  <2> QED BY <1>5, <1>7, <1>8, <2>1, <2>4, <2>5 DEF ThreadsView!Finish
<1> QED BY <1>9, <1>10

\* The library implements JoinableThreads: a client that only sees ids and
\* outcomes cannot tell them apart (ImplementsThreads of the runs).
THEOREM LibraryIsThreads ==
    ASSUME Disciplined
    PROVE  Spec => ImplementsThreads
<1>1. Init => ThreadsView!Init
  <2> SUFFICES ASSUME Init PROVE ThreadsView!Init OBVIOUS
  <2>1. Live = {0} BY DEF Init, Live, ToSet
  <2>2. 0 \in Tid BY MaxTidAssumption DEF Tid
  <2>3. ClientView = [t \in {0} |-> ThreadsView!Ready]
        BY <2>1, <2>2, TidCode DEF Init, ClientView, ThreadsView!Ready,
           ThreadsView!Thread, ThreadsView!Nobody, None
  <2> QED BY <2>3 DEF Init, ThreadsView!Init
<1>2. IInv /\ IInv' /\ [Next]_vars => [ThreadsView!Next]_(ThreadsView!vars)
  <2> SUFFICES ASSUME IInv, IInv', [Next]_vars
               PROVE  ThreadsView!Next \/ UNCHANGED ThreadsView!vars
      OBVIOUS
  <2>1. CASE Create BY <2>1, CreateView DEF ThreadsView!Next
  <2>2. CASE Yield BY <2>2, YieldView DEF ThreadsView!Next
  <2>3. ASSUME NEW id \in Tid, Cancel(id) \/ JoinReap(id) \/ JoinBlock(id)
        PROVE  ThreadsView!Next
        BY <2>3, CancelView, JoinReapView, JoinBlockView DEF ThreadsView!Next
  <2>4. CASE JoinReturn BY <2>4, JoinReturnView DEF ThreadsView!Next
  <2>5. CASE Return \/ \E arg \in ExitArgs : Exit(arg)
        BY <2>5, FinishView DEF ThreadsView!Next
  <2>6. CASE UNCHANGED vars
        BY <2>6 DEF vars, ThreadsView!vars, ClientView, Live
  <2> QED BY <2>1, <2>2, <2>3, <2>4, <2>5, <2>6, IdleSteps
<1> QED BY <1>1, <1>2, Invariance, PTL
        DEF Spec, ImplementsThreads, ThreadsView!Spec
=============================================================================
