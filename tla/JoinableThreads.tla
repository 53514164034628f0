-------------------------- MODULE JoinableThreads --------------------------
(***************************************************************************)
(* What the calls of src/wut/src/wut.c promise a client, without queues    *)
(* and links: threads that take turns, one of them current; each is ready, *)
(* blocked on another it wants to join, or done with an outcome that is    *)
(* kept until somebody collects it.  Which runnable thread is next is left *)
(* open here.                                                              *)
(***************************************************************************)
EXTENDS Integers

CONSTANT Ids         \* the ids threads can have; the first thread is 0

VARIABLES
    alive,           \* the process has not ended
    current,         \* the thread that executes
    threads          \* id -> thread, for the threads that are not collected

vars == <<alive, current, threads>>

Nobody == -1
Cancelled == 128
Thread(phase, on, outcome) == [phase |-> phase, on |-> on, outcome |-> outcome]
Ready == Thread("ready", Nobody, 0)
BlockedOn(t) == Thread("blocked", t, 0)
DoneWith(outcome) == Thread("done", Nobody, outcome)

Done(t) == threads[t].phase = "done"
Joined(t) == \E u \in DOMAIN threads : threads[u] = BlockedOn(t)

\* The threads that can go on when the table of threads is ths.
Runnable(ths) ==
    {t \in DOMAIN ths :
        \/ ths[t].phase = "ready"
        \/ /\ ths[t].phase = "blocked"
           /\ ths[t].on \in DOMAIN ths
           /\ ths[ths[t].on].phase = "done"}

Init ==
    /\ alive = TRUE
    /\ current = 0
    /\ threads = [t \in {0} |-> Ready]

Running == alive /\ threads[current] = Ready
Others == DOMAIN threads \ {current}

Create ==
    /\ Running
    /\ \E t \in Ids \ DOMAIN threads :
        threads' = [u \in DOMAIN threads \cup {t} |->
                      IF u = t THEN Ready ELSE threads[u]]
    /\ UNCHANGED <<alive, current>>

Yield ==
    /\ Running
    /\ current' \in Runnable(threads) \ {current}
    /\ UNCHANGED <<alive, threads>>

Cancel(t) ==
    /\ Running
    /\ ~Done(t)
    /\ threads' = [threads EXCEPT ![t] = DoneWith(Cancelled)]
    /\ UNCHANGED <<alive, current>>

\* Only a thread that can itself go on may be waited for: no cycles.
Block(t) ==
    /\ Running
    /\ ~Joined(t)
    /\ ~Done(t) /\ t \in Runnable(threads)
    /\ threads' = [threads EXCEPT ![current] = BlockedOn(t)]
    /\ current' \in Runnable(threads')
    /\ UNCHANGED alive

Uncollected(t) ==
    [u \in DOMAIN threads \ {t} |-> IF u = current THEN Ready ELSE threads[u]]

Collect(t) ==
    /\ Running
    /\ Done(t) /\ ~Joined(t)
    /\ threads' = Uncollected(t)
    /\ UNCHANGED <<alive, current>>

GoOn ==
    /\ alive
    /\ \E t \in Others :
        /\ threads[current] = BlockedOn(t)
        /\ Done(t)
        /\ threads' = Uncollected(t)
    /\ UNCHANGED <<alive, current>>

\* The process ends with the last thread, when nobody is blocked any more.
Finish ==
    /\ Running
    /\ \E outcome \in 0..255 :
        threads' = [threads EXCEPT ![current] = DoneWith(outcome)]
    /\ \/ alive' = TRUE /\ current' \in Runnable(threads')
       \/ /\ alive' = FALSE
          /\ \A t \in DOMAIN threads : threads'[t].phase = "done"
          /\ UNCHANGED current

Next ==
    \/ Create
    \/ Yield
    \/ \E t \in Others : Cancel(t) \/ Block(t) \/ Collect(t)
    \/ GoOn
    \/ Finish

Spec == Init /\ [][Next]_vars
=============================================================================
