-------------------------------- MODULE Tps --------------------------------
(***************************************************************************)
(* src/tps/src/main.c: lists the processes that /proc names, each with the *)
(* name its status file begins with, while processes start and end.  The   *)
(* name of a process is represented by its pid.  Entries of /proc that do  *)
(* not begin with a digit change nothing and are left out.                 *)
(***************************************************************************)
EXTENDS Integers, FiniteSetsExt

CONSTANTS
    Pids,        \* the pids there can be, numbers above 0
    LongNames    \* processes whose name does not fit the 30 bytes of buf

Failed == -1
Unknown == 0                 \* a buf in which no newline is known to be
Descriptors == 0..5          \* 0, 1, 2 and, at most, three of ours

VARIABLES
    procs,       \* external: the processes that are running
    batch,       \* external: entries read ahead for readdir
    fds,         \* the open descriptors
    pc,          \* the next step of main
    pid,         \* dp->d_name
    descripter,
    buf,         \* whose name is in buf; its place on the stack is the same
                 \* in every round, and a round overwrites only its first byte
    listed       \* what was printed: <<pid, name>>

vars == <<procs, batch, fds, pc, pid, descripter, buf, listed>>

Init ==
    /\ procs \in SUBSET Pids
    /\ batch = {}
    /\ fds = {0, 1, 2}
    /\ pc = "opendir"
    /\ pid = 0
    /\ descripter = Failed
    /\ buf = Unknown
    /\ listed = {}

Start == /\ procs' \in {procs \cup {p} : p \in Pids \ procs}
         /\ UNCHANGED <<batch, fds, pc, pid, descripter, buf, listed>>
Terminate == /\ procs' \in {procs \ {p} : p \in procs}
             /\ UNCHANGED <<batch, fds, pc, pid, descripter, buf, listed>>

LowestFree == Min(Descriptors \ fds)

Opendir ==
    /\ pc = "opendir"
    /\ \/ fds' = fds \cup {LowestFree} /\ pc' = "readdir"
       \/ UNCHANGED fds /\ pc' = "done"
    /\ UNCHANGED <<procs, batch, pid, descripter, buf, listed>>

\* readdir takes the next entry, or has the kernel read some more.
Readdir ==
    /\ pc = "readdir"
    /\ batch # {}
    /\ pid' = Min(batch)
    /\ batch' = batch \ {pid'}
    /\ pc' = "open"
    /\ UNCHANGED <<procs, fds, descripter, buf, listed>>

ReadAhead ==
    /\ pc = "readdir"
    /\ batch = {}
    /\ \E last \in {p \in procs : p > pid} :
          batch' = {p \in procs : pid < p /\ p <= last}
    /\ UNCHANGED <<procs, fds, pc, pid, descripter, buf, listed>>

\* readdir returns NULL; closedir.  The directory was opened first: it has 3.
Finish ==
    /\ pc = "readdir"
    /\ batch = {}
    /\ {p \in procs : p > pid} = {}
    /\ fds' = fds \ {3}
    /\ pc' = "done"
    /\ UNCHANGED <<procs, batch, pid, descripter, buf, listed>>

\* A process that has ended cannot be opened.  The test is of descripter
\* itself: only 0 counts as a failure.
Open ==
    /\ pc = "open"
    /\ \/ /\ pid \in procs
          /\ descripter' = LowestFree
          /\ fds' = fds \cup {descripter'}
       \/ pid \notin procs /\ descripter' = Failed /\ UNCHANGED fds
    /\ pc' = IF descripter' # 0 THEN "read" ELSE "close"
    /\ UNCHANGED <<procs, batch, pid, buf, listed>>

\* The result of read is not looked at.
Read ==
    /\ pc = "read"
    /\ buf' = IF descripter \in fds /\ pid \in procs
              THEN IF pid \in LongNames THEN Unknown ELSE pid
              ELSE buf
    /\ pc' = "scan"
    /\ UNCHANGED <<procs, batch, fds, pid, descripter, listed>>

\* Without a newline in buf the loop leaves it: it prints what it finds, or
\* is killed.
Scan ==
    /\ pc = "scan"
    /\ \/ listed' = listed \cup {<<pid, buf>>} /\ pc' = "close"
       \/ buf = Unknown /\ pc' = "killed" /\ UNCHANGED listed
    /\ UNCHANGED <<procs, batch, fds, pid, descripter, buf>>

Close ==
    /\ pc = "close"
    /\ fds' = fds \ {descripter}
    /\ pc' = "readdir"
    /\ UNCHANGED <<procs, batch, pid, descripter, buf, listed>>

Next ==
    \/ Start \/ Terminate
    \/ Opendir \/ Readdir \/ ReadAhead \/ Finish
    \/ Open \/ Read \/ Scan \/ Close

Spec == Init /\ [][Next]_vars

\* "open /proc/<pid>/status file to get proc's name" (main.c:23): no process is
\* listed under the name of another, whatever ends while tps runs.
OwnName ==
    \A p, q \in Pids : <<p, q>> \in listed => p = q
=============================================================================
