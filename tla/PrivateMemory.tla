--------------------------- MODULE PrivateMemory ---------------------------
(***************************************************************************)
(* What fork promises: every process has a memory of its own.  A fork      *)
(* copies the memory of the running process; afterwards a write of one     *)
(* process is seen by no other.  The simulated machine stops at an access  *)
(* that is not allowed (EFAULT) and when its pages run out (ENOMEM).       *)
(***************************************************************************)
EXTENDS Integers, Functions

CONSTANTS
    Processes,   \* names of processes
    Addresses,   \* virtual addresses of pages
    Offsets,     \* offsets in a page
    Values       \* the values that are written

\* What an address is mapped to: nothing, or a page with these permissions.
Unmapped == [mapped |-> FALSE]
Page(v, r, w) == [mapped |-> TRUE, val |-> v, readable |-> r, writable |-> w]

VARIABLES
    machine,     \* running, EFAULT, ENOMEM
    current,     \* the running process
    memory       \* process -> address -> [mapped, val, readable, writable]

vars == <<machine, current, memory>>

Init ==
    /\ machine = "running"
    /\ current \in Processes
    /\ memory = [p \in {current} |-> [a \in Addresses |-> Unmapped]]

Here(a) == memory[current][a]

Map(a, r, w) ==
    /\ UNCHANGED <<machine, current>>
    /\ ~Here(a).mapped
    /\ memory' = [memory EXCEPT ![current][a] =
                      Page([o \in Offsets |-> 0], r, w)]

Fork(child) ==
    /\ UNCHANGED <<machine, current>>
    /\ child \in DOMAIN memory' \ DOMAIN memory
    /\ memory' = [p \in DOMAIN memory \cup {child} |->
                     IF p = child THEN memory[current] ELSE memory[p]]

Switch(p) ==
    /\ UNCHANGED <<machine, memory>>
    /\ p \in DOMAIN memory
    /\ current' = p

\* An access may give a writable page the read permission it was mapped
\* without; no permission is ever taken away.
Gains(a) == {Here(a).readable} \cup (IF Here(a).writable THEN {TRUE} ELSE {})

Write(a, o, x) ==
    /\ UNCHANGED <<machine, current>>
    /\ Here(a).mapped
    /\ Here(a).writable
    /\ \E r \in Gains(a) :
           memory' = [memory EXCEPT ![current][a] =
                         Page([Here(a).val EXCEPT ![o] = x], r, TRUE)]

Read(a) ==
    /\ UNCHANGED <<machine, current>>
    /\ Here(a).mapped
    /\ \E r \in Gains(a) :
           r /\ memory' = [memory EXCEPT ![current][a] =
                              Page(Here(a).val, r, Here(a).writable)]

\* An access that is not allowed.
Fault(a) ==
    /\ UNCHANGED <<current, memory>>
    /\ Here(a).mapped => ~Here(a).writable \/ ~Here(a).readable
    /\ machine' = "EFAULT"

OutOfMemory ==
    /\ UNCHANGED <<current, memory>>
    /\ machine' = "ENOMEM"

Next ==
    /\ machine = "running"
    /\ \/ \E p \in Processes : Fork(p) \/ Switch(p)
       \/ \E a \in Addresses, r, w \in BOOLEAN : Map(a, r, w)
       \/ \E a \in Addresses, o \in Offsets, x \in Values : Write(a, o, x)
       \/ \E a \in Addresses : Read(a) \/ Fault(a)
       \/ OutOfMemory

Spec == Init /\ [][Next]_vars
=============================================================================
