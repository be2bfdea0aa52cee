---------------------------- MODULE SharedCounter ----------------------------
(***************************************************************************)
(* The first threads task (threads_task/source/threads.c): threads that    *)
(* read one variable, raise their own copy and write it back, unprotected, *)
(* and a main thread that creates and joins them.                          *)
(***************************************************************************)
EXTENDS Integers, FiniteSets

CONSTANTS
    ThreadAmount,   \* 10000 in the code
    Adds            \* 100000 in the code

(* Some threads, each of which adds something.                             *)
ASSUME Amounts == ThreadAmount \in Nat \ {0} /\ Adds \in Nat

Threads == 1..ThreadAmount

VARIABLES
    a,              \* the shared variable
    thread,         \* "none", "created", "counts" or "left"
    local,          \* the copy each thread works on, then its return value
    main,           \* "create", "join", "over" or "failed"
    next            \* the thread to create or to join next

vars == <<a, thread, local, main, next>>

-----------------------------------------------------------------------------
(* pthread_create may fail, which ends the process and its threads.        *)
Create ==
    /\ main = "create"
    /\ \/ /\ thread' = [thread EXCEPT ![next] = "created"]
          /\ IF next < ThreadAmount THEN main' = main /\ next' = next + 1
                                    ELSE main' = "join" /\ next' = 1
       \/ /\ main' = "failed"
          /\ UNCHANGED <<thread, next>>
    /\ UNCHANGED <<a, local>>

Join ==
    /\ main = "join" /\ thread[next] = "left"
    /\ IF next < ThreadAmount THEN main' = main /\ next' = next + 1
                              ELSE main' = "over" /\ next' = next
    /\ UNCHANGED <<a, thread, local>>

(* The loads and stores of an aligned word are single accesses.            *)
Read(t) ==
    /\ thread[t] = "created" /\ main # "failed"
    /\ thread' = [thread EXCEPT ![t] = "counts"]
    /\ local' = [local EXCEPT ![t] = a]
    /\ UNCHANGED <<a, main, next>>

(* Mutant: the thread raises the shared variable by what it counted.       *)
WriteRaised(t) ==
    /\ thread[t] = "counts" /\ main # "failed"
    /\ thread' = [thread EXCEPT ![t] = "left"]
    /\ local' = [local EXCEPT ![t] = @ + Adds]
    /\ a' = a + local'[t]
    /\ UNCHANGED <<main, next>>

Write(t) ==
    /\ thread[t] = "counts" /\ main # "failed"
    /\ thread' = [thread EXCEPT ![t] = "left"]
    /\ local' = [local EXCEPT ![t] = @ + Adds]
    /\ a' = local'[t]
    /\ UNCHANGED <<main, next>>

-----------------------------------------------------------------------------
Init ==
    /\ a = 0
    /\ thread = [t \in Threads |-> "none"]
    /\ local = [t \in Threads |-> 0]
    /\ main = "create" /\ next = 1

Next == Create \/ Join \/ \E t \in Threads : Read(t) \/ Write(t)

Spec == Init /\ [][Next]_vars

-----------------------------------------------------------------------------
TypeOK ==
    /\ a \in Nat
    /\ thread \in [Threads -> {"none", "created", "counts", "left"}]
    /\ local \in [Threads -> Nat]
    /\ main \in {"create", "join", "over", "failed"}
    /\ next \in Threads

(* However many increments the unprotected threads lose, they add none: at *)
(* no time does the variable, or what a thread returns, exceed what the    *)
(* threads that have left added.  And they do not lose them all: the value *)
(* main prints at the end is at least what one thread adds.                *)
Left == {t \in Threads : thread[t] = "left"}
NoneGained ==
    /\ a <= Adds * Cardinality(Left)
    /\ \A t \in Left : local[t] \in Adds .. Adds * Cardinality(Left)
    /\ Left # {} => a >= Adds
=============================================================================
