------------------------------ MODULE ForkTask ------------------------------
(***************************************************************************)
(* The fork task (fork_task/source/fork_task.c): a tree of six processes,  *)
(* each of which forks its children, waits for them in the same order and  *)
(* exits.  No result of fork is looked at but 0: where fork fails, the     *)
(* parent waits for process -1, which is any child it still has.           *)
(***************************************************************************)
EXTENDS Naturals, Sequences

Root == "fork_task"
Processes == {Root, "child_1", "child_2", "grandchild_1", "grandchild_2", "grandchild_3"}

(* Whom each process forks.                                                *)
Forks == [p \in Processes |->
    CASE p = Root      -> <<"child_1", "child_2">>
      [] p = "child_1" -> <<"grandchild_1", "grandchild_2">>
      [] p = "child_2" -> <<"grandchild_3">>
      [] OTHER         -> <<>>]

Failed == "-1"

VARIABLES
    process,    \* "none", "begins", "runs" or "ended"
    pids,       \* of each process: what its forks returned
    waits       \* of each process: how many calls of waitpid returned

vars == <<process, pids, waits>>

-----------------------------------------------------------------------------
(* The user starts the task.                                               *)
Start ==
    /\ process[Root] = "none"
    /\ process' = [process EXCEPT ![Root] = "begins"]
    /\ UNCHANGED <<pids, waits>>

print_introduction(p) ==
    /\ process[p] = "begins"
    /\ process' = [process EXCEPT ![p] = "runs"]
    /\ UNCHANGED <<pids, waits>>

Fork(p) ==
    /\ process[p] = "runs" /\ Len(pids[p]) < Len(Forks[p])
    /\ LET c == Forks[p][Len(pids[p]) + 1]
       IN \/ /\ pids' = [pids EXCEPT ![p] = Append(@, c)]
             /\ process' = [process EXCEPT ![c] = "begins"]
          \/ /\ pids' = [pids EXCEPT ![p] = Append(@, Failed)]
             /\ UNCHANGED process
    /\ UNCHANGED waits

ForksOver(p) == process[p] = "runs" /\ Len(pids[p]) = Len(Forks[p])

(* Mutant: each call of waitpid is given the first of the pids.            *)
WaitForFirst(p) ==
    /\ ForksOver(p) /\ waits[p] < Len(pids[p])
    /\ pids[p][1] # Failed => process[pids[p][1]] = "ended"
    /\ waits' = [waits EXCEPT ![p] = @ + 1]
    /\ UNCHANGED <<process, pids>>

(* waitpid of a pid returns when that child has ended, also if an earlier  *)
(* call has taken it already.  waitpid of -1 takes any child that ended,   *)
(* and returns at once if none is left.  Of the two forks at most one other*)
(* succeeded, so that is: it has ended, or there is none.                  *)
Wait(p) ==
    /\ ForksOver(p) /\ waits[p] < Len(pids[p])
    /\ LET pid == pids[p][waits[p] + 1]
           Children == {pids[p][k] : k \in DOMAIN pids[p]} \ {Failed}
       IN IF pid = Failed THEN Children = {} \/ \E c \in Children : process[c] = "ended"
                          ELSE process[pid] = "ended"
    /\ waits' = [waits EXCEPT ![p] = @ + 1]
    /\ UNCHANGED <<process, pids>>

Exit(p) ==
    /\ ForksOver(p) /\ waits[p] = Len(pids[p])
    /\ process' = [process EXCEPT ![p] = "ended"]
    /\ UNCHANGED <<pids, waits>>

-----------------------------------------------------------------------------
Init ==
    /\ process = [p \in Processes |-> "none"]
    /\ pids = [p \in Processes |-> <<>>]
    /\ waits = [p \in Processes |-> 0]

Step(p) == print_introduction(p) \/ Fork(p) \/ Wait(p) \/ Exit(p)

Next == Start \/ \E p \in Processes : Step(p)

Spec == Init /\ [][Next]_vars

-----------------------------------------------------------------------------
(* No process ends before a child of its own, whichever forks failed: the  *)
(* parent a child names when it introduces itself is the one that forked   *)
(* it, and fork_task returns to nobody.                                    *)
ParentsOutlive ==
    \A p \in Processes : process[p] = "ended" =>
        \A k \in DOMAIN Forks[p] : process[Forks[p][k]] \in {"none", "ended"}
=============================================================================
