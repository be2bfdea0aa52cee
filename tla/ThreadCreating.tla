--------------------------- MODULE ThreadCreating ---------------------------
(***************************************************************************)
(* The UDP server that creates a thread for every request it accepts       *)
(* (thread_creating_server.c) and keeps the threads in a doubly linked     *)
(* list.  A step of the main thread is one request, with everything done   *)
(* to accept it, or one turn of the loop that joins finished threads.      *)
(* Request n, its client, its list node and its thread bear one number.    *)
(***************************************************************************)
EXTENDS Integers, FiniteSets

CONSTANTS
    thread_max,    \* 10
    MaxRequests,   \* bound on the requests clients send
    NULL, Junk     \* no node; what a field never written points to

ASSUME ThreadMaxNat == thread_max \in Nat
ASSUME MaxRequestsNat == MaxRequests \in Nat
ASSUME PointersDiffer == NULL \notin Nat /\ Junk \notin Nat /\ NULL # Junk

VARIABLES
    thread_cur, thread_list_last,
    next_node, prev_node,   \* fields of every node
    live,                   \* nodes allocated and not freed
    tpc,                    \* where every thread is
    pc, iterator,           \* main thread
    received,               \* requests sent so far
    replies                 \* history: replies <<to, order>> sent

list == <<thread_cur, thread_list_last, next_node, prev_node, live>>
vars == <<list, tpc, pc, iterator, received, replies>>

Nodes == 1..MaxRequests

-----------------------------------------------------------------------------
(* The list.                                                               *)

(* The next_node of a node added to no node is left as malloc gave it.     *)
ListAdd(where, new) ==
    /\ prev_node' = [prev_node EXCEPT ![new] = where]
    /\ IF where # NULL
       THEN next_node' = [next_node EXCEPT ![new] = next_node[where], ![where] = new]
       ELSE \E p \in {NULL, Junk} : next_node' = [next_node EXCEPT ![new] = p]
    /\ live' = live \cup {new}

(* Mutant: the successor of a deleted node keeps pointing back to it.      *)
ListDeleteOneWay(arg) ==
    LET prev == prev_node[arg]
        next == next_node[arg]
    IN  /\ next_node' = IF prev = NULL THEN next_node ELSE [next_node EXCEPT ![prev] = next]
        /\ prev_node' = prev_node
        /\ live' = live \ {arg}

ListDelete(arg) ==
    LET prev == prev_node[arg]
        next == next_node[arg]
    IN  /\ next_node' = IF prev = NULL THEN next_node ELSE [next_node EXCEPT ![prev] = next]
        /\ prev_node' = IF next = NULL THEN prev_node ELSE [prev_node EXCEPT ![next] = prev]
        /\ live' = live \ {arg}

-----------------------------------------------------------------------------
(* A thread works on its order, replies to its client, and returns.        *)

Work(n) ==
    /\ tpc[n] = "work" /\ pc # "gone"
    /\ tpc' = [tpc EXCEPT ![n] = "send"]
    /\ UNCHANGED <<list, pc, iterator, received, replies>>

(* Mutant: the thread returns before it replies.                           *)
SendForgotten(n) ==
    /\ tpc[n] = "send" /\ pc # "gone"
    /\ tpc' = [tpc EXCEPT ![n] = "returned"]
    /\ UNCHANGED <<list, pc, iterator, received, replies>>

Send(n) ==
    /\ tpc[n] = "send" /\ pc # "gone"
    /\ tpc' = [tpc EXCEPT ![n] = "returned"]
    /\ replies' = replies \cup {n}
    /\ UNCHANGED <<list, pc, iterator, received>>

ThreadStep(n) == Work(n) \/ Send(n)

-----------------------------------------------------------------------------
(* The main thread.                                                        *)

Accept ==
    /\ pc = "recvfrom" /\ received < MaxRequests
    /\ thread_cur <= thread_max
    /\ received' = received + 1
    /\ thread_cur' = thread_cur + 1
    /\ ListAdd(thread_list_last, received')
    /\ thread_list_last' = received'
    /\ tpc' = [tpc EXCEPT ![received'] = "work"]
    /\ pc' = "scan" /\ iterator' = received'
    /\ UNCHANGED replies

Ignore ==
    /\ pc = "recvfrom" /\ received < MaxRequests
    /\ thread_cur > thread_max
    /\ received' = received + 1
    /\ pc' = "scan" /\ iterator' = thread_list_last
    /\ UNCHANGED <<list, tpc, replies>>

(* A request with info -1 ends the server and, with it, the process.       *)
End ==
    /\ pc = "recvfrom" /\ pc' = "gone"
    /\ UNCHANGED <<list, tpc, iterator, received, replies>>

Running ==
    /\ pc = "scan" /\ iterator # NULL
    /\ tpc[iterator] # "returned"
    /\ iterator' = prev_node[iterator]
    /\ UNCHANGED <<list, tpc, pc, received, replies>>

(* Deleting a node whose next_node was never written is undefined.         *)
JoinUndefined ==
    /\ pc = "scan" /\ iterator # NULL
    /\ tpc[iterator] = "returned" /\ next_node[iterator] = Junk
    /\ pc' = "gone"
    /\ UNCHANGED <<list, tpc, iterator, received, replies>>

(* Mutant: whether the thread could be joined is not looked at.            *)
JoinRunning ==
    /\ pc = "scan" /\ iterator # NULL
    /\ next_node[iterator] # Junk
    /\ tpc' = [tpc EXCEPT ![iterator] = "joined"]
    /\ ListDelete(iterator)
    /\ LET prev == prev_node[iterator] IN
          /\ thread_list_last' = IF prev = NULL \/ next_node'[prev] = NULL THEN prev
                                 ELSE thread_list_last
          /\ iterator' = IF prev = NULL THEN NULL ELSE prev_node'[prev]
    /\ UNCHANGED <<thread_cur, pc, received, replies>>

(* The loop goes on two nodes before the one it deleted.  Once the first   *)
(* node of the list is deleted the list is taken to be empty.              *)
JoinAndDelete ==
    /\ pc = "scan" /\ iterator # NULL
    /\ tpc[iterator] = "returned" /\ next_node[iterator] # Junk
    /\ tpc' = [tpc EXCEPT ![iterator] = "joined"]
    /\ ListDelete(iterator)
    /\ LET prev == prev_node[iterator] IN
          /\ thread_list_last' = IF prev = NULL \/ next_node'[prev] = NULL THEN prev
                                 ELSE thread_list_last
          /\ iterator' = IF prev = NULL THEN NULL ELSE prev_node'[prev]
    /\ UNCHANGED <<thread_cur, pc, received, replies>>

ScanEnd ==
    /\ pc = "scan" /\ iterator = NULL
    /\ pc' = "recvfrom"
    /\ UNCHANGED <<list, tpc, iterator, received, replies>>

MainStep ==
    Accept \/ Ignore \/ End \/ Running \/ JoinUndefined \/ JoinAndDelete \/ ScanEnd

-----------------------------------------------------------------------------
Init ==
    /\ thread_cur = 0
    /\ thread_list_last = NULL
    /\ next_node = [n \in Nodes |-> Junk]
    /\ prev_node = [n \in Nodes |-> Junk]
    /\ live = {}
    /\ tpc = [n \in Nodes |-> "none"]
    /\ pc = "recvfrom" /\ iterator = NULL
    /\ received = 0
    /\ replies = {}

Next == MainStep \/ \E n \in Nodes : ThreadStep(n)

Spec == Init /\ [][Next]_vars

(* Threads that run go on running; clients need not send.                  *)
FairSpec == Spec /\ \A n \in Nodes : WF_vars(ThreadStep(n))

-----------------------------------------------------------------------------
(* Types of the variables.                                                 *)
TypeOK ==
    /\ thread_cur \in 0..(thread_max + 1)
    /\ thread_list_last \in Nodes \cup {NULL}
    /\ next_node \in [Nodes -> Nodes \cup {NULL, Junk}]
    /\ prev_node \in [Nodes -> Nodes \cup {NULL, Junk}]
    /\ live \subseteq 1..received
    /\ tpc \in [Nodes -> {"none", "work", "send", "returned", "joined"}]
    /\ pc \in {"recvfrom", "scan", "gone"}
    /\ iterator \in Nodes \cup {NULL}
    /\ received \in 0..MaxRequests
    /\ replies \subseteq 1..received

(* The nodes not freed are linked both ways from older to younger, and     *)
(* what the list and the loop point to is not freed; only the end of a     *)
(* list may hold a next_node never written.                                *)
ListSound ==
    /\ thread_list_last # NULL =>
          thread_list_last \in live /\ next_node[thread_list_last] \in {NULL, Junk}
    /\ iterator # NULL => iterator \in live
    /\ \A n \in live :
          /\ prev_node[n] # NULL =>
                prev_node[n] \in live /\ next_node[prev_node[n]] = n /\ prev_node[n] < n
          /\ next_node[n] \notin {NULL, Junk} =>
                next_node[n] \in live /\ prev_node[next_node[n]] = n

(* A thread's thread_info_t is freed only after the thread was joined,     *)
(* which it is once: no thread works on freed memory.                      *)
ThreadsKeepInfo ==
    \A n \in Nodes :
        /\ n \in live <=> tpc[n] \in {"work", "send", "returned"}
        /\ tpc[n] \in {"returned", "joined"} <=> n \in replies

(* An accepted request is answered, unless the process ends first.         *)
AcceptedAnswered == \A n \in Nodes : n \in live ~> n \in replies \/ pc = "gone"

(* A request is ignored only while too many threads have not been joined.  *)
IgnoredOnlyWhenTooMany ==
    [][Ignore => Cardinality({n \in Nodes : tpc[n] \in {"work", "send", "returned"}})
                    >= thread_max]_vars
=============================================================================
