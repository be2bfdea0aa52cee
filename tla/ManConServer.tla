---------------------------- MODULE ManConServer ----------------------------
(***************************************************************************)
(* The UDP server with a fixed pool of threads (man_con_server.c).  A step *)
(* is one access to a thread's thread_info_t, which the main thread and    *)
(* the worker share without a lock, or one pass over the main thread's own *)
(* arrays.  Request r comes from client r.                                 *)
(***************************************************************************)
EXTENDS Integers, Sequences, FiniteSets

CONSTANTS
    Threads,       \* the pool (10)
    PointerSize,   \* bytes in a pointer (8)
    MaxRequests,   \* bound on the requests clients send
    NULL, Junk     \* no pointer; a pointer to no thread

ASSUME PoolFinite == IsFiniteSet(Threads)
ASSUME JunkIsNoThread == NULL \notin Threads /\ Junk \notin Threads
ASSUME PointersHaveBytes == PointerSize \in Nat \ {0}
ASSUME MaxRequestsNat == MaxRequests \in Nat

VARIABLES
    order, client_addr, thread_working_flag,  \* thread_info_t of each thread
    wpc,                     \* where each worker is
    free_threads,            \* free_threads[0 .. free_threads_count)
    occupied_threads,        \* the whole array, entries past the count too
    occupied_threads_count,
    pc, buf, thread,         \* main thread: where it is, its locals
    i, temp,
    received,                \* requests sent so far
    accepted,                \* history: requests handed to a thread
    replies                  \* history: the replies <<to, order>> in order

threadInfo == <<order, client_addr, thread_working_flag>>
arrays == <<free_threads, occupied_threads, occupied_threads_count>>
locals == <<buf, thread, i, temp>>
vars == <<threadInfo, wpc, arrays, pc, locals, received, accepted, replies>>

PoolSize == Cardinality(Threads)
Indices == 0..(PoolSize - 1)

-----------------------------------------------------------------------------
(* A worker polls its flag, works on the order, sends it back to the       *)
(* address it then finds, and clears the flag.                             *)

Begin(t) ==
    /\ wpc[t] = "poll" /\ thread_working_flag[t] = 1
    /\ wpc' = [wpc EXCEPT ![t] = "work"]
    /\ UNCHANGED <<threadInfo, arrays, pc, locals, received, accepted, replies>>

Work(t) ==
    /\ wpc[t] = "work"
    /\ wpc' = [wpc EXCEPT ![t] = "send"]
    /\ order' = [order EXCEPT ![t].done = TRUE]
    /\ UNCHANGED <<client_addr, thread_working_flag, arrays, pc, locals,
                   received, accepted, replies>>

Send(t) ==
    /\ wpc[t] = "send"
    /\ wpc' = [wpc EXCEPT ![t] = "clear"]
    /\ replies' = Append(replies, [to |-> client_addr[t], order |-> order[t]])
    /\ UNCHANGED <<threadInfo, arrays, pc, locals, received, accepted>>

(* Mutant: the flag is not cleared after the reply.                        *)
ClearForgotten(t) ==
    /\ wpc[t] = "clear"
    /\ wpc' = [wpc EXCEPT ![t] = "poll"]
    /\ UNCHANGED <<threadInfo, arrays, pc, locals, received, accepted, replies>>

Clear(t) ==
    /\ wpc[t] = "clear"
    /\ wpc' = [wpc EXCEPT ![t] = "poll"]
    /\ thread_working_flag' = [thread_working_flag EXCEPT ![t] = 0]
    /\ UNCHANGED <<order, client_addr, arrays, pc, locals, received, accepted, replies>>

WorkerStep(t) == Begin(t) \/ Work(t) \/ Send(t) \/ Clear(t)

-----------------------------------------------------------------------------
(* The main thread takes a request and, if it counts a free thread, hands  *)
(* it over; then it goes through the occupied threads in any case.         *)

(* Mutant: the count of free threads is not lowered.                       *)
ReceiveKeepsFree ==
    /\ pc = "recvfrom" /\ received < MaxRequests
    /\ received' = received + 1
    /\ buf' = received'
    /\ IF free_threads # <<>>
       THEN pc' = "order" /\ thread' = free_threads[Len(free_threads)]
       ELSE pc' = "scan" /\ UNCHANGED thread
    /\ i' = 0 /\ temp' = <<>>
    /\ UNCHANGED <<threadInfo, wpc, arrays, accepted, replies>>

Receive ==
    /\ pc = "recvfrom" /\ received < MaxRequests
    /\ received' = received + 1
    /\ buf' = received'
    /\ IF free_threads # <<>>
       THEN /\ pc' = "order"
            /\ thread' = free_threads[Len(free_threads)]
            /\ free_threads' = SubSeq(free_threads, 1, Len(free_threads) - 1)
       ELSE pc' = "scan" /\ UNCHANGED <<thread, free_threads>>
    /\ i' = 0 /\ temp' = <<>>
    /\ UNCHANGED <<threadInfo, wpc, occupied_threads, occupied_threads_count,
                   accepted, replies>>

(* A request with info -1 ends the server.                                 *)
ReceiveEnd ==
    /\ pc = "recvfrom" /\ pc' = "ended"
    /\ UNCHANGED <<threadInfo, wpc, arrays, locals, received, accepted, replies>>

CopyOrder ==
    /\ pc = "order" /\ pc' = "addr"
    /\ order' = [order EXCEPT ![thread] = [of |-> buf, done |-> FALSE]]
    /\ UNCHANGED <<client_addr, thread_working_flag, wpc, arrays, locals,
                   received, accepted, replies>>

CopyAddr ==
    /\ pc = "addr" /\ pc' = "flag"
    /\ client_addr' = [client_addr EXCEPT ![thread] = buf]
    /\ UNCHANGED <<order, thread_working_flag, wpc, arrays, locals,
                   received, accepted, replies>>

SetFlag ==
    /\ pc = "flag" /\ pc' = "scan"
    /\ thread_working_flag' = [thread_working_flag EXCEPT ![thread] = 1]
    /\ occupied_threads' = [occupied_threads EXCEPT ![occupied_threads_count] = thread]
    /\ occupied_threads_count' = occupied_threads_count + 1
    /\ accepted' = accepted + 1
    /\ UNCHANGED <<order, client_addr, wpc, free_threads, locals, received, replies>>

(* One turn of the loop; a pointer to no thread makes it undefined.        *)
Scan ==
    /\ pc = "scan" /\ i < occupied_threads_count
    /\ LET t == occupied_threads[i] IN
         IF t \notin Threads
         THEN pc' = "undefined" /\ UNCHANGED <<free_threads, temp>>
         ELSE /\ UNCHANGED pc
              /\ IF thread_working_flag[t] = 0
                 THEN free_threads' = Append(free_threads, t) /\ UNCHANGED temp
                 ELSE temp' = Append(temp, t) /\ UNCHANGED free_threads
    /\ i' = i + 1
    /\ UNCHANGED <<threadInfo, wpc, occupied_threads, occupied_threads_count,
                   buf, thread, received, accepted, replies>>

(* What a pointer holds after its first n bytes have been overwritten.     *)
Overwritten(old, new, n) ==
    IF n <= 0 THEN {old} ELSE IF n >= PointerSize \/ old = new THEN {new} ELSE {new, Junk}

(* Mutant: the new count of occupied threads is not stored.                *)
CopyBackKeepsCount ==
    /\ pc = "scan" /\ i >= occupied_threads_count
    /\ \E f \in [Indices -> Threads \cup {NULL, Junk}] :
          /\ \A j \in Indices :
                f[j] \in IF j < Len(temp)
                         THEN Overwritten(occupied_threads[j], temp[j + 1],
                                          Len(temp) - j * PointerSize)
                         ELSE {occupied_threads[j]}
          /\ occupied_threads' = f
    /\ pc' = "recvfrom"
    /\ UNCHANGED <<threadInfo, wpc, free_threads, occupied_threads_count, locals,
                   received, accepted, replies>>

(* memcpy is given the number of threads and takes it for bytes.           *)
CopyBack ==
    /\ pc = "scan" /\ i >= occupied_threads_count
    /\ \E f \in [Indices -> Threads \cup {NULL, Junk}] :
          /\ \A j \in Indices :
                f[j] \in IF j < Len(temp)
                         THEN Overwritten(occupied_threads[j], temp[j + 1],
                                          Len(temp) - j * PointerSize)
                         ELSE {occupied_threads[j]}
          /\ occupied_threads' = f
    /\ occupied_threads_count' = Len(temp)
    /\ pc' = "recvfrom"
    /\ UNCHANGED <<threadInfo, wpc, free_threads, locals, received, accepted, replies>>

MainStep ==
    Receive \/ ReceiveEnd \/ CopyOrder \/ CopyAddr \/ SetFlag \/ Scan \/ CopyBack

-----------------------------------------------------------------------------
(* The threads enter free_threads in the order of the threads array.       *)
Init ==
    /\ order = [t \in Threads |-> [of |-> 0, done |-> FALSE]]
    /\ client_addr = [t \in Threads |-> 0]
    /\ thread_working_flag = [t \in Threads |-> 0]
    /\ wpc = [t \in Threads |-> "poll"]
    /\ free_threads \in {s \in [1..PoolSize -> Threads] :
                            \A j, k \in 1..PoolSize : s[j] = s[k] => j = k}
    /\ occupied_threads = [j \in Indices |-> NULL]
    /\ occupied_threads_count = 0
    /\ pc = "recvfrom"
    /\ buf = 0 /\ thread = NULL /\ i = 0 /\ temp = <<>>
    /\ received = 0
    /\ accepted = 0
    /\ replies = <<>>

Next == MainStep \/ \E t \in Threads : WorkerStep(t)

Spec == Init /\ [][Next]_vars

-----------------------------------------------------------------------------
(* Types of the shared and the local variables.                            *)
TypeOK ==
    /\ order \in [Threads -> [of : Nat, done : BOOLEAN]]
    /\ client_addr \in [Threads -> Nat]
    /\ thread_working_flag \in [Threads -> 0..1]
    /\ wpc \in [Threads -> {"poll", "work", "send", "clear"}]
    /\ free_threads \in Seq(Threads)
    /\ occupied_threads \in [Indices -> Threads \cup {NULL, Junk}]
    /\ occupied_threads_count \in 0..PoolSize
    /\ pc \in {"recvfrom", "order", "addr", "flag", "scan", "undefined", "ended"}
    /\ thread \in Threads \cup {NULL}
    /\ pc \in {"order", "addr", "flag"} => thread \in Threads
    /\ temp \in Seq(Threads)
    /\ received \in Nat /\ accepted \in Nat /\ buf \in Nat /\ i \in Nat
    /\ replies \in Seq([to : Nat, order : [of : Nat, done : BOOLEAN]])

(* However the pointers in the arrays get mixed up, as many are counted    *)
(* free or occupied as there are threads: neither array runs over.         *)
CountsAddUp ==
    /\ pc \in {"recvfrom", "ended"} =>
          Len(free_threads) + occupied_threads_count = PoolSize
    /\ pc \in {"order", "addr", "flag"} =>
          Len(free_threads) + occupied_threads_count + 1 = PoolSize /\ i = 0 /\ temp = <<>>
    /\ pc = "scan" =>
          /\ i <= occupied_threads_count
          /\ Len(free_threads) + Len(temp) + (occupied_threads_count - i) = PoolSize

(* No thread replies without having been given a request since its last    *)
(* reply, even when two requests went to one thread.                       *)
Unanswered == {t \in Threads : thread_working_flag[t] = 1 /\ wpc[t] # "clear"}
RepliesAsked == Len(replies) + Cardinality(Unanswered) <= accepted

(* A request is handed only to a thread that is not working.               *)
HandedToFreeThread == pc = "order" => thread_working_flag[thread] = 0
=============================================================================
