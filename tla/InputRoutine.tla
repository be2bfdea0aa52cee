---------------------------- MODULE InputRoutine ----------------------------
(***************************************************************************)
(* The typing thread both chat clients start (input_routine) and the loop  *)
(* of the main thread that takes its lines: under the mutex in the message *)
(* queue chat, with the flag alone in the shared-memory chat.              *)
(***************************************************************************)
EXTENDS Naturals, Sequences

CONSTANTS MaxLines, Nothing   \* bound on the lines typed; "no line"

ASSUME MaxLinesNat == MaxLines \in Nat
ASSUME NothingIsNoLine == Nothing \notin Nat

Torn == 0     \* what input_buf holds while fgets fills it; lines count from 1

VARIABLES
    locks,       \* does the main thread take the mutex (it never changes)
    flag,        \* 0: a line is waiting in input_buf
    mutex,       \* who holds it
    input_buf,
    tpc, mpc,    \* where the typing and the main thread are
    line,        \* main thread's copy of input_buf
    count,       \* lines the typing thread has handed over so far
    taken        \* history: lines the main thread took

input_vars == <<locks, flag, mutex, input_buf, tpc, mpc, line, count, taken>>

-----------------------------------------------------------------------------
(* The typing thread.                                                      *)

Lock ==
    /\ tpc = "lock" /\ mutex = "free"
    /\ tpc' = "fgets" /\ mutex' = "typing"
    /\ UNCHANGED <<locks, flag, input_buf, mpc, line, count, taken>>

FgetsBegins ==
    /\ tpc = "fgets" /\ count < MaxLines
    /\ tpc' = "filling" /\ input_buf' = Torn
    /\ UNCHANGED <<locks, flag, mutex, mpc, line, count, taken>>

FgetsEnds ==
    /\ tpc = "filling"
    /\ tpc' = "flag" /\ input_buf' = count + 1
    /\ UNCHANGED <<locks, flag, mutex, mpc, line, count, taken>>

(* End of file, or a line that does not fit: no newline is found and the   *)
(* write through a null pointer ends the process.                          *)
NoNewline ==
    /\ tpc \in {"fgets", "filling"} /\ mpc # "dead"
    /\ tpc' = "dead" /\ mpc' = "dead"
    /\ UNCHANGED <<locks, flag, mutex, input_buf, line, count, taken>>

ClearFlag ==
    /\ tpc = "flag"
    /\ tpc' = "unlock" /\ flag' = 0 /\ count' = count + 1
    /\ UNCHANGED <<locks, mutex, input_buf, mpc, line, taken>>

(* Mutant: the mutex is kept while the line waits to be taken.             *)
UnlockForgotten ==
    /\ tpc = "unlock"
    /\ tpc' = "poll"
    /\ UNCHANGED <<locks, flag, mutex, input_buf, mpc, line, count, taken>>

Unlock ==
    /\ tpc = "unlock"
    /\ tpc' = "poll" /\ mutex' = "free"
    /\ UNCHANGED <<locks, flag, input_buf, mpc, line, count, taken>>

Poll ==
    /\ tpc = "poll" /\ flag # 0
    /\ tpc' = "lock"
    /\ UNCHANGED <<locks, flag, mutex, input_buf, mpc, line, count, taken>>

TypingStep ==
    Lock \/ FgetsBegins \/ FgetsEnds \/ NoNewline \/ ClearFlag \/ Unlock \/ Poll

-----------------------------------------------------------------------------
(* The main thread: a turn of its loop tests the flag (loop), takes a line *)
(* (try, copy, flag, unlock), looks for messages (rest) and, in the        *)
(* shared-memory chat, waits for the semaphore (wait).                     *)

Enter ==
    /\ mpc = "wait"
    /\ mpc' = "loop"
    /\ UNCHANGED <<locks, flag, mutex, input_buf, tpc, line, count, taken>>

(* Mutant: the mutex alone is relied on, the flag is not looked at.        *)
TestFlagNot ==
    /\ mpc = "loop"
    /\ mpc' = IF locks THEN "try" ELSE "copy"
    /\ UNCHANGED <<locks, flag, mutex, input_buf, tpc, line, count, taken>>

TestFlag ==
    /\ mpc = "loop"
    /\ mpc' = IF flag # 0 THEN "rest" ELSE IF locks THEN "try" ELSE "copy"
    /\ UNCHANGED <<locks, flag, mutex, input_buf, tpc, line, count, taken>>

TryLock ==
    /\ mpc = "try"
    /\ IF mutex = "free"
       THEN mpc' = "copy" /\ mutex' = "main"
       ELSE mpc' = "rest" /\ UNCHANGED mutex
    /\ UNCHANGED <<locks, flag, input_buf, tpc, line, count, taken>>

(* mq_send, which waits while the queue is full, or the copy to the segment*)
Copy ==
    /\ mpc = "copy"
    /\ mpc' = "flag" /\ line' = input_buf
    /\ UNCHANGED <<locks, flag, mutex, input_buf, tpc, count, taken>>

(* Mutant: the flag is not set back.                                       *)
SetFlagForgotten ==
    /\ mpc = "flag"
    /\ mpc' = IF locks THEN "unlock" ELSE "rest"
    /\ taken' = Append(taken, line)
    /\ UNCHANGED <<locks, flag, mutex, input_buf, tpc, line, count>>

SetFlag ==
    /\ mpc = "flag"
    /\ mpc' = IF locks THEN "unlock" ELSE "rest"
    /\ flag' = 1
    /\ taken' = Append(taken, line)
    /\ UNCHANGED <<locks, mutex, input_buf, tpc, line, count>>

Release ==
    /\ mpc = "unlock"
    /\ mpc' = "rest" /\ mutex' = "free"
    /\ UNCHANGED <<locks, flag, input_buf, tpc, line, count, taken>>

(* The messages found are read and none of them ends the loop.             *)
Turn ==
    /\ mpc = "rest"
    /\ mpc' = IF locks THEN "loop" ELSE "wait"
    /\ UNCHANGED <<locks, flag, mutex, input_buf, tpc, line, count, taken>>

(* One of them does, whether a line waits or not.                          *)
Leave ==
    /\ mpc = "rest"
    /\ mpc' = "left"
    /\ UNCHANGED <<locks, flag, mutex, input_buf, tpc, line, count, taken>>

(* The process ends after the loop, or when the queue refuses the line.    *)
Exit ==
    /\ mpc = "left" \/ (locks /\ mpc = "copy")
    /\ tpc' = "dead" /\ mpc' = "dead"
    /\ UNCHANGED <<locks, flag, mutex, input_buf, line, count, taken>>

MainStep ==
    \/ Enter \/ TestFlag \/ TryLock \/ Copy \/ SetFlag \/ Release
    \/ Turn \/ Leave \/ Exit

(* What the main thread may wait in for others: the semaphore, the queue it*)
(* sends to, and the queue it reads until it is empty.                     *)
Outside == mpc = "wait" \/ (locks /\ mpc \in {"copy", "rest"})

-----------------------------------------------------------------------------
InputInit ==
    /\ locks \in BOOLEAN
    /\ flag = 1 /\ mutex = "free"
    /\ input_buf = Torn
    /\ tpc = "lock"
    /\ mpc = IF locks THEN "loop" ELSE "wait"
    /\ line = Torn
    /\ count = 0
    /\ taken = <<>>

InputNext == TypingStep \/ MainStep

InputSpec == InputInit /\ [][InputNext]_input_vars

(* Both threads keep running, but the user need not go on typing and what  *)
(* the main thread waits for outside need not come.                        *)
MainRuns == ~Outside /\ MainStep
TypingRuns == ClearFlag \/ Unlock \/ Poll

-----------------------------------------------------------------------------
Typing == tpc \in {"fgets", "filling", "flag", "unlock"}

(* Types of the variables of both threads; lines are numbered from 1.      *)
InputTypes ==
    /\ locks \in BOOLEAN
    /\ flag \in 0..1
    /\ mutex \in {"free", "typing", "main"}
    /\ input_buf \in Nat
    /\ tpc \in {"lock", "fgets", "filling", "flag", "unlock", "poll", "dead"}
    /\ mpc \in {"wait", "loop", "try", "copy", "flag", "unlock", "rest", "left", "dead"}
    /\ line \in Nat
    /\ count \in Nat
    /\ taken \in Seq(1..count)

(* A waiting line is whole and the last one typed, and stays so until the  *)
(* main thread has set the flag; the mutex is held by who must hold it.    *)
Inv ==
    /\ flag = 0 => tpc \in {"unlock", "poll", "dead"} /\ input_buf = count /\ count > 0
    /\ tpc = "flag" => input_buf = count + 1
    /\ mpc \in {"try", "copy", "flag"} => flag = 0
    /\ mpc = "flag" => line = input_buf
    /\ tpc # "dead" => (Typing <=> mutex = "typing")
    /\ mpc # "dead" => (mutex = "main" <=> locks /\ mpc \in {"copy", "flag", "unlock"})
    /\ mpc \in {"try", "unlock"} => locks
    /\ tpc = "dead" <=> mpc = "dead"

(* The main thread never copies input_buf while fgets is filling it.       *)
NeverTorn == mpc = "copy" => input_buf = count /\ tpc \notin {"fgets", "filling"}

(* The two threads implement the one-place handover.                       *)
Place == INSTANCE Handover WITH slot <- IF flag = 0 THEN input_buf ELSE Nothing
HandoverSpec == Place!Spec

(* A thread that waits for the other to move flag has no mutex in hand.    *)
Polls(t) ==
    IF t = "typing" THEN tpc = "poll" ELSE mpc \in {"wait", "loop", "try", "rest"}
PollsUnlocked == \A t \in {"typing", "main"} : Polls(t) => mutex # t

(* A line that waits is taken, unless the main thread leaves its loop or   *)
(* stays for ever in a wait on others: the full queue it sends to, the     *)
(* queue it reads, the semaphore.  The two threads never wait for each     *)
(* other, although each tries or takes the mutex while the other polls.    *)
LineIsTaken ==
    flag = 0 ~> flag = 1 \/ mpc \in {"left", "dead"} \/ [](Outside /\ flag = 0)
=============================================================================
