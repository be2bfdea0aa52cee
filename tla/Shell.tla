-------------------------------- MODULE Shell --------------------------------
(***************************************************************************)
(* The shell (fork_task/source/shell.c): a line is a pipeline; the shell   *)
(* makes the pipes and forks the commands one by one, then waits for them  *)
(* in order, and behind each that feeds a pipe it writes six bytes and     *)
(* closes the pipe.  Pipe p leads from command p to command p + 1.         *)
(*                                                                         *)
(* A command is what it does to its pipes: how many units it writes, how   *)
(* many it reads, and which it does first.  The six bytes are one unit.    *)
(* Parsing a line into commands is left out, and so are the terminal at    *)
(* both ends of a pipeline and a fork that fails.                          *)
(***************************************************************************)
EXTENDS Naturals, Sequences

CONSTANTS
    MaxCommands,    \* bound on the length of a pipeline (10 in the code)
    PipeMax,        \* what a pipe holds
    MaxOutput       \* bound on what a command writes

Sh == 0                          \* the shell among the holders of pipe ends
Commands == 1..MaxCommands
Pipes == 1..(MaxCommands - 1)

(* More than a command and the shell can ever write into one pipe: read to *)
(* the end of the input.                                                   *)
All == MaxOutput + 2

Command == [out : 0..MaxOutput, takes : {0, 1, All}, first : {"in", "out"}]
NoCommand == [out |-> 0, takes |-> 0, first |-> "in"]

VARIABLES
    line,           \* the commands of the line, as typed
    todo,           \* what each still has to write and to read
    child,          \* "none", "running" or "exited"
    pipe, rd, wr,   \* of each pipe: content, holders of its two ends
    at,             \* the shell's place
    i               \* command_count while forking, i while waiting

vars == <<line, todo, child, pipe, rd, wr, at, i>>

-----------------------------------------------------------------------------
(* The shell.                                                              *)

ReadLine ==
    /\ at = "prompt"
    /\ \E k \in Commands :
          line' \in {l \in [1..k -> Command] : l[1].takes = 0 /\ l[k].out = 0}
    /\ todo' = [c \in Commands |-> IF c <= Len(line') THEN line'[c] ELSE NoCommand]
    /\ child' = [c \in Commands |-> "none"]
    /\ at' = "pipe" /\ i' = 1
    /\ UNCHANGED <<pipe, rd, wr>>

Quit ==
    /\ at = "prompt"
    /\ at' = "quit"
    /\ UNCHANGED <<line, todo, child, pipe, rd, wr, i>>

SetPipes ==
    /\ at = "pipe"
    /\ IF i < Len(line)
       THEN /\ pipe' = [pipe EXCEPT ![i] = 0]
            /\ rd' = [rd EXCEPT ![i] = {Sh}]
            /\ wr' = [wr EXCEPT ![i] = {Sh}]
       ELSE UNCHANGED <<pipe, rd, wr>>
    /\ at' = "fork"
    /\ UNCHANGED <<line, todo, child, i>>

(* The child has every end the shell has open, and closes none.            *)
Inherited(ends) == [p \in Pipes |-> IF Sh \in ends[p] THEN ends[p] \cup {i} ELSE ends[p]]

Fork ==
    /\ at = "fork"
    /\ child' = [child EXCEPT ![i] = "running"]
    /\ rd' = Inherited(rd) /\ wr' = Inherited(wr)
    /\ IF i < Len(line) THEN at' = "pipe" /\ i' = i + 1
                        ELSE at' = "wait" /\ i' = 1
    /\ UNCHANGED <<line, todo, pipe>>

(* Mutant: the shell goes on without waiting for the command.              *)
WaitNot ==
    /\ at = "wait"
    /\ at' = IF i < Len(line) THEN "mark" ELSE "close"
    /\ UNCHANGED <<line, todo, child, pipe, rd, wr, i>>

Wait ==
    /\ at = "wait" /\ child[i] = "exited"
    /\ at' = IF i < Len(line) THEN "mark" ELSE "close"
    /\ UNCHANGED <<line, todo, child, pipe, rd, wr, i>>

(* write blocks while the pipe is full.  That nobody but the shell may be  *)
(* left to read does not end it: the shell holds the reading end.          *)
WriteMark ==
    /\ at = "mark" /\ pipe[i] < PipeMax
    /\ pipe' = [pipe EXCEPT ![i] = @ + 1]
    /\ at' = "close"
    /\ UNCHANGED <<line, todo, child, rd, wr, i>>

Close ==
    /\ at = "close"
    /\ wr' = [p \in Pipes |-> IF p = i THEN wr[p] \ {Sh} ELSE wr[p]]
    /\ rd' = [p \in Pipes |-> IF p = i - 1 THEN rd[p] \ {Sh} ELSE rd[p]]
    /\ IF i < Len(line) THEN at' = "wait" /\ i' = i + 1
                        ELSE at' = "prompt" /\ UNCHANGED i
    /\ UNCHANGED <<line, todo, child, pipe>>

ShellStep == SetPipes \/ Fork \/ Wait \/ WriteMark \/ Close

-----------------------------------------------------------------------------
(* The commands.                                                           *)

MayRead(c) ==
    /\ child[c] = "running"
    /\ todo[c].takes > 0
    /\ todo[c].first = "in" \/ todo[c].out = 0
    /\ pipe[c - 1] > 0 \/ wr[c - 1] = {}

Read(c) ==
    /\ MayRead(c)
    /\ IF pipe[c - 1] > 0
       THEN /\ pipe' = [pipe EXCEPT ![c - 1] = @ - 1]
            /\ todo' = [todo EXCEPT ![c].takes = @ - 1]
       ELSE todo' = [todo EXCEPT ![c].takes = 0] /\ UNCHANGED pipe
    /\ UNCHANGED <<line, child, rd, wr, at, i>>

MayWrite(c) ==
    /\ child[c] = "running"
    /\ todo[c].out > 0
    /\ todo[c].first = "out" \/ todo[c].takes = 0
    /\ pipe[c] < PipeMax \/ rd[c] = {}

(* A pipe that nobody can read ends the writer.                            *)
Write(c) ==
    /\ MayWrite(c)
    /\ IF rd[c] # {}
       THEN /\ pipe' = [pipe EXCEPT ![c] = @ + 1]
            /\ todo' = [todo EXCEPT ![c].out = @ - 1]
       ELSE todo' = [todo EXCEPT ![c] = NoCommand] /\ UNCHANGED pipe
    /\ UNCHANGED <<line, child, rd, wr, at, i>>

MayExit(c) == child[c] = "running" /\ todo[c].out = 0 /\ todo[c].takes = 0

Exit(c) ==
    /\ MayExit(c)
    /\ child' = [child EXCEPT ![c] = "exited"]
    /\ rd' = [p \in Pipes |-> rd[p] \ {c}]
    /\ wr' = [p \in Pipes |-> wr[p] \ {c}]
    /\ UNCHANGED <<line, todo, pipe, at, i>>

ChildStep(c) == Read(c) \/ Write(c) \/ Exit(c)

-----------------------------------------------------------------------------
Init ==
    /\ line = <<>>
    /\ todo = [c \in Commands |-> NoCommand]
    /\ child = [c \in Commands |-> "none"]
    /\ pipe = [p \in Pipes |-> 0]
    /\ rd = [p \in Pipes |-> {}] /\ wr = [p \in Pipes |-> {}]
    /\ at = "prompt" /\ i = 1

Next == ReadLine \/ Quit \/ ShellStep \/ \E c \in Commands : ChildStep(c)

Spec == Init /\ [][Next]_vars

(* The shell and its commands keep running; nobody is obliged to type.     *)
Fairness == WF_vars(ShellStep) /\ \A c \in Commands : WF_vars(ChildStep(c))

FairSpec == Spec /\ Fairness

-----------------------------------------------------------------------------
(* Nobody behind a pipe reads to its end, and what nobody takes out of a   *)
(* pipe, the six bytes included, fits into it.                             *)
Harmless ==
    \A p \in 1..(Len(line) - 1) :
        /\ line[p + 1].takes # All
        /\ line[p].out + 1 <= PipeMax + line[p + 1].takes

(* The shell comes back to its prompt after the harmless lines and after   *)
(* no other: a command that reads a pipe to the end holds the writing end  *)
(* of that pipe itself, and a writer to a full pipe whose reader has gone  *)
(* holds the reading end.                                                  *)
ReturnsHarmless == [][at = "close" /\ at' = "prompt" => Harmless]_vars

(* Before that, the shell or a command of a harmless line can go on.       *)
GoesOn ==
    at \notin {"prompt", "quit"} /\ Harmless =>
        \/ at \in {"pipe", "fork", "close"}
        \/ at = "wait" /\ child[i] = "exited"
        \/ at = "mark" /\ pipe[i] < PipeMax
        \/ \E c \in Commands : MayRead(c) \/ MayWrite(c) \/ MayExit(c)

PromptReturns ==
    /\ Harmless ~> at \in {"prompt", "quit"}
    /\ ReturnsHarmless /\ []GoesOn
=============================================================================
