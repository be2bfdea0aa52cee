------------------------------- MODULE MsgTask -------------------------------
(***************************************************************************)
(* The message-queue test (msg_queue/source/msg_task1.c): a parent sends   *)
(* one message through a POSIX and one through a System V queue to the     *)
(* child it forked.  The child polls for the POSIX queue every three       *)
(* seconds, receives, and removes the name; the parent does not wait for   *)
(* it, so children of earlier runs may still poll when the program is run  *)
(* again.  A POSIX queue is named by the run that created it.  The System  *)
(* V queue is never removed.                                               *)
(***************************************************************************)
EXTENDS Naturals, Sequences

CONSTANT MaxSends   \* bound on how often the program is run
Senders == 1..MaxSends
NoQueue == 0

VARIABLES
    task1_queue,    \* the queue "/task1_queue" leads to
    posix,          \* of each queue: how many messages wait in it
    sysv_mq,        \* how many messages wait in the System V queue
    keyed,          \* whether the file ftok is given exists
    sender,         \* of each run: the place of the parent
    receiver,       \* of each run: the place of the child
    mq              \* of each run: the queue the child opened

vars == <<task1_queue, posix, sysv_mq, keyed, sender, receiver, mq>>

-----------------------------------------------------------------------------
(* The path given to ftok is that of the author's home.                    *)
Start(r) ==
    /\ sender[r] = "none" /\ \A q \in 1..(r - 1) : sender[q] \in {"over", "failed"}
    /\ keyed' \in IF r = 1 THEN BOOLEAN ELSE {keyed}
    /\ sender' = [sender EXCEPT ![r] = "open"]
    /\ receiver' = [receiver EXCEPT ![r] = "open"]
    /\ UNCHANGED <<task1_queue, posix, sysv_mq, mq>>

(* O_CREAT without O_EXCL: the queue may be one an earlier run left.       *)
MqOpen(r) ==
    /\ sender[r] = "open"
    /\ task1_queue' = IF task1_queue = NoQueue THEN r ELSE task1_queue
    /\ mq' = [mq EXCEPT ![r].sender = task1_queue']
    /\ sender' = [sender EXCEPT ![r] = "send"]
    /\ UNCHANGED <<posix, sysv_mq, keyed, receiver>>

MqSend(r) ==
    /\ sender[r] = "send"
    /\ posix' = [posix EXCEPT ![mq[r].sender] = @ + 1]
    /\ sender' = [sender EXCEPT ![r] = IF keyed THEN "msgsnd" ELSE "failed"]
    /\ UNCHANGED <<task1_queue, sysv_mq, keyed, receiver, mq>>

MsgSnd(r) ==
    /\ sender[r] = "msgsnd"
    /\ sysv_mq' = sysv_mq + 1
    /\ sender' = [sender EXCEPT ![r] = "over"]
    /\ UNCHANGED <<task1_queue, posix, keyed, receiver, mq>>

-----------------------------------------------------------------------------
PollOpen(r) ==
    /\ receiver[r] = "open" /\ task1_queue # NoQueue
    /\ mq' = [mq EXCEPT ![r].receiver = task1_queue]
    /\ receiver' = [receiver EXCEPT ![r] = "receive"]
    /\ UNCHANGED <<task1_queue, posix, sysv_mq, keyed, sender>>

MqReceive(r) ==
    /\ receiver[r] = "receive" /\ posix[mq[r].receiver] > 0
    /\ posix' = [posix EXCEPT ![mq[r].receiver] = @ - 1]
    /\ receiver' = [receiver EXCEPT ![r] = "unlink"]
    /\ UNCHANGED <<task1_queue, sysv_mq, keyed, sender, mq>>

(* The name goes, whichever queue bears it by now.                         *)
MqUnlink(r) ==
    /\ receiver[r] = "unlink"
    /\ task1_queue' = NoQueue
    /\ receiver' = [receiver EXCEPT ![r] = IF keyed THEN "msgrcv" ELSE "failed"]
    /\ UNCHANGED <<posix, sysv_mq, keyed, sender, mq>>

(* Mutant: a single message is not taken.                                  *)
MsgRcvLeavesOne(r) ==
    /\ receiver[r] = "msgrcv" /\ sysv_mq > 1
    /\ sysv_mq' = sysv_mq - 1
    /\ receiver' = [receiver EXCEPT ![r] = "over"]
    /\ UNCHANGED <<task1_queue, posix, keyed, sender, mq>>

MsgRcv(r) ==
    /\ receiver[r] = "msgrcv" /\ sysv_mq > 0
    /\ sysv_mq' = sysv_mq - 1
    /\ receiver' = [receiver EXCEPT ![r] = "over"]
    /\ UNCHANGED <<task1_queue, posix, keyed, sender, mq>>

-----------------------------------------------------------------------------
Init ==
    /\ task1_queue = NoQueue
    /\ posix = [r \in Senders |-> 0] /\ sysv_mq = 0
    /\ keyed = FALSE
    /\ sender = [r \in Senders |-> "none"] /\ receiver = [r \in Senders |-> "none"]
    /\ mq = [r \in Senders |-> [sender |-> NoQueue, receiver |-> NoQueue]]

SenderStep(r) == MqOpen(r) \/ MqSend(r) \/ MsgSnd(r)
ReceiverStep(r) == PollOpen(r) \/ MqReceive(r) \/ MqUnlink(r) \/ MsgRcv(r)

Next == \E r \in Senders : Start(r) \/ SenderStep(r) \/ ReceiverStep(r)

Spec == Init /\ [][Next]_vars

Fairness == \A r \in Senders : WF_vars(SenderStep(r)) /\ WF_vars(ReceiverStep(r))

-----------------------------------------------------------------------------
(* Every child gets both messages and ends, unless a child took the name   *)
(* off a queue that still had a message, or another child, in it.          *)
CutOff == \E q \in Senders \ {task1_queue} :
    posix[q] > 0 \/ \E r \in Senders : receiver[r] = "receive" /\ mq[r].receiver = q

(* Nobody is at a call that returns.                                       *)
Halted ==
    \A r \in Senders :
        /\ sender[r] \in {"none", "over", "failed"}
        /\ \/ receiver[r] \in {"none", "over", "failed"}
           \/ receiver[r] = "open" /\ task1_queue = NoQueue
           \/ receiver[r] = "receive" /\ posix[mq[r].receiver] = 0
           \/ receiver[r] = "msgrcv" /\ sysv_mq = 0
HaltedOnlyCutOff(r) == Halted /\ ~CutOff => receiver[r] \in {"none", "over", "failed"}
ReceivedOrCutOff ==
    /\ \A r \in Senders :
          receiver[r] = "open" ~> (receiver[r] \in {"over", "failed"} \/ []CutOff)
    /\ [](\A r \in Senders : HaltedOnlyCutOff(r))
=============================================================================
