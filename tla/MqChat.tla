------------------------------- MODULE MqChat -------------------------------
(***************************************************************************)
(* The chat over POSIX message queues (msg_queue/): a server owning the    *)
(* connection queue and clients owning one queue each.  All queues are     *)
(* bounded and mq_send blocks.  A step is one call on a queue.  The server *)
(* sends on exactly the message it just stored, which is what module       *)
(* MessageRing shows of add_message and send_updates; a typed line is the  *)
(* one-place handover module InputRoutine shows input_routine to be.       *)
(***************************************************************************)
EXTENDS Naturals, Sequences, FiniteSets

CONSTANTS
    Clients,          \* the client processes
    Names,            \* the names users may choose
    NoOwner,          \* "no queue has this name"
    QueueMax,         \* mq_maxmsg (the system's default, 10)
    ClientsAllocated, \* length of the clients array (10)
    MaxLines,         \* bound: lines typed in all clients together
    MaxDeaths         \* bound: clients whose process dies

ASSUME ClientsFinite == IsFiniteSet(Clients)
ASSUME OwnerKnown == NoOwner \notin Clients
ASSUME QueuesHoldOne == QueueMax \in Nat \ {0}
ASSUME MaxLinesNat == MaxLines \in Nat
ASSUME MaxDeathsNat == MaxDeaths \in Nat
ASSUME SomeAllocated == ClientsAllocated \in Nat \ {0}

NoLine == [kind |-> "none"]
StopLine == [kind |-> "stop"]                  \* a line beginning with a slash
TextLine(k) == [kind |-> "text", number |-> k]

VARIABLES
    linked,      \* /chat_server_connection names the connection queue
    connection,  \* the connection queue
    owner,       \* whose queue bears a name
    queue,       \* the clients' queues
    spc,         \* where the server is
    clients,     \* the server's array of clients
    out,         \* message the server is sending on
    next,        \* index of the client it sends to next
    cpc,         \* where each client is
    name,        \* the name each client chose
    input,       \* line handed over by the typing thread
    dead,        \* clients whose process died, each where its cpc says
    typed,       \* bound counter: lines typed so far
    texts,       \* history: texts typed in each client
    log,         \* history: texts the server stored
    joined,      \* history: log length when the server registered a client
    shown        \* history: texts each client printed

serverVars == <<linked, owner, spc, clients, out, next, log, joined>>
clientVars == <<cpc, name, input, dead, typed, texts, shown>>
vars == <<serverVars, clientVars, connection, queue>>

-----------------------------------------------------------------------------
(* A message queue is one FIFO per priority: 1 text, 2 join, 3 stop.       *)
EmptyQueue == [p \in 1..3 |-> <<>>]
Size(q) == Len(q[1]) + Len(q[2]) + Len(q[3])
Full(q) == Size(q) >= QueueMax
Put(q, p, m) == [q EXCEPT ![p] = Append(@, m)]
Take(q, p) == [q EXCEPT ![p] = Tail(@)]
(* mq_receive takes the oldest message of the highest priority present.    *)
Receives(q, p) == q[p] # <<>> /\ \A r \in (p + 1)..3 : q[r] = <<>>

-----------------------------------------------------------------------------
(* The server.                                                             *)

ServerOpen ==
    /\ spc = "start"
    /\ spc' = "loop"
    /\ linked' = TRUE
    /\ UNCHANGED <<connection, owner, queue, clients, out, next, log, joined, clientVars>>

(* A join opens the queue of that name.  Past the end of the array the     *)
(* write is undefined: the server may go on or die.                        *)
ServerJoin ==
    /\ spc = "loop" /\ Receives(connection, 2)
    /\ connection' = Take(connection, 2)
    /\ LET c == owner[Head(connection[2])] IN
         IF c = NoOwner
         THEN spc' = "exited" /\ UNCHANGED <<clients, joined>>
         ELSE /\ clients' = Append(clients, c)
              /\ joined' = [d \in DOMAIN joined \cup {c} |->
                               IF d = c THEN Len(log) ELSE joined[d]]
              /\ \/ spc' = "loop"
                 \/ Len(clients') > ClientsAllocated /\ spc' = "crashed"
    /\ UNCHANGED <<linked, owner, queue, out, next, log, clientVars>>

(* The sender is looked up by a name that is not terminated: the lookup    *)
(* may miss, and the server then dies on a null pointer.                   *)
ServerText ==
    /\ spc = "loop" /\ Receives(connection, 1)
    /\ connection' = Take(connection, 1)
    /\ \/ /\ spc' = "send"
          /\ out' = Head(connection[1])
          /\ next' = 1
          /\ log' = Append(log, out')
       \/ spc' = "crashed" /\ UNCHANGED <<out, next, log>>
    /\ UNCHANGED <<linked, owner, queue, clients, joined, clientVars>>

(* Mutant: a full queue is skipped instead of waited for.                  *)
ServerSendDrops ==
    /\ spc = "send" /\ next <= Len(clients)
    /\ next' = next + 1
    /\ queue' = IF Full(queue[clients[next]]) THEN queue
                ELSE [queue EXCEPT ![clients[next]] = Put(@, 1, out)]
    /\ UNCHANGED <<linked, connection, owner, spc, clients, out, log, joined, clientVars>>

ServerSend ==
    /\ spc = "send" /\ next <= Len(clients)
    /\ ~Full(queue[clients[next]])
    /\ queue' = [queue EXCEPT ![clients[next]] = Put(@, 1, out)]
    /\ next' = next + 1
    /\ UNCHANGED <<linked, connection, owner, spc, clients, out, log, joined, clientVars>>

ServerSent ==
    /\ spc = "send" /\ next > Len(clients)
    /\ spc' = "loop"
    /\ UNCHANGED <<linked, connection, owner, queue, clients, out, next, log, joined, clientVars>>

(* Mutant: the stop goes to all clients but the first.                     *)
ServerStopSkipsFirst ==
    /\ spc = "loop" /\ Receives(connection, 3)
    /\ connection' = Take(connection, 3)
    /\ linked' = FALSE
    /\ spc' = "stopping"
    /\ next' = 2
    /\ UNCHANGED <<owner, queue, clients, out, log, joined, clientVars>>

ServerStop ==
    /\ spc = "loop" /\ Receives(connection, 3)
    /\ connection' = Take(connection, 3)
    /\ linked' = FALSE
    /\ spc' = "stopping"
    /\ next' = 1
    /\ UNCHANGED <<owner, queue, clients, out, log, joined, clientVars>>

ServerSendStop ==
    /\ spc = "stopping" /\ next <= Len(clients)
    /\ ~Full(queue[clients[next]])
    /\ queue' = [queue EXCEPT ![clients[next]] = Put(@, 3, "stop")]
    /\ next' = next + 1
    /\ UNCHANGED <<linked, connection, owner, spc, clients, out, log, joined, clientVars>>

ServerEnd ==
    /\ spc = "stopping" /\ next > Len(clients)
    /\ spc' = "stopped"
    /\ UNCHANGED <<linked, connection, owner, queue, clients, out, next, log, joined, clientVars>>

ServerStep ==
    \/ ServerOpen \/ ServerJoin \/ ServerText \/ ServerSend \/ ServerSent
    \/ ServerStop \/ ServerSendStop \/ ServerEnd

-----------------------------------------------------------------------------
(* A client.                                                               *)

At(c, from, to) ==
    /\ c \notin dead
    /\ cpc[c] = from
    /\ cpc' = [cpc EXCEPT ![c] = to]
    /\ UNCHANGED dead

Connect(c) ==
    /\ linked /\ At(c, "connect", "name")
    /\ UNCHANGED <<serverVars, connection, queue, name, input, typed, texts, shown>>

(* Mutant: mq_open without O_EXCL.                                         *)
ChooseNameShared(c) ==
    /\ At(c, "name", "join")
    /\ \E n \in Names : /\ owner' = [owner EXCEPT ![n] = c]
                        /\ name' = [name EXCEPT ![c] = n]
    /\ UNCHANGED <<linked, connection, queue, spc, clients, out, next, log, joined,
                   input, typed, texts, shown>>

(* O_EXCL: a name that is taken ends the client.                           *)
ChooseName(c) ==
    /\ \E n \in Names :
          IF owner[n] = NoOwner
          THEN /\ At(c, "name", "join")
               /\ owner' = [owner EXCEPT ![n] = c]
               /\ name' = [name EXCEPT ![c] = n]
          ELSE At(c, "name", "failed") /\ UNCHANGED <<owner, name>>
    /\ UNCHANGED <<linked, connection, queue, spc, clients, out, next, log, joined,
                   input, typed, texts, shown>>

Join(c) ==
    /\ ~Full(connection) /\ At(c, "join", "top")
    /\ connection' = Put(connection, 2, name[c])
    /\ UNCHANGED <<serverVars, queue, name, input, typed, texts, shown>>

SendStop(c) ==
    /\ input[c] = StopLine /\ ~Full(connection) /\ At(c, "top", "drain")
    /\ connection' = Put(connection, 3, "stop")
    /\ input' = [input EXCEPT ![c] = NoLine]
    /\ UNCHANGED <<serverVars, queue, name, typed, texts, shown>>

(* Mutant: flag is not set back after the send.                            *)
SendTextKeepsLine(c) ==
    /\ input[c].kind = "text" /\ ~Full(connection) /\ At(c, "top", "drain")
    /\ connection' = Put(connection, 1, [from |-> name[c], number |-> input[c].number])
    /\ UNCHANGED <<serverVars, queue, name, input, typed, texts, shown>>

SendText(c) ==
    /\ input[c].kind = "text" /\ ~Full(connection) /\ At(c, "top", "drain")
    /\ connection' = Put(connection, 1, [from |-> name[c], number |-> input[c].number])
    /\ input' = [input EXCEPT ![c] = NoLine]
    /\ UNCHANGED <<serverVars, queue, name, typed, texts, shown>>

(* Mutant: a client with nothing to send does not look at its queue.       *)
NoInputWaits(c) ==
    /\ input[c] = NoLine /\ At(c, "top", "top")
    /\ UNCHANGED <<serverVars, connection, queue, name, input, typed, texts, shown>>

NoInput(c) ==
    /\ input[c] = NoLine /\ At(c, "top", "drain")
    /\ UNCHANGED <<serverVars, connection, queue, name, input, typed, texts, shown>>

(* Mutant: the newest message of the queue is printed.                     *)
ReceiveNewest(c) ==
    /\ Receives(queue[c], 1) /\ At(c, "drain", "drain")
    /\ LET texts1 == queue[c][1] IN
          /\ queue' = [queue EXCEPT ![c][1] = SubSeq(@, 1, Len(@) - 1)]
          /\ shown' = [shown EXCEPT ![c] = Append(@, texts1[Len(texts1)])]
    /\ UNCHANGED <<serverVars, connection, name, input, typed, texts>>

Receive(c) ==
    /\ Receives(queue[c], 1) /\ At(c, "drain", "drain")
    /\ queue' = [queue EXCEPT ![c] = Take(@, 1)]
    /\ shown' = [shown EXCEPT ![c] = Append(@, Head(queue[c][1]))]
    /\ UNCHANGED <<serverVars, connection, name, input, typed, texts>>

Drained(c) ==
    /\ Size(queue[c]) = 0 /\ At(c, "drain", "top")
    /\ UNCHANGED <<serverVars, connection, queue, name, input, typed, texts, shown>>

ReceiveStop(c) ==
    /\ Receives(queue[c], 3) /\ At(c, "drain", "quit")
    /\ queue' = [queue EXCEPT ![c] = Take(@, 3)]
    /\ UNCHANGED <<serverVars, connection, name, input, typed, texts, shown>>

Quit(c) ==
    /\ At(c, "quit", "done")
    /\ owner' = [owner EXCEPT ![name[c]] = NoOwner]
    /\ UNCHANGED <<linked, connection, queue, spc, clients, out, next, log, joined,
                   name, input, typed, texts, shown>>

ClientStep(c) ==
    \/ Connect(c) \/ ChooseName(c) \/ Join(c) \/ SendStop(c) \/ SendText(c)
    \/ NoInput(c) \/ Receive(c) \/ Drained(c) \/ ReceiveStop(c) \/ Quit(c)

(* The typing thread hands over a line once the one before was sent.       *)
Type(c) ==
    /\ c \notin dead /\ cpc[c] \in {"top", "drain"} /\ input[c] = NoLine
    /\ typed < MaxLines
    /\ typed' = typed + 1
    /\ \/ input' = [input EXCEPT ![c] = StopLine] /\ UNCHANGED texts
       \/ /\ texts' = [texts EXCEPT ![c] = @ + 1]
          /\ input' = [input EXCEPT ![c] = TextLine(texts'[c])]
    /\ UNCHANGED <<serverVars, connection, queue, cpc, name, dead, shown>>

(* At the end of input, or on a line too long for the buffer, there is no  *)
(* newline to overwrite: the write through NULL kills the process, at the  *)
(* prompt for a name as in the typing thread, which reads while no line of *)
(* its is waiting, the last time when the main thread is about to unlink.  *)
(* The queue of the client stays, under its name and at the server.        *)
Die(c) ==
    /\ c \notin dead
    /\ \/ cpc[c] = "name"
       \/ cpc[c] \in {"top", "drain", "quit"} /\ input[c] = NoLine
    /\ Cardinality(dead) < MaxDeaths
    /\ dead' = dead \cup {c}
    /\ UNCHANGED <<serverVars, connection, queue, cpc, name, input, typed, texts, shown>>

-----------------------------------------------------------------------------
Init ==
    /\ linked = FALSE
    /\ connection = EmptyQueue
    /\ owner = [n \in Names |-> NoOwner]
    /\ queue = [c \in Clients |-> EmptyQueue]
    /\ spc = "start"
    /\ clients = <<>>
    /\ out = [from |-> NoOwner, number |-> 0]
    /\ next = 1
    /\ cpc = [c \in Clients |-> "connect"]
    /\ name = [c \in Clients |-> NoOwner]
    /\ input = [c \in Clients |-> NoLine]
    /\ dead = {}
    /\ typed = 0
    /\ texts = [c \in Clients |-> 0]
    /\ log = <<>>
    /\ joined = <<>>
    /\ shown = [c \in Clients |-> <<>>]

Next == ServerStep \/ \E c \in Clients : ClientStep(c) \/ Type(c) \/ Die(c)

Spec == Init /\ [][Next]_vars

(* Both loops run for ever and neither sleeps with a lock; a blocked       *)
(* mq_send returns once there is room.  Nobody is obliged to type or die.  *)
FairSpec ==
    /\ Spec
    /\ WF_vars(ServerStep)
    /\ \A c \in Clients : WF_vars(ClientStep(c)) /\ SF_vars(Join(c) \/ SendText(c) \/ SendStop(c))

-----------------------------------------------------------------------------
Text == [from : Names, number : 1..MaxLines]

(* While the server runs, the lines typed by one user are, in the order    *)
(* typed and each once, stored by the server or in the connection queue,   *)
(* but for the last one while it is still to be sent.                      *)
NumberedUpTo(s, n, k) ==
    LET own == {i \in 1..Len(s) : s[i].from = n}
    IN  /\ {s[i].number : i \in own} = 1..k
        /\ \A i, j \in own : i < j => s[i].number < s[j].number
HoldsText(c) == input[c].kind = "text"
SentBy(c) == IF HoldsText(c) THEN texts[c] - 1 ELSE texts[c]
SendersInOrder ==
    spc \in {"loop", "send"} =>
        \A c \in {d \in Clients : name[d] # NoOwner} :
            /\ NumberedUpTo(log \o connection[1], name[c], SentBy(c))
            /\ HoldsText(c) => input[c].number = texts[c]

(* The array of clients names each process once, and the queue the server  *)
(* opened by name is that of the client who chose the name.                *)
RegisteredOnce ==
    /\ \A i, j \in 1..Len(clients) : clients[i] = clients[j] => i = j
    /\ spc \in {"loop", "send"} =>
           \A i \in 1..Len(clients) : owner[name[clients[i]]] = clients[i]
    /\ spc # "exited"

(* The chat implements the totally ordered broadcast.                      *)
Ordered == INSTANCE Broadcast WITH Members <- Clients, Texts <- Text
OrderedBroadcast == Ordered!Spec

(* A client is stuck when it must send into a full connection queue, the   *)
(* server when it must send into the full queue of a client.               *)
ClientStuck(c) == cpc[c] = "top" /\ input[c] # NoLine /\ Full(connection)
ServerStuckOn(c) ==
    /\ spc \in {"send", "stopping"} /\ next <= Len(clients)
    /\ clients[next] = c /\ Full(queue[c])

(* A client in the chat can take its next step: it has nothing to send,    *)
(* there is room for what it sends, or its queue holds what it waits for.  *)
MayGoOn(c) ==
    \/ cpc[c] = "top" /\ (input[c] = NoLine \/ ~Full(connection))
    \/ cpc[c] = "drain" /\ (Receives(queue[c], 1) \/ Receives(queue[c], 3))

(* The client whose full queue holds the server up has not quit: it died   *)
(* in the chat, or it can take its next step, or is stuck itself.          *)
NotHeldUpByLeaver ==
    \A c \in Clients :
        ServerStuckOn(c) => /\ cpc[c] \in {"top", "drain"}
                            /\ c \in dead \/ ClientStuck(c) \/ MayGoOn(c)

(* The server is held up for ever only by a client that is itself held up  *)
(* by the server's full connection queue, or that died and left its queue  *)
(* behind: there is no other deadlock.                                     *)
HeldUpForEver(c) == ServerStuckOn(c) /\ (ClientStuck(c) \/ c \in dead)
HeldUpOnlyMutually ==
    /\ \A c \in Clients : ServerStuckOn(c) ~> ~ServerStuckOn(c) \/ HeldUpForEver(c)
    /\ []NotHeldUpByLeaver

(* What a member still lacks waits in its queue, or the server is sending  *)
(* on and has not come to that member yet.                                 *)
Lagging(c) == c \in DOMAIN joined /\ joined[c] + Len(shown[c]) < Len(log)
LackedIsOnItsWay(c) ==
    Lagging(c) => \/ queue[c][1] # <<>>
                  \/ spc = "send" /\ \E i \in next..Len(clients) : clients[i] = c

(* Everything stored gets to every member that lives and is not stuck,     *)
(* unless the server stops first or is held up for ever.                   *)
DeliveredToAll ==
    \A c \in Clients :
        /\ Lagging(c) ~> \/ ~Lagging(c) \/ ~linked \/ ClientStuck(c) \/ c \in dead
                         \/ \E d \in Clients : HeldUpForEver(d)
        /\ []LackedIsOnItsWay(c)

(* When the server has stopped, a client it registered has left or has the *)
(* stop in its queue, also one that died.                                  *)
StopIsOnItsWay(c) ==
    spc = "stopped" /\ c \in DOMAIN joined =>
        \/ cpc[c] \in {"quit", "done"}
        \/ cpc[c] \in {"top", "drain"} /\ queue[c][3] # <<>>

(* Once the server stops, every client it registered ends, except one that *)
(* waits to send to the server that is gone, and unless the server is held *)
(* up for ever on its way through its clients.                             *)
StopReachesMembers ==
    \A c \in Clients :
        /\ spc = "stopping" /\ c \in DOMAIN joined
              ~> \/ cpc[c] = "done" \/ ClientStuck(c) \/ c \in dead
                 \/ \E d \in Clients : HeldUpForEver(d)
        /\ []StopIsOnItsWay(c)
=============================================================================
