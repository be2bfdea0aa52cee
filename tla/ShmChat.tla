------------------------------ MODULE ShmChat ------------------------------
(***************************************************************************)
(* The shared-memory chat (shared_mem/): one server and any number of      *)
(* clients around one shm_chat_t.  A step is one access to the shared      *)
(* segment, because the semaphore does not keep two processes apart (see   *)
(* SemAccounting); everything local is folded into the next shared access. *)
(* The typing thread of a client is reduced to the one-place handover that *)
(* module InputRoutine shows it to be.                                     *)
(***************************************************************************)
EXTENDS Integers, FiniteSets

CONSTANTS
    Server,      \* the server process, participant 0
    Clients,     \* the client processes
    CLIENT_MAX,  \* length of client_status (10 in shm_tasks.h)
    Lines,       \* what a user may type, by the kind the program tells apart
    MaxLines,    \* bound: lines typed in all clients together
    MaxDeaths,   \* bound: clients whose process dies
    NoLine       \* "flag == 1": no line is waiting in input_buf

(* "new" is the text /new, "stop" any other text that begins with a slash, *)
(* "empty" the text of no characters, "text" anything else (of at least    *)
(* two characters).                                                        *)
Message == {"new", "stop", "text", "empty"}

ASSUME ServerIsNoClient == Server \notin Clients
ASSUME ClientsFinite == IsFiniteSet(Clients)
ASSUME ClientMaxPositive == CLIENT_MAX \in Nat \ {0}
ASSUME LinesAreMessages == Lines \subseteq Message /\ NoLine \notin Message
ASSUME BoundsNat == MaxLines \in Nat /\ MaxDeaths \in Nat

VARIABLES
    sem,                \* value of shm_ptr->sem
    message_new, client_count, msg_recvd_clients, client_status, msg_buf,
    linked,             \* SHM_NAME still names the segment
    pc,                 \* next shared access of each process
    client_id,          \* slot of client_status a process uses (server: 0)
    input,              \* line handed over by the typing thread, or NoLine
    receive_buf,        \* copy of msg_buf a client took
    reg,                \* register of the ++msg_recvd_clients in progress
    typed,              \* number of lines typed so far
    dead,               \* clients whose process died, each where its pc says
    readers,            \* history: who counted itself since the last clearing
    announced           \* history: how often message_new rose from 0 to 1

shm   == <<message_new, client_count, msg_recvd_clients, client_status, msg_buf>>
local == <<client_id, input, receive_buf, reg, typed>>
history == <<readers, announced>>
vars  == <<sem, shm, linked, pc, local, dead, history>>

Proc == {Server} \cup Clients

-----------------------------------------------------------------------------
Goto(p, from, to) ==
    /\ p \notin dead
    /\ pc[p] = from
    /\ pc' = [pc EXCEPT ![p] = to]
    /\ UNCHANGED dead

(* A message is announced when message_new rises, not when it is set again.*)
Announce == /\ message_new' = 1
            /\ announced' = announced + 1 - message_new

SemWait(p, from, to) == sem > 0 /\ sem' = sem - 1 /\ Goto(p, from, to)
SemPost(p, from, to) == sem' = sem + 1 /\ Goto(p, from, to)

(* Slots past the end of client_status are the first bytes of msg_buf.     *)
StatusIsZero(i) ==
    IF i < CLIENT_MAX THEN client_status[i] = 0 ELSE msg_buf = "empty"

SetStatus(i) ==
    IF i < CLIENT_MAX
    THEN client_status' = [client_status EXCEPT ![i] = 1] /\ UNCHANGED msg_buf
    ELSE /\ msg_buf' = CASE i = CLIENT_MAX -> "text"
                         [] i > CLIENT_MAX /\ msg_buf = "new" -> "stop"
                         [] OTHER -> msg_buf
         /\ UNCHANGED client_status

(* strcpy is not atomic: a copy that is under way is a client at one of    *)
(* the two copying labels, and whoever reads or writes msg_buf meanwhile   *)
(* may meet a mixture of the old and the new text.                         *)
Writing(q) == CASE pc[q] = "joinCopy" -> "new" [] pc[q] = "copy" -> input[q]
Copying    == {q \in Clients \ dead : pc[q] \in {"joinCopy", "copy"}}
Mixture(a, b) == IF a = b THEN {a} ELSE {a, b, "text", "stop"}
MixedWith(m, others) == {m} \cup UNION {Mixture(m, Writing(q)) : q \in others}

-----------------------------------------------------------------------------
(* The server.                                                             *)

ServerWait == SemWait(Server, "wait", "status")
              /\ UNCHANGED <<shm, linked, local, history>>

(* Mutant: the server does not look at its own slot.                       *)
ServerCheckStatusSkipped ==
    /\ Goto(Server, "status", "fresh")
    /\ UNCHANGED <<sem, shm, linked, local, history>>

ServerCheckStatus ==
    /\ Goto(Server, "status", IF StatusIsZero(0) THEN "fresh" ELSE "compare")
    /\ UNCHANGED <<sem, shm, linked, local, history>>

ServerCheckNew ==
    /\ Goto(Server, "fresh", IF message_new = 1 THEN "read" ELSE "compare")
    /\ UNCHANGED <<sem, shm, linked, local, history>>

(* A text is only counted; /new registers a client; any other command      *)
(* leaves the loop with the semaphore taken and removes the segment.       *)
ServerRead ==
    /\ \E m \in MixedWith(msg_buf, Copying) :
          /\ Goto(Server, "read", CASE m = "new"  -> "register"
                                    [] m = "stop" -> "stopped"
                                    [] OTHER      -> "mark")
          /\ linked' = (linked /\ m # "stop")
    /\ UNCHANGED <<sem, shm, local, history>>

ServerRegister ==
    /\ client_count' = client_count + 1
    /\ Goto(Server, "register", IF client_count' > CLIENT_MAX THEN "exited" ELSE "mark")
    /\ UNCHANGED <<sem, message_new, msg_recvd_clients, client_status, msg_buf,
                   linked, local, history>>

ServerMark ==
    /\ Goto(Server, "mark", "load")
    /\ SetStatus(0)
    /\ UNCHANGED <<sem, message_new, client_count, msg_recvd_clients, linked,
                   local, history>>

ServerLoad ==
    /\ Goto(Server, "load", "store")
    /\ reg' = [reg EXCEPT ![Server] = msg_recvd_clients]
    /\ UNCHANGED <<sem, shm, linked, client_id, input, receive_buf, typed, history>>

(* What a process holds in reg and receive_buf is forgotten once used.     *)
ServerStore ==
    /\ Goto(Server, "store", "compare")
    /\ msg_recvd_clients' = reg[Server] + 1
    /\ reg' = [reg EXCEPT ![Server] = 0]
    /\ readers' = readers \cup {Server}
    /\ UNCHANGED <<sem, message_new, client_count, client_status, msg_buf, linked,
                   client_id, input, receive_buf, typed, announced>>

(* Mutant: the loop goes on without posting while the round is open.       *)
ServerCompareNoPost ==
    /\ Goto(Server, "compare",
            IF msg_recvd_clients = client_count THEN "clearNew" ELSE "wait")
    /\ UNCHANGED <<sem, shm, linked, local, history>>

ServerCompare ==
    /\ Goto(Server, "compare",
            IF msg_recvd_clients = client_count THEN "clearNew" ELSE "post")
    /\ UNCHANGED <<sem, shm, linked, local, history>>

ServerClearNew ==
    /\ Goto(Server, "clearNew", "clearStatus")
    /\ message_new' = 0
    /\ readers' = {}
    /\ UNCHANGED <<sem, client_count, msg_recvd_clients, client_status, msg_buf,
                   linked, local, announced>>

ServerClearStatus ==
    /\ Goto(Server, "clearStatus", "clearRecvd")
    /\ client_status' = [i \in DOMAIN client_status |->
                            IF i < client_count THEN 0 ELSE client_status[i]]
    /\ UNCHANGED <<sem, message_new, client_count, msg_recvd_clients, msg_buf,
                   linked, local, history>>

ServerClearRecvd ==
    /\ Goto(Server, "clearRecvd", "post")
    /\ msg_recvd_clients' = 0
    /\ UNCHANGED <<sem, message_new, client_count, client_status, msg_buf,
                   linked, local, history>>

ServerPost == SemPost(Server, "post", "wait")
              /\ UNCHANGED <<shm, linked, local, history>>

ServerStep ==
    \/ ServerWait \/ ServerCheckStatus \/ ServerCheckNew \/ ServerRead
    \/ ServerRegister \/ ServerMark \/ ServerLoad \/ ServerStore
    \/ ServerCompare \/ ServerClearNew \/ ServerClearStatus \/ ServerClearRecvd
    \/ ServerPost

-----------------------------------------------------------------------------
(* A client joins: it announces itself only when no message is under way,  *)
(* and gives the semaphore back twice.                                     *)

Attach(c) ==
    /\ Goto(c, "attach", IF linked THEN "joinWait" ELSE "failed")
    /\ UNCHANGED <<sem, shm, linked, local, history>>

JoinWait(c) == SemWait(c, "joinWait", "joinCheck")
               /\ UNCHANGED <<shm, linked, local, history>>

JoinCheck(c) ==
    /\ Goto(c, "joinCheck", IF message_new = 0 THEN "joinNew" ELSE "joinPost")
    /\ UNCHANGED <<sem, shm, linked, local, history>>

JoinNew(c) ==
    /\ Goto(c, "joinNew", "joinCopy")
    /\ Announce
    /\ UNCHANGED <<sem, client_count, msg_recvd_clients, client_status, msg_buf,
                   linked, local, readers>>

JoinCopy(c) ==
    /\ Goto(c, "joinCopy", "joinId")
    /\ msg_buf' \in MixedWith("new", Copying \ {c})
    /\ UNCHANGED <<sem, message_new, client_count, msg_recvd_clients,
                   client_status, linked, local, history>>

JoinId(c) ==
    /\ Goto(c, "joinId", "joinPost")
    /\ client_id' = [client_id EXCEPT ![c] = client_count]
    /\ UNCHANGED <<sem, shm, linked, input, receive_buf, reg, typed, history>>

JoinPost(c) == SemPost(c, "joinPost", "joinPost2")
               /\ UNCHANGED <<shm, linked, local, history>>

(* Mutant: the semaphore is given back once.                               *)
JoinPost2Missing(c) == Goto(c, "joinPost2", "wait")
                       /\ UNCHANGED <<sem, shm, linked, local, history>>

JoinPost2(c) == SemPost(c, "joinPost2", "wait")
                /\ UNCHANGED <<shm, linked, local, history>>

-----------------------------------------------------------------------------
(* The client's loop: publish the typed line if no message is under way    *)
(* (otherwise the line is dropped), then read a message not yet read.      *)

ClientWait(c) == SemWait(c, "wait", "input")
                 /\ UNCHANGED <<shm, linked, local, history>>

(* Mutant: the typing thread is released before the line is copied.        *)
ClientInputEarlyRelease(c) ==
    /\ Goto(c, "input",
            IF input[c] # NoLine /\ message_new = 0 THEN "copy" ELSE "status")
    /\ input' = [input EXCEPT ![c] = NoLine]
    /\ UNCHANGED <<sem, shm, linked, client_id, receive_buf, reg, typed, history>>

ClientInput(c) ==
    /\ Goto(c, "input",
            IF input[c] # NoLine /\ message_new = 0 THEN "copy" ELSE "status")
    /\ input' = [input EXCEPT ![c] = IF message_new = 0 THEN @ ELSE NoLine]
    /\ UNCHANGED <<sem, shm, linked, client_id, receive_buf, reg, typed, history>>

ClientCopy(c) ==
    /\ Goto(c, "copy", "publish")
    /\ msg_buf' \in MixedWith(input[c], Copying \ {c})
    /\ UNCHANGED <<sem, message_new, client_count, msg_recvd_clients,
                   client_status, linked, local, history>>

ClientPublish(c) ==
    /\ Goto(c, "publish", "status")
    /\ Announce
    /\ input' = [input EXCEPT ![c] = NoLine]
    /\ UNCHANGED <<sem, client_count, msg_recvd_clients, client_status, msg_buf,
                   linked, client_id, receive_buf, reg, typed, readers>>

ClientCheckStatus(c) ==
    /\ Goto(c, "status", IF StatusIsZero(client_id[c]) THEN "fresh" ELSE "post")
    /\ UNCHANGED <<sem, shm, linked, local, history>>

ClientCheckNew(c) ==
    /\ Goto(c, "fresh", IF message_new = 1 THEN "read" ELSE "post")
    /\ UNCHANGED <<sem, shm, linked, local, history>>

ClientRead(c) ==
    /\ Goto(c, "read", "mark")
    /\ \E m \in MixedWith(msg_buf, Copying) :
          receive_buf' = [receive_buf EXCEPT ![c] = m]
    /\ UNCHANGED <<sem, shm, linked, client_id, input, reg, typed, history>>

ClientMark(c) ==
    /\ Goto(c, "mark", "load")
    /\ SetStatus(client_id[c])
    /\ UNCHANGED <<sem, message_new, client_count, msg_recvd_clients, linked,
                   local, history>>

ClientLoad(c) ==
    /\ Goto(c, "load", "store")
    /\ reg' = [reg EXCEPT ![c] = msg_recvd_clients]
    /\ UNCHANGED <<sem, shm, linked, client_id, input, receive_buf, typed, history>>

(* A command other than /new ends the client with the semaphore taken.     *)
ClientStore(c) ==
    /\ Goto(c, "store", IF receive_buf[c] = "stop" THEN "stopped" ELSE "post")
    /\ msg_recvd_clients' = reg[c] + 1
    /\ reg' = [reg EXCEPT ![c] = 0]
    /\ receive_buf' = [receive_buf EXCEPT ![c] = "empty"]
    /\ readers' = readers \cup {c}
    /\ UNCHANGED <<sem, message_new, client_count, client_status, msg_buf, linked,
                   client_id, input, typed, announced>>

ClientPost(c) == SemPost(c, "post", "wait")
                 /\ UNCHANGED <<shm, linked, local, history>>

ClientStep(c) ==
    \/ Attach(c) \/ JoinWait(c) \/ JoinCheck(c) \/ JoinNew(c) \/ JoinCopy(c)
    \/ JoinId(c) \/ JoinPost(c) \/ JoinPost2(c)
    \/ ClientWait(c) \/ ClientInput(c) \/ ClientCopy(c) \/ ClientPublish(c)
    \/ ClientCheckStatus(c) \/ ClientCheckNew(c) \/ ClientRead(c)
    \/ ClientMark(c) \/ ClientLoad(c) \/ ClientStore(c) \/ ClientPost(c)

(* The typing thread waits in fgets: it runs from before the join on, and  *)
(* has no line to hand over yet.                                           *)
Reading(c) == /\ c \notin dead
              /\ pc[c] \notin {"attach", "failed", "stopped"}
              /\ input[c] = NoLine

Type(c) ==
    /\ Reading(c)
    /\ typed < MaxLines
    /\ typed' = typed + 1
    /\ \E l \in Lines : input' = [input EXCEPT ![c] = l]
    /\ UNCHANGED <<sem, shm, linked, pc, client_id, receive_buf, reg, dead, history>>

(* At the end of input, or when the line is too long for the buffer, there *)
(* is no newline to overwrite: the write through NULL kills the process,   *)
(* wherever its main thread is, with what it took of the semaphore.  The   *)
(* copy of "/new" may be left half done.                                   *)
Die(c) ==
    /\ Reading(c)
    /\ Cardinality(dead) < MaxDeaths
    /\ dead' = dead \cup {c}
    /\ msg_buf' \in IF pc[c] = "joinCopy" THEN Mixture(msg_buf, "new") ELSE {msg_buf}
    /\ UNCHANGED <<sem, message_new, client_count, msg_recvd_clients, client_status,
                   linked, pc, local, history>>

-----------------------------------------------------------------------------
(* The segment as the server leaves it after sem_init with the value s.    *)
Start(s) ==
    /\ sem = s
    /\ message_new = 0
    /\ client_count = 1
    /\ msg_recvd_clients = 0
    /\ client_status = [i \in 0..(CLIENT_MAX - 1) |-> 0]
    /\ msg_buf = "empty"
    /\ linked = TRUE
    /\ pc = [p \in Proc |-> IF p = Server THEN "wait" ELSE "attach"]
    /\ client_id = [p \in Proc |-> 0]
    /\ input = [c \in Clients |-> NoLine]
    /\ receive_buf = [c \in Clients |-> "empty"]
    /\ reg = [p \in Proc |-> 0]
    /\ typed = 0
    /\ dead = {}
    /\ readers = {}
    /\ announced = 0

(* Mutant: sem_init with the value 2.                                      *)
InitTwo == Start(2)

Init == Start(1)

Next == ServerStep \/ \E c \in Clients : ClientStep(c) \/ Type(c) \/ Die(c)

Spec == Init /\ [][Next]_vars

(* Every process that lives keeps running, and sem_wait does not pass a    *)
(* waiter over for ever.  Nobody is obliged to type, or to die.            *)
Fairness ==
    /\ SF_vars(ServerWait)
    /\ WF_vars(ServerStep)
    /\ \A c \in Clients : SF_vars(JoinWait(c) \/ ClientWait(c)) /\ WF_vars(ClientStep(c))

FairSpec == Spec /\ Fairness

-----------------------------------------------------------------------------
ServerLabel == {"wait", "status", "fresh", "read", "register", "mark", "load",
                "store", "compare", "clearNew", "clearStatus", "clearRecvd",
                "post", "stopped", "exited"}
ClientLabel == {"attach", "failed", "joinWait", "joinCheck", "joinNew",
                "joinCopy", "joinId", "joinPost", "joinPost2", "wait", "input",
                "copy", "publish", "status", "fresh", "read", "mark", "load",
                "store", "post", "stopped"}

(* Every variable holds a value of its C type, narrowed to the values the  *)
(* program tells apart.                                                    *)
TypeOK ==
    /\ sem \in Nat
    /\ message_new \in 0..1
    /\ client_count \in Nat
    /\ msg_recvd_clients \in Nat
    /\ client_status \in [0..(CLIENT_MAX - 1) -> 0..1]
    /\ msg_buf \in Message
    /\ linked \in BOOLEAN
    /\ pc \in [Proc -> ServerLabel \cup ClientLabel]
    /\ pc[Server] \in ServerLabel
    /\ \A c \in Clients : pc[c] \in ClientLabel
    /\ client_id \in [Proc -> Nat]
    /\ input \in [Clients -> Message \cup {NoLine}]
    /\ \A c \in Clients : pc[c] \in {"copy", "publish"} => input[c] # NoLine
    /\ receive_buf \in [Clients -> Message]
    /\ reg \in [Proc -> Nat]
    /\ typed \in Nat
    /\ dead \subseteq Clients
    /\ readers \subseteq Proc
    /\ announced \in Nat

(* Guests are clients inside their join; the lobby is where a participant  *)
(* that has joined (the server from the start) waits for its next turn.    *)
(* A client that died counts where it died.                                *)
GuestLabel == {"joinCheck", "joinNew", "joinCopy", "joinId", "joinPost"}
Guests == {c \in Clients : pc[c] \in GuestLabel}
Lobby  == {p \in Proc : pc[p] = "wait"}

(* The semaphore's law.  Because a joining client posts twice, its value   *)
(* is the number of participants waiting outside, less the joiners inside: *)
(* it is not a lock but a count of the participants (sem_wait, sem_post,   *)
(* and the breaks that leave with the semaphore taken).  A client that     *)
(* dies takes one away for good inside its join, leaves one behind if it   *)
(* waits outside, and neither when it dies elsewhere.                      *)
SemAccounting == sem + Cardinality(Guests) = Cardinality(Lobby)

(* What the law means: with no join in progress there is a unit for every  *)
(* living participant outside, even after the server or a client left the  *)
(* loop without posting, but for one per client that died inside its join. *)
NeverExcluded ==
    Guests \subseteq dead =>
        Cardinality(Lobby \ dead) <= sem + Cardinality(Guests \cap dead)

(* Until the first client has posted twice the semaphore is a lock: the    *)
(* server and the first joiners are never inside together, and one that    *)
(* died inside keeps all others out.                                       *)
Inside == {p \in Proc : pc[p] \notin {"attach", "failed", "joinWait", "joinPost2",
                                     "wait", "stopped", "exited"}}
LockUntilFirstJoin ==
    (\A c \in Clients : pc[c] \in {"attach", "failed", "joinWait"} \/ c \in Guests)
        => Cardinality(Inside) <= 1

(* The server counts at most one client each time message_new rises: its   *)
(* slot of client_status is set between counting and the next look, and    *)
(* cleared only after message_new is, though nothing locks the segment     *)
(* meanwhile.  It may count a client twice all the same, when a later      *)
(* message meets a copy of "/new" still under way in msg_buf.              *)
CountedOncePerMessage == client_count <= 1 + announced

(* A message is retired only when every client the server has counted and  *)
(* that is still in the chat has read it (the comment on                   *)
(* msg_recvd_clients in shm_tasks.h).  With one client this holds; with    *)
(* two, one that joined unannounced counts itself in the other's place.    *)
Counted == {c \in Clients \ dead : client_id[c] \in 1..(client_count - 1) /\ pc[c] # "stopped"}
RetiredOnlyWhenAllRead ==
    [][message_new = 1 /\ message_new' = 0 => Counted \subseteq readers]_vars

(* Nobody will post any more: the semaphore is at zero, and who lives is   *)
(* waiting for it, has not come yet, or is gone.                           *)
Halted ==
    /\ sem = 0
    /\ \A p \in Proc \ dead :
          pc[p] \in {"attach", "failed", "joinWait", "wait", "stopped", "exited"}

(* The chat halts for as many participants as clients died inside their    *)
(* join: without such a death nobody who joined waits for nobody.          *)
HaltedByDeaths == Halted /\ Cardinality(Lobby) = Cardinality(Guests \cap dead)
HaltedOnlyByDeaths == Halted => HaltedByDeaths

(* After a client has attached it gets through its join, whatever the      *)
(* others do meanwhile, unless it dies or the chat has come to a halt, for *)
(* as many participants as died inside their joins or for want of any.     *)
JoinCompletes ==
    \A c \in Clients :
        pc[c] = "joinWait" ~> \/ pc[c] \notin {"joinWait", "joinPost2"} \cup GuestLabel
                             \/ c \in dead
                             \/ HaltedByDeaths

(* Closing the server stops the clients that are in the chat (the comment  *)
(* at the break in the server's loop: they read the same message).  With   *)
(* two clients one may miss it: its own late mark of an earlier message    *)
(* passes for having read this one.                                        *)
CloseStopsClients ==
    \A c \in Clients :
        pc[Server] = "stopped" /\ pc[c] = "wait" ~> pc[c] = "stopped" \/ c \in dead
=============================================================================
