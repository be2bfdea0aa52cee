---------------------------- MODULE SelectServer ----------------------------
(***************************************************************************)
(* The server that polls a TCP and a UDP socket in one loop                *)
(* (server_models/source/selecting_server.c), its test clients             *)
(* (test_clients.c) and the clients that write UDP headers themselves      *)
(* (raw_socket/source/raw_socket_clients.c).  A request is a number, and   *)
(* the answer that number and one; -1 stops the server.                    *)
(*                                                                         *)
(* Datagrams are not lost on the way to a socket that is open: all ends    *)
(* are on one host.  A test client may be killed at any time.              *)
(***************************************************************************)
EXTENDS Integers, Sequences

CONSTANTS
    TestClients,
    RawClients,
    Infos,          \* the requests users type, -1 among them
    FdMax,          \* bound on the sockets accept may leave open
    RawMax,         \* what the receive buffer of a raw socket holds
    MaxUnread       \* bound: no raw request while the server has that many to read

(* Requests are numbers, a process is a client of one kind, and a socket   *)
(* has room for an answer.                                                 *)
ASSUME Parameters ==
    /\ Infos \subseteq Int /\ TestClients \cap RawClients = {}
    /\ RawMax \in Nat \ {0}

Nobody == "nobody"

VARIABLES
    backlog,        \* test clients connected and not accepted yet
    stream,         \* what a test client sent into its connection
    datagrams,      \* what was sent to the UDP socket of the server and not read
    server,         \* place, UDP part of revents, buf.info, the connection, those left open
    client,         \* test clients: place, request, answer
    raw,            \* raw clients: place
    copies          \* raw clients: the answers waiting in their sockets

vars == <<backlog, stream, datagrams, server, client, raw, copies>>

Up == server.at \notin {"over", "failed"}

-----------------------------------------------------------------------------
(* The server.                                                             *)

(* Mutant: what came by UDP is served first.                               *)
PollUdpFirst ==
    /\ server.at = "poll"
    /\ backlog # <<>> \/ datagrams # <<>>
    /\ server' = [server EXCEPT !.udp = datagrams # <<>>,
                                !.at = IF datagrams # <<>> THEN "udp" ELSE "accept"]
    /\ UNCHANGED <<backlog, stream, datagrams, client, raw, copies>>

Poll ==
    /\ server.at = "poll"
    /\ backlog # <<>> \/ datagrams # <<>>
    /\ server' = [server EXCEPT !.udp = datagrams # <<>>,
                                !.at = IF backlog # <<>> THEN "accept" ELSE "udp"]
    /\ UNCHANGED <<backlog, stream, datagrams, client, raw, copies>>

(* Connections are shut down, but their descriptors are never closed: in   *)
(* the end accept fails and the process exits.                             *)
Accept ==
    /\ server.at = "accept"
    /\ IF server.fds = FdMax
       THEN /\ server' = [server EXCEPT !.at = "failed"]
            /\ UNCHANGED backlog
       ELSE /\ server' = [server EXCEPT !.at = "recv", !.active = Head(backlog), !.fds = @ + 1]
            /\ backlog' = Tail(backlog)
    /\ UNCHANGED <<stream, datagrams, client, raw, copies>>

AfterTcp(info) == IF info = -1 THEN "over" ELSE "udp"

Answered(c, info) ==
    IF client[c].at = "killed" THEN client
    ELSE [client EXCEPT ![c].at = "answered", ![c].got = info + 1]

(* Mutant: what the connection brings is not stored.                       *)
RecvStale ==
    /\ server.at = "recv"
    /\ LET c == server.active IN
       /\ stream[c] # <<>> \/ client[c].at = "killed"
       /\ server' = [server EXCEPT !.at = AfterTcp(server.buf), !.active = Nobody]
       /\ client' = Answered(c, server.buf)
       /\ stream' = [stream EXCEPT ![c] = <<>>]
    /\ UNCHANGED <<backlog, datagrams, raw, copies>>

(* recv, send and shutdown.  A client killed before it sent leaves buf as  *)
(* it was.                                                                 *)
Recv ==
    /\ server.at = "recv"
    /\ LET c == server.active
           info == IF stream[c] # <<>> THEN Head(stream[c]) ELSE server.buf IN
       /\ stream[c] # <<>> \/ client[c].at = "killed"
       /\ server' = [server EXCEPT !.at = AfterTcp(info), !.buf = info, !.active = Nobody]
       /\ client' = Answered(c, info)
       /\ stream' = [stream EXCEPT ![c] = <<>>]
    /\ UNCHANGED <<backlog, datagrams, raw, copies>>

(* The answer to any UDP request also goes to every open raw socket with   *)
(* room for it; one to a raw client goes nowhere else.                     *)
Copied(info) ==
    [r \in RawClients |->
        IF raw[r] # "over" /\ Len(copies[r]) < RawMax THEN Append(copies[r], info + 1)
                                                      ELSE copies[r]]

Udp ==
    /\ server.at = "udp" /\ server.udp
    /\ LET d == Head(datagrams) IN
       /\ server' = [server EXCEPT !.at = IF d.info = -1 THEN "over" ELSE "poll",
                                   !.buf = d.info, !.udp = FALSE]
       /\ client' = IF d.from \in TestClients THEN Answered(d.from, d.info) ELSE client
       /\ copies' = Copied(d.info)
    /\ datagrams' = Tail(datagrams)
    /\ UNCHANGED <<backlog, stream, raw>>

NoUdp ==
    /\ server.at = "udp" /\ ~server.udp
    /\ server' = [server EXCEPT !.at = "poll"]
    /\ UNCHANGED <<backlog, stream, datagrams, client, raw, copies>>

ServerStep == Poll \/ Accept \/ Recv \/ Udp \/ NoUdp

-----------------------------------------------------------------------------
(* Test clients.  connect, send and recv fail once the server is gone, and *)
(* the client exits.                                                       *)

At(place) == [at |-> place, info |-> 0, got |-> 0]

Connect(c) ==
    /\ client[c].at = "prompt"
    /\ \E info \in Infos :
          client' = [client EXCEPT ![c].at = IF Up THEN "connected" ELSE "exited",
                                   ![c].info = info]
    /\ backlog' = IF Up THEN Append(backlog, c) ELSE backlog
    /\ UNCHANGED <<stream, datagrams, server, raw, copies>>

Send(c) ==
    /\ client[c].at = "connected" /\ Up
    /\ stream' = [stream EXCEPT ![c] = <<client[c].info>>]
    /\ client' = [client EXCEPT ![c].at = "sent"]
    /\ UNCHANGED <<backlog, datagrams, server, raw, copies>>

Reset(c) ==
    /\ client[c].at \in {"connected", "sent"} /\ ~Up
    /\ client' = [client EXCEPT ![c] = At("exited")]
    /\ UNCHANGED <<backlog, stream, datagrams, server, raw, copies>>

SendTo(c) ==
    /\ client[c].at = "prompt"
    /\ \E info \in Infos :
          /\ client' = [client EXCEPT ![c].at = "waits", ![c].info = info]
          /\ datagrams' = Append(datagrams, [from |-> c, info |-> info])
    /\ UNCHANGED <<backlog, stream, server, raw, copies>>

PrintAnswer(c) ==
    /\ client[c].at = "answered"
    /\ client' = [client EXCEPT ![c] = At(IF client[c].info = -1 THEN "exited" ELSE "prompt")]
    /\ UNCHANGED <<backlog, stream, datagrams, server, raw, copies>>

Kill(c) ==
    /\ client[c].at \notin {"exited", "killed"}
    /\ client' = [client EXCEPT ![c] = At("killed")]
    /\ UNCHANGED <<backlog, stream, datagrams, server, raw, copies>>

ClientStep(c) == Send(c) \/ Reset(c) \/ PrintAnswer(c)

-----------------------------------------------------------------------------
(* Raw clients.  A raw socket is given every datagram of the host; of      *)
(* these the loop passes over all that are not answers of the server, and  *)
(* takes the first that is, whoever asked for it.                          *)

RawSend(r) ==
    /\ raw[r] = "prompt" /\ Len(datagrams) < MaxUnread
    /\ raw' = [raw EXCEPT ![r] = "waits"]
    /\ \E info \in Infos : datagrams' = Append(datagrams, [from |-> r, info |-> info])
    /\ UNCHANGED <<backlog, stream, server, client, copies>>

RawTake(r) ==
    /\ raw[r] = "waits" /\ copies[r] # <<>>
    /\ raw' = [raw EXCEPT ![r] = IF Head(copies[r]) = 0 THEN "over" ELSE "prompt"]
    /\ copies' = [copies EXCEPT ![r] = Tail(@)]
    /\ UNCHANGED <<backlog, stream, datagrams, server, client>>

-----------------------------------------------------------------------------
Init ==
    /\ backlog = <<>> /\ datagrams = <<>>
    /\ stream = [c \in TestClients |-> <<>>]
    /\ server = [at |-> "poll", udp |-> FALSE, buf |-> 0, active |-> Nobody, fds |-> 0]
    /\ client = [c \in TestClients |-> At("prompt")]
    /\ raw = [r \in RawClients |-> "prompt"]
    /\ copies = [r \in RawClients |-> <<>>]

Next ==
    \/ ServerStep
    \/ \E c \in TestClients : Connect(c) \/ SendTo(c) \/ Kill(c) \/ ClientStep(c)
    \/ \E r \in RawClients : RawSend(r) \/ RawTake(r)

Spec == Init /\ [][Next]_vars

(* The processes go on running; nobody has to type or to kill.             *)
Fairness ==
    /\ WF_vars(ServerStep)
    /\ \A c \in TestClients : WF_vars(ClientStep(c))
    /\ \A r \in RawClients : WF_vars(RawTake(r))

-----------------------------------------------------------------------------
(* One buffer serves both sockets and is kept from turn to turn, and yet a *)
(* test client is only ever answered its own request and one.  A raw       *)
(* client may take an answer to another, but it takes 0 for the end only   *)
(* when the server has ended too.                                          *)
AnswersSound ==
    /\ \A c \in TestClients : client[c].at = "answered" => client[c].got = client[c].info + 1
    /\ \A r \in RawClients : raw[r] = "over" => server.at = "over"

(* A TCP request ends, in an answer or a reset.  A UDP request, raw or     *)
(* not, is answered unless the server stopped without reading it: then the *)
(* client waits for ever.                                                  *)
InTcp(c) == client[c].at \in {"connected", "sent"}
Unread(p) == ~Up /\ \E i \in DOMAIN datagrams : datagrams[i].from = p

(* Until then it is where it will be read: a datagram, a connection the    *)
(* server has or will accept, a copy; and if the server waits in recv, it  *)
(* is for a client that has still to send.                                 *)
RequestKept(c) ==
    /\ client[c].at = "waits" => \E k \in DOMAIN datagrams : datagrams[k].from = c
    /\ Up /\ InTcp(c) => \/ server.at = "recv" /\ server.active = c
                        \/ \E k \in DOMAIN backlog : backlog[k] = c
CopyKept(r) ==
    raw[r] = "waits" => copies[r] # <<>> \/ \E k \in DOMAIN datagrams : datagrams[k].from = r
RecvInTurn ==
    server.at = "recv" => \/ stream[server.active] # <<>>
                          \/ client[server.active].at \in {"connected", "killed"}

RequestsEnd ==
    /\ []/\ RecvInTurn
         /\ \A c \in TestClients : RequestKept(c)
         /\ \A r \in RawClients : CopyKept(r)
    /\ \A c \in TestClients :
          /\ InTcp(c) ~> ~InTcp(c)
          /\ client[c].at = "waits" ~> (client[c].at # "waits" \/ Unread(c))
    /\ \A r \in RawClients : raw[r] = "waits" ~> (raw[r] # "waits" \/ Unread(r))
=============================================================================
