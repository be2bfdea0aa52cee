----------------------------- MODULE MainProofs -----------------------------
(***************************************************************************)
(* What holds of the tasks main runs, for any sizes of their instances     *)
(* that Directories and Amounts allow.  A step of main is one of the task  *)
(* that runs, or leaves its variables alone; so each task has an invariant *)
(* of its own, and one part of this module.                                *)
(***************************************************************************)
EXTENDS Main, SequenceTheorems, FiniteSetTheorems, WellFoundedInduction, TLAPS

(* The select server.  One buffer serves both of its sockets, and still    *)
(* every client is answered what it asked.                                 *)
Datagrams == [from : TestClients \cup RawClients, info : Int]
ServerPlaces == {"poll", "accept", "recv", "udp", "over", "failed"}
ClientPlaces == {"prompt", "connected", "sent", "waits", "answered", "exited", "killed"}
ClientStates == [at : ClientPlaces, info : Int, got : Int]

Types ==
    /\ backlog \in Seq(TestClients)
    /\ stream \in [TestClients -> Seq(Int)]
    /\ datagrams \in Seq(Datagrams)
    /\ server \in [at : ServerPlaces, udp : BOOLEAN, buf : Int,
                   active : TestClients \cup {Nobody}, fds : Nat]
    /\ client \in [TestClients -> ClientStates]
    /\ raw \in [RawClients -> {"prompt", "waits", "over"}]
    /\ copies \in [RawClients -> Seq(Int)]

(* The server is where it is because there is something to read.           *)
Ready ==
    /\ server.at = "accept" => backlog # <<>>
    /\ server.at = "recv" => server.active \in TestClients
    /\ server.udp => datagrams # <<>>

(* While the server is up, what a client sent and was not answered is the  *)
(* request it keeps.                                                       *)
Streams ==
    Up => \A c \in TestClients :
              client[c].at # "killed" /\ stream[c] # <<>> =>
                  client[c].at = "sent" /\ stream[c] = <<client[c].info>>

(* A datagram of a test client is of one that waits for just that answer,  *)
(* and of no other datagram, unless it was killed.                         *)
Due(k) == datagrams[k].from \in TestClients /\ client[datagrams[k].from].at # "killed"
Owed ==
    /\ \A k \in 1..Len(datagrams) : Due(k) =>
          /\ client[datagrams[k].from].at = "waits"
          /\ client[datagrams[k].from].info = datagrams[k].info
    /\ \A k, j \in 1..Len(datagrams) : Due(k) /\ datagrams[k].from = datagrams[j].from => k = j

(* Only a server that has ended has sent a 0.                              *)
Ends ==
    \A r \in RawClients :
        /\ \A k \in 1..Len(copies[r]) : copies[r][k] = 0 => server.at = "over"
        /\ raw[r] = "over" => server.at = "over"

OwnAnswer == \A c \in TestClients : client[c].at = "answered" => client[c].got = client[c].info + 1

ServerInv == Types /\ Ready /\ Streams /\ Owed /\ Ends /\ OwnAnswer

-----------------------------------------------------------------------------
(* A step that leaves a part of the state alone keeps what is said of it,  *)
(* whatever befalls the clients that part is not about.                    *)
LEMMA StreamsKept ==
    ASSUME Streams, UNCHANGED stream, server'.at \notin {"over", "failed"} => Up,
           \A d \in TestClients : \/ client'[d] = client[d]
                                  \/ client'[d].at = "killed"
                                  \/ client[d].at \notin {"sent", "killed"}
    PROVE  Streams'
  BY DEF Streams, Up

LEMMA OwedKept ==
    ASSUME Owed, UNCHANGED datagrams,
           \A d \in TestClients : \/ client'[d] = client[d]
                                  \/ client'[d].at = "killed"
                                  \/ client[d].at \notin {"waits", "killed"}
    PROVE  Owed'
  BY DEF Owed, Due

LEMMA EndsKept ==
    ASSUME Ends, UNCHANGED <<raw, copies>>, server.at = "over" => server'.at = "over"
    PROVE  Ends'
  BY DEF Ends

LEMMA OwnAnswerKept ==
    ASSUME OwnAnswer,
           \A d \in TestClients : client'[d] = client[d] \/ client'[d].at # "answered"
    PROVE  OwnAnswer'
  BY DEF OwnAnswer

(* What Answered does to the client it is for, and to the others.          *)
LEMMA AnsweredOne ==
    ASSUME Types, NEW c \in TestClients, NEW info \in Int, client' = Answered(c, info)
    PROVE  /\ client' \in [TestClients -> ClientStates]
           /\ \A d \in TestClients : d # c => client'[d] = client[d]
           /\ client[c].at = "killed" => client'[c] = client[c]
           /\ client[c].at # "killed" =>
                 /\ client'[c].at = "answered" /\ client'[c].got = info + 1
                 /\ client'[c].info = client[c].info
  <1>1. client \in [TestClients -> ClientStates] /\ client[c] \in ClientStates
    BY DEF Types
  <1>2. CASE client[c].at = "killed"
    BY <1>1, <1>2 DEF Answered
  <1>3. CASE client[c].at # "killed"
    <2>1. PICK answer \in Int : answer = info + 1
      OBVIOUS
    <2> DEFINE new == [client[c] EXCEPT !.at = "answered", !.got = answer]
    <2>2. client' = [client EXCEPT ![c] = new]
      BY <1>1, <1>3, <2>1 DEF Answered
    <2>3. new \in ClientStates /\ new.at = "answered" /\ new.got = answer
          /\ new.info = client[c].info
      BY <1>1 DEF ClientStates, ClientPlaces
    <2> HIDE DEF new
    <2> QED  BY <1>1, <1>3, <2>1, <2>2, <2>3
  <1> QED  BY <1>2, <1>3

(* The rest of the datagrams is owed to clients other than the first one's.*)
LEMMA OwedRest ==
    ASSUME Types, Owed, datagrams # <<>>, datagrams' = Tail(datagrams),
           \A d \in TestClients : client'[d] = client[d] \/ d = datagrams[1].from,
           datagrams[1].from \in TestClients /\ client[datagrams[1].from].at = "killed" =>
               client'[datagrams[1].from].at = "killed"
    PROVE  Owed'
  <1> DEFINE first == datagrams[1].from
  <1>1. /\ Len(datagrams) \in Nat \ {0} /\ Len(datagrams') = Len(datagrams) - 1
        /\ \A k \in 1..Len(datagrams') : datagrams'[k] = datagrams[k + 1]
    BY HeadTailProperties DEF Types
  <1>2. ASSUME NEW k \in 1..Len(datagrams'), Due(k)'
        PROVE  /\ datagrams'[k] = datagrams[k + 1] /\ k + 1 \in 1..Len(datagrams)
               /\ client'[datagrams'[k].from] = client[datagrams'[k].from] /\ Due(k + 1)
    <2>1. datagrams'[k] = datagrams[k + 1] /\ k + 1 \in 1..Len(datagrams)
          /\ 1 \in 1..Len(datagrams) /\ k + 1 # 1
      BY <1>1
    <2>2. datagrams[k + 1].from # datagrams[1].from
      <3>1. SUFFICES ASSUME datagrams[k + 1].from = datagrams[1].from PROVE FALSE
        OBVIOUS
      <3>2. ~Due(1) /\ datagrams[1].from \in TestClients
        BY <1>2, <2>1, <3>1 DEF Owed, Due
      <3> QED  BY <1>2, <2>1, <3>1, <3>2 DEF Due
    <2> QED  BY <1>2, <2>1, <2>2 DEF Due
  <1>3. ASSUME NEW k \in 1..Len(datagrams'), Due(k)'
        PROVE  /\ client'[datagrams'[k].from].at = "waits"
               /\ client'[datagrams'[k].from].info = datagrams'[k].info
    BY <1>2, <1>3 DEF Owed
  <1>4. ASSUME NEW k \in 1..Len(datagrams'), NEW l \in 1..Len(datagrams'),
               Due(k)', datagrams'[k].from = datagrams'[l].from
        PROVE  k = l
    <2>1. datagrams'[l] = datagrams[l + 1] /\ l + 1 \in 1..Len(datagrams)
      BY <1>1
    <2>2. k + 1 = l + 1
      BY <1>2, <1>4, <2>1 DEF Owed
    <2> QED  BY <2>2
  <1> QED  BY <1>3, <1>4 DEF Owed

(* A datagram more, of a raw client or of a test client that sent none.    *)
LEMMA OwedMore ==
    ASSUME Types, Owed, NEW m \in Datagrams, datagrams' = Append(datagrams, m),
           \A d \in TestClients : client'[d] = client[d] \/ d = m.from,
           m.from \in TestClients => /\ client[m.from].at = "prompt"
                                     /\ client'[m.from].at = "waits"
                                     /\ client'[m.from].info = m.info
    PROVE  Owed'
  <1>1. /\ Len(datagrams) \in Nat /\ Len(datagrams') = Len(datagrams) + 1
        /\ datagrams'[Len(datagrams) + 1] = m
        /\ \A k \in 1..Len(datagrams) : datagrams'[k] = datagrams[k]
    BY AppendProperties DEF Types
  <1>2. \A k \in 1..Len(datagrams) :
            m.from \in TestClients => datagrams[k].from # m.from
    BY DEF Owed, Due
  <1>3. ASSUME NEW k \in 1..Len(datagrams), Due(k)'
        PROVE  /\ datagrams'[k] = datagrams[k] /\ datagrams[k].from # m.from
               /\ Due(k) /\ client'[datagrams[k].from] = client[datagrams[k].from]
    BY <1>1, <1>2, <1>3 DEF Due
  <1>4. ASSUME NEW k \in 1..Len(datagrams'), Due(k)'
        PROVE  /\ client'[datagrams'[k].from].at = "waits"
               /\ client'[datagrams'[k].from].info = datagrams'[k].info
    <2>1. CASE k \in 1..Len(datagrams)
      BY <1>3, <1>4, <2>1 DEF Owed
    <2>2. CASE k = Len(datagrams) + 1
      BY <1>1, <1>4, <2>2 DEF Due
    <2> QED  BY <1>1, <2>1, <2>2
  <1>5. ASSUME NEW k \in 1..Len(datagrams'), NEW l \in 1..Len(datagrams'),
               Due(k)', datagrams'[k].from = datagrams'[l].from
        PROVE  k = l
    <2>1. CASE k \in 1..Len(datagrams) /\ l \in 1..Len(datagrams)
      BY <1>1, <1>3, <1>5, <2>1 DEF Owed
    <2>2. CASE k \in 1..Len(datagrams) /\ l = Len(datagrams) + 1
      BY <1>1, <1>3, <1>5, <2>2
    <2>3. CASE k = Len(datagrams) + 1 /\ l \in 1..Len(datagrams)
      BY <1>1, <1>2, <1>5, <2>3 DEF Due
    <2>4. CASE k = Len(datagrams) + 1 /\ l = Len(datagrams) + 1
      BY <2>4
    <2> QED  BY <1>1, <2>1, <2>2, <2>3, <2>4
  <1> QED  BY <1>4, <1>5 DEF Owed

-----------------------------------------------------------------------------
(* What an action does to one client only.                                 *)
LEMMA ClientSet ==
    ASSUME Types, NEW c \in TestClients, NEW new \in ClientStates,
           client' = [client EXCEPT ![c] = new]
    PROVE  /\ client' \in [TestClients -> ClientStates] /\ client'[c] = new
           /\ \A d \in TestClients : d # c => client'[d] = client[d]
  BY DEF Types

LEMMA Invariance == Spec => []ServerInv
  <1>1. Init => ServerInv
    BY DEF Init, At, ServerInv, Types, Ready, Streams, Owed, Due, Ends, OwnAnswer,
           ServerPlaces, ClientStates, ClientPlaces
  <1>2. ServerInv /\ [Next]_vars => ServerInv'
    <2> SUFFICES ASSUME ServerInv, [Next]_vars PROVE ServerInv'
      OBVIOUS
    <2>0. Types /\ Ready /\ Streams /\ Owed /\ Ends /\ OwnAnswer
      BY DEF ServerInv
    <2>1. CASE Poll
      <3>1. /\ UNCHANGED <<backlog, stream, datagrams, client, raw, copies>>
            /\ server.at = "poll"
            /\ backlog # <<>> \/ datagrams # <<>>
            /\ server' = [server EXCEPT !.udp = datagrams # <<>>,
                                        !.at = IF backlog # <<>> THEN "accept" ELSE "udp"]
        BY <2>1 DEF Poll
      <3>2. /\ server' \in [at : ServerPlaces, udp : BOOLEAN, buf : Int,
                            active : TestClients \cup {Nobody}, fds : Nat]
            /\ server'.udp = (datagrams # <<>>)
            /\ server'.at = IF backlog # <<>> THEN "accept" ELSE "udp"
        BY <2>0, <3>1 DEF Types, ServerPlaces
      <3>3. Types' /\ Ready'
        BY <2>0, <3>1, <3>2 DEF Types, Ready
      <3>4. Up /\ server.at # "over"
        BY <3>1 DEF Up
      <3>5. Streams' /\ Owed' /\ Ends' /\ OwnAnswer'
        BY <2>0, <3>1, <3>4, StreamsKept, OwedKept, EndsKept, OwnAnswerKept
      <3> QED  BY <3>3, <3>5 DEF ServerInv
    <2>2. CASE Accept
      <3>1. UNCHANGED <<stream, datagrams, client, raw, copies>> /\ server.at = "accept"
        BY <2>2 DEF Accept
      <3>2. CASE server' = [server EXCEPT !.at = "failed"] /\ UNCHANGED backlog
        <4>1. /\ server' \in [at : ServerPlaces, udp : BOOLEAN, buf : Int,
                              active : TestClients \cup {Nobody}, fds : Nat]
              /\ server'.at = "failed" /\ server'.udp = server.udp
          BY <2>0, <3>2 DEF Types, ServerPlaces
        <4>2. Types' /\ Ready'
          BY <2>0, <3>1, <3>2, <4>1 DEF Types, Ready
        <4>3. Streams' /\ Owed' /\ Ends' /\ OwnAnswer'
          BY <2>0, <3>1, <4>1, StreamsKept, OwedKept, EndsKept, OwnAnswerKept DEF Up
        <4> QED  BY <4>2, <4>3 DEF ServerInv
      <3>3. CASE /\ server' = [server EXCEPT !.at = "recv", !.active = Head(backlog), !.fds = @ + 1]
                 /\ backlog' = Tail(backlog)
        <4>1. Head(backlog) \in TestClients /\ Tail(backlog) \in Seq(TestClients)
          BY <2>0, <3>1, HeadTailProperties DEF Types, Ready
        <4>2. /\ server' \in [at : ServerPlaces, udp : BOOLEAN, buf : Int,
                              active : TestClients \cup {Nobody}, fds : Nat]
              /\ server'.at = "recv" /\ server'.udp = server.udp
              /\ server'.active \in TestClients
          <5>1. /\ server.fds \in Nat /\ server.udp \in BOOLEAN /\ server.buf \in Int
                /\ server = [at |-> server.at, udp |-> server.udp, buf |-> server.buf,
                             active |-> server.active, fds |-> server.fds]
            BY <2>0 DEF Types
          <5>2. server' = [at |-> "recv", udp |-> server.udp, buf |-> server.buf,
                           active |-> Head(backlog), fds |-> server.fds + 1]
            BY <3>3, <5>1
          <5> QED  BY <4>1, <5>1, <5>2 DEF ServerPlaces
        <4>3. Types' /\ Ready'
          BY <2>0, <3>1, <3>3, <4>1, <4>2 DEF Types, Ready
        <4>4. Streams' /\ Owed' /\ Ends' /\ OwnAnswer'
          BY <2>0, <3>1, <4>2, StreamsKept, OwedKept, EndsKept, OwnAnswerKept DEF Up
        <4> QED  BY <4>3, <4>4 DEF ServerInv
      <3> QED  BY <2>2, <3>2, <3>3 DEF Accept
    <2>3. CASE Recv
      <3>1. server.at = "recv" /\ Up
        BY <2>3 DEF Recv, Up
      <3>2. PICK c \in TestClients : c = server.active
        BY <2>0, <3>1 DEF Ready
      <3>3. PICK info \in Int :
                /\ info = IF stream[c] # <<>> THEN Head(stream[c]) ELSE server.buf
                /\ server' = [server EXCEPT !.at = AfterTcp(info), !.buf = info, !.active = Nobody]
                /\ client' = Answered(c, info)
        <4>1. stream[c] # <<>> => Head(stream[c]) \in Int
          BY <2>0, HeadTailProperties DEF Types
        <4>2. server.buf \in Int
          BY <2>0 DEF Types
        <4> QED  BY <2>3, <3>2, <4>1, <4>2 DEF Recv
      <3>4. /\ UNCHANGED <<backlog, datagrams, raw, copies>>
            /\ stream[c] # <<>> \/ client[c].at = "killed"
            /\ stream' = [stream EXCEPT ![c] = <<>>]
        BY <2>3, <3>2 DEF Recv
      <3>5. /\ server' \in [at : ServerPlaces, udp : BOOLEAN, buf : Int,
                            active : TestClients \cup {Nobody}, fds : Nat]
            /\ server'.at \in {"over", "udp"} /\ server'.udp = server.udp
        BY <2>0, <3>3 DEF Types, ServerPlaces, AfterTcp
      <3>6. /\ client' \in [TestClients -> ClientStates]
            /\ \A d \in TestClients : d # c => client'[d] = client[d]
            /\ client[c].at = "killed" => client'[c] = client[c]
            /\ client[c].at # "killed" =>
                  /\ client'[c].at = "answered" /\ client'[c].got = info + 1
                  /\ client'[c].info = client[c].info
        BY <2>0, <3>3, AnsweredOne
      <3>7. client[c].at # "killed" => client[c].at = "sent" /\ info = client[c].info
        BY <2>0, <3>1, <3>3, <3>4 DEF Streams
      <3>8. /\ stream' \in [TestClients -> Seq(Int)] /\ stream'[c] = <<>>
            /\ \A d \in TestClients : d # c => stream'[d] = stream[d]
        BY <2>0, <3>4 DEF Types
      <3>9. Types' /\ Ready'
        BY <2>0, <3>4, <3>5, <3>6, <3>8 DEF Types, Ready
      <3>10. Streams'
        BY <2>0, <3>1, <3>6, <3>8 DEF Streams
      <3>11. Owed' /\ Ends'
        BY <2>0, <3>1, <3>4, <3>6, <3>7, OwedKept, EndsKept
      <3>12. OwnAnswer'
        BY <2>0, <3>6, <3>7 DEF OwnAnswer
      <3> QED  BY <3>9, <3>10, <3>11, <3>12 DEF ServerInv
    <2>4. CASE Udp
      <3>1. PICK d \in Datagrams : d = Head(datagrams) /\ d = datagrams[1]
        BY <2>0, <2>4, HeadTailProperties DEF Udp, Ready, Types
      <3>2. /\ server.at = "udp" /\ server.udp /\ datagrams # <<>> /\ Up
            /\ datagrams' = Tail(datagrams) /\ UNCHANGED <<backlog, stream, raw>>
            /\ server' = [server EXCEPT !.at = IF d.info = -1 THEN "over" ELSE "poll",
                                        !.buf = d.info, !.udp = FALSE]
            /\ client' = IF d.from \in TestClients THEN Answered(d.from, d.info) ELSE client
            /\ copies' = Copied(d.info)
        BY <2>0, <2>4, <3>1 DEF Udp, Ready, Up
      <3>3. d.info \in Int /\ d.from \in TestClients \cup RawClients
        BY <3>1 DEF Datagrams
      <3>4. /\ server' \in [at : ServerPlaces, udp : BOOLEAN, buf : Int,
                            active : TestClients \cup {Nobody}, fds : Nat]
            /\ server'.at = IF d.info = -1 THEN "over" ELSE "poll"
            /\ server'.udp = FALSE
        BY <2>0, <3>2, <3>3 DEF Types, ServerPlaces
      <3>5. /\ client' \in [TestClients -> ClientStates]
            /\ \A c \in TestClients : c # d.from => client'[c] = client[c]
            /\ d.from \in TestClients /\ client[d.from].at = "killed" =>
                   client'[d.from] = client[d.from]
            /\ d.from \in TestClients /\ client[d.from].at # "killed" =>
                  /\ client'[d.from].at = "answered" /\ client'[d.from].got = d.info + 1
                  /\ client'[d.from].info = client[d.from].info
        <4>1. CASE d.from \in TestClients
          BY <2>0, <3>2, <3>3, <4>1, AnsweredOne
        <4>2. CASE d.from \notin TestClients
          BY <2>0, <3>2, <4>2 DEF Types
        <4> QED  BY <4>1, <4>2
      <3>6. d.from \in TestClients /\ client[d.from].at # "killed" =>
                client[d.from].at = "waits" /\ client[d.from].info = d.info
        <4>1. 1 \in 1..Len(datagrams)
          BY <2>0, <3>2 DEF Types
        <4> QED  BY <2>0, <3>1, <4>1 DEF Owed, Due
      <3>7. ASSUME NEW r \in RawClients
            PROVE  /\ copies'[r] \in Seq(Int)
                   /\ \A k \in 1..Len(copies'[r]) : copies'[r][k] = 0 => server'.at = "over"
        <4>1. copies'[r] = copies[r] \/ copies'[r] = Append(copies[r], d.info + 1)
          BY <3>2 DEF Copied
        <4>2. copies[r] \in Seq(Int) /\ \A k \in 1..Len(copies[r]) : copies[r][k] # 0
          BY <2>0, <3>2 DEF Types, Ends
        <4>3. CASE copies'[r] = copies[r]
          BY <4>2, <4>3
        <4>4. CASE copies'[r] = Append(copies[r], d.info + 1)
          <5>1. /\ copies'[r] \in Seq(Int) /\ Len(copies'[r]) = Len(copies[r]) + 1
                /\ Len(copies[r]) \in Nat /\ copies'[r][Len(copies[r]) + 1] = d.info + 1
                /\ \A k \in 1..Len(copies[r]) : copies'[r][k] = copies[r][k]
            BY <3>3, <4>2, <4>4, AppendProperties
          <5>2. d.info + 1 = 0 => server'.at = "over"
            BY <3>3, <3>4
          <5>3. ASSUME NEW k \in 1..Len(copies'[r]), copies'[r][k] = 0 PROVE server'.at = "over"
            <6>1. k \in 1..Len(copies[r]) \/ k = Len(copies[r]) + 1
              BY <5>1
            <6> QED  BY <4>2, <5>1, <5>2, <5>3, <6>1
          <5> QED  BY <5>1, <5>3
        <4> QED  BY <4>1, <4>3, <4>4
      <3>8. datagrams' \in Seq(Datagrams)
        BY <2>0, <3>2, HeadTailProperties DEF Types
      <3>9. copies' \in [RawClients -> Seq(Int)]
        BY <3>2, <3>7 DEF Copied
      <3>10. Types' /\ Ready'
        BY <2>0, <3>2, <3>4, <3>5, <3>8, <3>9 DEF Types, Ready
      <3>11. Streams'
        BY <2>0, <3>2, <3>5, <3>6, StreamsKept
      <3>12. Owed'
        BY <2>0, <3>1, <3>2, <3>5, OwedRest
      <3>13. Ends'
        BY <2>0, <3>2, <3>7 DEF Ends
      <3>14. OwnAnswer'
        BY <2>0, <3>5, <3>6 DEF OwnAnswer
      <3> QED  BY <3>10, <3>11, <3>12, <3>13, <3>14 DEF ServerInv
    <2>5. CASE NoUdp
      <3>1. /\ UNCHANGED <<backlog, stream, datagrams, client, raw, copies>>
            /\ server.at = "udp" /\ server' = [server EXCEPT !.at = "poll"]
        BY <2>5 DEF NoUdp
      <3>2. /\ server' \in [at : ServerPlaces, udp : BOOLEAN, buf : Int,
                            active : TestClients \cup {Nobody}, fds : Nat]
            /\ server'.at = "poll" /\ server'.udp = server.udp
        BY <2>0, <3>1 DEF Types, ServerPlaces
      <3>3. Types' /\ Ready'
        BY <2>0, <3>1, <3>2 DEF Types, Ready
      <3>4. Streams' /\ Owed' /\ Ends' /\ OwnAnswer'
        BY <2>0, <3>1, <3>2, StreamsKept, OwedKept, EndsKept, OwnAnswerKept DEF Up
      <3> QED  BY <3>3, <3>4 DEF ServerInv
    <2>6. ASSUME NEW c \in TestClients, Connect(c) PROVE ServerInv'
      <3>1. PICK info \in Int :
                client' = [client EXCEPT ![c].at = IF Up THEN "connected" ELSE "exited",
                                         ![c].info = info]
        BY <2>6, Parameters DEF Connect
      <3>2. /\ UNCHANGED <<stream, datagrams, server, raw, copies>> /\ client[c].at = "prompt"
            /\ backlog' = IF Up THEN Append(backlog, c) ELSE backlog
        BY <2>6 DEF Connect
      <3> DEFINE new == [client[c] EXCEPT !.at = IF Up THEN "connected" ELSE "exited", !.info = info]
      <3>3. new \in ClientStates /\ new.at \in {"connected", "exited"}
            /\ client' = [client EXCEPT ![c] = new]
        BY <2>0, <3>1 DEF Types, ClientStates, ClientPlaces
      <3> HIDE DEF new
      <3>4. /\ client' \in [TestClients -> ClientStates] /\ client'[c] = new
            /\ \A d \in TestClients : d # c => client'[d] = client[d]
        BY <2>0, <3>3, ClientSet
      <3>5. backlog' \in Seq(TestClients) /\ (backlog # <<>> => backlog' # <<>>)
        <4>1. backlog \in Seq(TestClients)
          BY <2>0 DEF Types
        <4>2. Append(backlog, c) \in Seq(TestClients) /\ Append(backlog, c) # <<>>
          BY <4>1, AppendProperties
        <4> QED  BY <3>2, <4>1, <4>2
      <3>6. Types' /\ Ready'
        BY <2>0, <3>2, <3>4, <3>5 DEF Types, Ready
      <3>7. Streams' /\ Owed' /\ Ends' /\ OwnAnswer'
        BY <2>0, <3>2, <3>3, <3>4, StreamsKept, OwedKept, EndsKept, OwnAnswerKept DEF Up
      <3> QED  BY <3>6, <3>7 DEF ServerInv
    <2>7. ASSUME NEW c \in TestClients, Send(c) PROVE ServerInv'
      <3>1. /\ UNCHANGED <<backlog, datagrams, server, raw, copies>> /\ client[c].at = "connected"
            /\ Up /\ stream' = [stream EXCEPT ![c] = <<client[c].info>>]
            /\ client' = [client EXCEPT ![c].at = "sent"]
        BY <2>7 DEF Send
      <3> DEFINE new == [client[c] EXCEPT !.at = "sent"]
      <3>2. new \in ClientStates /\ new.at = "sent" /\ new.info = client[c].info
            /\ client' = [client EXCEPT ![c] = new]
        BY <2>0, <3>1 DEF Types, ClientStates, ClientPlaces
      <3> HIDE DEF new
      <3>3. /\ client' \in [TestClients -> ClientStates] /\ client'[c] = new
            /\ \A d \in TestClients : d # c => client'[d] = client[d]
        BY <2>0, <3>2, ClientSet
      <3>4. client[c].info \in Int
        BY <2>0 DEF Types, ClientStates
      <3>5. /\ stream' \in [TestClients -> Seq(Int)] /\ stream'[c] = <<client[c].info>>
            /\ \A d \in TestClients : d # c => stream'[d] = stream[d]
        BY <2>0, <3>1, <3>4 DEF Types
      <3>6. Types' /\ Ready'
        BY <2>0, <3>1, <3>3, <3>5 DEF Types, Ready
      <3>7. Streams'
        BY <2>0, <3>1, <3>2, <3>3, <3>5 DEF Streams
      <3>8. Owed' /\ Ends' /\ OwnAnswer'
        BY <2>0, <3>1, <3>2, <3>3, OwedKept, EndsKept, OwnAnswerKept
      <3> QED  BY <3>6, <3>7, <3>8 DEF ServerInv
    <2>8. ASSUME NEW c \in TestClients, Reset(c) PROVE ServerInv'
      <3>1. /\ UNCHANGED <<backlog, stream, datagrams, server, raw, copies>>
            /\ client[c].at \in {"connected", "sent"} /\ ~Up
            /\ client' = [client EXCEPT ![c] = At("exited")]
        BY <2>8 DEF Reset
      <3>2. At("exited") \in ClientStates /\ At("exited").at = "exited"
        BY DEF At, ClientStates, ClientPlaces
      <3>3. /\ client' \in [TestClients -> ClientStates] /\ client'[c] = At("exited")
            /\ \A d \in TestClients : d # c => client'[d] = client[d]
        BY <2>0, <3>1, <3>2, ClientSet
      <3>4. Types' /\ Ready' /\ Streams'
        BY <2>0, <3>1, <3>3 DEF Types, Ready, Streams, Up
      <3>5. Owed' /\ Ends' /\ OwnAnswer'
        BY <2>0, <3>1, <3>2, <3>3, OwedKept, EndsKept, OwnAnswerKept
      <3> QED  BY <3>4, <3>5 DEF ServerInv
    <2>9. ASSUME NEW c \in TestClients, SendTo(c) PROVE ServerInv'
      <3>1. PICK info \in Int :
                /\ client' = [client EXCEPT ![c].at = "waits", ![c].info = info]
                /\ datagrams' = Append(datagrams, [from |-> c, info |-> info])
        BY <2>9, Parameters DEF SendTo
      <3>2. UNCHANGED <<backlog, stream, server, raw, copies>> /\ client[c].at = "prompt"
        BY <2>9 DEF SendTo
      <3> DEFINE new == [client[c] EXCEPT !.at = "waits", !.info = info]
                 m == [from |-> c, info |-> info]
      <3>3. new \in ClientStates /\ new.at = "waits" /\ new.info = info
            /\ client' = [client EXCEPT ![c] = new]
        BY <2>0, <3>1 DEF Types, ClientStates, ClientPlaces
      <3>4. m \in Datagrams /\ m.from = c /\ m.info = info /\ datagrams' = Append(datagrams, m)
        BY <3>1 DEF Datagrams
      <3> HIDE DEF new, m
      <3>5. /\ client' \in [TestClients -> ClientStates] /\ client'[c] = new
            /\ \A d \in TestClients : d # c => client'[d] = client[d]
        BY <2>0, <3>3, ClientSet
      <3>6. datagrams' \in Seq(Datagrams) /\ datagrams' # <<>>
        <4>1. datagrams \in Seq(Datagrams)
          BY <2>0 DEF Types
        <4> QED  BY <3>4, <4>1, AppendProperties
      <3>7. Types' /\ Ready'
        BY <2>0, <3>2, <3>5, <3>6 DEF Types, Ready
      <3>8. Owed'
        BY <2>0, <3>2, <3>3, <3>4, <3>5, OwedMore
      <3>9. Streams' /\ Ends' /\ OwnAnswer'
        BY <2>0, <3>2, <3>3, <3>5, StreamsKept, EndsKept, OwnAnswerKept DEF Up
      <3> QED  BY <3>7, <3>8, <3>9 DEF ServerInv
    <2>10. ASSUME NEW c \in TestClients, PrintAnswer(c) PROVE ServerInv'
      <3> DEFINE new == At(IF client[c].info = -1 THEN "exited" ELSE "prompt")
      <3>1. /\ UNCHANGED <<backlog, stream, datagrams, server, raw, copies>>
            /\ client[c].at = "answered" /\ client' = [client EXCEPT ![c] = new]
        BY <2>10 DEF PrintAnswer
      <3>2. new \in ClientStates /\ new.at \in {"exited", "prompt"}
        BY DEF At, ClientStates, ClientPlaces
      <3> HIDE DEF new
      <3>3. /\ client' \in [TestClients -> ClientStates] /\ client'[c] = new
            /\ \A d \in TestClients : d # c => client'[d] = client[d]
        BY <2>0, <3>1, <3>2, ClientSet
      <3>4. Types' /\ Ready'
        BY <2>0, <3>1, <3>3 DEF Types, Ready
      <3>5. Streams' /\ Owed' /\ Ends' /\ OwnAnswer'
        BY <2>0, <3>1, <3>2, <3>3, StreamsKept, OwedKept, EndsKept, OwnAnswerKept DEF Up
      <3> QED  BY <3>4, <3>5 DEF ServerInv
    <2>11. ASSUME NEW c \in TestClients, Kill(c) PROVE ServerInv'
      <3>1. /\ UNCHANGED <<backlog, stream, datagrams, server, raw, copies>>
            /\ client' = [client EXCEPT ![c] = At("killed")]
        BY <2>11 DEF Kill
      <3>2. At("killed") \in ClientStates /\ At("killed").at = "killed"
        BY DEF At, ClientStates, ClientPlaces
      <3>3. /\ client' \in [TestClients -> ClientStates] /\ client'[c] = At("killed")
            /\ \A d \in TestClients : d # c => client'[d] = client[d]
        BY <2>0, <3>1, <3>2, ClientSet
      <3>4. Types' /\ Ready'
        BY <2>0, <3>1, <3>3 DEF Types, Ready
      <3>5. Streams' /\ Owed' /\ Ends' /\ OwnAnswer'
        BY <2>0, <3>1, <3>2, <3>3, StreamsKept, OwedKept, EndsKept, OwnAnswerKept DEF Up
      <3> QED  BY <3>4, <3>5 DEF ServerInv
    <2>12. ASSUME NEW r \in RawClients, RawSend(r) PROVE ServerInv'
      <3>1. PICK info \in Int : datagrams' = Append(datagrams, [from |-> r, info |-> info])
        BY <2>12, Parameters DEF RawSend
      <3>2. /\ UNCHANGED <<backlog, stream, server, client, copies>>
            /\ raw' = [raw EXCEPT ![r] = "waits"]
        BY <2>12 DEF RawSend
      <3> DEFINE m == [from |-> r, info |-> info]
      <3>3. m \in Datagrams /\ m.from \notin TestClients /\ datagrams' = Append(datagrams, m)
        BY <3>1, Parameters DEF Datagrams
      <3> HIDE DEF m
      <3>4. datagrams' \in Seq(Datagrams) /\ datagrams' # <<>>
        <4>1. datagrams \in Seq(Datagrams)
          BY <2>0 DEF Types
        <4> QED  BY <3>3, <4>1, AppendProperties
      <3>5. raw' \in [RawClients -> {"prompt", "waits", "over"}]
            /\ \A s \in RawClients : raw'[s] = "over" => raw[s] = "over"
        BY <2>0, <3>2 DEF Types
      <3>6. Types' /\ Ready'
        BY <2>0, <3>2, <3>4, <3>5 DEF Types, Ready
      <3>7. Owed'
        BY <2>0, <3>2, <3>3, OwedMore
      <3>8. Streams' /\ OwnAnswer'
        BY <2>0, <3>2, StreamsKept, OwnAnswerKept DEF Up
      <3>9. Ends'
        BY <2>0, <3>2, <3>5 DEF Ends
      <3> QED  BY <3>6, <3>7, <3>8, <3>9 DEF ServerInv
    <2>13. ASSUME NEW r \in RawClients, RawTake(r) PROVE ServerInv'
      <3>1. /\ UNCHANGED <<backlog, stream, datagrams, server, client>> /\ copies[r] # <<>>
            /\ raw' = [raw EXCEPT ![r] = IF Head(copies[r]) = 0 THEN "over" ELSE "prompt"]
            /\ copies' = [copies EXCEPT ![r] = Tail(copies[r])]
        BY <2>13 DEF RawTake
      <3>2. /\ copies[r] \in Seq(Int) /\ Tail(copies[r]) \in Seq(Int)
            /\ Len(copies[r]) \in Nat \ {0} /\ Head(copies[r]) = copies[r][1]
            /\ Len(Tail(copies[r])) = Len(copies[r]) - 1
            /\ \A k \in 1..Len(Tail(copies[r])) : Tail(copies[r])[k] = copies[r][k + 1]
        <4>1. copies[r] \in Seq(Int)
          BY <2>0 DEF Types
        <4> QED  BY <3>1, <4>1, HeadTailProperties
      <3>3. /\ copies' \in [RawClients -> Seq(Int)] /\ copies'[r] = Tail(copies[r])
            /\ \A s \in RawClients : s # r => copies'[s] = copies[s]
        BY <2>0, <3>1, <3>2 DEF Types
      <3>4. /\ raw' \in [RawClients -> {"prompt", "waits", "over"}]
            /\ raw'[r] = "over" => copies[r][1] = 0
            /\ \A s \in RawClients : s # r => raw'[s] = raw[s]
        BY <2>0, <3>1, <3>2 DEF Types
      <3>5. Types' /\ Ready'
        BY <2>0, <3>1, <3>3, <3>4 DEF Types, Ready
      <3>6. Streams' /\ Owed' /\ OwnAnswer'
        BY <2>0, <3>1, StreamsKept, OwedKept, OwnAnswerKept DEF Up
      <3>7. ASSUME NEW s \in RawClients
            PROVE  /\ \A k \in 1..Len(copies'[s]) : copies'[s][k] = 0 => server.at = "over"
                   /\ raw'[s] = "over" => server.at = "over"
        <4>1. CASE s = r
          <5>1. \A k \in 1..Len(copies[r]) : copies[r][k] = 0 => server.at = "over"
            BY <2>0 DEF Ends
          <5>2. ASSUME NEW k \in 1..Len(Tail(copies[r])), Tail(copies[r])[k] = 0
                PROVE  server.at = "over"
            <6>1. k + 1 \in 1..Len(copies[r])
              BY <3>2
            <6> QED  BY <3>2, <5>1, <5>2, <6>1
          <5>3. raw'[r] = "over" => server.at = "over"
            BY <3>2, <3>4, <5>1
          <5> QED  BY <3>3, <4>1, <5>2, <5>3
        <4>2. CASE s # r
          <5>1. copies'[s] = copies[s] /\ raw'[s] = raw[s]
            BY <3>3, <3>4, <4>2
          <5> QED  BY <2>0, <5>1 DEF Ends
        <4> QED  BY <4>1, <4>2
      <3>8. Ends'
        BY <3>1, <3>7 DEF Ends
      <3> QED  BY <3>5, <3>6, <3>8 DEF ServerInv
    <2>14. CASE UNCHANGED vars
      <3>1. UNCHANGED <<backlog, stream, datagrams, server, client, raw, copies>>
        BY <2>14 DEF vars
      <3>2. Types' /\ Ready'
        BY <2>0, <3>1 DEF Types, Ready
      <3>3. Streams' /\ Owed' /\ Ends' /\ OwnAnswer'
        BY <2>0, <3>1, StreamsKept, OwedKept, EndsKept, OwnAnswerKept DEF Up
      <3> QED  BY <3>2, <3>3 DEF ServerInv
    <2> QED
      BY <2>1, <2>2, <2>3, <2>4, <2>5, <2>6, <2>7, <2>8, <2>9, <2>10, <2>11, <2>12, <2>13, <2>14
      DEF Next, ServerStep, ClientStep
  <1> QED  BY <1>1, <1>2, PTL DEF Spec

(* Whatever is interleaved on the two sockets, and whichever clients are   *)
(* killed, a test client is answered its own request and one, and a raw    *)
(* client takes 0 for the end only of a server that has ended.             *)
THEOREM NobodyMisled == Spec => []AnswersSound
  <1>1. ServerInv => AnswersSound
    BY DEF ServerInv, OwnAnswer, Ends, AnswersSound
  <1> QED  BY <1>1, Invariance, PTL

-----------------------------------------------------------------------------
(* Where the requests are that have not ended.  While the server is up it  *)
(* has accepted, or will accept, each connected client once, and what a    *)
(* client sent is there to be received.                                    *)
Connecting(c) == client[c].at \in {"connected", "sent", "killed"}
Serves(c) == server.at = "recv" /\ server.active = c
Connections ==
    Up => /\ \A k \in 1..Len(backlog) : Connecting(backlog[k]) /\ ~Serves(backlog[k])
          /\ \A k, j \in 1..Len(backlog) : backlog[k] = backlog[j] => k = j
          /\ server.at = "recv" => Connecting(server.active)
          /\ \A c \in TestClients : client[c].at = "sent" => stream[c] # <<>>
          /\ \A c \in TestClients :
                InTcp(c) => Serves(c) \/ \E k \in 1..Len(backlog) : backlog[k] = c

Sender(p) == \E k \in 1..Len(datagrams) : datagrams[k].from = p
Waiting ==
    /\ \A c \in TestClients : client[c].at = "waits" => Sender(c)
    /\ \A r \in RawClients : raw[r] = "waits" => copies[r] # <<>> \/ Sender(r)

RequestInv == ServerInv /\ Connections /\ Waiting

LEMMA ConnectionsKept ==
    ASSUME Types, Ready, Connections, UNCHANGED <<backlog, stream>>, Up' => Up,
           Up' => server'.active = server.active /\ (server'.at = "recv" <=> server.at = "recv"),
           \A d \in TestClients :
               \/ client'[d] = client[d]
               \/ client'[d].at = "killed"
               \/ ~Connecting(d) /\ client'[d].at \notin {"connected", "sent"}
    PROVE  Connections'
  <1> SUFFICES ASSUME Up' PROVE Connections'
    BY DEF Connections
  <1>1. \A d \in TestClients : Serves(d)' <=> Serves(d)
    BY DEF Serves
  <1>2. \A d \in TestClients : /\ Connecting(d) => Connecting(d)'
                               /\ client'[d].at = "sent" => client[d].at = "sent"
                               /\ InTcp(d)' => InTcp(d)
    BY DEF Connecting, InTcp
  <1>3. \A k \in 1..Len(backlog) : backlog[k] \in TestClients
    BY DEF Types
  <1>4. server.at = "recv" => server.active \in TestClients /\ Connecting(server.active)'
    BY <1>2 DEF Connections, Ready
  <1>5. \A k \in 1..Len(backlog) : Connecting(backlog[k])' /\ ~Serves(backlog[k])'
    BY <1>1, <1>2, <1>3 DEF Connections
  <1>6. \A d \in TestClients : client'[d].at = "sent" => stream'[d] # <<>>
    BY <1>2 DEF Connections
  <1>7. \A d \in TestClients :
            InTcp(d)' => Serves(d)' \/ \E k \in 1..Len(backlog') : backlog'[k] = d
    BY <1>1, <1>2 DEF Connections
  <1> QED  BY <1>4, <1>5, <1>6, <1>7 DEF Connections

LEMMA WaitingKept ==
    ASSUME Waiting, UNCHANGED <<datagrams, copies, raw>>,
           \A d \in TestClients : client'[d].at = "waits" => client[d].at = "waits"
    PROVE  Waiting'
  BY DEF Waiting, Sender

(* A client is accepted.                                                   *)
LEMMA ConnectionAccepted ==
    ASSUME Types, Connections, Up, backlog # <<>>, backlog' = Tail(backlog),
           UNCHANGED <<stream, client>>, server.at # "recv", server'.at = "recv",
           server'.active = Head(backlog)
    PROVE  Connections'
  <1>1. /\ Len(backlog) \in Nat \ {0} /\ Len(backlog') = Len(backlog) - 1
        /\ \A k \in 1..Len(backlog') : backlog'[k] = backlog[k + 1]
        /\ Head(backlog) = backlog[1]
    BY HeadTailProperties DEF Types
  <1>2. \A d \in TestClients : (Serves(d)' <=> d = backlog[1]) /\ ~Serves(d)
    BY <1>1 DEF Serves
  <1>3. \A k \in 1..Len(backlog) : /\ backlog[k] \in TestClients
                                   /\ client'[backlog[k]].at \in {"connected", "sent", "killed"}
    BY DEF Types, Connections, Connecting
  <1>4. \A k, j \in 1..Len(backlog) : backlog[k] = backlog[j] => k = j
    BY DEF Connections
  <1>5. ASSUME NEW k \in 1..Len(backlog')
        PROVE  /\ client'[backlog'[k]].at \in {"connected", "sent", "killed"}
               /\ ~(server'.at = "recv" /\ server'.active = backlog'[k])
    <2>1. k + 1 \in 1..Len(backlog) /\ 1 \in 1..Len(backlog) /\ k + 1 # 1
      BY <1>1
    <2> QED  BY <1>1, <1>2, <1>3, <1>4, <2>1 DEF Connecting, Serves
  <1>6. ASSUME NEW k \in 1..Len(backlog'), NEW j \in 1..Len(backlog'), backlog'[k] = backlog'[j]
        PROVE  k = j
    <2>1. k + 1 \in 1..Len(backlog) /\ j + 1 \in 1..Len(backlog)
      BY <1>1
    <2>2. k + 1 = j + 1
      BY <1>1, <1>4, <1>6, <2>1
    <2> QED  BY <2>2
  <1>7. client'[server'.active].at \in {"connected", "sent", "killed"}
    <2>1. 1 \in 1..Len(backlog)
      BY <1>1
    <2> QED  BY <1>1, <1>3, <2>1 DEF Connecting
  <1>8. ASSUME NEW c \in TestClients, InTcp(c)'
        PROVE  Serves(c)' \/ \E k \in 1..Len(backlog') : backlog'[k] = c
    <2>1. PICK k \in 1..Len(backlog) : backlog[k] = c
      BY <1>2, <1>8 DEF Connections, InTcp
    <2>2. CASE k = 1
      BY <1>2, <2>1, <2>2
    <2>3. CASE k # 1
      <3>1. k - 1 \in 1..Len(backlog') /\ backlog'[k - 1] = backlog[k]
        <4>1. k - 1 \in 1..Len(backlog') /\ (k - 1) + 1 = k
          BY <1>1, <2>3
        <4> QED  BY <1>1, <4>1
      <3> QED  BY <2>1, <3>1
    <2> QED  BY <2>2, <2>3
  <1>9. \A c \in TestClients : client'[c].at = "sent" => stream'[c] # <<>>
    BY DEF Connections
  <1> QED  BY <1>5, <1>6, <1>7, <1>8, <1>9 DEF Connections, Connecting, Serves

(* A client connects.                                                      *)
LEMMA ConnectionMade ==
    ASSUME Types, Ready, Connections, Up, NEW c \in TestClients, client[c].at = "prompt",
           backlog' = Append(backlog, c), UNCHANGED <<stream, server>>,
           client'[c].at = "connected", \A d \in TestClients : d # c => client'[d] = client[d]
    PROVE  Connections'
  <1>1. /\ Len(backlog) \in Nat /\ Len(backlog') = Len(backlog) + 1
        /\ backlog'[Len(backlog) + 1] = c
        /\ \A k \in 1..Len(backlog) : backlog'[k] = backlog[k] /\ backlog[k] \in TestClients
    BY AppendProperties DEF Types
  <1>2. /\ \A d \in TestClients : Serves(d)' <=> Serves(d)
        /\ \A d \in TestClients : Connecting(d) => d # c /\ Connecting(d)'
        /\ Connecting(c)'
    BY DEF Serves, Connecting
  <1>3. ~Serves(c)
    BY <1>2 DEF Connections, Serves
  <1>4. \A k \in 1..Len(backlog) : Connecting(backlog[k]) /\ ~Serves(backlog[k]) /\ backlog[k] # c
    BY <1>1, <1>2 DEF Connections
  <1>5. \A k \in 1..Len(backlog') : k \in 1..Len(backlog) \/ k = Len(backlog) + 1
    BY <1>1
  <1>6. \A k \in 1..Len(backlog') :
            /\ client'[backlog'[k]].at \in {"connected", "sent", "killed"}
            /\ ~(server'.at = "recv" /\ server'.active = backlog'[k])
    BY <1>1, <1>2, <1>3, <1>4, <1>5 DEF Connecting, Serves
  <1>7. \A k, j \in 1..Len(backlog') : backlog'[k] = backlog'[j] => k = j
    BY <1>1, <1>4, <1>5 DEF Connections
  <1>8. server'.at = "recv" => client'[server'.active].at \in {"connected", "sent", "killed"}
    <2>1. server.at = "recv" => /\ Connecting(server.active) /\ server.active # c
                                /\ server.active \in TestClients
      BY <1>3 DEF Connections, Serves, Ready
    <2> QED  BY <2>1 DEF Connecting
  <1>9. \A d \in TestClients : client'[d].at = "sent" => stream'[d] # <<>>
    BY DEF Connections
  <1>10. ASSUME NEW d \in TestClients, InTcp(d)'
         PROVE  Serves(d)' \/ \E k \in 1..Len(backlog') : backlog'[k] = d
    <2>1. CASE d = c
      <3>1. Len(backlog) + 1 \in 1..Len(backlog')
        BY <1>1
      <3> QED  BY <1>1, <2>1, <3>1
    <2>2. CASE d # c
      <3>1. Serves(d) \/ \E k \in 1..Len(backlog) : backlog[k] = d
        BY <1>10, <2>2 DEF Connections, InTcp
      <3>2. \A k \in 1..Len(backlog) : k \in 1..Len(backlog')
        BY <1>1
      <3> QED  BY <1>1, <1>2, <3>1, <3>2
    <2> QED  BY <2>1, <2>2
  <1> QED  BY <1>6, <1>7, <1>8, <1>9, <1>10 DEF Connections, Connecting, Serves

(* What the server received is answered.                                   *)
LEMMA ConnectionServed ==
    ASSUME Types, Connections, Up, NEW c \in TestClients, Serves(c), UNCHANGED backlog,
           stream' = [stream EXCEPT ![c] = <<>>], server'.at # "recv",
           client'[c].at \in {"answered", "killed"},
           \A d \in TestClients : d # c => client'[d] = client[d]
    PROVE  Connections'
  <1>1. \A k \in 1..Len(backlog) : backlog[k] \in TestClients /\ backlog[k] # c
    BY DEF Types, Connections
  <1>2. \A d \in TestClients : /\ ~Serves(d)' /\ (Serves(d) => d = c)
                               /\ d # c => stream'[d] = stream[d]
    BY DEF Serves, Types
  <1>3. \A d \in TestClients : d # c => (Connecting(d)' <=> Connecting(d)) /\ (InTcp(d)' <=> InTcp(d))
    BY DEF Connecting, InTcp
  <1>4. ~InTcp(c)' /\ client'[c].at # "sent"
    BY DEF InTcp
  <1>5. \A d \in TestClients : client'[d].at = "sent" => stream'[d] # <<>>
    BY <1>2, <1>4 DEF Connections
  <1> QED  BY <1>1, <1>2, <1>3, <1>4, <1>5 DEF Connections

(* A connected client sends.                                               *)
LEMMA ConnectionUsed ==
    ASSUME Types, Ready, Connections, Up, NEW c \in TestClients, client[c].at = "connected",
           UNCHANGED <<backlog, server>>, stream'[c] # <<>>, client'[c].at = "sent",
           \A d \in TestClients : d # c => client'[d] = client[d] /\ stream'[d] = stream[d]
    PROVE  Connections'
  <1>1. \A d \in TestClients : /\ Serves(d)' <=> Serves(d)
                               /\ Connecting(d)' <=> Connecting(d)
                               /\ InTcp(d)' <=> InTcp(d)
                               /\ client'[d].at = "sent" => d = c \/ client[d].at = "sent"
    BY DEF Serves, Connecting, InTcp
  <1>2. \A k \in 1..Len(backlog) : backlog[k] \in TestClients
    BY DEF Types
  <1>3. server.at = "recv" => server.active \in TestClients
    BY DEF Ready
  <1> QED  BY <1>1, <1>2, <1>3 DEF Connections

(* The first datagram is answered, to a raw client by a copy.              *)
LEMMA FirstAnswered ==
    ASSUME Types, Waiting, datagrams # <<>>, datagrams' = Tail(datagrams), UNCHANGED raw,
           \A c \in TestClients : client'[c].at = "waits" =>
               client[c].at = "waits" /\ c # datagrams[1].from,
           NEW answer \in Int, copies' = Copied(answer)
    PROVE  Waiting'
  <1>1. /\ Len(datagrams) \in Nat \ {0} /\ Len(datagrams') = Len(datagrams) - 1
        /\ \A k \in 1..Len(datagrams') : datagrams'[k] = datagrams[k + 1]
    BY HeadTailProperties DEF Types
  <1>2. ASSUME NEW p, Sender(p), p # datagrams[1].from PROVE Sender(p)'
    <2>1. PICK k \in 1..Len(datagrams) : datagrams[k].from = p
      BY <1>2 DEF Sender
    <2>2. k # 1
      BY <1>2, <2>1
    <2>3. k - 1 \in 1..Len(datagrams') /\ (k - 1) + 1 = k
      BY <1>1, <2>2
    <2>4. datagrams'[k - 1].from = p
      BY <1>1, <2>1, <2>3
    <2> QED  BY <2>3, <2>4 DEF Sender
  <1>3. ASSUME NEW r \in RawClients, raw[r] = "waits" PROVE copies'[r] # <<>>
    <2>1. copies[r] \in Seq(Int) /\ Append(copies[r], answer + 1) # <<>>
      <3>1. copies[r] \in Seq(Int) /\ answer + 1 \in Int
        BY DEF Types
      <3> QED  BY <3>1, AppendProperties
    <2>2. copies[r] = <<>> => Len(copies[r]) = 0
      OBVIOUS
    <2>3. RawMax \in Nat \ {0}
      BY Parameters
    <2>4. CASE copies[r] = <<>>
      <3>1. copies'[r] = Append(copies[r], answer + 1)
        <4>1. raw[r] # "over" /\ Len(copies[r]) < RawMax
          BY <1>3, <2>2, <2>3, <2>4
        <4> QED  BY <4>1 DEF Copied
      <3> QED  BY <2>1, <3>1
    <2>5. CASE copies[r] # <<>>
      <3>1. copies'[r] = copies[r] \/ copies'[r] = Append(copies[r], answer + 1)
        BY DEF Copied
      <3> QED  BY <2>1, <2>5, <3>1
    <2> QED  BY <2>4, <2>5
  <1>4. \A c \in TestClients : client'[c].at = "waits" => Sender(c)'
    BY <1>2 DEF Waiting
  <1> QED  BY <1>3, <1>4 DEF Waiting

(* A datagram more.                                                        *)
LEMMA DatagramSent ==
    ASSUME Types, Waiting, NEW m \in Datagrams, datagrams' = Append(datagrams, m),
           UNCHANGED copies,
           \A c \in TestClients : client'[c].at = "waits" => client[c].at = "waits" \/ c = m.from,
           \A r \in RawClients : raw'[r] = "waits" => raw[r] = "waits" \/ r = m.from
    PROVE  Waiting'
  <1>1. /\ Len(datagrams) \in Nat /\ Len(datagrams') = Len(datagrams) + 1
        /\ datagrams'[Len(datagrams) + 1] = m
        /\ \A k \in 1..Len(datagrams) : datagrams'[k] = datagrams[k]
    BY AppendProperties DEF Types
  <1>2. Sender(m.from)'
    <2>1. Len(datagrams) + 1 \in 1..Len(datagrams')
      BY <1>1
    <2> QED  BY <1>1, <2>1 DEF Sender
  <1>3. ASSUME NEW p, Sender(p) PROVE Sender(p)'
    <2>1. PICK k \in 1..Len(datagrams) : datagrams[k].from = p
      BY <1>3 DEF Sender
    <2>2. k \in 1..Len(datagrams') /\ datagrams'[k].from = p
      BY <1>1, <2>1
    <2> QED  BY <2>2 DEF Sender
  <1> QED  BY <1>2, <1>3 DEF Waiting

LEMMA RequestsInPlace == Spec => []RequestInv
  <1>1. Init => Connections /\ Waiting
    <2> SUFFICES ASSUME Init PROVE Connections /\ Waiting
      OBVIOUS
    <2>1. /\ backlog = <<>> /\ datagrams = <<>> /\ server.at = "poll"
          /\ \A c \in TestClients : client[c].at = "prompt"
          /\ \A r \in RawClients : raw[r] = "prompt"
      BY DEF Init, At
    <2> QED  BY <2>1 DEF Connections, Waiting, Serves, InTcp
  <1>2. ServerInv /\ Connections /\ Waiting /\ [Next]_vars => Connections' /\ Waiting'
    <2> SUFFICES ASSUME ServerInv, Connections, Waiting, [Next]_vars
                 PROVE  Connections' /\ Waiting'
      OBVIOUS
    <2>0. Types /\ Ready /\ Streams /\ Owed
      BY DEF ServerInv
    <2>1. CASE Poll \/ NoUdp
      <3>1. /\ UNCHANGED <<backlog, stream, datagrams, client, raw, copies>>
            /\ server.at \in {"poll", "udp"} /\ server'.at \in {"poll", "udp", "accept"}
            /\ server'.active = server.active
        BY <2>0, <2>1 DEF Poll, NoUdp, Types
      <3> QED  BY <2>0, <3>1, ConnectionsKept, WaitingKept DEF Up
    <2>2. CASE Accept
      <3>1. UNCHANGED <<stream, datagrams, client, raw, copies>> /\ server.at = "accept" /\ Up
            /\ backlog # <<>>
        BY <2>0, <2>2 DEF Accept, Up, Ready
      <3>2. Waiting'
        BY <3>1, WaitingKept
      <3>3. CASE server' = [server EXCEPT !.at = "failed"]
        <4>1. ~Up'
          BY <2>0, <3>3 DEF Up, Types
        <4> QED  BY <3>2, <4>1 DEF Connections
      <3>4. CASE /\ server' = [server EXCEPT !.at = "recv", !.active = Head(backlog), !.fds = @ + 1]
                 /\ backlog' = Tail(backlog)
        <4>1. server'.at = "recv" /\ server'.active = Head(backlog)
          BY <2>0, <3>4 DEF Types
        <4> QED  BY <2>0, <3>1, <3>2, <3>4, <4>1, ConnectionAccepted
      <3> QED  BY <2>2, <3>3, <3>4 DEF Accept
    <2>3. CASE Recv
      <3>1. server.at = "recv" /\ Up
        BY <2>3 DEF Recv, Up
      <3>2. PICK c \in TestClients : c = server.active
        BY <2>0, <3>1 DEF Ready
      <3>3. PICK info \in Int :
                /\ info = IF stream[c] # <<>> THEN Head(stream[c]) ELSE server.buf
                /\ server' = [server EXCEPT !.at = AfterTcp(info), !.buf = info, !.active = Nobody]
                /\ client' = Answered(c, info)
        <4>1. stream[c] # <<>> => Head(stream[c]) \in Int
          BY <2>0, HeadTailProperties DEF Types
        <4>2. server.buf \in Int
          BY <2>0 DEF Types
        <4> QED  BY <2>3, <3>2, <4>1, <4>2 DEF Recv
      <3>4. /\ UNCHANGED <<backlog, datagrams, raw, copies>>
            /\ stream' = [stream EXCEPT ![c] = <<>>]
        BY <2>3, <3>2 DEF Recv
      <3>5. server'.at \in {"over", "udp"}
        BY <2>0, <3>3 DEF Types, AfterTcp
      <3>6. /\ \A d \in TestClients : d # c => client'[d] = client[d]
            /\ client'[c].at \in {"answered", "killed"}
        BY <2>0, <3>3, AnsweredOne
      <3>7. Serves(c)
        BY <3>1, <3>2 DEF Serves
      <3>8. Connections'
        BY <2>0, <3>1, <3>4, <3>5, <3>6, <3>7, ConnectionServed
      <3>9. Waiting'
        BY <3>4, <3>6, WaitingKept
      <3> QED  BY <3>8, <3>9
    <2>4. CASE Udp
      <3>1. PICK d \in Datagrams : d = Head(datagrams) /\ d = datagrams[1]
        BY <2>0, <2>4, HeadTailProperties DEF Udp, Ready, Types
      <3>2. /\ server.at = "udp" /\ datagrams # <<>> /\ Up
            /\ datagrams' = Tail(datagrams) /\ UNCHANGED <<backlog, stream, raw>>
            /\ server' = [server EXCEPT !.at = IF d.info = -1 THEN "over" ELSE "poll",
                                        !.buf = d.info, !.udp = FALSE]
            /\ client' = IF d.from \in TestClients THEN Answered(d.from, d.info) ELSE client
            /\ copies' = Copied(d.info)
        BY <2>0, <2>4, <3>1 DEF Udp, Ready, Up
      <3>3. d.info \in Int /\ server'.at # "recv" /\ server'.active = server.active
        BY <2>0, <3>1, <3>2 DEF Datagrams, Types
      <3>4. /\ \A c \in TestClients : c # d.from => client'[c] = client[c]
            /\ d.from \in TestClients => \/ client'[d.from] = client[d.from]
                                            /\ client[d.from].at = "killed"
                                         \/ /\ client'[d.from].at = "answered"
                                            /\ client[d.from].at # "killed"
        <4>1. CASE d.from \in TestClients
          BY <2>0, <3>2, <3>3, <4>1, AnsweredOne
        <4>2. CASE d.from \notin TestClients
          BY <3>2, <4>2
        <4> QED  BY <4>1, <4>2
      <3>5. d.from \in TestClients /\ client[d.from].at # "killed" => client[d.from].at = "waits"
        <4>1. 1 \in 1..Len(datagrams)
          BY <2>0, <3>2 DEF Types
        <4> QED  BY <2>0, <3>1, <4>1 DEF Owed, Due
      <3>6. Connections'
        BY <2>0, <3>2, <3>3, <3>4, <3>5, ConnectionsKept DEF Connecting
      <3>7. Waiting'
        <4>1. \A c \in TestClients : client'[c].at = "waits" =>
                  client[c].at = "waits" /\ c # datagrams[1].from
          BY <3>1, <3>4
        <4> QED  BY <2>0, <3>2, <3>3, <4>1, FirstAnswered
      <3> QED  BY <3>6, <3>7
    <2>5. ASSUME NEW c \in TestClients, Connect(c) PROVE Connections' /\ Waiting'
      <3>1. PICK info \in Int :
                client' = [client EXCEPT ![c].at = IF Up THEN "connected" ELSE "exited",
                                         ![c].info = info]
        BY <2>5, Parameters DEF Connect
      <3>2. /\ UNCHANGED <<stream, datagrams, server, raw, copies>> /\ client[c].at = "prompt"
            /\ backlog' = IF Up THEN Append(backlog, c) ELSE backlog
        BY <2>5 DEF Connect
      <3>3. /\ client'[c].at = IF Up THEN "connected" ELSE "exited"
            /\ \A d \in TestClients : d # c => client'[d] = client[d]
        BY <2>0, <3>1 DEF Types, ClientStates
      <3>4. Waiting'
        BY <3>2, <3>3, WaitingKept
      <3>5. CASE Up
        BY <2>0, <3>2, <3>3, <3>4, <3>5, ConnectionMade
      <3>6. CASE ~Up
        BY <3>2, <3>4, <3>6 DEF Connections, Up
      <3> QED  BY <3>5, <3>6
    <2>6. ASSUME NEW c \in TestClients, Send(c) PROVE Connections' /\ Waiting'
      <3>1. /\ UNCHANGED <<backlog, datagrams, server, raw, copies>> /\ client[c].at = "connected"
            /\ Up /\ stream' = [stream EXCEPT ![c] = <<client[c].info>>]
            /\ client' = [client EXCEPT ![c].at = "sent"]
        BY <2>6 DEF Send
      <3>2. client'[c].at = "sent" /\ \A d \in TestClients : d # c => client'[d] = client[d]
        BY <2>0, <3>1 DEF Types, ClientStates
      <3>3. stream'[c] # <<>> /\ \A d \in TestClients : d # c => stream'[d] = stream[d]
        BY <2>0, <3>1 DEF Types
      <3>4. Connections'
        BY <2>0, <3>1, <3>2, <3>3, ConnectionUsed
      <3>5. Waiting'
        BY <3>1, <3>2, WaitingKept
      <3> QED  BY <3>4, <3>5
    <2>7. ASSUME NEW c \in TestClients, Reset(c) \/ PrintAnswer(c) \/ Kill(c)
          PROVE  Connections' /\ Waiting'
      <3>1. PICK place \in {"exited", "prompt", "killed"} : client' = [client EXCEPT ![c] = At(place)]
        BY <2>7 DEF Reset, PrintAnswer, Kill
      <3>2. /\ UNCHANGED <<backlog, stream, datagrams, server, raw, copies>>
            /\ place = "killed" \/ ~Up \/ client[c].at = "answered"
        <4>1. CASE Reset(c)
          BY <4>1 DEF Reset
        <4>2. CASE PrintAnswer(c)
          BY <4>2 DEF PrintAnswer
        <4>3. CASE Kill(c)
          <5>1. client' = [client EXCEPT ![c] = At("killed")]
            BY <4>3 DEF Kill
          <5>2. client'[c] = At("killed") /\ client'[c] = At(place)
            BY <2>0, <3>1, <5>1 DEF Types
          <5>3. place = "killed"
            BY <5>2 DEF At
          <5> QED  BY <4>3, <5>3 DEF Kill
        <4> QED  BY <2>7, <4>1, <4>2, <4>3
      <3>3. client'[c].at = place /\ \A d \in TestClients : d # c => client'[d] = client[d]
        BY <2>0, <3>1 DEF Types, At
      <3>4. Waiting'
        BY <3>2, <3>3, WaitingKept
      <3>5. CASE ~Up
        BY <3>2, <3>4, <3>5 DEF Connections, Up
      <3>6. CASE place = "killed" \/ client[c].at = "answered"
        BY <2>0, <3>2, <3>3, <3>4, <3>6, ConnectionsKept DEF Connecting, Up
      <3> QED  BY <3>2, <3>5, <3>6
    <2>8. ASSUME NEW c \in TestClients, SendTo(c) PROVE Connections' /\ Waiting'
      <3>1. PICK info \in Int :
                /\ client' = [client EXCEPT ![c].at = "waits", ![c].info = info]
                /\ datagrams' = Append(datagrams, [from |-> c, info |-> info])
        BY <2>8, Parameters DEF SendTo
      <3>2. UNCHANGED <<backlog, stream, server, raw, copies>> /\ client[c].at = "prompt"
        BY <2>8 DEF SendTo
      <3>3. client'[c].at = "waits" /\ \A d \in TestClients : d # c => client'[d] = client[d]
        BY <2>0, <3>1 DEF Types, ClientStates
      <3> DEFINE m == [from |-> c, info |-> info]
      <3>4. m \in Datagrams /\ m.from = c /\ datagrams' = Append(datagrams, m)
        BY <3>1 DEF Datagrams
      <3> HIDE DEF m
      <3>5. Waiting'
        BY <2>0, <3>2, <3>3, <3>4, DatagramSent
      <3>6. Connections'
        BY <2>0, <3>2, <3>3, ConnectionsKept DEF Connecting, Up
      <3> QED  BY <3>5, <3>6
    <2>9. ASSUME NEW r \in RawClients, RawSend(r) PROVE Connections' /\ Waiting'
      <3>1. PICK info \in Int : datagrams' = Append(datagrams, [from |-> r, info |-> info])
        BY <2>9, Parameters DEF RawSend
      <3>2. /\ UNCHANGED <<backlog, stream, server, client, copies>>
            /\ raw' = [raw EXCEPT ![r] = "waits"]
        BY <2>9 DEF RawSend
      <3>3. \A s \in RawClients : raw'[s] = "waits" => raw[s] = "waits" \/ s = r
        BY <2>0, <3>2 DEF Types
      <3> DEFINE m == [from |-> r, info |-> info]
      <3>4. m \in Datagrams /\ m.from = r /\ datagrams' = Append(datagrams, m)
        BY <3>1 DEF Datagrams
      <3> HIDE DEF m
      <3>5. Waiting'
        BY <2>0, <3>2, <3>3, <3>4, DatagramSent
      <3>6. Connections'
        BY <2>0, <3>2, ConnectionsKept DEF Up
      <3> QED  BY <3>5, <3>6
    <2>10. ASSUME NEW r \in RawClients, RawTake(r) PROVE Connections' /\ Waiting'
      <3>1. /\ UNCHANGED <<backlog, stream, datagrams, server, client>>
            /\ raw' = [raw EXCEPT ![r] = IF Head(copies[r]) = 0 THEN "over" ELSE "prompt"]
            /\ copies' = [copies EXCEPT ![r] = Tail(copies[r])]
        BY <2>10 DEF RawTake
      <3>2. raw'[r] # "waits" /\ \A s \in RawClients : s # r => raw'[s] = raw[s]
                                                              /\ copies'[s] = copies[s]
        BY <2>0, <3>1 DEF Types
      <3>3. Waiting'
        BY <3>1, <3>2 DEF Waiting, Sender
      <3>4. Connections'
        BY <2>0, <3>1, ConnectionsKept DEF Up
      <3> QED  BY <3>3, <3>4
    <2>11. CASE UNCHANGED vars
      <3>1. UNCHANGED <<backlog, stream, datagrams, server, client, raw, copies>>
        BY <2>11 DEF vars
      <3> QED  BY <2>0, <3>1, ConnectionsKept, WaitingKept DEF Up
    <2> QED
      BY <2>1, <2>2, <2>3, <2>4, <2>5, <2>6, <2>7, <2>8, <2>9, <2>10, <2>11
      DEF Next, ServerStep, ClientStep
  <1> QED  BY <1>1, <1>2, Invariance, PTL DEF Spec, RequestInv

(* A request that has not ended is where it will be read: as a datagram,   *)
(* on a connection the server has or will accept, or as a copy in the      *)
(* socket of a raw client; and the server waits in recv only for a client  *)
(* that has still to send.                                                 *)
THEOREM NoRequestForgotten ==
    Spec => []/\ RecvInTurn
              /\ \A c \in TestClients : RequestKept(c)
              /\ \A r \in RawClients : CopyKept(r)
  <1>1. RequestInv => /\ RecvInTurn
                      /\ \A c \in TestClients : RequestKept(c)
                      /\ \A r \in RawClients : CopyKept(r)
    <2> SUFFICES ASSUME RequestInv
                 PROVE  /\ RecvInTurn
                        /\ \A c \in TestClients : RequestKept(c)
                        /\ \A r \in RawClients : CopyKept(r)
      OBVIOUS
    <2>1. DOMAIN datagrams = 1..Len(datagrams) /\ DOMAIN backlog = 1..Len(backlog)
      BY DEF RequestInv, ServerInv, Types
    <2>2. server.at = "recv" => /\ server.active \in TestClients
                                /\ stream[server.active] # <<>>
                                   \/ client[server.active].at \in {"connected", "killed"}
      BY DEF RequestInv, ServerInv, Ready, Connections, Connecting, Up
    <2> QED  BY <2>1, <2>2 DEF RequestInv, Connections, Waiting, Sender, Serves,
               RequestKept, CopyKept, RecvInTurn
  <1> QED  BY <1>1, RequestsInPlace, PTL

-----------------------------------------------------------------------------
(* The phonebook.  The list is linked both ways from a first entry with    *)
(* nothing before it, in the order of the ids; entries that are no longer  *)
(* in a list, but not freed, do not lead to one that is.                   *)
Ids == Phonebook!Ids
Listed == Phonebook!Listed

BookTypes ==
    /\ first_entry \in Ids \cup {-1} /\ latest_id \in 0..MaxEntries
    /\ next_entry \in [Ids -> Ids \cup {-1}]
    /\ prev_entry \in [Ids -> Ids \cup {-1}]
    /\ live \in SUBSET Ids
    /\ first_entry < latest_id /\ \A e \in live : e < latest_id
    /\ \A e \in Ids : next_entry[e] < latest_id /\ prev_entry[e] < latest_id
Chained ==
    /\ Listed \subseteq live
    /\ first_entry # -1 => prev_entry[first_entry] = -1
    /\ \A e \in Listed :
          /\ next_entry[e] # -1 => next_entry[e] > e /\ prev_entry[next_entry[e]] = e
          /\ e # first_entry => prev_entry[e] \in Listed /\ next_entry[prev_entry[e]] = e
Apart == \A e \in live \ Listed : next_entry[e] \notin Listed /\ prev_entry[e] \notin Listed
ListInv ==
    /\ BookTypes /\ Chained /\ Apart
    /\ size = Cardinality(live)
    /\ ~lost => Listed = live

(* phonebook_delete is at the first entry, or at one whose neighbour it    *)
(* has freed.                                                              *)
Deleting ==
    /\ pentry \in Ids \cup {-1}
    /\ state = "deleting" => \/ pentry \in {-1, first_entry}
                             \/ pentry \in live /\ prev_entry[pentry] \in Ids \ live
BookInv == ListInv /\ Deleting /\ (~lost => state # "undefined")

LEMMA IdsAreNumbers == Ids = 0..(MaxEntries - 1) /\ -1 \notin Ids /\ Ids \subseteq Nat
  BY Amounts DEF Ids, Phonebook!Ids

LEMMA BookCounts ==
    ASSUME NEW S PROVE Phonebook!Cardinality(S) = Cardinality(S)
  BY DEF Phonebook!Cardinality, Cardinality

(* What links lead to from a first entry is the least set that has the     *)
(* first and, with an entry, the one its link leads to.                    *)
From(first, link) ==
    {e \in Ids : \A S \in SUBSET Ids :
        first \in S \cup {-1} /\ (\A x \in S : link[x] \in S \cup {-1}) => e \in S}

LEMMA ListedFrom ==
    /\ Listed = From(first_entry, next_entry)
    /\ Listed' = From(first_entry', next_entry')
  BY DEF Listed, Phonebook!Listed, Phonebook!Closed, Phonebook!Null, From, Ids

LEMMA FromLeads ==
    ASSUME NEW first, NEW link
    PROVE  /\ From(first, link) \subseteq Ids
           /\ first \in Ids => first \in From(first, link)
           /\ \A e \in From(first, link) : link[e] \in Ids => link[e] \in From(first, link)
  <1>1. From(first, link) \subseteq Ids
    BY DEF From
  <1>2. first \in Ids => first \in From(first, link)
    BY IdsAreNumbers DEF From
  <1>3. ASSUME NEW e \in From(first, link), link[e] \in Ids PROVE link[e] \in From(first, link)
    <2>1. ASSUME NEW S \in SUBSET Ids, first \in S \cup {-1},
                 \A x \in S : link[x] \in S \cup {-1}
          PROVE  link[e] \in S
      <3>1. e \in S
        BY <2>1 DEF From
      <3> QED  BY <1>3, <2>1, <3>1, IdsAreNumbers
    <2> QED  BY <1>3, <2>1 DEF From
  <1> QED  BY <1>1, <1>2, <1>3

LEMMA FromLeast ==
    ASSUME NEW first, NEW link, NEW S \in SUBSET Ids, first \in S \cup {-1},
           \A x \in S : link[x] \in S \cup {-1}
    PROVE  From(first, link) \subseteq S
  BY DEF From

LEMMA FromNowhere ==
    ASSUME NEW link PROVE From(-1, link) = {}
  <1> DEFINE S == {}
  <1>1. S \in SUBSET Ids /\ -1 \in S \cup {-1} /\ \A x \in S : link[x] \in S \cup {-1}
    OBVIOUS
  <1> HIDE DEF S
  <1>2. From(-1, link) \subseteq S
    BY <1>1, FromLeast
  <1> QED  BY <1>2 DEF S

LEMMA FromOne ==
    ASSUME NEW new \in Ids, NEW link, link[new] = -1
    PROVE  From(new, link) = {new}
  <1> DEFINE S == {new}
  <1>1. S \in SUBSET Ids /\ new \in S \cup {-1} /\ \A x \in S : link[x] \in S \cup {-1}
    OBVIOUS
  <1> HIDE DEF S
  <1>2. From(new, link) \subseteq S
    BY <1>1, FromLeast
  <1> QED  BY <1>2, FromLeads DEF S

Links == [Ids -> Ids \cup {-1}]

LEMMA FromClosed ==
    ASSUME NEW first \in Ids \cup {-1}, NEW link \in Links
    PROVE  /\ From(first, link) \subseteq Ids
           /\ first \in From(first, link) \cup {-1}
           /\ \A e \in From(first, link) : link[e] \in From(first, link) \cup {-1}
  BY FromLeads DEF Links

(* Where no link in the list changes, the list stays.                      *)
LEMMA FromStays ==
    ASSUME NEW first \in Ids \cup {-1}, NEW link \in Links, NEW new \in Links,
           \A e \in From(first, link) : new[e] = link[e]
    PROVE  From(first, new) = From(first, link)
  <1> DEFINE L == From(first, link)
             N == From(first, new)
  <1>1. /\ L \subseteq Ids /\ N \subseteq Ids
        /\ first \in L \cup {-1} /\ first \in N \cup {-1}
        /\ \A e \in L : link[e] \in L \cup {-1}
        /\ \A e \in N : new[e] \in N \cup {-1}
    BY FromClosed, IdsAreNumbers
  <1>2. \A e \in L : new[e] = link[e]
    OBVIOUS
  <1> HIDE DEF L, N
  <1>3. N \subseteq L
    BY <1>1, <1>2, FromLeast DEF N
  <1>4. \A e \in N : link[e] \in N \cup {-1}
    BY <1>1, <1>2, <1>3
  <1>5. L \subseteq N
    BY <1>1, <1>4, FromLeast DEF L
  <1> QED  BY <1>3, <1>5 DEF L, N

(* An entry put behind the last.                                           *)
LEMMA FromAppended ==
    ASSUME NEW first \in Ids, NEW link \in Links, NEW new \in Links, NEW a \in Ids,
           NEW last \in From(first, link), link[last] = -1, first # a,
           \A e \in Ids : link[e] # a,
           last # a, new[a] = -1, new[last] = a, \A e \in Ids \ {a, last} : new[e] = link[e]
    PROVE  From(first, new) = From(first, link) \cup {a}
  <1> DEFINE L == From(first, link)
             N == From(first, new)
  <1>1. /\ L \subseteq Ids /\ N \subseteq Ids
        /\ first \in L /\ first \in N /\ last \in L
        /\ \A e \in L : link[e] \in L \cup {-1}
        /\ \A e \in N : new[e] \in N \cup {-1}
    BY FromClosed, IdsAreNumbers
  <1>2. new[last] = a /\ new[a] = -1 /\ \A e \in Ids \ {a, last} : new[e] = link[e]
    OBVIOUS
  <1> HIDE DEF L, N
  <1>3. N \subseteq L \cup {a}
    <2> DEFINE S == L \cup {a}
    <2>1. \A e \in S : new[e] \in S \cup {-1}
      BY <1>1, <1>2
    <2>2. S \in SUBSET Ids /\ first \in S \cup {-1}
      BY <1>1
    <2> HIDE DEF S
    <2>3. N \subseteq S
      BY <2>1, <2>2, FromLeast DEF N
    <2> QED  BY <2>3 DEF S
  <1>4. L \subseteq N \ {a}
    <2>1. \A e \in N \ {a} : link[e] \in (N \ {a}) \cup {-1}
      BY <1>1, <1>2
    <2>2. N \ {a} \in SUBSET Ids /\ first \in (N \ {a}) \cup {-1}
      BY <1>1
    <2> QED  BY <2>1, <2>2, FromLeast DEF L
  <1>5. a \in N
    BY <1>1, <1>2, <1>4, IdsAreNumbers
  <1> QED  BY <1>3, <1>4, <1>5 DEF L, N

(* An entry taken out between two others.                                  *)
LEMMA FromWithout ==
    ASSUME NEW first \in Ids, NEW link \in Links, NEW new \in Links,
           NEW e \in From(first, link), NEW p \in From(first, link), e # first, link[p] = e,
           link[e] \in Ids, link[e] # e,
           \A x \in From(first, link) : link[x] = e => x = p,
           new[p] = link[e], \A x \in Ids \ {p} : new[x] = link[x]
    PROVE  From(first, new) = From(first, link) \ {e}
  <1> DEFINE L == From(first, link)
             N == From(first, new)
  <1>1. /\ L \subseteq Ids /\ N \subseteq Ids
        /\ first \in L /\ first \in N /\ e \in L /\ p \in L
        /\ \A x \in L : link[x] \in L \cup {-1}
        /\ \A x \in N : new[x] \in N \cup {-1}
        /\ \A x \in L : link[x] = e => x = p
    BY FromClosed, IdsAreNumbers
  <1>2. new[p] = link[e] /\ \A x \in Ids \ {p} : new[x] = link[x]
    BY FromLeads DEF Links
  <1> HIDE DEF L, N
  <1>3. N \subseteq L \ {e}
    <2>1. \A x \in L \ {e} : new[x] \in (L \ {e}) \cup {-1}
      BY <1>1, <1>2, IdsAreNumbers
    <2>2. L \ {e} \in SUBSET Ids /\ first \in (L \ {e}) \cup {-1}
      BY <1>1
    <2> QED  BY <2>1, <2>2, FromLeast DEF N
  <1>4. L \subseteq N \cup {e}
    <2> DEFINE T == IF p \in N THEN N \cup {e} ELSE N
    <2>1. \A x \in T : link[x] \in T \cup {-1}
      <3> SUFFICES ASSUME NEW x \in T PROVE link[x] \in T \cup {-1}
        OBVIOUS
      <3>1. CASE x = p
        BY <3>1, <1>1, <1>3
      <3>2. CASE x = e
        <4>1. p \in N
          BY <3>2, <1>3
        <4>2. link[e] \in N
          BY <1>1, <1>2, <4>1, IdsAreNumbers
        <4> QED  BY <3>2, <4>2
      <3>3. CASE x # p /\ x # e
        BY <3>3, <1>1, <1>2
      <3> QED  BY <3>1, <3>2, <3>3
    <2>2. T \in SUBSET Ids /\ first \in T \cup {-1}
      BY <1>1
    <2> HIDE DEF T
    <2>3. L \subseteq T
      BY <2>1, <2>2, FromLeast DEF L
    <2> QED  BY <2>3 DEF T
  <1> QED  BY <1>3, <1>4 DEF L, N

LEMMA ListedIds ==
    ASSUME BookTypes
    PROVE  /\ Listed \subseteq Ids
           /\ first_entry # -1 => first_entry \in Listed
           /\ first_entry = -1 => Listed = {}
           /\ \A e \in Listed : next_entry[e] # -1 => next_entry[e] \in Listed
  <1>1. first_entry \in Ids \cup {-1} /\ next_entry \in Links
    BY DEF BookTypes, Links
  <1> QED  BY <1>1, ListedFrom, FromClosed, FromNowhere

LEMMA LiveIsFinite ==
    ASSUME BookTypes PROVE IsFiniteSet(live) /\ Cardinality(live) \in Nat
  <1>1. IsFiniteSet(Ids)
    BY FS_Interval, IdsAreNumbers, Amounts
  <1> QED  BY <1>1, FS_Subset, FS_CardinalityType DEF BookTypes

(* A list that has an entry has one that leads to none: the ids grow along *)
(* it, and there are only so many.                                         *)
LEMMA LastIsListed ==
    ASSUME BookTypes, Chained, first_entry # -1
    PROVE  /\ Phonebook!LastEntry \in Listed
           /\ next_entry[Phonebook!LastEntry] = -1
  <1> DEFINE Before == OpToRel(<, Nat)
             left == {MaxEntries - e : e \in Listed}
  <1>1. Listed \subseteq Ids /\ first_entry \in Listed
    BY ListedIds
  <1>2. left \subseteq Nat /\ MaxEntries - first_entry \in left
    BY <1>1, IdsAreNumbers, Amounts
  <1>3. PICK least \in left : \A m \in left : ~(<<m, least>> \in Before)
    <2>1. IsWellFoundedOn(Before, Nat)
      BY NatLessThanWellFounded
    <2> HIDE DEF Before, left
    <2> QED  BY <1>2, <2>1, WFMin
  <1>4. PICK e \in Listed : least = MaxEntries - e
    OBVIOUS
  <1>5. next_entry[e] = -1
    <2>1. SUFFICES ASSUME next_entry[e] # -1 PROVE FALSE
      OBVIOUS
    <2>2. next_entry[e] \in Listed /\ next_entry[e] > e
      BY <2>1, ListedIds DEF Chained
    <2>3. PICK m \in left : m = MaxEntries - next_entry[e]
      BY <2>2
    <2>4. m \in Nat /\ least \in Nat /\ m < least
      <3>1. PICK b \in Ids : b = next_entry[e] /\ b > e
        BY <1>1, <2>2
      <3>2. m = MaxEntries - b /\ least = MaxEntries - e /\ e \in Ids
        BY <1>1, <1>4, <2>3, <3>1
      <3>3. b \in 0..(MaxEntries - 1) /\ e \in 0..(MaxEntries - 1) /\ MaxEntries \in Nat
        BY <3>2, IdsAreNumbers, Amounts
      <3> HIDE DEF left
      <3> QED  BY <3>1, <3>2, <3>3
    <2>5. <<m, least>> \in Before
      BY <2>4 DEF OpToRel
    <2> QED  BY <1>3, <2>3, <2>5
  <1> HIDE DEF left
  <1>6. \E x \in Phonebook!Listed : next_entry[x] = Phonebook!Null
    BY <1>4, <1>5 DEF Listed, Phonebook!Null
  <1> QED  BY <1>6 DEF Phonebook!LastEntry, Listed, Phonebook!Null

LEMMA EntryAdded ==
    ASSUME ListInv, Phonebook!AddEntry, UNCHANGED lost
    PROVE  ListInv'
  <1>0. /\ BookTypes /\ Chained /\ Apart
        /\ latest_id \in 0..MaxEntries /\ latest_id < MaxEntries
    BY DEF ListInv, BookTypes, Phonebook!AddEntry
  <1>1. PICK a \in Ids : a = latest_id
    BY <1>0, IdsAreNumbers, Amounts
  <1>2. live' = live \cup {a} /\ latest_id' = a + 1 /\ size' = size + 1
    BY <1>1 DEF Phonebook!AddEntry
  <1>20. /\ live \subseteq Ids /\ first_entry \in Ids \cup {-1}
         /\ first_entry < a /\ \A e \in live : e < a
         /\ \A e \in Ids : next_entry[e] < a /\ prev_entry[e] < a
         /\ next_entry \in Links /\ prev_entry \in Links
    BY <1>0, <1>1 DEF BookTypes, Links
  <1>21. /\ a \notin live /\ a \notin Listed /\ Listed \subseteq Ids
         /\ first_entry # a
         /\ \A e \in Ids : next_entry[e] # a /\ prev_entry[e] # a
    <2>1. \A e \in Ids \cup {-1} : ~(e < a) \/ e # a
      BY IdsAreNumbers
    <2> QED  BY <1>0, <1>20, <2>1, ListedIds DEF Chained, Links
  <1>22. \A e \in Ids \cup {-1} : e < a => e < a + 1
    BY IdsAreNumbers
  <1>23. a < a + 1 /\ -1 < a + 1 /\ a + 1 \in 0..MaxEntries
    BY <1>0, <1>1, IdsAreNumbers, Amounts
  <1>3. size' = Cardinality(live')
    BY <1>0, <1>2, <1>21, LiveIsFinite, FS_AddElement DEF ListInv
  <1>4. CASE first_entry = -1
    <2>1. /\ first_entry' = a /\ prev_entry' = [prev_entry EXCEPT ![a] = -1]
          /\ next_entry' = [next_entry EXCEPT ![a] = -1]
      BY <1>1, <1>4 DEF Phonebook!AddEntry, Phonebook!Null
    <2>2. /\ next_entry' \in Links /\ prev_entry' \in Links
          /\ next_entry'[a] = -1 /\ prev_entry'[a] = -1
          /\ \A e \in Ids : e # a => next_entry'[e] = next_entry[e] /\ prev_entry'[e] = prev_entry[e]
      BY <1>20, <2>1 DEF Links
    <2>3. Listed = {} /\ Listed' = {a}
      <3>1. Listed' = From(a, next_entry')
        BY <2>1, ListedFrom
      <3>2. PICK new \in Links : new = next_entry'
        BY <2>2
      <3> QED  BY <1>0, <1>4, <2>2, <3>1, <3>2, ListedIds, FromOne
    <2>4. BookTypes'
      <3>1. \A e \in Ids : next_entry'[e] < a + 1 /\ prev_entry'[e] < a + 1
        BY <1>20, <1>22, <1>23, <2>2 DEF Links
      <3>2. live' \subseteq Ids /\ \A e \in live' : e < a + 1
        BY <1>2, <1>20, <1>22, <1>23
      <3> QED  BY <1>2, <1>23, <2>1, <2>2, <3>1, <3>2 DEF BookTypes, Links
    <2>5. Chained'
      BY <1>2, <2>1, <2>2, <2>3 DEF Chained
    <2>6. Apart'
      BY <1>2, <1>20, <1>21, <2>2, <2>3 DEF Apart
    <2>7. ~lost' => Listed' = live'
      BY <1>2, <2>3 DEF ListInv
    <2> QED  BY <1>3, <2>4, <2>5, <2>6, <2>7 DEF ListInv
  <1>5. CASE first_entry # -1
    <2>1. PICK l \in Listed : l = Phonebook!LastEntry /\ next_entry[l] = -1
      BY <1>0, <1>5, LastIsListed
    <2>2. /\ first_entry' = first_entry /\ prev_entry' = [prev_entry EXCEPT ![a] = l]
          /\ next_entry' = [next_entry EXCEPT ![a] = -1, ![l] = a]
      BY <1>1, <1>5, <2>1 DEF Phonebook!AddEntry, Phonebook!Null
    <2>3. l \in Ids /\ l # a /\ l < a /\ first_entry \in Ids /\ first_entry \in Listed
      BY <1>0, <1>5, <1>20, <1>21, <2>1, ListedIds DEF Chained
    <2>4. /\ next_entry' \in Links /\ prev_entry' \in Links
          /\ next_entry'[a] = -1 /\ prev_entry'[a] = l /\ next_entry'[l] = a
          /\ \A e \in Ids : e # a => prev_entry'[e] = prev_entry[e]
          /\ \A e \in Ids \ {a, l} : next_entry'[e] = next_entry[e]
      BY <1>20, <2>2, <2>3 DEF Links
    <2>6. Listed' = Listed \cup {a}
      <3>1. PICK new \in Links : new = next_entry'
        BY <2>4
      <3>2. PICK first \in Ids : first = first_entry
        BY <2>3
      <3>3. Listed' = From(first, new) /\ Listed = From(first, next_entry)
        BY <2>2, <3>1, <3>2, ListedFrom
      <3>4. l \in From(first, next_entry) /\ first # a /\ new[a] = -1 /\ new[l] = a
            /\ \A e \in Ids \ {a, l} : new[e] = next_entry[e]
        BY <1>21, <2>1, <2>4, <3>1, <3>2, <3>3
      <3>5. From(first, new) = From(first, next_entry) \cup {a}
        BY <1>20, <1>21, <2>1, <2>3, <3>4, FromAppended
      <3> QED  BY <3>3, <3>5
    <2>7. BookTypes'
      <3>1. \A e \in Ids : next_entry'[e] < a + 1 /\ prev_entry'[e] < a + 1
        <4> SUFFICES ASSUME NEW e \in Ids
                     PROVE  next_entry'[e] < a + 1 /\ prev_entry'[e] < a + 1
          OBVIOUS
        <4>1. next_entry'[e] \in {-1, a, next_entry[e]} /\ prev_entry'[e] \in {l, prev_entry[e]}
          BY <2>4
        <4>2. /\ next_entry[e] < a + 1 /\ prev_entry[e] < a + 1 /\ l < a + 1
          BY <1>20, <1>22, <2>3 DEF Links
        <4> QED  BY <1>23, <4>1, <4>2
      <3>2. live' \subseteq Ids /\ \A e \in live' : e < a + 1
        BY <1>2, <1>20, <1>22, <1>23
      <3>3. first_entry' \in Ids /\ first_entry' < a + 1
        BY <1>20, <1>22, <2>2, <2>3
      <3> QED  BY <1>2, <1>23, <2>4, <3>1, <3>2, <3>3 DEF BookTypes, Links
    <2>8. Chained'
      <3>1. Listed' \subseteq live' /\ prev_entry'[first_entry'] = -1
        BY <1>0, <1>2, <1>5, <1>21, <2>2, <2>3, <2>4, <2>6 DEF Chained
      <3>2. ASSUME NEW e \in Listed
            PROVE  /\ next_entry'[e] # -1 => next_entry'[e] > e /\ prev_entry'[next_entry'[e]] = e
                   /\ e # first_entry => prev_entry'[e] \in Listed /\ next_entry'[prev_entry'[e]] = e
        <4>1. CASE e = l
          <5>1. next_entry'[e] = a /\ a > e /\ prev_entry'[a] = e
            BY <2>3, <2>4, <4>1
          <5>2. e # first_entry => prev_entry[e] \in Listed /\ next_entry[prev_entry[e]] = e
            BY <1>0 DEF Chained
          <5>3. e # first_entry => prev_entry[e] # a /\ prev_entry[e] # l
            BY <1>21, <2>1, <2>3, <4>1, <5>2, IdsAreNumbers
          <5> QED  BY <1>21, <2>3, <2>4, <4>1, <5>1, <5>2, <5>3
        <4>2. CASE e # l
          <5>1. next_entry'[e] = next_entry[e] /\ prev_entry'[e] = prev_entry[e] /\ e # a
            BY <1>21, <2>4, <4>2
          <5>2. next_entry[e] # -1 => /\ next_entry[e] \in Ids /\ next_entry[e] # a
                                      /\ next_entry[e] > e /\ prev_entry[next_entry[e]] = e
            BY <1>0, <1>21, ListedIds DEF Chained
          <5>3. e # first_entry => prev_entry[e] \in Listed /\ next_entry[prev_entry[e]] = e
            BY <1>0 DEF Chained
          <5>4. e # first_entry => prev_entry[e] # l /\ prev_entry[e] # a
            BY <1>21, <2>1, <5>3, IdsAreNumbers
          <5> QED  BY <1>21, <2>4, <5>1, <5>2, <5>3, <5>4
        <4> QED  BY <4>1, <4>2
      <3>3. next_entry'[a] = -1 /\ prev_entry'[a] \in Listed' /\ next_entry'[prev_entry'[a]] = a
        BY <2>1, <2>4, <2>6
      <3>4. ASSUME NEW e \in Listed'
            PROVE  /\ next_entry'[e] # -1 => next_entry'[e] > e /\ prev_entry'[next_entry'[e]] = e
                   /\ e # first_entry' => prev_entry'[e] \in Listed' /\ next_entry'[prev_entry'[e]] = e
        <4>1. CASE e = a
          BY <3>3, <4>1
        <4>2. CASE e \in Listed
          <5>1. next_entry'[e] # -1 => next_entry'[e] > e /\ prev_entry'[next_entry'[e]] = e
            BY <3>2, <4>2
          <5>2. e # first_entry' => prev_entry'[e] \in Listed /\ next_entry'[prev_entry'[e]] = e
            BY <2>2, <3>2, <4>2
          <5>3. \A x \in Listed : x \in Listed'
            BY <2>6
          <5> QED  BY <5>1, <5>2, <5>3
        <4> QED  BY <2>6, <4>1, <4>2
      <3> QED  BY <3>1, <3>4 DEF Chained
    <2>9. Apart'
      <3> SUFFICES ASSUME NEW e \in live' \ Listed'
                   PROVE  next_entry'[e] \notin Listed' /\ prev_entry'[e] \notin Listed'
        BY DEF Apart
      <3>1. e \in live \ Listed /\ e \in Ids \ {a, l}
        BY <1>2, <1>20, <1>21, <2>1, <2>6
      <3> QED  BY <1>0, <1>21, <2>4, <2>6, <3>1 DEF Apart
    <2>10. ~lost' => Listed' = live'
      BY <1>2, <2>6 DEF ListInv
    <2> QED  BY <1>3, <2>7, <2>8, <2>9, <2>10 DEF ListInv
  <1> QED  BY <1>4, <1>5

LEMMA EntryRemoved ==
    ASSUME ListInv, NEW e \in live, ~Phonebook!ReachesFreed(e), Phonebook!DeleteEntry(e)
    PROVE  ListInv'
  <1>1. /\ BookTypes /\ Chained /\ Apart /\ size = Cardinality(live)
        /\ live' = live \ {e} /\ size' = size - 1 /\ latest_id' = latest_id
    BY DEF ListInv, Phonebook!DeleteEntry
  <1>2. /\ e \in Ids /\ live \subseteq Ids /\ first_entry \in Ids \cup {-1}
        /\ next_entry \in Links /\ prev_entry \in Links /\ latest_id \in 0..MaxEntries
        /\ first_entry < latest_id /\ \A x \in live : x < latest_id
        /\ \A x \in Ids : next_entry[x] < latest_id /\ prev_entry[x] < latest_id
    BY <1>1 DEF BookTypes, Links
  <1>3. size' = Cardinality(live')
    BY <1>1, LiveIsFinite, FS_RemoveElement
  <1>4. CASE prev_entry[e] = -1 \/ next_entry[e] = -1
    <2>1. first_entry' = -1 /\ lost' = TRUE /\ next_entry' = next_entry /\ prev_entry' = prev_entry
      BY <1>4 DEF Phonebook!DeleteEntry, Phonebook!Unlink, Phonebook!Null, Phonebook!links
    <2>2. Listed' = {}
      <3>1. Listed' = From(-1, next_entry')
        BY <2>1, ListedFrom
      <3>2. PICK link : link = next_entry'
        OBVIOUS
      <3> QED  BY <3>1, <3>2, FromNowhere
    <2>3. BookTypes'
      <3>1. -1 < latest_id
        BY <1>2, Amounts
      <3> QED  BY <1>1, <1>2, <2>1, <3>1 DEF BookTypes, Links
    <2>4. Chained' /\ Apart' /\ (~lost' => Listed' = live')
      BY <1>1, <2>1, <2>2 DEF Chained, Apart
    <2> QED  BY <1>3, <2>3, <2>4 DEF ListInv
  <1>5. CASE prev_entry[e] # -1 /\ next_entry[e] # -1
    <2>1. PICK p \in live : p = prev_entry[e]
      BY <1>2, <1>5 DEF Phonebook!ReachesFreed, Phonebook!Null
    <2>2. PICK q \in live : q = next_entry[e]
      BY <1>2, <1>5 DEF Phonebook!ReachesFreed, Phonebook!Null
    <2>3. /\ next_entry' = [next_entry EXCEPT ![p] = q] /\ prev_entry' = [prev_entry EXCEPT ![q] = p]
          /\ first_entry' = first_entry /\ lost' = lost
      BY <1>5, <2>1, <2>2
         DEF Phonebook!DeleteEntry, Phonebook!Unlink, Phonebook!Null, Phonebook!links
    <2>4. p \in Ids /\ q \in Ids /\ p # -1 /\ q # -1 /\ e # -1
      BY <1>2, IdsAreNumbers
    <2>5. /\ next_entry' \in Links /\ prev_entry' \in Links
          /\ next_entry'[p] = q /\ prev_entry'[q] = p
          /\ \A x \in Ids : x # p => next_entry'[x] = next_entry[x]
          /\ \A x \in Ids : x # q => prev_entry'[x] = prev_entry[x]
      BY <1>2, <2>3, <2>4 DEF Links
    <2>6. BookTypes'
      <3>1. \A x \in Ids : next_entry'[x] < latest_id /\ prev_entry'[x] < latest_id
        BY <1>2, <2>3, <2>4 DEF Links
      <3> QED  BY <1>1, <1>2, <2>3, <2>5, <3>1 DEF BookTypes, Links
    <2>7. /\ Listed \subseteq Ids /\ Listed \subseteq live
          /\ first_entry # -1 => first_entry \in Listed /\ prev_entry[first_entry] = -1
          /\ first_entry = -1 => Listed = {}
      BY <1>1, ListedIds DEF Chained
    <2>8. \A x \in Listed : next_entry[x] # -1 => /\ next_entry[x] \in Listed /\ next_entry[x] > x
                                                  /\ prev_entry[next_entry[x]] = x
      BY <1>1, ListedIds DEF Chained
    <2>9. \A x \in Listed : x # first_entry => prev_entry[x] \in Listed /\ next_entry[prev_entry[x]] = x
      BY <1>1 DEF Chained
    <2>10. CASE e \in Listed
      <3>1. e # first_entry /\ first_entry \in Ids /\ first_entry \in Listed
        BY <1>2, <2>1, <2>4, <2>7, <2>10
      <3>2. p \in Listed /\ next_entry[p] = e /\ q \in Listed /\ prev_entry[q] = e /\ q > e /\ e > p
        BY <2>1, <2>2, <2>4, <2>8, <2>9, <2>10, <3>1
      <3>3. q # e /\ p # e /\ p # q /\ q > p
        BY <2>4, <1>2, <3>2, IdsAreNumbers
      <3>4. Listed' = Listed \ {e}
        <4>1. PICK new \in Links : new = next_entry'
          BY <2>5
        <4>2. PICK first \in Ids : first = first_entry
          BY <3>1
        <4>3. Listed' = From(first, new) /\ Listed = From(first, next_entry)
          BY <2>3, <4>1, <4>2, ListedFrom
        <4>4. \A x \in Listed : next_entry[x] = e => x = p
          BY <2>1, <2>4, <2>8
        <4>5. /\ e \in From(first, next_entry) /\ p \in From(first, next_entry) /\ e # first
              /\ next_entry[e] \in Ids /\ next_entry[e] # e
              /\ \A x \in From(first, next_entry) : next_entry[x] = e => x = p
              /\ new[p] = next_entry[e] /\ \A x \in Ids \ {p} : new[x] = next_entry[x]
          BY <2>2, <2>4, <2>5, <2>10, <3>1, <3>2, <3>3, <4>1, <4>2, <4>3, <4>4
        <4>6. From(first, new) = From(first, next_entry) \ {e}
          <5>1. next_entry \in Links /\ next_entry[p] = e /\ first \in Ids /\ new \in Links
            BY <1>2, <3>2, <4>1, <4>2
          <5> QED  BY <4>5, <5>1, FromWithout
        <4> QED  BY <4>3, <4>6
      <3>5. Chained'
        <4>1. Listed' \subseteq live' /\ prev_entry'[first_entry'] = -1
          BY <1>1, <2>3, <2>4, <2>5, <2>7, <3>1, <3>2, <3>4
        <4>2. ASSUME NEW x \in Listed'
              PROVE  /\ next_entry'[x] # -1 => next_entry'[x] > x /\ prev_entry'[next_entry'[x]] = x
                     /\ x # first_entry' => prev_entry'[x] \in Listed' /\ next_entry'[prev_entry'[x]] = x
          <5>0. x \in Listed /\ x \in Ids /\ x # e
            BY <2>7, <3>4, <4>2
          <5>1. next_entry'[x] # -1 => next_entry'[x] > x /\ prev_entry'[next_entry'[x]] = x
            <6>1. CASE x = p
              BY <2>5, <3>3, <6>1
            <6>2. CASE x # p
              <7>1. next_entry'[x] = next_entry[x]
                BY <2>5, <5>0, <6>2
              <7>2. next_entry[x] # -1 => next_entry[x] \in Ids /\ next_entry[x] # q
                BY <2>7, <2>8, <3>2, <5>0
              <7> QED  BY <2>5, <2>8, <5>0, <7>1, <7>2
            <6> QED  BY <6>1, <6>2
          <5>2. x # first_entry => prev_entry'[x] \in Listed \ {e} /\ next_entry'[prev_entry'[x]] = x
            <6>1. CASE x = q
              BY <2>5, <3>2, <3>3, <6>1
            <6>2. CASE x # q
              <7>1. prev_entry'[x] = prev_entry[x]
                BY <2>5, <5>0, <6>2
              <7>2. x # first_entry => /\ prev_entry[x] \in Ids /\ prev_entry[x] # e
                                       /\ prev_entry[x] # p
                BY <2>2, <2>7, <2>9, <3>2, <5>0, <6>2
              <7> QED  BY <2>5, <2>9, <5>0, <7>1, <7>2
            <6> QED  BY <6>1, <6>2
          <5>3. x # first_entry' => prev_entry'[x] \in Listed \ {e} /\ next_entry'[prev_entry'[x]] = x
            BY <2>3, <5>2
          <5>4. \A y \in Listed \ {e} : y \in Listed'
            BY <3>4
          <5> QED  BY <5>1, <5>3, <5>4
        <4> QED  BY <4>1, <4>2 DEF Chained
      <3>6. Apart'
        <4> SUFFICES ASSUME NEW x \in live' \ Listed'
                     PROVE  next_entry'[x] \notin Listed' /\ prev_entry'[x] \notin Listed'
          BY DEF Apart
        <4>1. x \in live \ Listed /\ x \in Ids /\ x # p /\ x # q
          BY <1>1, <1>2, <3>2, <3>4
        <4> QED  BY <1>1, <2>5, <3>4, <4>1 DEF Apart
      <3>7. ~lost' => Listed' = live'
        BY <1>1, <2>3, <3>4 DEF ListInv
      <3> QED  BY <1>3, <2>6, <3>5, <3>6, <3>7 DEF ListInv
    <2>11. CASE e \notin Listed
      <3>1. p \notin Listed /\ q \notin Listed
        BY <1>1, <2>1, <2>2, <2>11 DEF Apart
      <3>2. Listed' = Listed
        <4>1. PICK new \in Links : new = next_entry'
          BY <2>5
        <4>2. PICK first \in Ids \cup {-1} : first = first_entry
          BY <1>2
        <4>3. Listed' = From(first, new) /\ Listed = From(first, next_entry)
          BY <2>3, <4>1, <4>2, ListedFrom
        <4>4. \A x \in From(first, next_entry) : new[x] = next_entry[x]
          BY <2>5, <2>7, <3>1, <4>1, <4>3
        <4> QED  BY <1>2, <4>3, <4>4, FromStays
      <3>3. Chained'
        <4>1. Listed' \subseteq live' /\ (first_entry' # -1 => prev_entry'[first_entry'] = -1)
          BY <1>1, <2>3, <2>5, <2>7, <2>11, <3>1, <3>2
        <4>2. ASSUME NEW x \in Listed'
              PROVE  /\ next_entry'[x] # -1 => next_entry'[x] > x /\ prev_entry'[next_entry'[x]] = x
                     /\ x # first_entry' => prev_entry'[x] \in Listed' /\ next_entry'[prev_entry'[x]] = x
          <5>1. x \in Listed /\ x \in Ids /\ x # p /\ x # q
            BY <2>7, <3>1, <3>2, <4>2
          <5>2. next_entry'[x] = next_entry[x] /\ prev_entry'[x] = prev_entry[x]
            BY <2>5, <5>1
          <5>3. next_entry[x] # -1 => next_entry[x] \in Ids /\ next_entry[x] # q
            BY <2>7, <2>8, <3>1, <5>1
          <5>4. x # first_entry => prev_entry[x] \in Ids /\ prev_entry[x] # p
            BY <2>7, <2>9, <3>1, <5>1
          <5>5. next_entry'[x] # -1 => next_entry'[x] > x /\ prev_entry'[next_entry'[x]] = x
            BY <2>5, <2>8, <5>1, <5>2, <5>3
          <5>6. x # first_entry' => prev_entry'[x] \in Listed /\ next_entry'[prev_entry'[x]] = x
            BY <2>3, <2>5, <2>9, <5>1, <5>2, <5>4
          <5> QED  BY <3>2, <5>5, <5>6
        <4> QED  BY <4>1, <4>2 DEF Chained
      <3>4. Apart'
        <4> SUFFICES ASSUME NEW x \in live \ Listed
                     PROVE  next_entry'[x] \notin Listed /\ prev_entry'[x] \notin Listed
          BY <1>1, <3>2 DEF Apart
        <4>1. next_entry'[x] \in {q, next_entry[x]} /\ prev_entry'[x] \in {p, prev_entry[x]}
          BY <1>2, <2>5
        <4> QED  BY <1>1, <3>1, <4>1 DEF Apart
      <3>5. ~lost' => Listed' = live'
        BY <2>3, <2>11 DEF ListInv
      <3> QED  BY <1>3, <2>6, <3>3, <3>4, <3>5 DEF ListInv
    <2> QED  BY <2>10, <2>11
  <1> QED  BY <1>4, <1>5

LEMMA ListStays ==
    ASSUME ListInv, UNCHANGED <<first_entry, size, latest_id, next_entry, prev_entry, live, lost>>
    PROVE  ListInv'
  <1>1. Listed' = Listed
    BY ListedFrom
  <1> QED  BY <1>1 DEF ListInv, BookTypes, Chained, Apart

(* As long as nothing was lost, all entries are in the list, and so are    *)
(* their neighbours.                                                       *)
LEMMA NeighboursAreLive ==
    ASSUME ListInv, ~lost, NEW e \in live
    PROVE  /\ ~Phonebook!ReachesFreed(e)
           /\ prev_entry[e] \notin Ids \ live
  <1>1. /\ BookTypes /\ Chained /\ Listed = live /\ e \in Ids
        /\ next_entry[e] \in Ids \cup {-1} /\ prev_entry[e] \in Ids \cup {-1}
    BY DEF ListInv, BookTypes
  <1>2. next_entry[e] \in live \cup {-1}
    BY <1>1, ListedIds
  <1>3. prev_entry[e] \in live \cup {-1}
    BY <1>1, IdsAreNumbers DEF Chained
  <1> QED  BY <1>2, <1>3, IdsAreNumbers DEF Phonebook!ReachesFreed, Phonebook!Null

LEMMA BookStep ==
    ASSUME BookInv, Phonebook!Next
    PROVE  BookInv'
  <1>1. ListInv /\ Deleting /\ (~lost => state # "undefined") /\ BookTypes /\ Chained
    BY DEF BookInv, ListInv
  <1>2. /\ first_entry \in Ids \cup {-1} /\ live \subseteq Ids
        /\ \A e \in Ids : next_entry[e] \in Ids \cup {-1}
        /\ first_entry # -1 => /\ first_entry \in live /\ first_entry \in Listed
                               /\ prev_entry[first_entry] = -1
    BY <1>1, ListedIds DEF BookTypes, Chained
  <1>3. ASSUME Phonebook!AddEntry, UNCHANGED lost, UNCHANGED pentry,
               state' # "deleting", state' # "undefined"
        PROVE  BookInv'
    <2>1. ListInv'
      BY <1>1, <1>3, EntryAdded
    <2> QED  BY <1>1, <1>3, <2>1 DEF BookInv, Deleting
  <1>4. ASSUME UNCHANGED <<first_entry, size, latest_id, next_entry, prev_entry, live, lost>>,
               pentry' \in Ids \cup {-1},
               state' = "deleting" => pentry' \in {-1, first_entry},
               state' # "undefined"
        PROVE  BookInv'
    <2>1. ListInv'
      BY <1>1, <1>4, ListStays
    <2> QED  BY <1>4, <2>1 DEF BookInv, Deleting
  <1>5. CASE Phonebook!MenuInput \/ Phonebook!MenuBack \/ Phonebook!CallerMenu
    <2>1. /\ UNCHANGED <<first_entry, size, latest_id, next_entry, prev_entry, live, lost, pentry>>
          /\ state' \notin {"deleting", "undefined"}
      BY <1>5 DEF Phonebook!MenuInput, Phonebook!MenuBack, Phonebook!CallerMenu, Phonebook!links
    <2> QED  BY <1>1, <1>4, <2>1 DEF Deleting
  <1>6. CASE Phonebook!MenuAdd \/ Phonebook!CallerAdd
    BY <1>3, <1>6 DEF Phonebook!MenuAdd, Phonebook!CallerAdd
  <1>7. CASE Phonebook!DeleteBook
    BY <1>2, <1>4, <1>7 DEF Phonebook!DeleteBook, Phonebook!links
  <1>8. ASSUME NEW e \in Ids, Phonebook!CallerDelete(e)
        PROVE  BookInv'
    <2>1. e \in live /\ state = "EXIT" /\ pentry' = pentry
      BY <1>8 DEF Phonebook!CallerDelete
    <2>2. CASE Phonebook!ReachesFreed(e)
      <3>1. UNCHANGED <<first_entry, size, latest_id, next_entry, prev_entry, live, lost>>
            /\ state' = "undefined"
        BY <1>8, <2>2 DEF Phonebook!CallerDelete, Phonebook!links
      <3>2. lost
        BY <1>1, <2>1, <2>2, NeighboursAreLive
      <3>3. ListInv'
        BY <1>1, <3>1, ListStays
      <3> QED  BY <1>1, <2>1, <3>1, <3>2, <3>3 DEF BookInv, Deleting
    <2>3. CASE ~Phonebook!ReachesFreed(e)
      <3>1. Phonebook!DeleteEntry(e) /\ state' = state
        BY <1>8, <2>3 DEF Phonebook!CallerDelete
      <3>2. ListInv'
        BY <1>1, <2>1, <2>3, <3>1, EntryRemoved
      <3> QED  BY <1>1, <2>1, <3>1, <3>2 DEF BookInv, Deleting
    <2> QED  BY <2>2, <2>3
  <1>9. CASE Phonebook!DeleteNext
    <2>1. state = "deleting" /\ pentry \in Ids \cup {-1}
          /\ (pentry \in {-1, first_entry} \/ (pentry \in live /\ prev_entry[pentry] \in Ids \ live))
      BY <1>1, <1>9 DEF Phonebook!DeleteNext, Deleting
    <2>2. CASE pentry = -1
      <3>1. UNCHANGED <<first_entry, size, latest_id, next_entry, prev_entry, live, lost, pentry>>
            /\ state' = "freed"
        BY <1>9, <2>2 DEF Phonebook!DeleteNext, Phonebook!Null, Phonebook!links
      <3> QED  BY <1>4, <2>1, <3>1
    <2>3. CASE pentry # -1 /\ Phonebook!ReachesFreed(pentry)
      <3>1. UNCHANGED <<first_entry, size, latest_id, next_entry, prev_entry, live, lost, pentry>>
            /\ state' = "undefined"
        BY <1>9, <2>3 DEF Phonebook!DeleteNext, Phonebook!Null, Phonebook!links
      <3>2. pentry \in live
        BY <1>2, <2>1, <2>3
      <3>3. lost
        BY <1>1, <2>3, <3>2, NeighboursAreLive
      <3>4. ListInv'
        BY <1>1, <3>1, ListStays
      <3> QED  BY <2>1, <3>1, <3>3, <3>4 DEF BookInv, Deleting
    <2>4. CASE pentry # -1 /\ ~Phonebook!ReachesFreed(pentry)
      <3>1. PICK e \in live : e = pentry
        BY <1>2, <2>1, <2>4
      <3>2. /\ Phonebook!DeleteEntry(e) /\ pentry' = next_entry[e] /\ state' = state
            /\ live' = live \ {e}
        BY <1>9, <2>4, <3>1
           DEF Phonebook!DeleteNext, Phonebook!Null, Phonebook!DeleteEntry
      <3>3. ListInv'
        BY <1>1, <2>4, <3>1, <3>2, EntryRemoved
      <3>4. next_entry[e] \in Ids \cup {-1}
        BY <1>2
      <3>5. CASE e = first_entry
        <4>1. UNCHANGED <<next_entry, prev_entry>>
          BY <1>2, <3>2, <3>5, IdsAreNumbers
             DEF Phonebook!DeleteEntry, Phonebook!Unlink, Phonebook!Null, Phonebook!links
        <4>2. CASE next_entry[e] = -1
          BY <2>1, <3>2, <3>3, <3>4, <4>2 DEF BookInv, Deleting
        <4>3. CASE next_entry[e] # -1
          <5>1. PICK b : b = next_entry[e]
            OBVIOUS
          <5>2. b \in Listed /\ b > e /\ prev_entry[b] = e
            BY <1>1, <1>2, <3>1, <3>5, <4>3, <5>1, ListedIds, IdsAreNumbers DEF Chained
          <5>3. b \in live' /\ e \in Ids \ live'
            BY <1>1, <1>2, <3>2, <5>2, IdsAreNumbers DEF Chained
          <5>4. pentry' \in live' /\ prev_entry'[pentry'] \in Ids \ live'
            BY <3>2, <4>1, <5>1, <5>2, <5>3
          <5> QED  BY <2>1, <3>2, <3>3, <3>4, <5>4 DEF BookInv, Deleting
        <4> QED  BY <4>2, <4>3
      <3>6. CASE e # first_entry
        <4>1. prev_entry[e] \in Ids \ live
          BY <2>1, <2>4, <3>1, <3>6
        <4>2. next_entry[e] = -1
          BY <2>4, <3>1, <4>1, IdsAreNumbers DEF Phonebook!ReachesFreed, Phonebook!Null
        <4> QED  BY <2>1, <3>2, <3>3, <3>4, <4>2 DEF BookInv, Deleting
      <3> QED  BY <3>5, <3>6
    <2> QED  BY <2>2, <2>3, <2>4
  <1> QED  BY <1>5, <1>6, <1>7, <1>8, <1>9 DEF Phonebook!Next, Phonebook!Ids, Ids

LEMMA BookInitially ==
    ASSUME Phonebook!Init PROVE BookInv
  <1>1. /\ first_entry = -1 /\ size = 0 /\ latest_id = 0 /\ live = {} /\ state = "MENU"
        /\ next_entry = [e \in Ids |-> -1] /\ prev_entry = [e \in Ids |-> -1]
        /\ pentry = -1 /\ ~lost
    BY DEF Phonebook!Init, Phonebook!Null, Ids
  <1>2. Listed = {}
    <2>1. PICK link : link = next_entry
      OBVIOUS
    <2> QED  BY <1>1, <2>1, ListedFrom, FromNowhere
  <1>3. BookTypes
    BY <1>1, Amounts DEF BookTypes
  <1>4. ListInv
    BY <1>1, <1>2, <1>3, FS_EmptySet DEF ListInv, Chained, Apart
  <1> QED  BY <1>1, <1>4 DEF BookInv, Deleting

LEMMA BookKept ==
    ASSUME BookInv, [RunTask]_main_vars
    PROVE  BookInv'
  <1>1. Phonebook!Next \/ UNCHANGED book
    BY DEF RunTask, RunPhonebook, RunFileManager, RunMatrix, RunBytes, RunPlugins,
           RunShell, RunForkTask, RunShmTest, RunMsgTask, RunSocketTask, RunSelectServer,
           main_vars, sequential
  <1>2. CASE Phonebook!Next
    BY <1>2, BookStep
  <1>3. CASE UNCHANGED book
    <2>1. ListInv'
      BY <1>3, ListStays DEF BookInv, book
    <2> QED  BY <1>3, <2>1 DEF BookInv, Deleting, book
  <1> QED  BY <1>1, <1>2, <1>3

(* The list holds no freed entry, and size counts the entries not freed,   *)
(* whatever a caller deletes; and as long as no entry at an end was        *)
(* deleted, the list holds them all, linked both ways, and no deletion     *)
(* reaches freed memory.                                                   *)
THEOREM BookStaysWhole == MainSpec => []PhonebookSound
  <1>1. MainInit => BookInv
    BY BookInitially DEF MainInit
  <1>2. BookInv /\ [RunTask]_main_vars => BookInv'
    BY BookKept
  <1>3. BookInv => PhonebookSound
    <2> SUFFICES ASSUME BookInv PROVE PhonebookSound
      OBVIOUS
    <2>1. /\ Listed \subseteq live /\ size = Cardinality(live)
          /\ ~lost => Listed = live /\ state # "undefined"
          /\ \A e \in Listed : next_entry[e] # -1 => prev_entry[next_entry[e]] = e
      BY DEF BookInv, ListInv, Chained
    <2> QED  BY <2>1, BookCounts DEF PhonebookSound, Phonebook!Sound, Phonebook!Null, Listed
  <1> QED  BY <1>1, <1>2, <1>3, PTL DEF MainSpec

-----------------------------------------------------------------------------
(* The file manager.  While the program is started only one panel has been *)
(* painted; afterwards the other one shows the path to come back to, or it *)
(* was not painted for a file.  The window may lie before or after the     *)
(* listing, but never begins before its first name nor ends after its last.*)
Folders == FileManager!Dirs
Panels ==
    /\ cwd \in Folders /\ active_window \in 0..1
    /\ shown \in [0..1 -> Folders \cup {"NULL"}]
    /\ memorized_path \in Folders \cup {"NULL"}
    /\ pc \in {"start", "first", "second", "loop", "quit"}
    /\ pc \in {"start", "first"} => memorized_path = "NULL" /\ active_window = 0
    /\ pc = "first" => shown[0] = cwd
    /\ pc \in {"second", "loop", "quit"} =>
          /\ shown[active_window] = cwd \/ (FileManager!Unpainted(cwd) /\ selection = 0)
          /\ shown[1 - active_window] = memorized_path \/ FileManager!Unpainted(memorized_path)
          /\ memorized_path \in Folders
Window ==
    /\ n \in Nat /\ line_first \in Nat /\ line_last \in Int /\ selection \in Nat
    /\ pc # "start" => /\ n = Len(Listing[cwd])
                       /\ selection < n /\ line_last < n

FilesInv == Panels /\ Window

(* get_namelist enters a listing of at least two names at its first or its *)
(* second, with a window that ends in it.                                  *)
LEMMA Entered ==
    ASSUME Window, NEW d \in Folders, NEW s \in 0..1, FileManager!Namelist(d, s)
    PROVE  /\ cwd' = d /\ n' = Len(Listing[d]) /\ n' \in Nat
           /\ selection' = s /\ selection' < n'
           /\ line_first' = line_first /\ line_last' \in Int /\ line_last' < n'
  <1>1. Listing[d] \in Seq(Folders \cup {File}) /\ Len(Listing[d]) \in Nat /\ Len(Listing[d]) >= 2
    BY Directories, LenProperties DEF Folders, FileManager!Dirs
  <1>2. n' = Len(Listing[d]) /\ cwd' = d /\ selection' = s /\ UNCHANGED line_first
        /\ line_last' = IF n' > screen_height THEN screen_height - 1 - 1 - 1 ELSE n' - 1
    BY DEF FileManager!Namelist, FileManager!bottom_padding, FileManager!top_padding
  <1> QED  BY <1>1, <1>2, Directories

(* A switch of panels comes to the path memorized, where it paints nothing *)
(* if it finds a file first, or else to the directory it finds there.      *)
LEMMA Switched ==
    ASSUME FilesInv, pc \in {"first", "second", "loop"}, pc' \in {"second", "loop"},
           FileManager!SwitchWindow
    PROVE  FilesInv'
  <1> DEFINE d == FileManager!Memorized
  <1> DEFINE e == Listing[d][1]
  <1>1. d \in Folders
    BY DEF FilesInv, Panels, FileManager!Memorized, FileManager!NoPath
  <1>2. /\ active_window' = (active_window + 1) % 2 /\ memorized_path' = cwd
        /\ IF e = File
           THEN FileManager!Namelist(d, 0) /\ UNCHANGED shown
           ELSE FileManager!Namelist(e, 1) /\ shown' = [shown EXCEPT ![active_window'] = cwd']
    BY DEF FileManager!SwitchWindow, FileManager!EnterFirst, FileManager!Paint
  <1>3. active_window' = 1 - active_window /\ active_window' \in 0..1
    BY <1>2 DEF FilesInv, Panels
  <1>4. 1 - active_window' = active_window
    BY <1>3 DEF FilesInv, Panels
  <1>5. shown[active_window] = cwd \/ FileManager!Unpainted(cwd)
    BY DEF FilesInv, Panels
  <1>6. e \in Folders \cup {File}
    <2>1. Listing[d] \in Seq(Folders \cup {File}) /\ Len(Listing[d]) \in Nat /\ Len(Listing[d]) >= 2
      BY <1>1, Directories, LenProperties DEF Folders, FileManager!Dirs
    <2>2. 1 \in 1..Len(Listing[d])
      BY <2>1
    <2> QED  BY <2>1, <2>2, ElementOfSeq
  <1>7. CASE e = File
    <2>1. FileManager!Namelist(d, 0) /\ UNCHANGED shown
      BY <1>2, <1>7
    <2>2. cwd' = d /\ selection' = 0 /\ Window'
      BY <1>1, <2>1, Entered DEF FilesInv, Window
    <2>3. FileManager!Unpainted(cwd')
      BY <1>7, <2>2 DEF FileManager!Unpainted
    <2> HIDE DEF d, e
    <2>4. Panels'
      BY <1>1, <1>2, <1>3, <1>4, <1>5, <2>1, <2>2, <2>3 DEF FilesInv, Panels, FileManager!Unpainted
    <2> QED  BY <2>2, <2>4 DEF FilesInv
  <1>8. CASE e # File
    <2>1. e \in Folders /\ FileManager!Namelist(e, 1)
          /\ shown' = [shown EXCEPT ![active_window'] = cwd']
      BY <1>2, <1>6, <1>8
    <2> HIDE DEF d, e
    <2>2. cwd' = e /\ Window'
      BY <2>1, Entered DEF FilesInv, Window
    <2>3. shown' \in [0..1 -> Folders \cup {"NULL"}] /\ shown'[active_window'] = cwd'
          /\ shown'[active_window] = shown[active_window]
      BY <1>3, <2>1, <2>2 DEF FilesInv, Panels
    <2>4. Panels'
      BY <1>1, <1>2, <1>3, <1>4, <1>5, <2>1, <2>2, <2>3 DEF FilesInv, Panels, FileManager!Unpainted
    <2> QED  BY <2>2, <2>4 DEF FilesInv
  <1> QED  BY <1>7, <1>8

(* The cursor is moved to a name of the listing, and the window, if it     *)
(* must follow, moves towards the listing.                                 *)
LEMMA Selected ==
    ASSUME FilesInv, pc = "loop", NEW s \in Nat, s < n, FileManager!Select(s)
    PROVE  FilesInv'
  <1>1. /\ UNCHANGED <<cwd, n, active_window, memorized_path, pc>> /\ selection' = s
        /\ shown' = [shown EXCEPT ![active_window] = cwd]
    BY DEF FileManager!Select, FileManager!Paint
  <1>2. line_first' \in Nat /\ line_last' \in Int /\ line_last' < n
    BY DEF FileManager!Select, FileManager!Scroll, FilesInv, Window
  <1>3. Window'
    BY <1>1, <1>2 DEF FilesInv, Window
  <1>4. Panels'
    BY <1>1 DEF FilesInv, Panels
  <1> QED  BY <1>3, <1>4 DEF FilesInv

LEMMA FilesStep == FilesInv /\ FileManager!Next => FilesInv'
  <1> SUFFICES ASSUME FilesInv, FileManager!Next PROVE FilesInv'
    OBVIOUS
  <1>1. CASE FileManager!Start
    <2>1. /\ FileManager!Namelist(cwd, 1) /\ pc = "start" /\ pc' = "first"
          /\ shown' = [shown EXCEPT ![active_window] = cwd']
          /\ UNCHANGED <<active_window, memorized_path>>
      BY <1>1 DEF FileManager!Start, FileManager!Paint
    <2>2. cwd' = cwd /\ Window'
      BY <2>1, Entered DEF FilesInv, Panels, Window
    <2>3. Panels'
      BY <2>1, <2>2 DEF FilesInv, Panels
    <2> QED  BY <2>2, <2>3 DEF FilesInv
  <1>2. CASE FileManager!FirstSwitches
    BY <1>2, Switched DEF FileManager!FirstSwitches
  <1>3. CASE FileManager!KeyTab
    BY <1>3, Switched DEF FileManager!KeyTab
  <1>4. CASE FileManager!KeyDown
    <2>1. pc = "loop" /\ selection + 1 \in Nat /\ selection + 1 < n /\ FileManager!Select(selection + 1)
      BY <1>4 DEF FileManager!KeyDown, FilesInv, Window
    <2> QED  BY <2>1, Selected
  <1>5. CASE FileManager!KeyUp
    <2>1. pc = "loop" /\ selection - 1 \in Nat /\ selection - 1 < n /\ FileManager!Select(selection - 1)
      BY <1>5 DEF FileManager!KeyUp, FilesInv, Window
    <2> QED  BY <2>1, Selected
  <1>6. CASE FileManager!KeyEnter
    <2> DEFINE d == Listing[cwd][selection + 1]
    <2>1. d \in Folders
      <3>1. /\ Listing[cwd] \in Seq(Folders \cup {File}) /\ n = Len(Listing[cwd])
            /\ selection + 1 \in 1..n /\ d # File
        BY <1>6, Directories DEF FileManager!KeyEnter, FilesInv, Panels, Window, Folders,
                                 FileManager!Dirs
      <3>2. d \in Folders \cup {File}
        BY <3>1, ElementOfSeq
      <3> QED  BY <3>1, <3>2
    <2>2. /\ FileManager!Namelist(d, 1) /\ pc = "loop"
          /\ shown' = [shown EXCEPT ![active_window] = cwd']
          /\ UNCHANGED <<active_window, memorized_path, pc>>
      BY <1>6 DEF FileManager!KeyEnter, FileManager!Paint
    <2> HIDE DEF d
    <2>3. cwd' = d /\ Window'
      BY <2>1, <2>2, Entered DEF FilesInv, Window
    <2>4. Panels'
      BY <2>1, <2>2, <2>3 DEF FilesInv, Panels
    <2> QED  BY <2>3, <2>4 DEF FilesInv
  <1>7. CASE FileManager!KeyQuit
    BY <1>7 DEF FileManager!KeyQuit, FilesInv, Panels, Window
  <1> QED
    BY <1>1, <1>2, <1>3, <1>4, <1>5, <1>6, <1>7 DEF FileManager!Next

LEMMA FilesKept == MainSpec => []FilesInv
  <1>1. MainInit => FilesInv
    BY Directories DEF MainInit, FileManager!Init, FileManager!NoPath, FilesInv, Panels, Window,
                       Folders, FileManager!Dirs
  <1>2. FilesInv /\ [RunTask]_main_vars => FilesInv'
    <2>1. [RunTask]_main_vars => FileManager!Next \/ UNCHANGED files
      BY DEF RunTask, main_vars, sequential, RunPhonebook, RunFileManager, RunMatrix, RunBytes,
             RunPlugins, RunShell, RunForkTask, RunShmTest, RunMsgTask, RunSocketTask,
             RunSelectServer
    <2>2. FilesInv /\ UNCHANGED files => FilesInv'
      BY DEF files, FilesInv, Panels, Window
    <2> QED  BY <2>1, <2>2, FilesStep
  <1> QED  BY <1>1, <1>2, PTL DEF MainSpec

(* Whatever keys are pressed in whatever tree of directories, the panel in *)
(* use shows the working directory and the other the one Tab returns to,   *)
(* unless that directory was switched to and begins with a file.           *)
THEOREM PanelsKeepTheirDirectories == MainSpec => []PanelsKept
  <1>1. FilesInv => PanelsKept
    BY DEF FilesInv, Panels, PanelsKept, FileManager!PanelsKept
  <1> QED  BY <1>1, FilesKept, PTL

(* Whatever line_first was left by another directory, and however high the *)
(* screen is, print_text reads only names that the listing has.            *)
THEOREM NamesReadAreListed == MainSpec => []PaintsListed
  <1>1. FilesInv => PaintsListed
    BY DEF FilesInv, Window, PaintsListed, FileManager!PaintsListed, FileManager!Painted
  <1> QED  BY <1>1, FilesKept, PTL

-----------------------------------------------------------------------------
(* The bytes of a word.  A number has so many whole parts, and a rest.     *)
Parts(v, w, q, r) == q \in Int /\ r \in 0..(w - 1) /\ v = q * w + r

LEMMA Division ==
    ASSUME NEW w \in Nat \ {0}, NEW v, NEW q, NEW r, Parts(v, w, q, r)
    PROVE  v \div w = q /\ v % w = r
  BY DEF Parts

LEMMA Quotient ==
    ASSUME NEW w \in Nat \ {0}, NEW v \in Nat
    PROVE  \E q \in Nat : \E r \in 0..(w - 1) :
               Parts(v, w, q, r) /\ v = q * w + r /\ v \div w = q /\ v % w = r
  <1>1. /\ v \div w \in Nat /\ v % w \in 0..(w - 1)
        /\ v = (v \div w) * w + (v % w)
    OBVIOUS
  <1> QED  BY <1>1 DEF Parts

(* A rest below w beside fewer than u times w.                             *)
LEMMA Rest ==
    ASSUME NEW u \in Nat \ {0}, NEW w \in Nat \ {0}, NEW q \in 0..(u - 1), NEW r \in 0..(w - 1)
    PROVE  q * w + r \in 0..(u * w - 1) /\ q * w \in 0..(u * w - 1)
  <1>1. q * w >= 0 /\ q * w <= (u - 1) * w
    OBVIOUS
  <1>2. (u - 1) * w = u * w - w /\ q * w \in Int /\ u * w \in Int
    OBVIOUS
  <1> QED  BY <1>1, <1>2

LEMMA Distribute ==
    ASSUME NEW q \in Int, NEW u \in Int, NEW d \in Int, NEW w \in Int
    PROVE  /\ (q * u + d) * w = q * (u * w) + d * w
           /\ (q * u + d) * w = (q * w) * u + d * w
           /\ q * (u * w) \in Int /\ d * w \in Int /\ q * u \in Int /\ q * u + d \in Int
  OBVIOUS

(* A number divided by a product.                                          *)
LEMMA Twice ==
    ASSUME NEW u \in Nat \ {0}, NEW w \in Nat \ {0}, NEW v \in Nat
    PROVE  /\ v \div (u * w) = (v \div w) \div u
           /\ (v \div w) % u = (v % (u * w)) \div w
  <1>1. PICK x \in Nat, l \in 0..(w - 1) : x = v \div w /\ v = x * w + l
    BY Quotient
  <1>2. PICK q \in Nat, d \in 0..(u - 1) : q = x \div u /\ d = x % u /\ x = q * u + d
    BY Quotient
  <1>3. d * w + l \in 0..(u * w - 1) /\ u * w \in Nat \ {0}
    BY Rest
  <1>4. Parts(v, u * w, q, d * w + l)
    <2>1. v = q * (u * w) + (d * w + l)
      <3>1. x * w = q * (u * w) + d * w
        <4>1. (q * u + d) * w = q * (u * w) + d * w
          BY Distribute
        <4> QED  BY <1>2, <4>1
      <3>2. q * (u * w) \in Int /\ d * w \in Int
        OBVIOUS
      <3> QED  BY <1>1, <3>1, <3>2
    <2> QED  BY <1>3, <2>1 DEF Parts
  <1>5. v \div (u * w) = q /\ v % (u * w) = d * w + l
    BY <1>3, <1>4, Division
  <1>6. (d * w + l) \div w = d
    <2>1. Parts(d * w + l, w, d, l)
      BY DEF Parts
    <2> QED  BY <2>1, Division
  <1> QED  BY <1>1, <1>2, <1>5, <1>6

(* An edit at the place that counts w: the byte b is put below all above   *)
(* it, and what is no longer below u times as much is cut off.             *)
LEMMA Edited ==
    ASSUME NEW u \in Nat \ {0}, NEW w \in Nat \ {0}, NEW v \in Nat, NEW b \in 0..(Base - 1)
    PROVE  ((v \div (Base * w)) * (Base * w) + b * w) % (u * (Base * w))
               = (((v \div (Base * w)) % u) * Base + b) * w
  <1>0. PICK k \in Nat \ {0} : k = Base * w
    BY Amounts
  <1>1. PICK x \in Nat : x = v \div k
    BY Quotient
  <1>2. PICK q \in Nat, r \in 0..(u - 1) : r = x % u /\ x = q * u + r
    BY Quotient
  <1>3. PICK c \in 0..(k - 1) : c = b * w
    BY <1>0, Amounts, Rest
  <1>4. u * k \in Nat \ {0}
    OBVIOUS
  <1>5. Parts(x * k + c, u * k, q, r * k + c)
    <2>1. x * k + c = q * (u * k) + (r * k + c)
      BY <1>2, Distribute
    <2>2. r * k + c \in 0..(u * k - 1)
      BY Rest
    <2> QED  BY <2>1, <2>2 DEF Parts
  <1>6. (x * k + c) % (u * k) = r * k + c
    BY <1>4, <1>5, Division
  <1>7. (r * Base + b) * w = r * k + c
    BY <1>0, <1>3, Amounts, Distribute
  <1> QED  BY <1>0, <1>1, <1>2, <1>3, <1>6, <1>7

LEMMA EditedByte ==
    ASSUME NEW w \in Nat \ {0}, NEW x \in Nat, NEW b \in 0..(Base - 1)
    PROVE  (((x * Base + b) * w) \div w) % Base = b
  <1>1. PICK y \in Nat : y = x * Base + b
    BY Amounts
  <1>2. Parts(y * w, w, y, 0) /\ Parts(y, Base, x, b)
    BY <1>1 DEF Parts
  <1> QED  BY <1>1, <1>2, Amounts, Division

LEMMA ByteBelow ==
    ASSUME NEW g \in Nat \ {0}, NEW k \in Nat \ {0}, NEW y \in Nat
    PROVE  ((y * (g * (Base * k))) \div k) % Base = 0
  <1>1. PICK z \in Nat : z = y * g
    OBVIOUS
  <1>2. PICK x \in Nat : x = z * Base
    BY Amounts
  <1>3. y * (g * (Base * k)) = x * k
    BY <1>1, <1>2, Amounts
  <1>4. Parts(x * k, k, x, 0) /\ Parts(x, Base, z, 0)
    BY <1>2, Amounts DEF Parts
  <1> QED  BY <1>3, <1>4, Amounts, Division

LEMMA ByteAbove ==
    ASSUME NEW g \in Nat \ {0}, NEW w \in Nat \ {0}, NEW h \in Nat \ {0}, NEW v \in Nat,
           NEW b \in 0..(Base - 1)
    PROVE  (((((v \div (Base * w)) % (g * (Base * h))) * Base + b) * w)
                \div (g * (Base * w))) % Base
               = (v \div (g * (Base * w))) % Base
  <1>0. PICK k \in Nat \ {0}, m \in Nat \ {0} : k = Base * w /\ m = Base * h
    BY Amounts
  <1>1. PICK x \in Nat : x = v \div k
    BY Quotient
  <1>2. v \div (g * k) = x \div g
    BY <1>1, Twice, ZenonT(60)
  <1>3. g * m \in Nat \ {0} /\ g * k \in Nat \ {0}
    OBVIOUS
  <1>4. PICK q \in Nat, r \in 0..(g * m - 1) : r = x % (g * m) /\ x = q * (g * m) + r
    BY <1>3, Quotient, ZenonT(60)
  <1>5. PICK s \in Nat, t \in 0..(g - 1) : s = r \div g /\ r = s * g + t
    <2>1. r \in Nat
      BY <1>3
    <2> QED  BY <2>1, Quotient
  <1>6. ((r * Base + b) * w) \div (g * k) = s
    <2>1. PICK c \in 0..(k - 1) : c = b * w
      BY <1>0, Amounts, Rest
    <2>2. t * k + c \in 0..(g * k - 1)
      BY Rest
    <2>3. (r * Base + b) * w = r * k + c
      BY <1>0, <1>3, <2>1, Amounts, Distribute
    <2>4. r * k = s * (g * k) + t * k
      <3>1. (s * g + t) * k = s * (g * k) + t * k
        BY Distribute
      <3> QED  BY <1>5, <3>1
    <2>5. (r * Base + b) * w = s * (g * k) + (t * k + c)
      BY <1>3, <2>2, <2>3, <2>4
    <2>6. Parts((r * Base + b) * w, g * k, s, t * k + c)
      BY <2>2, <2>5 DEF Parts
    <2> QED  BY <1>3, <2>6, Division
  <1>7. PICK y \in Nat : y = q * h
    OBVIOUS
  <1>8. PICK yy \in Nat : yy = y * Base
    BY Amounts
  <1>9. x \div g = yy + s
    <2>1. q * (g * m) = yy * g
      BY <1>0, <1>7, <1>8, Amounts
    <2>2. x = (yy + s) * g + t
      <3>1. (yy + s) * g = yy * g + s * g /\ yy * g \in Int /\ s * g \in Int
        OBVIOUS
      <3>2. x = yy * g + (s * g + t)
        BY <1>4, <1>5, <2>1
      <3> QED  BY <3>1, <3>2
    <2>3. Parts(x, g, yy + s, t)
      BY <2>2 DEF Parts
    <2> QED  BY <2>3, Division
  <1>10. (yy + s) % Base = s % Base
    <2>1. PICK z \in Nat, d \in 0..(Base - 1) : d = s % Base /\ s = z * Base + d
      BY Amounts, Quotient, ZenonT(60)
    <2>2. yy + s = (y + z) * Base + d
      BY <1>8, <2>1, Amounts
    <2>3. Parts(yy + s, Base, y + z, d)
      BY <2>2 DEF Parts
    <2> QED  BY <2>1, <2>3, Amounts, Division
  <1> QED  BY <1>0, <1>1, <1>2, <1>4, <1>5, <1>6, <1>9, <1>10

(* A shift by j bytes, one more and k is one by j + k + 1.                 *)
LEMMA Shifts ==
    /\ \A j \in 0..4 : Bytes!Shifted(j) \in Nat \ {0}
    /\ \A j, k \in 0..3 : j + k <= 3 =>
           Bytes!Shifted(j + k + 1) = Bytes!Shifted(j) * (Base * Bytes!Shifted(k))
    /\ Bytes!Shifted(0) = 1
  <1>1. /\ Bytes!Shifted(0) = 1 /\ Bytes!Shifted(1) = Base /\ Bytes!Shifted(2) = Base * Base
        /\ Bytes!Shifted(3) = Base * Base * Base /\ Bytes!Shifted(4) = Base * Base * Base * Base
    BY DEF Bytes!Shifted
  <1>2. \A j \in 0..4 : Bytes!Shifted(j) \in Nat \ {0}
    <2>1. Base \in Nat \ {0} /\ Base * Base \in Nat \ {0}
      BY Amounts
    <2>2. Base * Base * Base \in Nat \ {0}
      BY <2>1
    <2>3. Base * Base * Base * Base \in Nat \ {0}
      BY <2>1, <2>2
    <2> QED  BY <1>1, <2>1, <2>2, <2>3
  <1>3. ASSUME NEW j \in 0..3, NEW k \in 0..3, j + k <= 3
        PROVE  Bytes!Shifted(j + k + 1) = Bytes!Shifted(j) * (Base * Bytes!Shifted(k))
    <2>1. CASE j = 0
      BY <1>1, <1>3, <2>1, Amounts
    <2>2. CASE j = 1
      BY <1>1, <1>3, <2>2, Amounts
    <2>3. CASE j = 2
      BY <1>1, <1>3, <2>3, Amounts
    <2>4. CASE j = 3
      BY <1>1, <1>3, <2>4, Amounts
    <2> QED  BY <2>1, <2>2, <2>3, <2>4
  <1> QED  BY <1>1, <1>2, <1>3

LEMMA BytesOfAnyWord ==
    ASSUME word \in Nat
    PROVE  BytesSound
  <1> SUFFICES ASSUME NEW a \in 0..3
               PROVE  /\ Bytes!get_byte_shift(word, a) = Bytes!get_byte_pointer(word, a)
                      /\ \A b \in 0..(Base - 1) : \A m \in 0..3 :
                            Bytes!get_byte_shift(Bytes!edit_byte_shift(word, b, a), m)
                            = IF m = a THEN b
                              ELSE IF m > a THEN Bytes!get_byte_shift(word, m) ELSE 0
    BY DEF BytesSound, Bytes!BytesSound, Bytes!Places, Bytes!Byte
  <1> DEFINE S(k) == Bytes!Shifted(k)
  <1>1. /\ S(a) \in Nat \ {0} /\ S(a + 1) = Base * S(a)
        /\ S(3 - a) \in Nat \ {0} /\ S(4) = S(3 - a) * (Base * S(a))
    <2>1. 0 \in 0..3 /\ 3 - a \in 0..3 /\ a \in 0..4 /\ 3 - a \in 0..4 /\ 3 - a + a + 1 = 4
          /\ 0 + a + 1 = a + 1 /\ 0 + a <= 3 /\ 3 - a + a <= 3
      OBVIOUS
    <2>2. S(a + 1) = S(0) * (Base * S(a)) /\ S(4) = S(3 - a) * (Base * S(a))
      BY <2>1, Shifts
    <2>3. Base * S(a) \in Int
      BY <2>1, Shifts, Amounts
    <2> QED  BY <2>1, <2>2, <2>3, Shifts
  <1>2. Bytes!get_byte_shift(word, a) = Bytes!get_byte_pointer(word, a)
    <2>1. /\ Bytes!get_byte_shift(word, a) = (word \div S(a)) % Base
          /\ Bytes!get_byte_pointer(word, a) = (word % S(a + 1)) \div S(a)
      BY DEF Bytes!get_byte_shift, Bytes!get_byte_pointer, Bytes!InMemory, Bytes!Places
    <2>2. PICK w \in Nat \ {0} : w = S(a) /\ S(a + 1) = Base * w
      BY <1>1
    <2>3. (word \div w) % Base = (word % (Base * w)) \div w
      BY Amounts, Twice, ZenonT(60)
    <2> QED  BY <2>1, <2>2, <2>3
  <1>3. ASSUME NEW b \in 0..(Base - 1), NEW m \in 0..3
        PROVE  Bytes!get_byte_shift(Bytes!edit_byte_shift(word, b, a), m)
               = IF m = a THEN b
                 ELSE IF m > a THEN Bytes!get_byte_shift(word, m) ELSE 0
    <2> DEFINE x == (word \div (Base * S(a))) % S(3 - a)
    <2>1. Bytes!edit_byte_shift(word, b, a) = (x * Base + b) * S(a)
      <3>1. Bytes!edit_byte_shift(word, b, a)
            = ((word \div (Base * S(a))) * (Base * S(a)) + b * S(a)) % (S(3 - a) * (Base * S(a)))
        BY <1>1 DEF Bytes!edit_byte_shift, Bytes!Erased, Bytes!Width
      <3> HIDE DEF S
      <3> QED  BY <1>1, <3>1, Edited
    <2>2. x \in Nat /\ x * Base + b \in Nat
      <3>1. PICK k \in Nat \ {0} : k = Base * S(a)
        BY <1>1, Amounts
      <3>2. word \div k \in Nat
        BY <3>1
      <3>3. x \in Nat
        BY <1>1, <3>1, <3>2
      <3> QED  BY <3>3, Amounts
    <2>3. Bytes!get_byte_shift(Bytes!edit_byte_shift(word, b, a), m)
          = (((x * Base + b) * S(a)) \div S(m)) % Base
      BY <2>1 DEF Bytes!get_byte_shift
    <2>4. CASE m = a
      <3> HIDE DEF x, S
      <3> QED  BY <1>1, <2>2, <2>3, <2>4, EditedByte
    <2>5. CASE m < a
      <3>1. /\ S(m) \in Nat \ {0} /\ S(a - m - 1) \in Nat \ {0}
            /\ S(a) = S(a - m - 1) * (Base * S(m))
        <4>1. a - m - 1 \in 0..3 /\ a - m - 1 \in 0..4 /\ m \in 0..4
              /\ a - m - 1 + m + 1 = a /\ a - m - 1 + m <= 3
          BY <2>5
        <4> QED  BY <4>1, Shifts
      <3>2. PICK y \in Nat : y = x * Base + b
        BY <2>2
      <3> HIDE DEF x, S
      <3>3. ((y * S(a)) \div S(m)) % Base = 0
        BY <3>1, ByteBelow
      <3> QED  BY <2>3, <2>5, <3>2, <3>3
    <2>6. CASE m > a
      <3>1. /\ S(3 - m) \in Nat \ {0} /\ S(m - a - 1) \in Nat \ {0}
            /\ S(m) = S(m - a - 1) * (Base * S(a))
            /\ S(3 - a) = S(m - a - 1) * (Base * S(3 - m))
        <4>1. m - a - 1 \in 0..3 /\ m - a - 1 \in 0..4 /\ 3 - m \in 0..3 /\ 3 - m \in 0..4
              /\ m - a - 1 + a + 1 = m /\ m - a - 1 + a <= 3
              /\ m - a - 1 + (3 - m) + 1 = 3 - a /\ m - a - 1 + (3 - m) <= 3
          BY <2>6
        <4> QED  BY <4>1, Shifts
      <3>2. Bytes!get_byte_shift(word, m) = (word \div S(m)) % Base
        BY DEF Bytes!get_byte_shift
      <3> HIDE DEF S
      <3>3. (((x * Base + b) * S(a)) \div S(m)) % Base = (word \div S(m)) % Base
        <4>1. PICK g \in Nat \ {0}, w \in Nat \ {0}, h \in Nat \ {0} :
                  g = S(m - a - 1) /\ w = S(a) /\ h = S(3 - m)
          BY <1>1, <3>1
        <4>2. (((((word \div (Base * w)) % (g * (Base * h))) * Base + b) * w)
                   \div (g * (Base * w))) % Base = (word \div (g * (Base * w))) % Base
          BY ByteAbove
        <4>3. S(m) = g * (Base * w) /\ S(3 - a) = g * (Base * h)
          BY <3>1, <4>1
        <4> QED  BY <4>1, <4>2, <4>3
      <3> QED  BY <2>3, <2>6, <3>2, <3>3
    <2> QED  BY <2>4, <2>5, <2>6
  <1> QED  BY <1>2, <1>3

WordInv == word \in Nat

LEMMA WordKept == MainSpec => []WordInv
  <1>1. MainInit => WordInv
    BY DEF MainInit, Bytes!Init, WordInv
  <1>2. WordInv /\ [RunTask]_main_vars => WordInv'
    <2>1. [RunTask]_main_vars => Bytes!Next \/ UNCHANGED word
      BY DEF RunTask, main_vars, sequential, RunPhonebook, RunFileManager, RunMatrix, RunBytes,
             RunPlugins, RunShell, RunForkTask, RunShmTest, RunMsgTask, RunSocketTask,
             RunSelectServer
    <2>2. ASSUME word \in Nat, Bytes!Next PROVE word' \in Nat
      <3>1. PICK b \in 0..(Base - 1), a \in 0..3 : word' = Bytes!edit_byte_shift(word, b, a)
        BY <2>2 DEF Bytes!Next, Bytes!Edit, Bytes!Byte, Bytes!Places
      <3>2. Bytes!Shifted(4) \in Nat \ {0} /\ Bytes!Shifted(a + 1) \in Nat \ {0}
            /\ Bytes!Shifted(a) \in Nat \ {0}
        BY Shifts
      <3>3. PICK c \in Int : word' = c % Bytes!Shifted(4)
        <4>1. Bytes!Erased(word, a) \in Int
          BY <2>2, <3>2 DEF Bytes!Erased
        <4>2. b * Bytes!Shifted(a) \in Int
          BY <3>2, Amounts
        <4> QED  BY <3>1, <4>1, <4>2 DEF Bytes!edit_byte_shift, Bytes!Width
      <3> QED  BY <3>2, <3>3
    <2> QED  BY <2>1, <2>2 DEF WordInv
  <1> QED  BY <1>1, <1>2, PTL DEF MainSpec

(* Bytes of any size, in any word that edits lead to: both getters read    *)
(* the same one, and an edit sets its byte, keeps those above and clears   *)
(* those below.                                                            *)
THEOREM EditsClearOnlyBelow == MainSpec => []BytesSound
  <1>1. WordInv => BytesSound
    BY BytesOfAnyWord DEF WordInv
  <1> QED  BY <1>1, WordKept, PTL

-----------------------------------------------------------------------------
(* The spiral.  Rows[v] and cols[v] say where v was written; the heading   *)
(* of a number is the step to it.                                          *)
Grid(m) == 0..(m - 1)
View(array, m) == [a \in Grid(m) |-> [b \in Grid(m) |-> array[a * m + b]]]
Down(rows, v) == IF v = 1 THEN 0 ELSE rows[v] - rows[v - 1]
Right(cols, v) == IF v = 1 THEN 1 ELSE cols[v] - cols[v - 1]
Open(board, m, v, a, b) ==
    a \in Grid(m) /\ b \in Grid(m) /\ (board[a][b] = 0 \/ board[a][b] > v)
Turns(board, m, rows, cols, v) ==
    LET down == Down(rows, v)
        right == Right(cols, v)
    IN  IF Open(board, m, v, rows[v] + down, cols[v] + right)
        THEN rows[v + 1] = rows[v] + down /\ cols[v + 1] = cols[v] + right
        ELSE rows[v + 1] = rows[v] + right /\ cols[v + 1] = cols[v] - down

(* The numbers up to c are each in one cell, in a spiral.                  *)
Path(board, m, c, rows, cols) ==
    /\ board \in [Grid(m) -> [Grid(m) -> 0..c]]
    /\ rows \in [1..c -> Grid(m)] /\ cols \in [1..c -> Grid(m)]
    /\ \A v \in 1..c : board[rows[v]][cols[v]] = v
    /\ \A a, b \in Grid(m) :
          board[a][b] # 0 => rows[board[a][b]] = a /\ cols[board[a][b]] = b
    /\ c > 0 => rows[1] = 0 /\ cols[1] = 0
    /\ \A v \in 1..(c - 1) : Turns(board, m, rows, cols, v)

(* A turn of the spiral: len empty cells in one direction, which is to the *)
(* right of where the path was heading, and where it could not go on.      *)
Turn(board, m, c, rows, cols, len, R, C, dy, dx) ==
    /\ Path(board, m, c, rows, cols)
    /\ R \in [0..(len - 1) -> Grid(m)] /\ C \in [0..(len - 1) -> Grid(m)]
    /\ \A k \in 1..(len - 1) : R[k] = R[k - 1] + dy /\ C[k] = C[k - 1] + dx
    /\ \A k, j \in 0..(len - 1) : R[k] = R[j] /\ C[k] = C[j] => k = j
    /\ \A k \in 0..(len - 1) : board[R[k]][C[k]] = 0
    /\ c = 0 => R[0] = 0 /\ C[0] = 0 /\ dy = 0 /\ dx = 1
    /\ c > 0 => /\ R[0] = rows[c] + dy /\ C[0] = cols[c] + dx
                /\ Down(rows, c) = -dx /\ Right(cols, c) = dy
                /\ ~Open(board, m, c, rows[c] - dx, cols[c] + dy)

(* The board with the next len numbers in these cells.                     *)
Filled(board, next, m, c, len, R, C) ==
    /\ next \in [Grid(m) -> [Grid(m) -> Nat]]
    /\ \A k \in 0..(len - 1) : next[R[k]][C[k]] = c + 1 + k
    /\ \A a, b \in Grid(m) :
          (\A k \in 0..(len - 1) : ~(R[k] = a /\ C[k] = b)) => next[a][b] = board[a][b]

LEMMA PathGoesOn ==
    ASSUME NEW m \in Nat \ {0}, NEW c \in Nat, NEW len \in Nat \ {0},
           NEW dy \in -1..1, NEW dx \in -1..1, NEW R, NEW C,
           NEW board, NEW rows, NEW cols,
           Turn(board, m, c, rows, cols, len, R, C, dy, dx),
           NEW next, Filled(board, next, m, c, len, R, C)
    PROVE  \E rows2, cols2 :
              /\ Path(next, m, c + len, rows2, cols2)
              /\ rows2[c + len] = R[len - 1] /\ cols2[c + len] = C[len - 1]
              /\ Down(rows2, c + len) = dy /\ Right(cols2, c + len) = dx
  <1> DEFINE rows2 == [v \in 1..(c + len) |-> IF v <= c THEN rows[v] ELSE R[v - c - 1]]
             cols2 == [v \in 1..(c + len) |-> IF v <= c THEN cols[v] ELSE C[v - c - 1]]
  <1>1. /\ board \in [Grid(m) -> [Grid(m) -> 0..c]]
        /\ rows \in [1..c -> Grid(m)] /\ cols \in [1..c -> Grid(m)]
        /\ \A v \in 1..c : board[rows[v]][cols[v]] = v
        /\ \A a, b \in Grid(m) :
              board[a][b] # 0 => rows[board[a][b]] = a /\ cols[board[a][b]] = b
        /\ c > 0 => rows[1] = 0 /\ cols[1] = 0
        /\ \A v \in 1..(c - 1) : Turns(board, m, rows, cols, v)
    BY DEF Turn, Path
  <1>t. /\ R \in [0..(len - 1) -> Grid(m)] /\ C \in [0..(len - 1) -> Grid(m)]
        /\ \A k \in 0..(len - 1) : R[k] \in Grid(m) /\ C[k] \in Grid(m)
    BY DEF Turn
  <1>s. \A k \in 1..(len - 1) : R[k] = R[k - 1] + dy /\ C[k] = C[k - 1] + dx
    BY DEF Turn
  <1>e. \A k \in 0..(len - 1) : board[R[k]][C[k]] = 0
    BY DEF Turn
  <1>n. /\ next \in [Grid(m) -> [Grid(m) -> Nat]]
        /\ \A k \in 0..(len - 1) : next[R[k]][C[k]] = c + 1 + k
        /\ \A a, b \in Grid(m) :
              (\A k \in 0..(len - 1) : ~(R[k] = a /\ C[k] = b)) => next[a][b] = board[a][b]
    BY DEF Filled
  <1>2. /\ \A v \in 1..c : rows2[v] = rows[v] /\ cols2[v] = cols[v]
        /\ \A k \in 0..(len - 1) : rows2[c + 1 + k] = R[k] /\ cols2[c + 1 + k] = C[k]
    <2>1. ASSUME NEW v \in 1..c PROVE rows2[v] = rows[v] /\ cols2[v] = cols[v]
      BY <2>1
    <2>2. ASSUME NEW k \in 0..(len - 1) PROVE rows2[c + 1 + k] = R[k] /\ cols2[c + 1 + k] = C[k]
      <3>1. PICK v \in 1..(c + len) : v = c + 1 + k /\ ~(v <= c) /\ v - c - 1 = k
        OBVIOUS
      <3> QED  BY <3>1
    <2> QED  BY <2>1, <2>2
  <1>3. rows2 \in [1..(c + len) -> Grid(m)] /\ cols2 \in [1..(c + len) -> Grid(m)]
    <2> SUFFICES ASSUME NEW v \in 1..(c + len)
                 PROVE  /\ (IF v <= c THEN rows[v] ELSE R[v - c - 1]) \in Grid(m)
                        /\ (IF v <= c THEN cols[v] ELSE C[v - c - 1]) \in Grid(m)
      OBVIOUS
    <2>1. v <= c => v \in 1..c
      OBVIOUS
    <2>2. ~(v <= c) => v - c - 1 \in 0..(len - 1)
      OBVIOUS
    <2> QED  BY <1>1, <1>t, <2>1, <2>2
  <1> HIDE DEF rows2, cols2
  <1>4. ASSUME NEW v \in 1..(c + len)
        PROVE  \/ v \in 1..c
               \/ \E k \in 0..(len - 1) : v = c + 1 + k
    <2>1. CASE v > c
      <3>1. v - c - 1 \in 0..(len - 1) /\ v = c + 1 + (v - c - 1)
        BY <2>1
      <3> QED  BY <3>1
    <2> QED  BY <2>1
  <1>5. ASSUME NEW a \in Grid(m), NEW b \in Grid(m)
        PROVE  \/ next[a][b] = board[a][b] /\ next[a][b] \in 0..c
               \/ /\ board[a][b] = 0
                  /\ \E k \in 0..(len - 1) : R[k] = a /\ C[k] = b /\ next[a][b] = c + 1 + k
    <2>1. board[a][b] \in 0..c
      BY <1>1
    <2>2. CASE \E k \in 0..(len - 1) : R[k] = a /\ C[k] = b
      BY <1>e, <1>n, <2>2
    <2>3. CASE \A k \in 0..(len - 1) : ~(R[k] = a /\ C[k] = b)
      BY <1>n, <2>1, <2>3
    <2> QED  BY <2>2, <2>3
  <1>6. next \in [Grid(m) -> [Grid(m) -> 0..(c + len)]]
    <2>1. ASSUME NEW a \in Grid(m), NEW b \in Grid(m) PROVE next[a][b] \in 0..(c + len)
      <3>1. CASE next[a][b] \in 0..c
        BY <3>1
      <3>2. CASE \E k \in 0..(len - 1) : next[a][b] = c + 1 + k
        BY <3>2
      <3> QED  BY <1>5, <3>1, <3>2
    <2> QED  BY <1>n, <2>1
  <1>7. ASSUME NEW v \in 1..(c + len) PROVE next[rows2[v]][cols2[v]] = v
    <2>1. CASE v \in 1..c
      <3>1. rows[v] \in Grid(m) /\ cols[v] \in Grid(m) /\ board[rows[v]][cols[v]] = v
        BY <1>1, <2>1
      <3>2. \A k \in 0..(len - 1) : ~(R[k] = rows[v] /\ C[k] = cols[v])
        BY <1>e, <2>1, <3>1
      <3> QED  BY <1>2, <1>n, <2>1, <3>1, <3>2
    <2>2. CASE \E k \in 0..(len - 1) : v = c + 1 + k
      <3>1. PICK k \in 0..(len - 1) : v = c + 1 + k
        BY <2>2
      <3>2. rows2[v] = R[k] /\ cols2[v] = C[k] /\ next[R[k]][C[k]] = c + 1 + k
        BY <1>2, <1>n, <3>1
      <3> QED  BY <3>1, <3>2
    <2> QED  BY <1>4, <2>1, <2>2
  <1>8. ASSUME NEW a \in Grid(m), NEW b \in Grid(m), next[a][b] # 0
        PROVE  rows2[next[a][b]] = a /\ cols2[next[a][b]] = b
    <2>1. CASE next[a][b] = board[a][b] /\ next[a][b] \in 0..c
      <3>1. next[a][b] \in 1..c
        BY <1>8, <2>1
      <3>2. rows[board[a][b]] = a /\ cols[board[a][b]] = b
        BY <1>1, <1>8, <2>1
      <3> QED  BY <1>2, <2>1, <3>1, <3>2
    <2>2. CASE \E k \in 0..(len - 1) : R[k] = a /\ C[k] = b /\ next[a][b] = c + 1 + k
      BY <1>2, <2>2
    <2> QED  BY <1>5, <2>1, <2>2
  <1>9. rows2[1] = 0 /\ cols2[1] = 0
    <2>1. CASE c = 0
      <3>1. 0 \in 0..(len - 1) /\ c + 1 + 0 = 1 /\ R[0] = 0 /\ C[0] = 0
        BY <2>1 DEF Turn
      <3> QED  BY <1>2, <3>1
    <2>2. CASE c > 0
      BY <1>1, <1>2, <2>2
    <2> QED  BY <2>1, <2>2
  <1>10. \A v \in 1..c : Down(rows2, v) = Down(rows, v) /\ Right(cols2, v) = Right(cols, v)
    <2> SUFFICES ASSUME NEW v \in 1..c
                 PROVE  Down(rows2, v) = Down(rows, v) /\ Right(cols2, v) = Right(cols, v)
      OBVIOUS
    <2>1. v # 1 => v - 1 \in 1..c
      OBVIOUS
    <2> QED  BY <1>2, <2>1 DEF Down, Right
  <1>11. \A k \in 0..(len - 1) : Down(rows2, c + 1 + k) = dy /\ Right(cols2, c + 1 + k) = dx
    <2> SUFFICES ASSUME NEW k \in 0..(len - 1)
                 PROVE  Down(rows2, c + 1 + k) = dy /\ Right(cols2, c + 1 + k) = dx
      OBVIOUS
    <2>1. CASE k = 0 /\ c = 0
      <3>1. dy = 0 /\ dx = 1 /\ c + 1 + k = 1
        BY <2>1 DEF Turn
      <3> QED  BY <3>1 DEF Down, Right
    <2>2. CASE k = 0 /\ c > 0
      <3>1. c + 1 + k # 1 /\ c + 1 + k - 1 = c /\ c \in 1..c
        BY <2>2
      <3>2. rows2[c] = rows[c] /\ cols2[c] = cols[c] /\ rows[c] \in Int /\ cols[c] \in Int
        BY <1>1, <1>2, <3>1 DEF Grid
      <3>3. rows2[c + 1 + k] = rows[c] + dy /\ cols2[c + 1 + k] = cols[c] + dx
        BY <1>2, <2>2 DEF Turn
      <3> QED  BY <3>1, <3>2, <3>3 DEF Down, Right
    <2>3. CASE k # 0
      <3>1. k - 1 \in 0..(len - 1) /\ c + 1 + (k - 1) = c + 1 + k - 1 /\ c + 1 + k # 1
            /\ k \in 1..(len - 1)
        BY <2>3
      <3>2. rows2[c + 1 + k] = R[k] /\ rows2[c + 1 + k - 1] = R[k - 1]
            /\ cols2[c + 1 + k] = C[k] /\ cols2[c + 1 + k - 1] = C[k - 1]
        BY <1>2, <3>1
      <3>3. R[k] = R[k - 1] + dy /\ C[k] = C[k - 1] + dx /\ R[k - 1] \in Int /\ C[k - 1] \in Int
        BY <1>s, <1>t, <3>1 DEF Grid
      <3> QED  BY <3>1, <3>2, <3>3 DEF Down, Right
    <2> QED  BY <2>1, <2>2, <2>3
  <1>12. ASSUME NEW v \in 1..(c + len - 1) PROVE Turns(next, m, rows2, cols2, v)
    <2>1. CASE v < c
      <3>1. v \in 1..c /\ v + 1 \in 1..c /\ v \in 1..(c - 1)
        BY <2>1
      <3>2. \A a, b : Open(next, m, v, a, b) <=> Open(board, m, v, a, b)
        <4> SUFFICES ASSUME NEW a \in Grid(m), NEW b \in Grid(m)
                     PROVE  (next[a][b] = 0 \/ next[a][b] > v)
                            <=> (board[a][b] = 0 \/ board[a][b] > v)
          BY DEF Open
        <4> QED  BY <1>5, <2>1
      <3>3. Turns(board, m, rows, cols, v)
        BY <1>1, <3>1
      <3> QED  BY <1>2, <1>10, <3>1, <3>2, <3>3 DEF Turns
    <2>2. CASE v = c
      <3>1. c \in 1..c /\ 0 \in 0..(len - 1) /\ c + 1 + 0 = c + 1 /\ c > 0
        BY <2>2
      <3>2. /\ rows2[c] = rows[c] /\ cols2[c] = cols[c] /\ rows[c] \in Int /\ cols[c] \in Int
            /\ Down(rows2, c) = -dx /\ Right(cols2, c) = dy
            /\ rows2[c + 1] = rows[c] + dy /\ cols2[c + 1] = cols[c] + dx
        <4>1. rows2[c] = rows[c] /\ cols2[c] = cols[c]
          BY <1>2, <3>1
        <4>2. rows[c] \in Int /\ cols[c] \in Int
          BY <1>1, <3>1 DEF Grid
        <4>3. Down(rows2, c) = -dx /\ Right(cols2, c) = dy
          BY <1>10, <3>1 DEF Turn
        <4>4. rows2[c + 1] = R[0] /\ cols2[c + 1] = C[0]
          BY <1>2, <3>1
        <4> QED  BY <3>1, <4>1, <4>2, <4>3, <4>4 DEF Turn
      <3>3. ~Open(next, m, c, rows[c] - dx, cols[c] + dy)
        <4> SUFFICES ASSUME rows[c] - dx \in Grid(m), cols[c] + dy \in Grid(m)
                     PROVE  ~(next[rows[c] - dx][cols[c] + dy] = 0)
                            /\ ~(next[rows[c] - dx][cols[c] + dy] > c)
          BY DEF Open
        <4>1. PICK a \in Grid(m), b \in Grid(m) : a = rows[c] - dx /\ b = cols[c] + dy
          OBVIOUS
        <4>2. board[a][b] # 0
          BY <3>1, <4>1 DEF Open, Turn
        <4> QED  BY <1>5, <4>1, <4>2
      <3>4. rows[c] + -dx = rows[c] - dx /\ cols[c] - -dx = cols[c] + dx
        BY <3>2
      <3> QED  BY <2>2, <3>2, <3>3, <3>4 DEF Turns
    <2>3. CASE v > c
      <3>1. PICK k \in 0..(len - 1) : v = c + 1 + k
        BY <1>4, <2>3
      <3>2. /\ k + 1 \in 0..(len - 1) /\ k + 1 \in 1..(len - 1)
            /\ v + 1 = c + 1 + (k + 1) /\ k + 1 - 1 = k
        BY <3>1
      <3>3. /\ Down(rows2, v) = dy /\ Right(cols2, v) = dx
            /\ rows2[v] = R[k] /\ cols2[v] = C[k]
            /\ rows2[v + 1] = R[k + 1] /\ cols2[v + 1] = C[k + 1]
        BY <1>2, <1>11, <3>1, <3>2
      <3>4. R[k + 1] = R[k] + dy /\ C[k + 1] = C[k] + dx
        BY <1>s, <3>2
      <3>5. next[R[k + 1]][C[k + 1]] = v + 1 /\ v + 1 > v
        BY <1>n, <3>1, <3>2
      <3>6. Open(next, m, v, R[k] + dy, C[k] + dx)
        BY <1>t, <3>2, <3>4, <3>5 DEF Open
      <3> QED  BY <3>3, <3>4, <3>6 DEF Turns
    <2> QED  BY <2>1, <2>2, <2>3
  <1>13. Path(next, m, c + len, rows2, cols2)
    <2>1. \A v \in 1..(c + len) : next[rows2[v]][cols2[v]] = v
      BY <1>7
    <2>2. \A a, b \in Grid(m) :
             next[a][b] # 0 => rows2[next[a][b]] = a /\ cols2[next[a][b]] = b
      BY <1>8
    <2>3. \A v \in 1..(c + len - 1) : Turns(next, m, rows2, cols2, v)
      BY <1>12
    <2>4. PICK t : t = c + len
      OBVIOUS
    <2>5. next \in [Grid(m) -> [Grid(m) -> 0..t]]
      BY <1>6, <2>4
    <2>6. rows2 \in [1..t -> Grid(m)] /\ cols2 \in [1..t -> Grid(m)]
      BY <1>3, <2>4
    <2>7. \A v \in 1..t : next[rows2[v]][cols2[v]] = v
      BY <2>1, <2>4
    <2>8. \A v \in 1..(t - 1) : Turns(next, m, rows2, cols2, v)
      BY <2>3, <2>4
    <2>9. Path(next, m, t, rows2, cols2)
      BY <1>9, <2>2, <2>5, <2>6, <2>7, <2>8, Zenon DEF Path
    <2> QED  BY <2>4, <2>9
  <1>14. /\ rows2[c + len] = R[len - 1] /\ cols2[c + len] = C[len - 1]
         /\ Down(rows2, c + len) = dy /\ Right(cols2, c + len) = dx
    <2>1. len - 1 \in 0..(len - 1) /\ c + 1 + (len - 1) = c + len
      OBVIOUS
    <2> QED  BY <1>2, <1>11, <2>1
  <1> QED  BY <1>13, <1>14

LEMMA GridCells ==
    ASSUME NEW m \in Nat \ {0}
    PROVE  /\ \A a, b \in Grid(m) : /\ a * m + b \in 0..(m * m - 1)
                                    /\ (a * m + b) \div m = a /\ (a * m + b) % m = b
           /\ \A c \in 0..(m * m - 1) : \E a, b \in Grid(m) : c = a * m + b
  <1>1. ASSUME NEW a \in Grid(m), NEW b \in Grid(m)
        PROVE  a * m + b \in 0..(m * m - 1) /\ (a * m + b) \div m = a /\ (a * m + b) % m = b
    <2>1. a * m + b \in 0..(m * m - 1)
      BY Rest DEF Grid
    <2>2. Parts(a * m + b, m, a, b)
      BY DEF Parts, Grid
    <2> QED  BY <2>1, <2>2, Division
  <1>2. ASSUME NEW c \in 0..(m * m - 1) PROVE \E a, b \in Grid(m) : c = a * m + b
    <2>1. c \in Nat /\ c <= m * m - 1 /\ m * m \in Nat
      OBVIOUS
    <2>2. PICK a \in Nat : \E b \in 0..(m - 1) : c = a * m + b
      BY <2>1, Quotient
    <2>3. PICK b \in 0..(m - 1) : c = a * m + b
      BY <2>2
    <2>4. a < m
      <3>1. SUFFICES ASSUME a >= m PROVE FALSE
        OBVIOUS
      <3>2. a * m >= m * m /\ a * m \in Nat
        BY <3>1
      <3> QED  BY <2>1, <2>3, <3>2
    <2>5. a \in Grid(m) /\ b \in Grid(m)
      BY <2>4 DEF Grid
    <2> QED  BY <2>3, <2>5
  <1> QED  BY <1>1, <1>2

Size == matrix_size
Board == View(parray, matrix_size)

(* What is still blank: a rectangle, at a corner of which the next turn    *)
(* begins.                                                                 *)
Top    == IF walk.state = 0 THEN walk.up ELSE walk.up + 1
Bottom == IF walk.state = 2 THEN walk.down ELSE walk.down - 1
First  == IF walk.state = 3 THEN walk.left ELSE walk.left + 1
Last   == IF walk.state = 1 THEN walk.right ELSE walk.right - 1
Blank(a, b) == a \in Top..Bottom /\ b \in First..Last
DownBy  == IF walk.state = 1 THEN 1 ELSE IF walk.state = 3 THEN -1 ELSE 0
RightBy == IF walk.state = 0 THEN 1 ELSE IF walk.state = 2 THEN -1 ELSE 0

WalkRecords == [right : Int, left : Int, down : Int, up : Int, x : Int, y : Int,
                state : 0..3, count : Nat]
WalkTypes ==
    /\ Size \in Nat \ {0}
    /\ parray \in [0..(Size * Size - 1) -> Nat]
    /\ walk \in WalkRecords
AtCorner ==
    /\ 0 <= Top /\ Top <= Bottom + 1 /\ Bottom < Size
    /\ 0 <= First /\ First <= Last + 1 /\ Last < Size
    /\ walk.y = IF walk.state \in {0, 1} THEN Top ELSE Bottom
    /\ walk.x = IF walk.state \in {0, 3} THEN First ELSE Last
    /\ walk.count + (Bottom + 1 - Top) * (Last + 1 - First) = Size * Size
Blanks == \A a, b \in Grid(Size) : Board[a][b] = 0 <=> Blank(a, b)
Arrived(rows, cols) ==
    /\ Path(Board, Size, walk.count, rows, cols)
    /\ walk.count = 0 => walk.state = 0 /\ walk.x = 0 /\ walk.y = 0
    /\ walk.count > 0 =>
          /\ rows[walk.count] = walk.y - DownBy /\ cols[walk.count] = walk.x - RightBy
          /\ Down(rows, walk.count) = -RightBy /\ Right(cols, walk.count) = DownBy
Spiralling == WalkTypes /\ AtCorner /\ Blanks /\ \E rows, cols : Arrived(rows, cols)

(* What Write leaves on the board.                                         *)
LEMMA BoardWritten ==
    ASSUME WalkTypes, NEW len \in Nat \ {0}, NEW dy \in -1..1, NEW dx \in -1..1,
           NEW R \in [0..(len - 1) -> Grid(Size)], NEW C \in [0..(len - 1) -> Grid(Size)],
           \A k \in 0..(len - 1) : R[k] = walk.y + k * dy /\ C[k] = walk.x + k * dx,
           \A k, j \in 0..(len - 1) : R[k] = R[j] /\ C[k] = C[j] => k = j,
           Matrix!Write(len, dx, dy)
    PROVE  /\ parray' \in [0..(Size * Size - 1) -> Nat] /\ Size' = Size
           /\ Filled(Board, Board', Size, walk.count, len, R, C)
  <1> DEFINE cell(k) == (walk.y + k * dy) * Size + walk.x + k * dx
             m == Size
  <1>1. /\ parray' = [c \in DOMAIN parray |->
                        IF \E k \in 0..(len - 1) : cell(k) = c
                        THEN walk.count + 1 + (CHOOSE k \in 0..(len - 1) : cell(k) = c)
                        ELSE parray[c]]
        /\ matrix_size' = matrix_size
    BY DEF Matrix!Write, Size
  <1>2. m \in Nat \ {0} /\ parray \in [0..(m * m - 1) -> Nat] /\ walk.count \in Nat
        /\ walk.y \in Int /\ walk.x \in Int
    BY DEF WalkTypes, WalkRecords
  <1>3. ASSUME NEW k \in 0..(len - 1) PROVE cell(k) = R[k] * m + C[k]
    <2>1. k * dy \in Int /\ k * dx \in Int
      OBVIOUS
    <2>2. (walk.y + k * dy) * m \in Int
      BY <1>2, <2>1
    <2>3. PICK p \in Int, q \in Int, x \in Int :
             p = (walk.y + k * dy) * m /\ q = k * dx /\ x = walk.x
      BY <1>2, <2>1, <2>2
    <2>4. p + x + q = p + (x + q)
      OBVIOUS
    <2>5. R[k] = walk.y + k * dy /\ C[k] = walk.x + k * dx
      OBVIOUS
    <2> QED  BY <2>3, <2>4, <2>5
  <1>4. \A k \in 0..(len - 1) : R[k] \in Grid(m) /\ C[k] \in Grid(m)
    OBVIOUS
  <1> HIDE DEF cell
  <1>5. ASSUME NEW a \in Grid(m), NEW b \in Grid(m), NEW k \in 0..(len - 1)
        PROVE  cell(k) = a * m + b <=> R[k] = a /\ C[k] = b
    <2>1. cell(k) = R[k] * m + C[k]
      BY <1>3
    <2>2. /\ (a * m + b) \div m = a /\ (a * m + b) % m = b
          /\ (R[k] * m + C[k]) \div m = R[k] /\ (R[k] * m + C[k]) % m = C[k]
      BY <1>2, <1>4, GridCells
    <2> QED  BY <2>1, <2>2
  <1>6. \A a, b \in Grid(m) : a * m + b \in 0..(m * m - 1) /\ a * m + b \in DOMAIN parray
    BY <1>2, GridCells
  <1>7. /\ \A a, b \in Grid(m) : Board[a][b] = parray[a * m + b]
        /\ \A a, b \in Grid(m) : Board'[a][b] = parray'[a * m + b]
        /\ DOMAIN Board' = Grid(m) /\ Board' = [a \in Grid(m) |-> Board'[a]]
        /\ \A a \in Grid(m) : Board'[a] = [b \in Grid(m) |-> Board'[a][b]]
    BY <1>1 DEF Board, View, Size
  <1>8. ASSUME NEW a \in Grid(m), NEW b \in Grid(m), NEW k \in 0..(len - 1), R[k] = a, C[k] = b
        PROVE  Board'[a][b] = walk.count + 1 + k
    <2>1. \A j \in 0..(len - 1) : cell(j) = a * m + b => j = k
      BY <1>5, <1>8
    <2>2. cell(k) = a * m + b
      BY <1>5, <1>8
    <2>3. (CHOOSE j \in 0..(len - 1) : cell(j) = a * m + b) = k
      BY <2>1, <2>2
    <2>4. parray'[a * m + b] = walk.count + 1 + (CHOOSE j \in 0..(len - 1) : cell(j) = a * m + b)
      BY <1>1, <1>6, <2>2
    <2> QED  BY <1>7, <2>3, <2>4
  <1>9. ASSUME NEW a \in Grid(m), NEW b \in Grid(m), \A k \in 0..(len - 1) : ~(R[k] = a /\ C[k] = b)
        PROVE  Board'[a][b] = Board[a][b]
    <2>1. ~ \E k \in 0..(len - 1) : cell(k) = a * m + b
      BY <1>5, <1>9
    <2>2. parray'[a * m + b] = parray[a * m + b]
      BY <1>1, <1>6, <2>1
    <2> QED  BY <1>7, <2>2
  <1>10. parray' \in [0..(m * m - 1) -> Nat]
    <2>1. ASSUME NEW c \in 0..(m * m - 1) PROVE parray'[c] \in Nat
      <3>1. CASE \E k \in 0..(len - 1) : cell(k) = c
        <4>1. (CHOOSE k \in 0..(len - 1) : cell(k) = c) \in 0..(len - 1)
          BY <3>1
        <4>2. parray'[c] = walk.count + 1 + (CHOOSE k \in 0..(len - 1) : cell(k) = c)
          BY <1>1, <1>2, <3>1
        <4>3. PICK j \in 0..(len - 1) : parray'[c] = walk.count + 1 + j
          BY <4>1, <4>2
        <4>4. PICK t \in Nat : t = walk.count
          BY <1>2
        <4>5. t + 1 + j \in Nat
          OBVIOUS
        <4> QED  BY <4>3, <4>4, <4>5
      <3>2. CASE ~ \E k \in 0..(len - 1) : cell(k) = c
        BY <1>1, <1>2, <3>2
      <3> QED  BY <3>1, <3>2
    <2>2. parray' = [c \in 0..(m * m - 1) |-> parray'[c]]
      BY <1>1, <1>2
    <2> QED  BY <2>1, <2>2
  <1>11. Board' \in [Grid(m) -> [Grid(m) -> Nat]]
    <2>1. \A a, b \in Grid(m) : Board'[a][b] \in Nat
      BY <1>6, <1>7, <1>10
    <2> QED  BY <1>7, <2>1
  <1>12. Size' = m
    BY <1>1 DEF Size
  <1> QED  BY <1>4, <1>8, <1>9, <1>10, <1>11, <1>12, ZenonT(60) DEF Filled

(* A turn writes blank cells and goes on to the right of where it ends.    *)
Takes(len, dy, dx) ==
    /\ dy = DownBy /\ dx = RightBy
    /\ \A k \in 0..(len - 1) : Blank(walk.y + k * dy, walk.x + k * dx)
    /\ Matrix!Write(len, dx, dy)
Taken(len, dy, dx) ==
    /\ parray' \in [0..(Size * Size - 1) -> Nat] /\ Size' = Size
    /\ \A a, b \in Grid(Size) :
          Board'[a][b] = 0 <=>
              /\ Blank(a, b)
              /\ ~ \E k \in 0..(len - 1) : a = walk.y + k * dy /\ b = walk.x + k * dx
    /\ \E rows, cols :
          /\ Path(Board', Size, walk.count + len, rows, cols)
          /\ rows[walk.count + len] = walk.y + (len - 1) * dy
          /\ cols[walk.count + len] = walk.x + (len - 1) * dx
          /\ Down(rows, walk.count + len) = dy
          /\ Right(cols, walk.count + len) = dx

LEMMA TurnTaken ==
    ASSUME Spiralling, NEW len \in Nat \ {0}, NEW dy \in -1..1, NEW dx \in -1..1,
           Takes(len, dy, dx)
    PROVE  Taken(len, dy, dx)
  <1> SUFFICES
        ASSUME dy = DownBy, dx = RightBy,
               \A k \in 0..(len - 1) : Blank(walk.y + k * dy, walk.x + k * dx),
               Matrix!Write(len, dx, dy)
        PROVE  Taken(len, dy, dx)
    BY DEF Takes
  <1> DEFINE R == [k \in 0..(len - 1) |-> walk.y + k * dy]
             C == [k \in 0..(len - 1) |-> walk.x + k * dx]
  <1>1. /\ WalkTypes /\ AtCorner /\ Blanks /\ walk.count \in Nat /\ Size \in Nat \ {0}
        /\ walk.y \in Int /\ walk.x \in Int
    BY DEF Spiralling, WalkTypes, WalkRecords
  <1>0. /\ Top \in Int /\ Bottom \in Int /\ First \in Int /\ Last \in Int
        /\ 0 <= Top /\ Top <= Bottom + 1 /\ Bottom < Size
        /\ 0 <= First /\ First <= Last + 1 /\ Last < Size
        /\ walk.y = IF walk.state \in {0, 1} THEN Top ELSE Bottom
        /\ walk.x = IF walk.state \in {0, 3} THEN First ELSE Last
        /\ walk.state \in 0..3
    <2>1. /\ walk.up \in Int /\ walk.down \in Int /\ walk.left \in Int /\ walk.right \in Int
          /\ walk.state \in 0..3
      BY <1>1 DEF WalkTypes, WalkRecords
    <2>2. Top \in Int /\ Bottom \in Int /\ First \in Int /\ Last \in Int
      BY <2>1 DEF Top, Bottom, First, Last
    <2> QED  BY <1>1, <2>1, <2>2 DEF AtCorner
  <1>2. PICK rows, cols : Arrived(rows, cols)
    BY DEF Spiralling
  <1>3. \A a, b : Blank(a, b) => a \in Grid(Size) /\ b \in Grid(Size)
    BY <1>0, <1>1 DEF Blank, Grid
  <1>4. /\ R \in [0..(len - 1) -> Grid(Size)] /\ C \in [0..(len - 1) -> Grid(Size)]
        /\ \A k \in 0..(len - 1) : R[k] = walk.y + k * dy /\ C[k] = walk.x + k * dx
    BY <1>3
  <1> HIDE DEF R, C
  <1>5. (dy = 0 /\ dx \in {-1, 1}) \/ (dx = 0 /\ dy \in {-1, 1})
    BY <1>1 DEF WalkTypes, WalkRecords, DownBy, RightBy
  <1>6. \A k, j \in 0..(len - 1) : R[k] = R[j] /\ C[k] = C[j] => k = j
    <2> SUFFICES ASSUME NEW k \in 0..(len - 1), NEW j \in 0..(len - 1),
                        R[k] = R[j], C[k] = C[j]
                 PROVE  k = j
      OBVIOUS
    <2>1. walk.y + k * dy = walk.y + j * dy /\ walk.x + k * dx = walk.x + j * dx
      BY <1>4
    <2>2. CASE dy = 0 /\ dx \in {-1, 1}
      BY <1>1, <2>1, <2>2
    <2>3. CASE dx = 0 /\ dy \in {-1, 1}
      BY <1>1, <2>1, <2>3
    <2> QED  BY <1>5, <2>2, <2>3
  <1>7. \A k \in 1..(len - 1) : R[k] = R[k - 1] + dy /\ C[k] = C[k - 1] + dx
    <2> SUFFICES ASSUME NEW k \in 1..(len - 1)
                 PROVE  R[k] = R[k - 1] + dy /\ C[k] = C[k - 1] + dx
      OBVIOUS
    <2>1. k \in 0..(len - 1) /\ k - 1 \in 0..(len - 1)
      OBVIOUS
    <2>2. R[k] = walk.y + k * dy /\ R[k - 1] = walk.y + (k - 1) * dy
          /\ C[k] = walk.x + k * dx /\ C[k - 1] = walk.x + (k - 1) * dx
      BY <1>4, <2>1
    <2>3. k * dy = (k - 1) * dy + dy /\ k * dx = (k - 1) * dx + dx
          /\ (k - 1) * dy \in Int /\ (k - 1) * dx \in Int
      BY <1>5
    <2> QED  BY <1>1, <2>2, <2>3
  <1>8. R[0] = walk.y /\ C[0] = walk.x
    <2>1. 0 \in 0..(len - 1) /\ 0 * dy = 0 /\ 0 * dx = 0
      OBVIOUS
    <2> QED  BY <1>1, <1>4, <2>1
  <1>9. R[len - 1] = walk.y + (len - 1) * dy /\ C[len - 1] = walk.x + (len - 1) * dx
    BY <1>4
  <1>10. /\ parray' \in [0..(Size * Size - 1) -> Nat] /\ Size' = Size
         /\ Filled(Board, Board', Size, walk.count, len, R, C)
    BY <1>1, <1>4, <1>6, BoardWritten
  <1>11. \A k \in 0..(len - 1) : /\ Board[R[k]][C[k]] = 0
                                 /\ R[k] \in Grid(Size) /\ C[k] \in Grid(Size)
    BY <1>1, <1>3, <1>4 DEF Blanks
  <1>12. walk.count > 0 =>
            ~Open(Board, Size, walk.count, rows[walk.count] - dx, cols[walk.count] + dy)
    <2> SUFFICES ASSUME walk.count > 0,
                        Open(Board, Size, walk.count, rows[walk.count] - dx, cols[walk.count] + dy)
                 PROVE  FALSE
      OBVIOUS
    <2>1. rows[walk.count] = walk.y - dy /\ cols[walk.count] = walk.x - dx
      BY <1>2 DEF Arrived
    <2>2. PICK a \in Grid(Size), b \in Grid(Size) :
             /\ a = walk.y - dy - dx /\ b = walk.x - dx + dy
             /\ Board[a][b] = 0 \/ Board[a][b] > walk.count
      BY <2>1 DEF Open
    <2>3. Board[a][b] \in 0..walk.count
      BY <1>2 DEF Arrived, Path
    <2>4. Blank(a, b)
      BY <1>1, <2>2, <2>3 DEF Blanks
    <2>5. a \in Top..Bottom /\ b \in First..Last
      BY <2>4 DEF Blank
    <2> QED  BY <1>0, <2>2, <2>5 DEF DownBy, RightBy
  <1>13. Turn(Board, Size, walk.count, rows, cols, len, R, C, dy, dx)
    <2>1. Path(Board, Size, walk.count, rows, cols)
      BY <1>2 DEF Arrived
    <2>2. walk.count = 0 => R[0] = 0 /\ C[0] = 0 /\ dy = 0 /\ dx = 1
      BY <1>2, <1>8 DEF Arrived, DownBy, RightBy
    <2>3. walk.count > 0 => /\ R[0] = rows[walk.count] + dy /\ C[0] = cols[walk.count] + dx
                            /\ Down(rows, walk.count) = -dx /\ Right(cols, walk.count) = dy
      BY <1>1, <1>2, <1>8 DEF Arrived
    <2> QED  BY <1>4, <1>6, <1>7, <1>11, <1>12, <2>1, <2>2, <2>3 DEF Turn
  <1>14. \E rows2, cols2 :
            /\ Path(Board', Size, walk.count + len, rows2, cols2)
            /\ rows2[walk.count + len] = R[len - 1] /\ cols2[walk.count + len] = C[len - 1]
            /\ Down(rows2, walk.count + len) = dy /\ Right(cols2, walk.count + len) = dx
    <2>1. PICK m \in Nat \ {0}, c \in Nat : m = Size /\ c = walk.count
      BY <1>1
    <2>2. PICK board, next : board = Board /\ next = Board'
      OBVIOUS
    <2>3. Turn(board, m, c, rows, cols, len, R, C, dy, dx) /\ Filled(board, next, m, c, len, R, C)
      BY <1>10, <1>13, <2>1, <2>2
    <2>4. \E rows2, cols2 :
             /\ Path(next, m, c + len, rows2, cols2)
             /\ rows2[c + len] = R[len - 1] /\ cols2[c + len] = C[len - 1]
             /\ Down(rows2, c + len) = dy /\ Right(cols2, c + len) = dx
      BY <2>3, PathGoesOn
    <2> QED  BY <2>1, <2>2, <2>4
  <1>15. ASSUME NEW a \in Grid(Size), NEW b \in Grid(Size)
         PROVE  Board'[a][b] = 0 <=>
                     /\ Blank(a, b)
                     /\ ~ \E k \in 0..(len - 1) : a = walk.y + k * dy /\ b = walk.x + k * dx
    <2>1. CASE \E k \in 0..(len - 1) : R[k] = a /\ C[k] = b
      <3>1. PICK k \in 0..(len - 1) : R[k] = a /\ C[k] = b
        BY <2>1
      <3>2. Board'[a][b] = walk.count + 1 + k
        BY <1>10, <3>1 DEF Filled
      <3>3. Board'[a][b] # 0
        BY <1>1, <3>2
      <3> QED  BY <1>4, <3>1, <3>3
    <2>2. CASE \A k \in 0..(len - 1) : ~(R[k] = a /\ C[k] = b)
      <3>1. Board'[a][b] = Board[a][b]
        BY <1>10, <2>2 DEF Filled
      <3>2. ~ \E k \in 0..(len - 1) : a = walk.y + k * dy /\ b = walk.x + k * dx
        BY <1>4, <2>2
      <3> QED  BY <1>1, <3>1, <3>2 DEF Blanks
    <2> QED  BY <2>1, <2>2
  <1> QED  BY <1>9, <1>10, <1>14, <1>15 DEF Taken

(* A turn writes len blank cells, leaves the rest blank, and ends beside   *)
(* the last cell, at a corner.                                             *)
TurnOver(len, dy, dx) ==
    /\ Takes(len, dy, dx)
    /\ walk' \in WalkRecords /\ AtCorner' /\ walk'.count = walk.count + len
    /\ \A a, b : Blank(a, b)' <=>
           /\ Blank(a, b)
           /\ ~ \E k \in 0..(len - 1) : a = walk.y + k * dy /\ b = walk.x + k * dx
    /\ walk'.y - DownBy' = walk.y + (len - 1) * dy
    /\ walk'.x - RightBy' = walk.x + (len - 1) * dx
    /\ dy + RightBy' = 0 /\ dx = DownBy'

LEMMA TurnEnds ==
    ASSUME Spiralling, NEW len \in Nat \ {0}, NEW dy \in -1..1, NEW dx \in -1..1,
           TurnOver(len, dy, dx)
    PROVE  Spiralling'
  <1>1. /\ parray' \in [0..(Size * Size - 1) -> Nat] /\ Size' = Size
        /\ \A a, b \in Grid(Size) :
              Board'[a][b] = 0 <=>
                  /\ Blank(a, b)
                  /\ ~ \E k \in 0..(len - 1) : a = walk.y + k * dy /\ b = walk.x + k * dx
        /\ \E rows, cols :
              /\ Path(Board', Size, walk.count + len, rows, cols)
              /\ rows[walk.count + len] = walk.y + (len - 1) * dy
              /\ cols[walk.count + len] = walk.x + (len - 1) * dx
              /\ Down(rows, walk.count + len) = dy
              /\ Right(cols, walk.count + len) = dx
    <2>1. Takes(len, dy, dx)
      BY DEF TurnOver
    <2>2. Taken(len, dy, dx)
      BY <2>1, TurnTaken
    <2> QED  BY <2>2 DEF Taken
  <1>2. WalkTypes'
    <2>1. Size \in Nat \ {0}
      BY DEF Spiralling, WalkTypes, WalkRecords
    <2>2. PICK m : m = Size
      OBVIOUS
    <2> QED  BY <1>1, <2>1, <2>2 DEF WalkTypes, TurnOver
  <1>3. Blanks'
    <2>1. \A a, b \in Grid(Size) : Board'[a][b] = 0 <=> Blank(a, b)'
      BY <1>1 DEF TurnOver
    <2> QED  BY <1>1, <2>1 DEF Blanks
  <1>4. PICK rows, cols :
           /\ Path(Board', Size, walk.count + len, rows, cols)
           /\ rows[walk.count + len] = walk.y + (len - 1) * dy
           /\ cols[walk.count + len] = walk.x + (len - 1) * dx
           /\ Down(rows, walk.count + len) = dy
           /\ Right(cols, walk.count + len) = dx
    BY <1>1
  <1>0. walk.count \in Nat
    BY DEF Spiralling, WalkTypes, WalkRecords
  <1>9. /\ walk'.count = walk.count + len
        /\ walk'.y - DownBy' = walk.y + (len - 1) * dy
        /\ walk'.x - RightBy' = walk.x + (len - 1) * dx
        /\ dy = -(RightBy') /\ dx = DownBy'
        /\ AtCorner'
    BY DEF TurnOver, RightBy
  <1>5. Arrived(rows, cols)'
    <2>1. PICK c \in Nat : c = walk'.count /\ c # 0 /\ c = walk.count + len
      BY <1>0, <1>9
    <2>2. Path(Board', Size', c, rows, cols)
      BY <1>1, <1>4, <2>1
    <2>3. rows[c] = walk'.y - DownBy' /\ cols[c] = walk'.x - RightBy'
      BY <1>4, <1>9, <2>1
    <2>4. Down(rows, c) = -(RightBy') /\ Right(cols, c) = DownBy'
      BY <1>4, <1>9, <2>1
    <2> QED  BY <2>1, <2>2, <2>3, <2>4 DEF Arrived
  <1> QED  BY <1>2, <1>3, <1>5, <1>9 DEF Spiralling

LEMMA Strips ==
    ASSUME NEW h \in Nat, NEW w \in Nat, NEW c \in Nat, NEW all \in Nat, c + h * w = all
    PROVE  /\ (c + w) + (h - 1) * w = all /\ (c + h) + h * (w - 1) = all
           /\ c < all => h > 0 /\ w > 0
           /\ c >= all => h = 0 \/ w = 0
  <1>1. h * w \in Nat /\ (h - 1) * w = h * w - w /\ h * (w - 1) = h * w - h
    OBVIOUS
  <1>2. h = 0 \/ w = 0 => h * w = 0
    OBVIOUS
  <1>3. h > 0 /\ w > 0 => h * w > 0
    OBVIOUS
  <1> QED  BY <1>1, <1>2, <1>3

(* A turn leaves a rectangle that is a row or a column smaller.            *)
LEMMA TurnsKeep ==
    ASSUME Spiralling, Matrix!GoRight \/ Matrix!GoDown \/ Matrix!GoLeft \/ Matrix!GoUp
    PROVE  Spiralling'
  <1>1. /\ walk \in WalkRecords
        /\ walk.up \in Int /\ walk.down \in Int /\ walk.left \in Int /\ walk.right \in Int
        /\ walk.x \in Int /\ walk.y \in Int /\ walk.count \in Nat
        /\ Size \in Nat \ {0} /\ Size * Size \in Nat
    BY DEF Spiralling, WalkTypes, WalkRecords
  <1>2. PICK t \in Int, bo \in Int, f \in Int, la \in Int :
           t = Top /\ bo = Bottom /\ f = First /\ la = Last
    <2>1. Top \in Int /\ Bottom \in Int /\ First \in Int /\ Last \in Int
      BY <1>1 DEF Top, Bottom, First, Last
    <2> QED  BY <2>1
  <1>3. /\ 0 <= t /\ t <= bo + 1 /\ bo < Size /\ 0 <= f /\ f <= la + 1 /\ la < Size
        /\ walk.y = IF walk.state \in {0, 1} THEN t ELSE bo
        /\ walk.x = IF walk.state \in {0, 3} THEN f ELSE la
    BY <1>2 DEF Spiralling, AtCorner
  <1>a. walk.count + (bo + 1 - t) * (la + 1 - f) = Size * Size
    BY <1>2 DEF Spiralling, AtCorner
  <1>4. PICK h \in Nat, w \in Nat : h = bo + 1 - t /\ w = la + 1 - f
    BY <1>3
  <1>5. /\ (walk.count + w) + (h - 1) * w = Size * Size
        /\ (walk.count + h) + h * (w - 1) = Size * Size
        /\ walk.count < Size * Size => h > 0 /\ w > 0
    BY <1>1, <1>4, <1>a, Strips
  <1>6. \A a, b : Blank(a, b) <=> a \in t..bo /\ b \in f..la
    BY <1>2 DEF Blank
  <1>7. ASSUME Matrix!GoRight PROVE Spiralling'
    <2>1. /\ walk.state = 0 /\ h > 0 /\ w > 0 /\ walk.y = t /\ walk.x = f
          /\ walk.right - walk.x = w
      BY <1>1, <1>2, <1>3, <1>4, <1>5, <1>7 DEF Matrix!GoRight, Matrix!Turning, Size, Last
    <2>2. /\ walk'.x = walk.x + w - 1 /\ walk'.y = walk.y + 1 /\ walk'.right = walk.right - 1
          /\ walk'.up = walk.up /\ walk'.down = walk.down /\ walk'.left = walk.left
          /\ walk'.state = 1 /\ walk'.count = walk.count + w /\ walk' \in WalkRecords
          /\ Matrix!Write(w, 1, 0)
      <3>1. /\ Matrix!Write(w, 1, 0)
            /\ walk' = [walk EXCEPT !.x = @ + w - 1, !.y = @ + 1, !.right = @ - 1,
                                    !.state = 1, !.count = @ + w]
        BY <1>7, <2>1 DEF Matrix!GoRight
      <3>2. /\ walk'.x = walk.x + w - 1 /\ walk'.y = walk.y + 1 /\ walk'.right = walk.right - 1
            /\ walk'.up = walk.up /\ walk'.down = walk.down /\ walk'.left = walk.left
            /\ walk'.state = 1 /\ walk'.count = walk.count + w
        BY <1>1, <3>1 DEF WalkRecords
      <3>3. walk' \in WalkRecords
        <4>1. /\ walk.x + w - 1 \in Int /\ walk.y + 1 \in Int /\ walk.right - 1 \in Int
              /\ 1 \in 0..3 /\ walk.count + w \in Nat
          BY <1>1
        <4> QED  BY <1>1, <3>1, <4>1 DEF WalkRecords
      <3> QED  BY <3>1, <3>2, <3>3
    <2>3. walk'.y = t + 1 /\ walk'.x = la
      BY <1>4, <2>1, <2>2
    <2>4. /\ Top' = t + 1 /\ Bottom' = bo /\ First' = f /\ Last' = la
          /\ DownBy' = 1 /\ RightBy' = 0 /\ DownBy = 0 /\ RightBy = 1
      BY <1>1, <1>2, <2>1, <2>2, <2>3 DEF Top, Bottom, First, Last, DownBy, RightBy
    <2>5. AtCorner'
      <3>1. Size' = Size
        BY <2>2 DEF Matrix!Write, Size
      <3>2. walk'.count + (bo + 1 - (t + 1)) * (la + 1 - f) = Size * Size
        <4>1. bo + 1 - (t + 1) = h - 1 /\ la + 1 - f = w
          BY <1>4
        <4> QED  BY <1>5, <2>2, <4>1
      <3>3. walk'.count + (Bottom' + 1 - Top') * (Last' + 1 - First') = Size' * Size'
        BY <2>4, <3>1, <3>2
      <3>4. /\ 0 <= Top' /\ Top' <= Bottom' + 1 /\ Bottom' < Size'
            /\ 0 <= First' /\ First' <= Last' + 1 /\ Last' < Size'
        BY <1>1, <1>3, <1>4, <2>1, <2>4, <3>1
      <3>5. /\ walk'.y = IF walk'.state \in {0, 1} THEN Top' ELSE Bottom'
            /\ walk'.x = IF walk'.state \in {0, 3} THEN First' ELSE Last'
        BY <2>2, <2>3, <2>4
      <3> QED  BY <3>3, <3>4, <3>5, Zenon DEF AtCorner
    <2>6. \A a, b : Blank(a, b)' <=> a \in (t + 1)..bo /\ b \in f..la
      BY <2>4 DEF Blank
    <2>7. \A k \in 0..(w - 1) : /\ walk.y + k * 0 = t /\ walk.x + k * 1 = f + k
                              /\ f + k \in f..la
      BY <1>4, <2>1
    <2>8. \A k \in 0..(w - 1) : Blank(walk.y + k * 0, walk.x + k * 1)
      BY <1>4, <1>6, <2>1, <2>7
    <2>9. ASSUME NEW a, NEW b
          PROVE  Blank(a, b)' <=>
                     /\ Blank(a, b)
                     /\ ~ \E k \in 0..(w - 1) : a = walk.y + k * 0 /\ b = walk.x + k * 1
      <3>1. Blank(a, b) /\ a = t =>
               \E k \in 0..(w - 1) : a = walk.y + k * 0 /\ b = walk.x + k * 1
        <4> SUFFICES ASSUME b \in f..la, a = t
                     PROVE  \E k \in 0..(w - 1) : a = walk.y + k * 0 /\ b = walk.x + k * 1
          BY <1>6
        <4>1. b - f \in 0..(w - 1)
          BY <1>4
        <4>2. PICK k \in 0..(w - 1) : k = b - f
          BY <4>1
        <4>3. a = t /\ b = f + k
          BY <4>2
        <4> QED  BY <2>7, <4>3
      <3>2. (\E k \in 0..(w - 1) : a = walk.y + k * 0 /\ b = walk.x + k * 1) => a = t
        BY <2>7
      <3>3. Blank(a, b)' <=> Blank(a, b) /\ a # t
        BY <1>6, <2>6
      <3> QED  BY <3>1, <3>2, <3>3
    <2>10. (w - 1) * 0 = 0 /\ (w - 1) * 1 = w - 1
      OBVIOUS
    <2>11. TurnOver(w, 0, 1)
      <3>1. /\ walk'.y - DownBy' = walk.y + (w - 1) * 0
            /\ walk'.x - RightBy' = walk.x + (w - 1) * 1
        BY <1>4, <2>1, <2>3, <2>4, <2>10
      <3>2. 0 = DownBy /\ 1 = RightBy /\ 0 + RightBy' = 0 /\ 1 = DownBy'
        BY <2>4
      <3>3. \A a, b : Blank(a, b)' <=>
               /\ Blank(a, b)
               /\ ~ \E k \in 0..(w - 1) : a = walk.y + k * 0 /\ b = walk.x + k * 1
        BY <2>9
      <3>4. walk' \in WalkRecords /\ walk'.count = walk.count + w /\ Matrix!Write(w, 1, 0)
        BY <2>2
      <3> QED  BY <2>5, <2>8, <3>1, <3>2, <3>3, <3>4, Zenon DEF TurnOver, Takes
    <2>12. w \in Nat \ {0} /\ 0 \in -1..1 /\ 1 \in -1..1
      BY <2>1
    <2> QED  BY <2>11, <2>12, TurnEnds
  <1>8. ASSUME Matrix!GoDown PROVE Spiralling'
    <2>1. /\ walk.state = 1 /\ h > 0 /\ w > 0 /\ walk.y = t /\ walk.x = la
          /\ walk.down - walk.y = h
      BY <1>1, <1>2, <1>3, <1>4, <1>5, <1>8 DEF Matrix!GoDown, Matrix!Turning, Size, Bottom
    <2>2. /\ walk'.y = walk.y + h - 1 /\ walk'.x = walk.x - 1 /\ walk'.down = walk.down - 1
          /\ walk'.up = walk.up /\ walk'.left = walk.left /\ walk'.right = walk.right
          /\ walk'.state = 2 /\ walk'.count = walk.count + h /\ walk' \in WalkRecords
          /\ Matrix!Write(h, 0, 1)
      <3>1. /\ Matrix!Write(h, 0, 1)
            /\ walk' = [walk EXCEPT !.y = @ + h - 1, !.x = @ - 1, !.down = @ - 1,
                                    !.state = 2, !.count = @ + h]
        BY <1>8, <2>1 DEF Matrix!GoDown
      <3>2. /\ walk'.y = walk.y + h - 1 /\ walk'.x = walk.x - 1 /\ walk'.down = walk.down - 1
            /\ walk'.up = walk.up /\ walk'.left = walk.left /\ walk'.right = walk.right
            /\ walk'.state = 2 /\ walk'.count = walk.count + h
        BY <1>1, <3>1 DEF WalkRecords
      <3>3. walk' \in WalkRecords
        <4>1. /\ walk.y + h - 1 \in Int /\ walk.x - 1 \in Int /\ walk.down - 1 \in Int
              /\ 2 \in 0..3 /\ walk.count + h \in Nat
          BY <1>1
        <4> QED  BY <1>1, <3>1, <4>1 DEF WalkRecords
      <3> QED  BY <3>1, <3>2, <3>3
    <2>3. walk'.y = bo /\ walk'.x = la - 1
      BY <1>4, <2>1, <2>2
    <2>4. /\ Top' = t /\ Bottom' = bo /\ First' = f /\ Last' = la - 1
          /\ DownBy' = 0 /\ RightBy' = -1 /\ DownBy = 1 /\ RightBy = 0
      BY <1>1, <1>2, <2>1, <2>2, <2>3 DEF Top, Bottom, First, Last, DownBy, RightBy
    <2>5. AtCorner'
      <3>1. Size' = Size
        BY <2>2 DEF Matrix!Write, Size
      <3>2. walk'.count + (bo + 1 - t) * (la - 1 + 1 - f) = Size * Size
        <4>1. bo + 1 - t = h /\ la - 1 + 1 - f = w - 1
          BY <1>4
        <4> QED  BY <1>5, <2>2, <4>1
      <3>3. walk'.count + (Bottom' + 1 - Top') * (Last' + 1 - First') = Size' * Size'
        BY <2>4, <3>1, <3>2
      <3>4. /\ 0 <= Top' /\ Top' <= Bottom' + 1 /\ Bottom' < Size'
            /\ 0 <= First' /\ First' <= Last' + 1 /\ Last' < Size'
        BY <1>1, <1>3, <1>4, <2>1, <2>4, <3>1
      <3>5. /\ walk'.y = IF walk'.state \in {0, 1} THEN Top' ELSE Bottom'
            /\ walk'.x = IF walk'.state \in {0, 3} THEN First' ELSE Last'
        BY <2>2, <2>3, <2>4
      <3> QED  BY <3>3, <3>4, <3>5, Zenon DEF AtCorner
    <2>6. \A a, b : Blank(a, b)' <=> a \in t..bo /\ b \in f..(la - 1)
      BY <2>4 DEF Blank
    <2>7. \A k \in 0..(h - 1) : /\ walk.y + k * 1 = t + k /\ walk.x + k * 0 = la
                              /\ t + k \in t..bo
      BY <1>4, <2>1
    <2>8. \A k \in 0..(h - 1) : Blank(walk.y + k * 1, walk.x + k * 0)
      BY <1>4, <1>6, <2>1, <2>7
    <2>9. ASSUME NEW a, NEW b
          PROVE  Blank(a, b)' <=>
                     /\ Blank(a, b)
                     /\ ~ \E k \in 0..(h - 1) : a = walk.y + k * 1 /\ b = walk.x + k * 0
      <3>1. Blank(a, b) /\ b = la =>
               \E k \in 0..(h - 1) : a = walk.y + k * 1 /\ b = walk.x + k * 0
        <4> SUFFICES ASSUME a \in t..bo, b = la
                     PROVE  \E k \in 0..(h - 1) : a = walk.y + k * 1 /\ b = walk.x + k * 0
          BY <1>6
        <4>1. a - t \in 0..(h - 1)
          BY <1>4
        <4>2. PICK k \in 0..(h - 1) : k = a - t
          BY <4>1
        <4>3. a = t + k /\ b = la
          BY <4>2
        <4> QED  BY <2>7, <4>3
      <3>2. (\E k \in 0..(h - 1) : a = walk.y + k * 1 /\ b = walk.x + k * 0) => b = la
        BY <2>7
      <3>3. Blank(a, b)' <=> Blank(a, b) /\ b # la
        BY <1>6, <2>6
      <3> QED  BY <3>1, <3>2, <3>3
    <2>10. (h - 1) * 1 = h - 1 /\ (h - 1) * 0 = 0
      OBVIOUS
    <2>11. TurnOver(h, 1, 0)
      <3>1. /\ walk'.y - DownBy' = walk.y + (h - 1) * 1
            /\ walk'.x - RightBy' = walk.x + (h - 1) * 0
        BY <1>4, <2>1, <2>3, <2>4, <2>10
      <3>2. 1 = DownBy /\ 0 = RightBy /\ 1 + RightBy' = 0 /\ 0 = DownBy'
        BY <2>4
      <3>3. \A a, b : Blank(a, b)' <=>
               /\ Blank(a, b)
               /\ ~ \E k \in 0..(h - 1) : a = walk.y + k * 1 /\ b = walk.x + k * 0
        BY <2>9
      <3>4. walk' \in WalkRecords /\ walk'.count = walk.count + h /\ Matrix!Write(h, 0, 1)
        BY <2>2
      <3> QED  BY <2>5, <2>8, <3>1, <3>2, <3>3, <3>4, Zenon DEF TurnOver, Takes
    <2>12. h \in Nat \ {0} /\ 1 \in -1..1 /\ 0 \in -1..1
      BY <2>1
    <2> QED  BY <2>11, <2>12, TurnEnds
  <1>9. ASSUME Matrix!GoLeft PROVE Spiralling'
    <2>1. /\ walk.state = 2 /\ h > 0 /\ w > 0 /\ walk.y = bo /\ walk.x = la
          /\ walk.x - walk.left = w
      BY <1>1, <1>2, <1>3, <1>4, <1>5, <1>9 DEF Matrix!GoLeft, Matrix!Turning, Size, First
    <2>2. /\ walk'.x = walk.x - w + 1 /\ walk'.y = walk.y - 1 /\ walk'.left = walk.left + 1
          /\ walk'.up = walk.up /\ walk'.down = walk.down /\ walk'.right = walk.right
          /\ walk'.state = 3 /\ walk'.count = walk.count + w /\ walk' \in WalkRecords
          /\ Matrix!Write(w, -1, 0)
      <3>1. /\ Matrix!Write(w, -1, 0)
            /\ walk' = [walk EXCEPT !.x = @ - w + 1, !.y = @ - 1, !.left = @ + 1,
                                    !.state = 3, !.count = @ + w]
        BY <1>9, <2>1 DEF Matrix!GoLeft
      <3>2. /\ walk'.x = walk.x - w + 1 /\ walk'.y = walk.y - 1 /\ walk'.left = walk.left + 1
            /\ walk'.up = walk.up /\ walk'.down = walk.down /\ walk'.right = walk.right
            /\ walk'.state = 3 /\ walk'.count = walk.count + w
        BY <1>1, <3>1 DEF WalkRecords
      <3>3. walk' \in WalkRecords
        <4>1. /\ walk.x - w + 1 \in Int /\ walk.y - 1 \in Int /\ walk.left + 1 \in Int
              /\ 3 \in 0..3 /\ walk.count + w \in Nat
          BY <1>1
        <4> QED  BY <1>1, <3>1, <4>1 DEF WalkRecords
      <3> QED  BY <3>1, <3>2, <3>3
    <2>3. walk'.y = bo - 1 /\ walk'.x = f
      BY <1>4, <2>1, <2>2
    <2>4. /\ Top' = t /\ Bottom' = bo - 1 /\ First' = f /\ Last' = la
          /\ DownBy' = -1 /\ RightBy' = 0 /\ DownBy = 0 /\ RightBy = -1
      BY <1>1, <1>2, <2>1, <2>2, <2>3 DEF Top, Bottom, First, Last, DownBy, RightBy
    <2>5. AtCorner'
      <3>1. Size' = Size
        BY <2>2 DEF Matrix!Write, Size
      <3>2. walk'.count + (bo - 1 + 1 - t) * (la + 1 - f) = Size * Size
        <4>1. bo - 1 + 1 - t = h - 1 /\ la + 1 - f = w
          BY <1>4
        <4> QED  BY <1>5, <2>2, <4>1
      <3>3. walk'.count + (Bottom' + 1 - Top') * (Last' + 1 - First') = Size' * Size'
        BY <2>4, <3>1, <3>2
      <3>4. /\ 0 <= Top' /\ Top' <= Bottom' + 1 /\ Bottom' < Size'
            /\ 0 <= First' /\ First' <= Last' + 1 /\ Last' < Size'
        BY <1>1, <1>3, <1>4, <2>1, <2>4, <3>1
      <3>5. /\ walk'.y = IF walk'.state \in {0, 1} THEN Top' ELSE Bottom'
            /\ walk'.x = IF walk'.state \in {0, 3} THEN First' ELSE Last'
        BY <2>2, <2>3, <2>4
      <3> QED  BY <3>3, <3>4, <3>5, Zenon DEF AtCorner
    <2>6. \A a, b : Blank(a, b)' <=> a \in t..(bo - 1) /\ b \in f..la
      BY <2>4 DEF Blank
    <2>7. \A k \in 0..(w - 1) : /\ walk.y + k * 0 = bo /\ walk.x + k * (-1) = la - k
                              /\ la - k \in f..la
      BY <1>4, <2>1
    <2>8. \A k \in 0..(w - 1) : Blank(walk.y + k * 0, walk.x + k * (-1))
      BY <1>4, <1>6, <2>1, <2>7
    <2>9. ASSUME NEW a, NEW b
          PROVE  Blank(a, b)' <=>
                     /\ Blank(a, b)
                     /\ ~ \E k \in 0..(w - 1) : a = walk.y + k * 0 /\ b = walk.x + k * (-1)
      <3>1. Blank(a, b) /\ a = bo =>
               \E k \in 0..(w - 1) : a = walk.y + k * 0 /\ b = walk.x + k * (-1)
        <4> SUFFICES ASSUME b \in f..la, a = bo
                     PROVE  \E k \in 0..(w - 1) : a = walk.y + k * 0 /\ b = walk.x + k * (-1)
          BY <1>6
        <4>1. la - b \in 0..(w - 1)
          BY <1>4
        <4>2. PICK k \in 0..(w - 1) : k = la - b
          BY <4>1
        <4>3. a = bo /\ b = la - k
          BY <4>2
        <4> QED  BY <2>7, <4>3
      <3>2. (\E k \in 0..(w - 1) : a = walk.y + k * 0 /\ b = walk.x + k * (-1)) => a = bo
        BY <2>7
      <3>3. Blank(a, b)' <=> Blank(a, b) /\ a # bo
        BY <1>6, <2>6
      <3> QED  BY <3>1, <3>2, <3>3
    <2>10. (w - 1) * 0 = 0 /\ (w - 1) * (-1) = 1 - w
      OBVIOUS
    <2>11. TurnOver(w, 0, -1)
      <3>1. /\ walk'.y - DownBy' = walk.y + (w - 1) * 0
            /\ walk'.x - RightBy' = walk.x + (w - 1) * (-1)
        BY <1>4, <2>1, <2>3, <2>4, <2>10
      <3>2. 0 = DownBy /\ -1 = RightBy /\ 0 + RightBy' = 0 /\ -1 = DownBy'
        BY <2>4
      <3>3. \A a, b : Blank(a, b)' <=>
               /\ Blank(a, b)
               /\ ~ \E k \in 0..(w - 1) : a = walk.y + k * 0 /\ b = walk.x + k * (-1)
        BY <2>9
      <3>4. walk' \in WalkRecords /\ walk'.count = walk.count + w /\ Matrix!Write(w, -1, 0)
        BY <2>2
      <3> QED  BY <2>5, <2>8, <3>1, <3>2, <3>3, <3>4, Zenon DEF TurnOver, Takes
    <2>12. w \in Nat \ {0} /\ 0 \in -1..1 /\ -1 \in -1..1
      BY <2>1
    <2> QED  BY <2>11, <2>12, TurnEnds
  <1>10. ASSUME Matrix!GoUp PROVE Spiralling'
    <2>1. /\ walk.state = 3 /\ h > 0 /\ w > 0 /\ walk.y = bo /\ walk.x = f
          /\ walk.y - walk.up = h
      BY <1>1, <1>2, <1>3, <1>4, <1>5, <1>10 DEF Matrix!GoUp, Matrix!Turning, Size, Top
    <2>2. /\ walk'.y = walk.y - h + 1 /\ walk'.x = walk.x + 1 /\ walk'.up = walk.up + 1
          /\ walk'.down = walk.down /\ walk'.left = walk.left /\ walk'.right = walk.right
          /\ walk'.state = 0 /\ walk'.count = walk.count + h /\ walk' \in WalkRecords
          /\ Matrix!Write(h, 0, -1)
      <3>1. /\ Matrix!Write(h, 0, -1)
            /\ walk' = [walk EXCEPT !.y = @ - h + 1, !.x = @ + 1, !.up = @ + 1,
                                    !.state = 0, !.count = @ + h]
        BY <1>10, <2>1 DEF Matrix!GoUp
      <3>2. /\ walk'.y = walk.y - h + 1 /\ walk'.x = walk.x + 1 /\ walk'.up = walk.up + 1
            /\ walk'.down = walk.down /\ walk'.left = walk.left /\ walk'.right = walk.right
            /\ walk'.state = 0 /\ walk'.count = walk.count + h
        BY <1>1, <3>1 DEF WalkRecords
      <3>3. walk' \in WalkRecords
        <4>1. /\ walk.y - h + 1 \in Int /\ walk.x + 1 \in Int /\ walk.up + 1 \in Int
              /\ 0 \in 0..3 /\ walk.count + h \in Nat
          BY <1>1
        <4> QED  BY <1>1, <3>1, <4>1 DEF WalkRecords
      <3> QED  BY <3>1, <3>2, <3>3
    <2>3. walk'.y = t /\ walk'.x = f + 1
      BY <1>4, <2>1, <2>2
    <2>4. /\ Top' = t /\ Bottom' = bo /\ First' = f + 1 /\ Last' = la
          /\ DownBy' = 0 /\ RightBy' = 1 /\ DownBy = -1 /\ RightBy = 0
      BY <1>1, <1>2, <2>1, <2>2, <2>3 DEF Top, Bottom, First, Last, DownBy, RightBy
    <2>5. AtCorner'
      <3>1. Size' = Size
        BY <2>2 DEF Matrix!Write, Size
      <3>2. walk'.count + (bo + 1 - t) * (la + 1 - (f + 1)) = Size * Size
        <4>1. bo + 1 - t = h /\ la + 1 - (f + 1) = w - 1
          BY <1>4
        <4> QED  BY <1>5, <2>2, <4>1
      <3>3. walk'.count + (Bottom' + 1 - Top') * (Last' + 1 - First') = Size' * Size'
        BY <2>4, <3>1, <3>2
      <3>4. /\ 0 <= Top' /\ Top' <= Bottom' + 1 /\ Bottom' < Size'
            /\ 0 <= First' /\ First' <= Last' + 1 /\ Last' < Size'
        BY <1>1, <1>3, <1>4, <2>1, <2>4, <3>1
      <3>5. /\ walk'.y = IF walk'.state \in {0, 1} THEN Top' ELSE Bottom'
            /\ walk'.x = IF walk'.state \in {0, 3} THEN First' ELSE Last'
        BY <2>2, <2>3, <2>4
      <3> QED  BY <3>3, <3>4, <3>5, Zenon DEF AtCorner
    <2>6. \A a, b : Blank(a, b)' <=> a \in t..bo /\ b \in (f + 1)..la
      BY <2>4 DEF Blank
    <2>7. \A k \in 0..(h - 1) : /\ walk.y + k * (-1) = bo - k /\ walk.x + k * 0 = f
                              /\ bo - k \in t..bo
      BY <1>4, <2>1
    <2>8. \A k \in 0..(h - 1) : Blank(walk.y + k * (-1), walk.x + k * 0)
      BY <1>4, <1>6, <2>1, <2>7
    <2>9. ASSUME NEW a, NEW b
          PROVE  Blank(a, b)' <=>
                     /\ Blank(a, b)
                     /\ ~ \E k \in 0..(h - 1) : a = walk.y + k * (-1) /\ b = walk.x + k * 0
      <3>1. Blank(a, b) /\ b = f =>
               \E k \in 0..(h - 1) : a = walk.y + k * (-1) /\ b = walk.x + k * 0
        <4> SUFFICES ASSUME a \in t..bo, b = f
                     PROVE  \E k \in 0..(h - 1) : a = walk.y + k * (-1) /\ b = walk.x + k * 0
          BY <1>6
        <4>1. bo - a \in 0..(h - 1)
          BY <1>4
        <4>2. PICK k \in 0..(h - 1) : k = bo - a
          BY <4>1
        <4>3. a = bo - k /\ b = f
          BY <4>2
        <4> QED  BY <2>7, <4>3
      <3>2. (\E k \in 0..(h - 1) : a = walk.y + k * (-1) /\ b = walk.x + k * 0) => b = f
        BY <2>7
      <3>3. Blank(a, b)' <=> Blank(a, b) /\ b # f
        BY <1>6, <2>6
      <3> QED  BY <3>1, <3>2, <3>3
    <2>10. (h - 1) * (-1) = 1 - h /\ (h - 1) * 0 = 0
      OBVIOUS
    <2>11. TurnOver(h, -1, 0)
      <3>1. /\ walk'.y - DownBy' = walk.y + (h - 1) * (-1)
            /\ walk'.x - RightBy' = walk.x + (h - 1) * 0
        BY <1>4, <2>1, <2>3, <2>4, <2>10
      <3>2. -1 = DownBy /\ 0 = RightBy /\ -1 + RightBy' = 0 /\ 0 = DownBy'
        BY <2>4
      <3>3. \A a, b : Blank(a, b)' <=>
               /\ Blank(a, b)
               /\ ~ \E k \in 0..(h - 1) : a = walk.y + k * (-1) /\ b = walk.x + k * 0
        BY <2>9
      <3>4. walk' \in WalkRecords /\ walk'.count = walk.count + h /\ Matrix!Write(h, 0, -1)
        BY <2>2
      <3> QED  BY <2>5, <2>8, <3>1, <3>2, <3>3, <3>4, Zenon DEF TurnOver, Takes
    <2>12. h \in Nat \ {0} /\ -1 \in -1..1 /\ 0 \in -1..1
      BY <2>1
    <2> QED  BY <2>11, <2>12, TurnEnds
  <1> QED  BY <1>7, <1>8, <1>9, <1>10

(* An empty matrix, whose first turn begins in its corner.                 *)
LEMMA SpiralStarts ==
    ASSUME Matrix!test_1 PROVE Spiralling'
  <1>1. PICK m \in Nat \ {0} :
           /\ matrix_size' = m
           /\ parray' = [j \in 0..(m * m - 1) |-> 0]
           /\ walk' = [right |-> m, left |-> -1, down |-> m, up |-> 0,
                       x |-> 0, y |-> 0, state |-> 0, count |-> 0]
    <2>1. matrix_size' \in Nat \ {0}
      BY DEF Matrix!test_1
    <2> QED  BY <2>1 DEF Matrix!test_1
  <1>2. /\ Size' = m /\ Top' = 0 /\ Bottom' = m - 1 /\ First' = 0 /\ Last' = m - 1
        /\ DownBy' = 0 /\ RightBy' = 1
    BY <1>1 DEF Size, Top, Bottom, First, Last, DownBy, RightBy
  <1>3. WalkTypes'
    <2>1. m * m \in Int
      OBVIOUS
    <2>2. walk' \in WalkRecords
      BY <1>1 DEF WalkRecords
    <2>3. parray' \in [0..(m * m - 1) -> Nat]
      BY <1>1
    <2> QED  BY <1>2, <2>2, <2>3 DEF WalkTypes
  <1>4. AtCorner'
    <2>1. (m - 1 + 1 - 0) = m /\ 0 + m * m = m * m
      OBVIOUS
    <2>2. walk'.count + (Bottom' + 1 - Top') * (Last' + 1 - First') = Size' * Size'
      BY <1>1, <1>2, <2>1
    <2> QED  BY <1>1, <1>2, <2>2 DEF AtCorner
  <1>5. \A a, b \in Grid(m) : /\ Board'[a] \in [Grid(m) -> 0..0]
                              /\ Board'[a][b] = 0 /\ a \in 0..(m - 1) /\ b \in 0..(m - 1)
    <2>1. ASSUME NEW a \in Grid(m), NEW b \in Grid(m) PROVE Board'[a][b] = 0
      <3>1. a * m + b \in 0..(m * m - 1)
        BY GridCells
      <3>2. Board'[a][b] = parray'[a * m + b]
        BY <1>1 DEF Board, View
      <3> QED  BY <1>1, <3>1, <3>2
    <2>2. \A a \in Grid(m) : Board'[a] = [b \in Grid(m) |-> Board'[a][b]]
      BY <1>1 DEF Board, View
    <2>3. ASSUME NEW a \in Grid(m) PROVE Board'[a] \in [Grid(m) -> 0..0]
      <3>1. Board'[a] = [b \in Grid(m) |-> Board'[a][b]]
        BY <2>2
      <3>2. \A b \in Grid(m) : Board'[a][b] \in 0..0
        BY <2>1
      <3> QED  BY <3>1, <3>2
    <2>4. \A a \in Grid(m) : a \in 0..(m - 1)
      BY DEF Grid
    <2> QED  BY <2>1, <2>3, <2>4
  <1>6. Blanks'
    <2>1. \A a, b \in Grid(m) : Board'[a][b] = 0 <=> Blank(a, b)'
      BY <1>2, <1>5 DEF Blank
    <2> QED  BY <1>2, <2>1 DEF Blanks
  <1>7. \E rows, cols : Arrived(rows, cols)'
    <2>1. PICK none : none = [v \in 1..0 |-> 0]
      OBVIOUS
    <2>2. none \in [1..0 -> Grid(m)]
      BY <2>1
    <2>3. Board' \in [Grid(m) -> [Grid(m) -> 0..0]]
      <3>1. DOMAIN Board' = Grid(m) /\ Board' = [a \in Grid(m) |-> Board'[a]]
        BY <1>1 DEF Board, View
      <3> QED  BY <1>5, <3>1
    <2>4. PICK board : board = Board'
      OBVIOUS
    <2>5. Path(board, m, 0, none, none)
      <3>1. board \in [Grid(m) -> [Grid(m) -> 0..0]]
        BY <2>3, <2>4
      <3>2. \A a, b \in Grid(m) : board[a][b] = 0
        BY <1>5, <2>4
      <3>3. \A v \in 1..0 : FALSE
        OBVIOUS
      <3>4. \A v \in 1..(0 - 1) : FALSE
        OBVIOUS
      <3>5. ~(0 > 0)
        OBVIOUS
      <3> QED  BY <2>2, <3>1, <3>2, <3>3, <3>4, <3>5 DEF Path
    <2>6. walk'.count = 0 /\ walk'.state = 0 /\ walk'.x = 0 /\ walk'.y = 0
      BY <1>1
    <2>7. Path(Board', Size', walk'.count, none, none)
      BY <1>2, <2>4, <2>5, <2>6
    <2>8. Arrived(none, none)'
      BY <2>6, <2>7 DEF Arrived
    <2> QED  BY <2>8
  <1> QED  BY <1>3, <1>4, <1>6, <1>7 DEF Spiralling

(* When every number is written no cell is blank, and the path is the      *)
(* spiral.                                                                 *)
LEMMA SpiralWritten ==
    ASSUME Spiralling, walk.count >= Size * Size PROVE Matrix!IsSpiral
  <1>0. PICK m \in Nat \ {0} : m = matrix_size
    BY DEF Spiralling, WalkTypes, Size
  <1>1. PICK p : m = matrix_size /\ p = parray /\ p \in [0..(m * m - 1) -> Nat]
    BY <1>0 DEF Spiralling, WalkTypes, Size
  <1>2. PICK all \in Nat : all = m * m
    BY <1>1
  <1>3. walk.count = all /\ \A a, b : ~Blank(a, b)
    <2>1. walk.count \in Nat
      BY DEF Spiralling, WalkTypes, WalkRecords
    <2>2. PICK t \in Int, bo \in Int, f \in Int, la \in Int :
             t = Top /\ bo = Bottom /\ f = First /\ la = Last
      <3>1. walk \in WalkRecords
        BY DEF Spiralling, WalkTypes
      <3>2. Top \in Int /\ Bottom \in Int /\ First \in Int /\ Last \in Int
        BY <3>1 DEF WalkRecords, Top, Bottom, First, Last
      <3> QED  BY <3>2
    <2>3. t <= bo + 1 /\ f <= la + 1
      BY <2>2 DEF Spiralling, AtCorner
    <2>4. walk.count + (bo + 1 - t) * (la + 1 - f) = all
      BY <1>1, <1>2, <2>2 DEF Spiralling, AtCorner, Size
    <2>5. PICK h \in Nat, w \in Nat : h = bo + 1 - t /\ w = la + 1 - f
      BY <2>3
    <2>6. walk.count >= all /\ walk.count + h * w = all
      BY <1>1, <1>2, <2>4, <2>5 DEF Size
    <2>7. h = 0 \/ w = 0
      BY <2>1, <2>6, Strips
    <2>8. h * w = 0
      BY <2>7
    <2>9. \A a, b : Blank(a, b) <=> a \in t..bo /\ b \in f..la
      BY <2>2 DEF Blank
    <2> QED  BY <2>1, <2>5, <2>6, <2>7, <2>8, <2>9
  <1>4. PICK rows, cols, board : Path(board, m, all, rows, cols) /\ board = View(p, m)
    BY <1>1, <1>3 DEF Spiralling, Arrived, Board, Size
  <1>5. /\ board \in [Grid(m) -> [Grid(m) -> 0..all]]
        /\ rows \in [1..all -> Grid(m)] /\ cols \in [1..all -> Grid(m)]
        /\ \A v \in 1..all : board[rows[v]][cols[v]] = v
        /\ \A a, b \in Grid(m) :
              board[a][b] # 0 => rows[board[a][b]] = a /\ cols[board[a][b]] = b
        /\ all > 0 => rows[1] = 0 /\ cols[1] = 0
        /\ \A v \in 1..(all - 1) : Turns(board, m, rows, cols, v)
    BY <1>4 DEF Path
  <1>6. \A a, b \in Grid(m) : /\ board[a][b] = p[a * m + b] /\ a * m + b \in DOMAIN p
                              /\ p[a * m + b] \in 1..all
    <2>1. \A a, b \in Grid(m) : board[a][b] = p[a * m + b] /\ a * m + b \in DOMAIN p
      BY <1>1, <1>4, GridCells DEF View
    <2>2. \A a, b \in Grid(m) : board[a][b] # 0
      BY <1>1, <1>3, <1>4 DEF Spiralling, Blanks, Board, Size
    <2>3. \A a, b \in Grid(m) : board[a][b] \in 0..all
      BY <1>5
    <2> QED  BY <2>1, <2>2, <2>3
  <1>7. ASSUME NEW v \in 1..all
        PROVE  /\ rows[v] \in Grid(m) /\ cols[v] \in Grid(m)
               /\ Matrix!At(v) = rows[v] * m + cols[v] /\ p[rows[v] * m + cols[v]] = v
               /\ Matrix!Row(v) = rows[v] /\ Matrix!Col(v) = cols[v]
    <2>1. rows[v] \in Grid(m) /\ cols[v] \in Grid(m) /\ board[rows[v]][cols[v]] = v
      BY <1>5
    <2>2. p[rows[v] * m + cols[v]] = v /\ rows[v] * m + cols[v] \in DOMAIN p
      BY <1>6, <2>1
    <2>3. ASSUME NEW j \in DOMAIN p, p[j] = v PROVE j = rows[v] * m + cols[v]
      <3>1. j \in 0..(m * m - 1)
        BY <1>1
      <3>2. PICK a \in Grid(m), b \in Grid(m) : j = a * m + b
        BY <3>1, GridCells
      <3>3. board[a][b] = v /\ v # 0
        BY <1>6, <2>3, <3>2
      <3> QED  BY <1>5, <3>2, <3>3
    <2>4. Matrix!At(v) = rows[v] * m + cols[v]
      BY <1>1, <2>2, <2>3 DEF Matrix!At
    <2>5. /\ (rows[v] * m + cols[v]) \div m = rows[v] /\ (rows[v] * m + cols[v]) % m = cols[v]
      BY <2>1, GridCells
    <2> QED  BY <1>1, <2>1, <2>2, <2>4, <2>5 DEF Matrix!Row, Matrix!Col
  <1>8. {parray[j] : j \in DOMAIN parray} = 1..(matrix_size * matrix_size)
    <2>1. \A v \in 1..all : \E j \in DOMAIN p : p[j] = v
      BY <1>6, <1>7
    <2>2. ASSUME NEW j \in DOMAIN p PROVE p[j] \in 1..all
      <3>1. j \in 0..(m * m - 1)
        BY <1>1
      <3>2. PICK a \in Grid(m), b \in Grid(m) : j = a * m + b
        BY <3>1, GridCells
      <3> QED  BY <1>6, <3>2
    <2>3. {p[j] : j \in DOMAIN p} = 1..all
      BY <2>1, <2>2
    <2> QED  BY <1>1, <1>2, <2>3
  <1>9. Matrix!At(1) = 0
    <2>1. all > 0
      BY <1>2
    <2>2. 1 \in 1..all /\ rows[1] = 0 /\ cols[1] = 0
      BY <1>5, <2>1
    <2>3. Matrix!At(1) = 0 * m + 0
      BY <1>7, <2>2
    <2> QED  BY <2>3
  <1>10. ASSUME NEW v \in 1..(all - 1)
         PROVE  <<Matrix!Row(v + 1), Matrix!Col(v + 1)>> =
                    IF Matrix!Free(v, Matrix!Ahead(v)) THEN Matrix!Ahead(v)
                    ELSE <<Matrix!Row(v) + Matrix!Heading(v)[2],
                           Matrix!Col(v) - Matrix!Heading(v)[1]>>
    <2>1. v \in 1..all /\ v + 1 \in 1..all /\ v \in Int
      OBVIOUS
    <2>2. /\ Matrix!Row(v) = rows[v] /\ Matrix!Col(v) = cols[v]
          /\ Matrix!Row(v + 1) = rows[v + 1] /\ Matrix!Col(v + 1) = cols[v + 1]
      BY <1>7, <2>1
    <2>3. Matrix!Heading(v) = <<Down(rows, v), Right(cols, v)>>
      <3>1. CASE v = 1
        BY <3>1 DEF Matrix!Heading, Down, Right
      <3>2. CASE v # 1
        <4>1. v - 1 \in 1..all
          BY <3>2
        <4> QED  BY <1>7, <2>2, <3>2, <4>1 DEF Matrix!Heading, Down, Right
      <3> QED  BY <3>1, <3>2
    <2>4. Matrix!Heading(v)[1] = Down(rows, v) /\ Matrix!Heading(v)[2] = Right(cols, v)
      BY <2>3
    <2>5. PICK r, c : r = rows[v] + Down(rows, v) /\ c = cols[v] + Right(cols, v)
      OBVIOUS
    <2>6. Matrix!Ahead(v) = <<r, c>>
      BY <2>2, <2>4, <2>5 DEF Matrix!Ahead
    <2>7. Matrix!Free(v, <<r, c>>) <=> Open(board, m, v, r, c)
      <3>1. Matrix!Free(v, <<r, c>>) <=> /\ r \in Grid(m) /\ c \in Grid(m)
                                         /\ p[r * m + c] > v
        BY <1>1 DEF Matrix!Free, Grid
      <3>2. r \in Grid(m) /\ c \in Grid(m) =>
               (p[r * m + c] > v <=> board[r][c] = 0 \/ board[r][c] > v)
        BY <1>6
      <3> QED  BY <3>1, <3>2 DEF Open
    <2>8. Turns(board, m, rows, cols, v)
      BY <1>5
    <2>9. CASE Open(board, m, v, r, c)
      <3>1. rows[v + 1] = r /\ cols[v + 1] = c
        BY <2>5, <2>8, <2>9 DEF Turns
      <3> QED  BY <2>2, <2>6, <2>7, <2>9, <3>1
    <2>10. CASE ~Open(board, m, v, r, c)
      <3>1. rows[v + 1] = rows[v] + Right(cols, v) /\ cols[v + 1] = cols[v] - Down(rows, v)
        BY <2>5, <2>8, <2>10 DEF Turns
      <3> QED  BY <2>2, <2>4, <2>6, <2>7, <2>10, <3>1
    <2> QED  BY <2>9, <2>10
  <1> QED  BY <1>1, <1>2, <1>8, <1>9, <1>10 DEF Matrix!IsSpiral

LEMMA SpiralStays ==
    ASSUME parray' = parray, matrix_size' = matrix_size, Matrix!IsSpiral PROVE Matrix!IsSpiral'
  <1>1. ASSUME NEW v PROVE /\ Matrix!Row(v)' = Matrix!Row(v) /\ Matrix!Col(v)' = Matrix!Col(v)
                           /\ Matrix!At(v)' = Matrix!At(v)
    <2>1. Matrix!At(v)' = Matrix!At(v)
      BY DEF Matrix!At
    <2> QED  BY <2>1 DEF Matrix!Row, Matrix!Col
  <1>2. \A v : Matrix!Heading(v)' = Matrix!Heading(v)
    BY <1>1 DEF Matrix!Heading
  <1>3. \A v : Matrix!Ahead(v)' = Matrix!Ahead(v)
    BY <1>1, <1>2 DEF Matrix!Ahead
  <1>4. \A v, cell : Matrix!Free(v, cell)' <=> Matrix!Free(v, cell)
    BY DEF Matrix!Free
  <1> QED  BY <1>1, <1>2, <1>3, <1>4 DEF Matrix!IsSpiral

SpiralInv == (stage = "spiral" => Spiralling) /\ Matrix!FillsSpiral

(* The four limits close in on what is blank, a row or a column at a time, *)
(* so that no turn of the walk leaves the matrix or writes a cell twice,   *)
(* and for every size what it leaves is a spiral.                          *)
THEOREM SpiralsOfEverySize == MainSpec => []Matrix!FillsSpiral
  <1>1. MainInit => SpiralInv
    BY DEF MainInit, Matrix!Init, SpiralInv, Matrix!FillsSpiral
  <1>2. SpiralInv /\ [RunTask]_main_vars => SpiralInv'
    <2>1. [RunTask]_main_vars => Matrix!Next \/ UNCHANGED matrix
      BY DEF RunTask, main_vars, sequential, RunPhonebook, RunFileManager, RunMatrix, RunBytes,
             RunPlugins, RunShell, RunForkTask, RunShmTest, RunMsgTask, RunSocketTask,
             RunSelectServer
    <2> SUFFICES ASSUME SpiralInv, Matrix!Next \/ UNCHANGED matrix PROVE SpiralInv'
      BY <2>1
    <2>2. CASE Matrix!test_1
      BY <2>2, SpiralStarts DEF Matrix!test_1, SpiralInv, Matrix!FillsSpiral
    <2>3. CASE Matrix!GoRight \/ Matrix!GoDown \/ Matrix!GoLeft \/ Matrix!GoUp
      <3>1. stage = "spiral" /\ stage' = stage
        BY <2>3 DEF Matrix!GoRight, Matrix!GoDown, Matrix!GoLeft, Matrix!GoUp,
                    Matrix!Turning, Matrix!Write
      <3>2. Spiralling
        BY <3>1 DEF SpiralInv
      <3>3. Spiralling'
        BY <2>3, <3>2, TurnsKeep
      <3> QED  BY <3>1, <3>3 DEF SpiralInv, Matrix!FillsSpiral
    <2>4. CASE Matrix!SpiralFilled
      <3>1. /\ stage = "spiral" /\ walk.count >= Size * Size
            /\ stage' = "filled" /\ UNCHANGED <<matrix_size, parray>>
        BY <2>4 DEF Matrix!SpiralFilled, Size
      <3>2. Matrix!IsSpiral
        BY <3>1, SpiralWritten DEF SpiralInv
      <3>3. Matrix!IsSpiral'
        BY <3>1, <3>2, SpiralStays
      <3> QED  BY <3>1, <3>3 DEF SpiralInv, Matrix!FillsSpiral
    <2>5. CASE Matrix!test_print_with_negatievs \/ Matrix!fill_diagonal_matrix
      BY <2>5 DEF Matrix!test_print_with_negatievs, Matrix!fill_diagonal_matrix, SpiralInv,
                  Matrix!FillsSpiral
    <2>6. CASE UNCHANGED matrix
      <3>1. parray' = parray /\ matrix_size' = matrix_size /\ walk' = walk /\ stage' = stage
        BY <2>6 DEF matrix
      <3>2. Size' = Size /\ Board' = Board /\ DownBy' = DownBy /\ RightBy' = RightBy
        BY <3>1 DEF Size, Board, DownBy, RightBy
      <3>3. Top' = Top /\ Bottom' = Bottom /\ First' = First /\ Last' = Last
        BY <3>1 DEF Top, Bottom, First, Last
      <3>4. (WalkTypes => WalkTypes') /\ (AtCorner => AtCorner')
        BY <3>1, <3>2, <3>3 DEF WalkTypes, AtCorner
      <3>5. Blanks => Blanks'
        BY <3>2, <3>3 DEF Blanks, Blank
      <3>6. \A rows, cols : Arrived(rows, cols) => Arrived(rows, cols)'
        BY <3>1, <3>2 DEF Arrived
      <3>7. Spiralling => Spiralling'
        BY <3>4, <3>5, <3>6 DEF Spiralling
      <3>8. Matrix!IsSpiral => Matrix!IsSpiral'
        BY <3>1, SpiralStays
      <3> QED  BY <3>1, <3>7, <3>8 DEF SpiralInv, Matrix!FillsSpiral
    <2> QED  BY <2>2, <2>3, <2>4, <2>5, <2>6 DEF Matrix!Next
  <1>3. SpiralInv => Matrix!FillsSpiral
    BY DEF SpiralInv
  <1> QED  BY <1>1, <1>2, <1>3, PTL DEF MainSpec

-----------------------------------------------------------------------------
(* The plugins.  While files are read there is a place left for one more.  *)
PluginsInv ==
    /\ folder \in Seq(Plugins!Files) /\ func_arr \in Seq(Plugins!Files)
    /\ menu \in {"load", "choose", "exit", "crashed"}
    /\ menu = "load" => Len(func_arr) < arr_size
    /\ OwnFaultsOnly
    /\ \A k \in 1..Len(func_arr) : \E j \in Plugins!Naming : folder[j] = func_arr[k]

(* Every module counts alike.                                              *)
LEMMA PluginsCount ==
    ASSUME NEW S PROVE Plugins!Cardinality(S) = Cardinality(S)
  BY DEF Plugins!Cardinality, Cardinality

(* The files of a sequence can be counted.                                 *)
LEMMA NamingIsFinite ==
    ASSUME folder \in Seq(Plugins!Files)
    PROVE  /\ DOMAIN folder = 1..Len(folder) /\ Len(folder) \in Nat
           /\ IsFiniteSet(Plugins!Naming)
           /\ \A k : IsFiniteSet({j \in Plugins!Naming : j <= k})
  <1>1. DOMAIN folder = 1..Len(folder) /\ Len(folder) \in Nat
    BY LenProperties
  <1>2. IsFiniteSet(1..Len(folder))
    BY <1>1, FS_Interval
  <1>3. Plugins!Naming \subseteq 1..Len(folder)
    BY <1>1 DEF Plugins!Naming
  <1>4. ASSUME NEW k PROVE IsFiniteSet({j \in Plugins!Naming : j <= k})
    <2>1. {j \in Plugins!Naming : j <= k} \subseteq 1..Len(folder)
      BY <1>3
    <2> QED  BY <1>2, <2>1, FS_Subset
  <1> QED  BY <1>1, <1>2, <1>3, <1>4, FS_Subset

(* Where the files are the same, they come to the same places.             *)
LEMMA PlacesStay ==
    ASSUME UNCHANGED folder
    PROVE  Plugins!Naming' = Plugins!Naming /\ \A k : Plugins!Place(k)' = Plugins!Place(k)
  BY DEF Plugins!Naming, Plugins!Place

(* A file more: it is one more that names a function, in the next place,   *)
(* or changes nothing about the others.                                    *)
LEMMA OneFileMore ==
    ASSUME folder \in Seq(Plugins!Files), NEW f \in Plugins!Files, folder' = Append(folder, f),
           NEW last \in Nat, last = Len(folder) + 1
    PROVE  /\ folder' \in Seq(Plugins!Files)
           /\ f \notin {"hollow", "whole"} => Plugins!Naming' = Plugins!Naming
           /\ f \in {"hollow", "whole"} =>
                 /\ Plugins!Naming' = Plugins!Naming \cup {last}
                 /\ Cardinality(Plugins!Naming') = Cardinality(Plugins!Naming) + 1
                 /\ Plugins!Place(last)' = Cardinality(Plugins!Naming) + 1
                 /\ folder'[last] = f
           /\ \A k \in Plugins!Naming :
                 Plugins!Place(k)' = Plugins!Place(k) /\ folder'[k] = folder[k]
  <1>1. /\ folder' \in Seq(Plugins!Files) /\ Len(folder) \in Nat /\ Len(folder') = last
        /\ folder'[last] = f /\ \A k \in 1..Len(folder) : folder'[k] = folder[k]
    BY AppendProperties, LenProperties
  <1>2. DOMAIN folder = 1..Len(folder) /\ DOMAIN folder' = 1..last
    BY <1>1, LenProperties
  <1>3. Plugins!Naming' = IF f \in {"hollow", "whole"} THEN Plugins!Naming \cup {last}
                                                       ELSE Plugins!Naming
    BY <1>1, <1>2 DEF Plugins!Naming
  <1>4. Plugins!Naming \subseteq 1..Len(folder) /\ last \notin Plugins!Naming
    BY <1>1, <1>2 DEF Plugins!Naming
  <1>5. ASSUME NEW k \in Plugins!Naming
        PROVE  Plugins!Place(k)' = Plugins!Place(k) /\ folder'[k] = folder[k]
    <2>1. {j \in Plugins!Naming' : j <= k} = {j \in Plugins!Naming : j <= k}
      BY <1>1, <1>3, <1>4
    <2> QED  BY <1>1, <1>4, <2>1 DEF Plugins!Place
  <1>6. ASSUME f \in {"hollow", "whole"}
        PROVE  /\ Cardinality(Plugins!Naming') = Cardinality(Plugins!Naming) + 1
               /\ Plugins!Place(last)' = Cardinality(Plugins!Naming) + 1
    <2>1. Cardinality(Plugins!Naming') = Cardinality(Plugins!Naming) + 1
      BY <1>3, <1>4, <1>6, NamingIsFinite, FS_AddElement
    <2>2. {j \in Plugins!Naming' : j <= last} = Plugins!Naming'
      <3>1. \A j \in Plugins!Naming' : j = last \/ j \in 1..Len(folder)
        BY <1>3, <1>4, <1>6
      <3>2. \A j \in Plugins!Naming' : j <= last
        BY <1>1, <3>1
      <3> QED  BY <3>2
    <2> QED  BY <2>1, <2>2, PluginsCount DEF Plugins!Place
  <1> QED  BY <1>1, <1>3, <1>5, <1>6

LEMMA PluginsStep == PluginsInv /\ Plugins!Next => PluginsInv'
  <1> SUFFICES ASSUME PluginsInv, Plugins!Next PROVE PluginsInv'
    OBVIOUS
  <1> USE DEF OwnFaultsOnly, Plugins!OwnFaultsOnly
  <1>0. /\ folder \in Seq(Plugins!Files) /\ func_arr \in Seq(Plugins!Files)
        /\ Len(func_arr) \in Nat
    BY LenProperties DEF PluginsInv
  <1>1. CASE Plugins!ReadFile
    <2>1. PICK f \in Plugins!Files :
              /\ folder' = Append(folder, f)
              /\ Plugins!Unopened(f) \/ Plugins!Nameless(f) \/ Plugins!Stored(f)
      BY <1>1 DEF Plugins!ReadFile
    <2>2. menu = "load" /\ Len(func_arr) < arr_size
      BY <1>1 DEF Plugins!ReadFile, PluginsInv
    <2>3. CASE f \notin {"hollow", "whole"}
      <3>1. UNCHANGED <<func_arr, menu>>
        BY <2>1, <2>3 DEF Plugins!Unopened, Plugins!Nameless, Plugins!Stored, Plugins!Opened,
                          Plugins!NameMissing, Plugins!Cleared, Plugins!Files
      <3>2. folder' \in Seq(Plugins!Files) /\ Plugins!Naming' = Plugins!Naming
            /\ \A k \in Plugins!Naming :
                  Plugins!Place(k)' = Plugins!Place(k) /\ folder'[k] = folder[k]
        <4>1. PICK last \in Nat : last = Len(folder) + 1
          BY <1>0, LenProperties
        <4> QED  BY <1>0, <2>1, <2>3, <4>1, OneFileMore
      <3> QED  BY <2>2, <3>1, <3>2 DEF PluginsInv
    <2>4. CASE f \in {"hollow", "whole"}
      <3>1. /\ func_arr' = Append(func_arr, f)
            /\ menu' = IF Len(func_arr') >= arr_size THEN "choose" ELSE menu
        BY <2>1, <2>4 DEF Plugins!Unopened, Plugins!Nameless, Plugins!Stored, Plugins!Opened,
                          Plugins!NameMissing, Plugins!Cleared
      <3>2. /\ func_arr' \in Seq(Plugins!Files) /\ Len(func_arr') = Len(func_arr) + 1
            /\ func_arr'[Len(func_arr) + 1] = f
            /\ \A k \in 1..Len(func_arr) : func_arr'[k] = func_arr[k]
        BY <1>0, <3>1, AppendProperties
      <3>0. PICK last \in Nat : last = Len(folder) + 1
        BY <1>0, LenProperties
      <3>3. /\ folder' \in Seq(Plugins!Files) /\ Plugins!Naming' = Plugins!Naming \cup {last}
            /\ Cardinality(Plugins!Naming') = Cardinality(Plugins!Naming) + 1
            /\ Plugins!Place(last)' = Cardinality(Plugins!Naming) + 1 /\ folder'[last] = f
            /\ \A k \in Plugins!Naming :
                  Plugins!Place(k)' = Plugins!Place(k) /\ folder'[k] = folder[k]
        BY <1>0, <2>1, <2>4, <3>0, OneFileMore
      <3>4. Len(func_arr) = Cardinality(Plugins!Naming)
        BY PluginsCount DEF PluginsInv
      <3>5. Len(func_arr') = Plugins!Cardinality(Plugins!Naming')
        BY <3>2, <3>3, <3>4, PluginsCount
      <3>6. ASSUME NEW k \in Plugins!Naming PROVE Plugins!Place(k) \in 1..Len(func_arr)
        <4>1. /\ {j \in Plugins!Naming : j <= k} \subseteq Plugins!Naming
              /\ k \in {j \in Plugins!Naming : j <= k}
          BY <1>0, NamingIsFinite DEF Plugins!Naming
        <4>2. /\ Cardinality({j \in Plugins!Naming : j <= k}) \in Nat
              /\ Cardinality({j \in Plugins!Naming : j <= k}) <= Cardinality(Plugins!Naming)
              /\ Cardinality({j \in Plugins!Naming : j <= k}) # 0
          BY <1>0, <4>1, NamingIsFinite, FS_Subset, FS_CardinalityType, FS_EmptySet
        <4> QED  BY <1>0, <3>4, <4>2, PluginsCount DEF Plugins!Place
      <3>7. \A k \in Plugins!Naming' : func_arr'[Plugins!Place(k)'] = folder'[k]
        <4>1. \A k \in Plugins!Naming : func_arr[Plugins!Place(k)] = folder[k]
          BY DEF PluginsInv
        <4>2. ASSUME NEW k \in Plugins!Naming PROVE func_arr'[Plugins!Place(k)'] = folder'[k]
          BY <3>2, <3>3, <3>6, <4>1
        <4>3. func_arr'[Plugins!Place(last)'] = folder'[last]
          BY <3>2, <3>3, <3>4
        <4> QED  BY <3>3, <4>2, <4>3
      <3>8. Len(func_arr') <= arr_size /\ (menu' = "load" => Len(func_arr') < arr_size)
            /\ menu' \in {"load", "choose"}
        BY <1>0, <2>2, <3>1, <3>2, Amounts
      <3>9. \A k \in 1..Len(func_arr') : \E j \in Plugins!Naming' : folder'[j] = func_arr'[k]
        <4> TAKE k \in 1..Len(func_arr')
        <4>1. CASE k = Len(func_arr) + 1
          BY <3>2, <3>3, <4>1
        <4>2. CASE k \in 1..Len(func_arr)
          <5>1. PICK j \in Plugins!Naming : folder[j] = func_arr[k]
            BY <4>2 DEF PluginsInv
          <5> QED  BY <3>2, <3>3, <4>2, <5>1
        <4> QED  BY <1>0, <3>2, <4>1, <4>2
      <3> QED  BY <3>2, <3>3, <3>5, <3>7, <3>8, <3>9 DEF PluginsInv
    <2> QED  BY <2>3, <2>4
  <1>2. CASE Plugins!FolderEnds \/ Plugins!Leave
    <2>1. UNCHANGED <<folder, func_arr>> /\ menu' \in {"choose", "exit"}
      BY <1>2 DEF Plugins!FolderEnds, Plugins!Leave
    <2> QED  BY <2>1, PlacesStay DEF PluginsInv
  <1>3. CASE Plugins!Call
    <2>1. PICK k \in DOMAIN func_arr :
              menu' = IF func_arr[k] = "hollow" THEN "crashed" ELSE menu
      BY <1>3 DEF Plugins!Call
    <2>2. UNCHANGED <<folder, func_arr>> /\ menu = "choose"
      BY <1>3 DEF Plugins!Call
    <2>3. menu' = "crashed" => \E j \in Plugins!Naming : folder[j] = "hollow"
      <3>1. k \in 1..Len(func_arr)
        BY <1>0, LenProperties
      <3>2. PICK j \in Plugins!Naming : folder[j] = func_arr[k]
        BY <3>1 DEF PluginsInv
      <3> QED  BY <2>1, <2>2, <3>2
    <2> QED  BY <2>1, <2>2, <2>3, PlacesStay DEF PluginsInv
  <1> QED  BY <1>1, <1>2, <1>3 DEF Plugins!Next

LEMMA PluginsKept == MainSpec => []PluginsInv
  <1>1. MainInit => PluginsInv
    <2> SUFFICES ASSUME MainInit PROVE PluginsInv
      OBVIOUS
    <2>1. folder = <<>> /\ func_arr = <<>> /\ menu = "load"
      BY DEF MainInit, Plugins!Init
    <2>2. Plugins!Naming = {}
      BY <2>1 DEF Plugins!Naming
    <2>3. Plugins!Cardinality(Plugins!Naming) = 0
      BY <2>2, FS_EmptySet, PluginsCount
    <2> QED  BY <2>1, <2>2, <2>3, Amounts DEF PluginsInv, OwnFaultsOnly, Plugins!OwnFaultsOnly
  <1>2. PluginsInv /\ [RunTask]_main_vars => PluginsInv'
    <2>1. [RunTask]_main_vars => Plugins!Next \/ UNCHANGED plugins
      BY DEF RunTask, main_vars, sequential, RunPhonebook, RunFileManager, RunMatrix, RunBytes,
             RunPlugins, RunShell, RunForkTask, RunShmTest, RunMsgTask, RunSocketTask,
             RunSelectServer
    <2>2. PluginsInv /\ UNCHANGED plugins => PluginsInv'
      BY PlacesStay DEF plugins, PluginsInv, OwnFaultsOnly, Plugins!OwnFaultsOnly
    <2> QED  BY <2>1, <2>2, PluginsStep
  <1> QED  BY <1>1, <1>2, PTL DEF MainSpec

(* Whatever the files of the directory are and in whatever order: stored   *)
(* are the plugins that name a function, each in its place, and none is    *)
(* left out for an error of the file before it.                            *)
THEOREM FaultsAreTheirOwn == MainSpec => []OwnFaultsOnly
  <1>1. PluginsInv => OwnFaultsOnly
    BY DEF PluginsInv
  <1> QED  BY <1>1, PluginsKept, PTL

-----------------------------------------------------------------------------
(* The shell.  Which pipes the shell has made, and which six bytes it has  *)
(* written.                                                                *)
InLine == at \notin {"prompt", "quit"}
Forking == at \in {"pipe", "fork"}
Made(p) == p < i \/ (at = "fork" /\ p = i) \/ ~Forking
Marked(p) == (p < i /\ at \in {"wait", "mark"}) \/ (p <= i /\ at = "close")
Waited(c) == ~Forking /\ (c < i \/ (c = i /\ at # "wait"))

LineTypes ==
    /\ line \in Seq(Shell!Command) /\ Len(line) <= MaxCommands
    /\ todo \in [Shell!Commands -> [out : 0..MaxOutput, takes : 0..Shell!All,
                                   first : {"in", "out"}]]
    /\ child \in [Shell!Commands -> {"none", "running", "exited"}]
    /\ pipe \in [Shell!Pipes -> 0..PipeMax]
    /\ rd \in [Shell!Pipes -> SUBSET (0..MaxCommands)]
    /\ wr \in [Shell!Pipes -> SUBSET (0..MaxCommands)]
    /\ at \in {"prompt", "quit", "pipe", "fork", "wait", "mark", "close"}
    /\ i \in Shell!Commands

(* Who has been forked, and who waited for.                                *)
LineForked ==
    /\ i <= Len(line) /\ (at = "mark" => i < Len(line))
    /\ \A c \in Shell!Commands : child[c] = "none" <=> c > Len(line) \/ (Forking /\ c >= i)
    /\ \A c \in Shell!Commands : Waited(c) => child[c] = "exited"

(* No command is behind or before the pipeline, or does more than it was   *)
(* typed to do; one that has exited has done it.                           *)
Done ==
    /\ line[1].takes = 0 /\ line[Len(line)].out = 0
    /\ \A c \in 1..Len(line) :
          /\ todo[c].out <= line[c].out /\ todo[c].takes <= line[c].takes
          /\ child[c] = "none" => todo[c] = line[c]
          /\ child[c] = "exited" => todo[c].out = 0 /\ todo[c].takes = 0

(* A command that runs holds both ends of the pipe before it and of the    *)
(* one behind it.                                                          *)
EndsHeld ==
    /\ Forking => \A p \in 1..(Len(line) - 1) :
                      Made(p) => 0 \in rd[p] /\ 0 \in wr[p]
    /\ \A c \in 1..Len(line) : child[c] = "running" =>
          /\ c > 1 => c \in wr[c - 1]
          /\ c < Len(line) => c \in rd[c]

(* What was written into a pipe was read or is in it.                      *)
Flow ==
    \A p \in 1..(Len(line) - 1) : Made(p) =>
        pipe[p] + (line[p + 1].takes - todo[p + 1].takes)
            = (line[p].out - todo[p].out) + IF Marked(p) THEN 1 ELSE 0

PipesInv ==
    /\ LineTypes
    /\ InLine => LineForked /\ Done /\ EndsHeld /\ Flow
    /\ ~InLine => \A c \in Shell!Commands : child[c] # "running"

LEMMA ShellSizes ==
    /\ MaxCommands \in Nat \ {0} /\ PipeMax \in Nat \ {0} /\ MaxOutput \in Nat
    /\ Shell!Commands = 1..MaxCommands /\ Shell!Pipes = 1..(MaxCommands - 1)
    /\ Shell!Sh = 0 /\ Shell!All = MaxOutput + 2
    /\ Shell!NoCommand \in Shell!Command
    /\ Shell!NoCommand.out = 0 /\ Shell!NoCommand.takes = 0
  BY Amounts DEF Shell!Commands, Shell!Pipes, Shell!Sh, Shell!All, Shell!NoCommand, Shell!Command

(* What the types say of the elements.                                     *)
LEMMA Elements ==
    ASSUME LineTypes
    PROVE  /\ Len(line) \in Nat /\ Len(line) <= MaxCommands /\ i \in Nat /\ 1 <= i /\ i <= MaxCommands
           /\ \A c \in 1..Len(line) : /\ line[c] \in Shell!Command
                                      /\ line[c].out \in Nat /\ line[c].takes \in Nat
                                      /\ line[c].out \in Int /\ line[c].takes \in Int
                                      /\ line[c].takes \in {0, 1, MaxOutput + 2}
           /\ \A c \in Shell!Commands : /\ todo[c].out \in Nat /\ todo[c].takes \in Nat
                                        /\ todo[c].out \in Int /\ todo[c].takes \in Int
                                        /\ child[c] \in {"none", "running", "exited"}
           /\ \A p \in Shell!Pipes : /\ pipe[p] \in 0..PipeMax
                                     /\ pipe[p] \in Nat /\ pipe[p] \in Int /\ pipe[p] <= PipeMax
                                     /\ rd[p] \subseteq 0..MaxCommands
                                     /\ wr[p] \subseteq 0..MaxCommands
           /\ \A c \in 1..Len(line) : c \in Shell!Commands
           /\ \A p \in 1..(Len(line) - 1) : /\ p \in Shell!Pipes
                                            /\ p \in 1..Len(line) /\ p + 1 \in 1..Len(line)
                                            /\ p \in Shell!Commands /\ p + 1 \in Shell!Commands
  <1> USE ShellSizes
  <1>1. /\ Len(line) \in Nat /\ Len(line) <= MaxCommands
        /\ i \in Nat /\ 1 <= i /\ i <= MaxCommands
    BY DEF LineTypes
  <1>2. ASSUME NEW c \in 1..Len(line)
        PROVE  /\ line[c] \in Shell!Command
               /\ line[c].out \in Nat /\ line[c].takes \in Nat
               /\ line[c].out \in Int /\ line[c].takes \in Int
               /\ line[c].takes \in {0, 1, MaxOutput + 2}
    <2>1. line[c] \in Shell!Command
      BY DEF LineTypes
    <2>2. line[c].out \in 0..MaxOutput /\ line[c].takes \in {0, 1, MaxOutput + 2}
      BY <2>1 DEF Shell!Command
    <2>3. PICK a : a = line[c].out
      OBVIOUS
    <2>4. PICK b : b = line[c].takes
      OBVIOUS
    <2>5. a \in Nat /\ b \in Nat /\ a \in Int /\ b \in Int
      BY <2>2, <2>3, <2>4
    <2> QED  BY <2>1, <2>2, <2>3, <2>4, <2>5
  <1>3. ASSUME NEW c \in Shell!Commands
        PROVE  /\ todo[c].out \in Nat /\ todo[c].takes \in Nat
               /\ todo[c].out \in Int /\ todo[c].takes \in Int
               /\ child[c] \in {"none", "running", "exited"}
    <2>1. todo[c] \in [out : 0..MaxOutput, takes : 0..Shell!All, first : {"in", "out"}]
          /\ child[c] \in {"none", "running", "exited"}
      BY DEF LineTypes
    <2>2. todo[c].out \in 0..MaxOutput /\ todo[c].takes \in 0..(MaxOutput + 2)
      BY <2>1
    <2> QED  BY <2>1, <2>2
  <1>4. ASSUME NEW p \in Shell!Pipes
        PROVE  /\ pipe[p] \in 0..PipeMax
               /\ rd[p] \subseteq 0..MaxCommands /\ wr[p] \subseteq 0..MaxCommands
    <2>1. rd[p] \in SUBSET (0..MaxCommands) /\ wr[p] \in SUBSET (0..MaxCommands)
      BY DEF LineTypes
    <2> QED  BY <2>1 DEF LineTypes
  <1>5. \A c \in 1..Len(line) : c \in Shell!Commands
    BY <1>1
  <1>6. \A p \in 1..(Len(line) - 1) : /\ p \in Shell!Pipes
                                     /\ p \in 1..Len(line) /\ p + 1 \in 1..Len(line)
                                     /\ p \in Shell!Commands /\ p + 1 \in Shell!Commands
    BY <1>1
  <1>7. \A p \in Shell!Pipes : pipe[p] \in Nat /\ pipe[p] \in Int /\ pipe[p] <= PipeMax
    BY <1>4
  <1> QED  BY <1>1, <1>2, <1>3, <1>4, <1>5, <1>6, <1>7

(* The five numbers of a pipe: what it holds, and what was and is to be    *)
(* written and read.                                                       *)
LEMMA PipeNumbers ==
    ASSUME LineTypes, NEW p \in 1..(Len(line) - 1)
    PROVE  \E x, a, b, c, d \in Nat :
              /\ x = pipe[p] /\ a = line[p + 1].takes /\ b = todo[p + 1].takes
              /\ c = line[p].out /\ d = todo[p].out
              /\ x <= PipeMax /\ (a # MaxOutput + 2 => a <= 1)
  <1>1. /\ p \in Shell!Pipes /\ p \in 1..Len(line) /\ p + 1 \in 1..Len(line)
        /\ p \in Shell!Commands /\ p + 1 \in Shell!Commands
    BY Elements
  <1>2. pipe[p] \in Nat /\ pipe[p] <= PipeMax
    BY <1>1, Elements
  <1>3. line[p + 1].takes \in Nat /\ line[p + 1].takes \in {0, 1, MaxOutput + 2}
    BY <1>1, Elements
  <1>4. todo[p + 1].takes \in Nat
    BY <1>1, Elements
  <1>5. line[p].out \in Nat
    BY <1>1, Elements
  <1>6. todo[p].out \in Nat
    BY <1>1, Elements
  <1>7. line[p + 1].takes # MaxOutput + 2 => line[p + 1].takes <= 1
    BY <1>3
  <1> QED  BY <1>2, <1>3, <1>4, <1>5, <1>6, <1>7

LEMMA LineRead == ASSUME PipesInv, Shell!ReadLine PROVE PipesInv'
  <1> USE ShellSizes
  <1>1. PICK k \in Shell!Commands : /\ line' \in [1..k -> Shell!Command]
                                    /\ line'[1].takes = 0 /\ line'[k].out = 0
    BY DEF Shell!ReadLine
  <1>2. /\ todo' = [c \in Shell!Commands |-> IF c <= Len(line') THEN line'[c] ELSE Shell!NoCommand]
        /\ child' = [c \in Shell!Commands |-> "none"]
        /\ at' = "pipe" /\ i' = 1 /\ pipe' = pipe /\ rd' = rd /\ wr' = wr
    BY DEF Shell!ReadLine
  <1>3. line' \in Seq(Shell!Command) /\ Len(line') = k /\ k <= MaxCommands
        /\ \A c \in 1..k : line'[c] \in Shell!Command
    BY <1>1
  <1>4. \A r \in Shell!Command : /\ r.out \in 0..MaxOutput /\ r.takes \in {0, 1, MaxOutput + 2}
                                 /\ r \in [out : 0..MaxOutput, takes : 0..Shell!All,
                                           first : {"in", "out"}]
    BY DEF Shell!Command
  <1>5. \A c \in Shell!Commands : /\ todo'[c] = IF c <= k THEN line'[c] ELSE Shell!NoCommand
                                  /\ todo'[c] \in Shell!Command /\ child'[c] = "none"
    BY <1>2, <1>3
  <1>6. todo' \in [Shell!Commands -> [out : 0..MaxOutput, takes : 0..Shell!All,
                                      first : {"in", "out"}]]
    BY <1>2, <1>4, <1>5
  <1>7. LineTypes'
    <2>1. child' \in [Shell!Commands -> {"none", "running", "exited"}]
      BY <1>2
    <2>2. i' \in Shell!Commands
      BY <1>2
    <2> QED  BY <1>2, <1>3, <1>6, <2>1, <2>2 DEF LineTypes, PipesInv
  <1>8. LineForked'
    BY <1>1, <1>2, <1>3, <1>5 DEF LineForked, Forking, Waited
  <1>9. Done'
    BY <1>1, <1>2, <1>3, <1>4, <1>5 DEF Done
  <1>10. EndsHeld' /\ Flow'
    BY <1>2, <1>3, <1>5 DEF EndsHeld, Flow, Made, Forking
  <1> QED  BY <1>2, <1>7, <1>8, <1>9, <1>10 DEF PipesInv, InLine

LEMMA PipesSet == ASSUME PipesInv, Shell!SetPipes PROVE PipesInv'
  <1> USE ShellSizes
  <1>0. /\ at = "pipe" /\ at' = "fork" /\ line' = line /\ todo' = todo /\ child' = child /\ i' = i
        /\ LineTypes /\ LineForked /\ Done /\ EndsHeld /\ Flow /\ InLine
    BY DEF Shell!SetPipes, PipesInv, InLine
  <1>1. /\ Len(line) \in Nat /\ i \in Nat /\ 1 <= i
        /\ \A p \in 1..(Len(line) - 1) : p \in Shell!Pipes /\ p + 1 \in 1..Len(line)
        /\ \A c \in 1..Len(line) : c \in Shell!Commands
    BY <1>0, Elements
  <1>2. /\ pipe' \in [Shell!Pipes -> 0..PipeMax]
        /\ rd' \in [Shell!Pipes -> SUBSET (0..MaxCommands)]
        /\ wr' \in [Shell!Pipes -> SUBSET (0..MaxCommands)]
        /\ i < Len(line) => pipe'[i] = 0 /\ rd'[i] = {0} /\ wr'[i] = {0}
        /\ \A p \in Shell!Pipes : p # i => pipe'[p] = pipe[p] /\ rd'[p] = rd[p] /\ wr'[p] = wr[p]
    <2>1. CASE i < Len(line)
      <3>1. i \in Shell!Pipes
        BY <1>1, <2>1
      <3>2. /\ pipe' = [pipe EXCEPT ![i] = 0]
            /\ rd' = [rd EXCEPT ![i] = {0}] /\ wr' = [wr EXCEPT ![i] = {0}]
        BY <2>1 DEF Shell!SetPipes
      <3>3. {0} \in SUBSET (0..MaxCommands) /\ 0 \in 0..PipeMax
        OBVIOUS
      <3> QED  BY <1>0, <3>1, <3>2, <3>3 DEF LineTypes
    <2>2. CASE ~(i < Len(line))
      <3>1. pipe' = pipe /\ rd' = rd /\ wr' = wr
        BY <2>2 DEF Shell!SetPipes
      <3> QED  BY <1>0, <2>2, <3>1 DEF LineTypes
    <2> QED  BY <2>1, <2>2
  <1>3. LineTypes'
    BY <1>0, <1>2 DEF LineTypes
  <1>4. LineForked' /\ Done'
    BY <1>0 DEF LineForked, Done, Forking, Waited
  <1>5. EndsHeld'
    <2>1. \A c \in 1..Len(line) : child[c] = "running" => c < i
      BY <1>0, <1>1 DEF LineForked, Forking
    <2>2. ASSUME NEW p \in 1..(Len(line) - 1), p <= i PROVE 0 \in rd'[p] /\ 0 \in wr'[p]
      <3>1. CASE p = i
        BY <1>1, <1>2, <3>1
      <3>2. CASE p < i
        <4>1. 0 \in rd[p] /\ 0 \in wr[p]
          BY <1>0, <3>2 DEF EndsHeld, Made, Forking
        <4> QED  BY <1>1, <1>2, <3>2, <4>1
      <3> QED  BY <1>1, <2>2, <3>1, <3>2
    <2>3. ASSUME NEW c \in 1..Len(line), child[c] = "running"
          PROVE  (c > 1 => c \in wr'[c - 1]) /\ (c < Len(line) => c \in rd'[c])
      <3>1. c < i /\ (c > 1 => c \in wr[c - 1]) /\ (c < Len(line) => c \in rd[c])
        BY <1>0, <2>1, <2>3 DEF EndsHeld
      <3>2. (c > 1 => c - 1 \in Shell!Pipes /\ c - 1 # i) /\ (c < Len(line) => c \in Shell!Pipes /\ c # i)
        BY <1>1, <3>1
      <3> QED  BY <1>2, <3>1, <3>2
    <2> QED  BY <1>0, <1>1, <2>2, <2>3 DEF EndsHeld, Made, Forking
  <1>6. Flow'
    <2> SUFFICES ASSUME NEW p \in 1..(Len(line) - 1), p <= i
                 PROVE  pipe'[p] + (line[p + 1].takes - todo[p + 1].takes)
                            = (line[p].out - todo[p].out) + 0
      BY <1>0, <1>1 DEF Flow, Made, Marked, Forking
    <2>1. CASE p < i
      <3>1. Made(p) /\ ~Marked(p) /\ pipe'[p] = pipe[p]
        BY <1>0, <1>1, <1>2, <2>1 DEF Made, Marked
      <3> QED  BY <1>0, <3>1 DEF Flow
    <2>2. CASE p = i
      <3>1. child[p] = "none" /\ child[p + 1] = "none"
        BY <1>0, <1>1, <2>2 DEF LineForked, Forking
      <3>2. todo[p] = line[p] /\ todo[p + 1] = line[p + 1]
        BY <1>0, <1>1, <3>1 DEF Done
      <3>3. pipe'[p] = 0
        BY <1>1, <1>2, <2>2
      <3>4. line[p].out \in Int /\ line[p + 1].takes \in Int
        BY <1>0, <1>1, Elements
      <3> QED  BY <3>2, <3>3, <3>4
    <2> QED  BY <1>1, <2>1, <2>2
  <1> QED  BY <1>0, <1>3, <1>4, <1>5, <1>6 DEF PipesInv, InLine

LEMMA CommandForked == ASSUME PipesInv, Shell!Fork PROVE PipesInv'
  <1> USE ShellSizes
  <1>0. /\ at = "fork" /\ line' = line /\ todo' = todo /\ pipe' = pipe
        /\ LineTypes /\ LineForked /\ Done /\ EndsHeld /\ Flow /\ InLine
    BY DEF Shell!Fork, PipesInv, InLine
  <1>1. /\ Len(line) \in Nat /\ i \in Nat /\ 1 <= i /\ i <= Len(line) /\ Len(line) <= MaxCommands
        /\ \A p \in 1..(Len(line) - 1) : p \in Shell!Pipes /\ p \in 1..Len(line) /\ p + 1 \in 1..Len(line)
        /\ \A c \in 1..Len(line) : c \in Shell!Commands
    BY <1>0, Elements DEF LineForked
  <1>2. /\ child' \in [Shell!Commands -> {"none", "running", "exited"}]
        /\ child'[i] = "running" /\ \A c \in Shell!Commands : c # i => child'[c] = child[c]
    BY <1>0 DEF Shell!Fork, LineTypes
  <1>3. \A p \in Shell!Pipes : /\ rd'[p] = IF 0 \in rd[p] THEN rd[p] \cup {i} ELSE rd[p]
                               /\ wr'[p] = IF 0 \in wr[p] THEN wr[p] \cup {i} ELSE wr[p]
                               /\ rd'[p] \in SUBSET (0..MaxCommands)
                               /\ wr'[p] \in SUBSET (0..MaxCommands)
    <2>1. \A p \in Shell!Pipes : /\ rd'[p] = IF 0 \in rd[p] THEN rd[p] \cup {i} ELSE rd[p]
                                 /\ wr'[p] = IF 0 \in wr[p] THEN wr[p] \cup {i} ELSE wr[p]
      BY DEF Shell!Fork, Shell!Inherited
    <2>2. i \in 0..MaxCommands
      BY <1>1
    <2>3. \A p \in Shell!Pipes : rd[p] \subseteq 0..MaxCommands /\ wr[p] \subseteq 0..MaxCommands
      BY <1>0, Elements
    <2> QED  BY <2>1, <2>2, <2>3, ZenonT(60)
  <1>4. \/ i < Len(line) /\ at' = "pipe" /\ i' = i + 1
        \/ i = Len(line) /\ at' = "wait" /\ i' = 1
    BY <1>1 DEF Shell!Fork
  <1>5. LineTypes'
    <2>1. /\ rd' \in [Shell!Pipes -> SUBSET (0..MaxCommands)]
          /\ wr' \in [Shell!Pipes -> SUBSET (0..MaxCommands)]
      <3>1. rd' = [p \in Shell!Pipes |-> rd'[p]] /\ wr' = [p \in Shell!Pipes |-> wr'[p]]
        BY DEF Shell!Fork, Shell!Inherited
      <3> QED  BY <1>3, <3>1
    <2>2. i' \in Shell!Commands
      BY <1>1, <1>4
    <2> QED  BY <1>0, <1>2, <1>4, <2>1, <2>2 DEF LineTypes
  <1>6. LineForked'
    BY <1>0, <1>1, <1>2, <1>4 DEF LineForked, Forking, Waited
  <1>7. Done'
    BY <1>0, <1>1, <1>2 DEF Done
  <1>8. EndsHeld'
    <2>1. \A p \in 1..(Len(line) - 1) : p <= i => 0 \in rd[p] /\ 0 \in wr[p]
      BY <1>0, <1>1 DEF EndsHeld, Made, Forking
    <2>2. \A p \in 1..(Len(line) - 1) : p <= i =>
              0 \in rd'[p] /\ 0 \in wr'[p] /\ i \in rd'[p] /\ i \in wr'[p]
      BY <1>1, <1>3, <2>1
    <2>3. ASSUME NEW c \in 1..Len(line), child'[c] = "running"
          PROVE  (c > 1 => c \in wr'[c - 1]) /\ (c < Len(line) => c \in rd'[c])
      <3>1. CASE c = i
        BY <1>1, <2>2, <3>1
      <3>2. CASE c # i
        <4>1. (c > 1 => c \in wr[c - 1]) /\ (c < Len(line) => c \in rd[c])
          BY <1>0, <1>1, <1>2, <2>3, <3>2 DEF EndsHeld
        <4>2. (c > 1 => c - 1 \in Shell!Pipes) /\ (c < Len(line) => c \in Shell!Pipes)
          BY <1>1
        <4> QED  BY <1>3, <4>1, <4>2
      <3> QED  BY <3>1, <3>2
    <2>4. \A p \in 1..(Len(line) - 1) : Forking' /\ Made(p)' => p <= i
      BY <1>1, <1>4 DEF Made, Forking
    <2> QED  BY <1>0, <1>1, <2>2, <2>3, <2>4 DEF EndsHeld
  <1>9. Flow'
    <2>1. \A p \in 1..(Len(line) - 1) : (Made(p)' => Made(p)) /\ ~Marked(p) /\ ~Marked(p)'
      BY <1>0, <1>1, <1>4 DEF Made, Marked, Forking
    <2> QED  BY <1>0, <2>1 DEF Flow
  <1> QED  BY <1>0, <1>4, <1>5, <1>6, <1>7, <1>8, <1>9 DEF PipesInv, InLine

LEMMA CommandWaitedFor == ASSUME PipesInv, Shell!Wait PROVE PipesInv'
  <1>0. /\ at = "wait" /\ child[i] = "exited" /\ at' = IF i < Len(line) THEN "mark" ELSE "close"
        /\ line' = line /\ todo' = todo /\ pipe' = pipe /\ child' = child /\ i' = i
        /\ rd' = rd /\ wr' = wr
        /\ LineTypes /\ LineForked /\ Done /\ EndsHeld /\ Flow /\ InLine
    BY DEF Shell!Wait, PipesInv, InLine
  <1>1. Len(line) \in Nat /\ i \in Nat /\ i <= Len(line) /\ \A c \in Shell!Commands : c \in Nat
    BY <1>0, Elements, ShellSizes DEF LineForked
  <1>2. LineTypes'
    BY <1>0 DEF LineTypes
  <1>3. LineForked' /\ Done' /\ EndsHeld'
    BY <1>0, <1>1 DEF LineForked, Done, EndsHeld, Forking, Waited, Made
  <1>4. \A p \in 1..(Len(line) - 1) : Made(p) /\ (Marked(p)' <=> Marked(p))
    BY <1>0, <1>1 DEF Made, Marked, Forking
  <1>5. Flow'
    BY <1>0, <1>4 DEF Flow
  <1> QED  BY <1>0, <1>2, <1>3, <1>5 DEF PipesInv, InLine

LEMMA BytesWritten == ASSUME PipesInv, Shell!WriteMark PROVE PipesInv'
  <1> USE ShellSizes
  <1>0. /\ at = "mark" /\ at' = "close" /\ pipe[i] < PipeMax
        /\ line' = line /\ todo' = todo /\ child' = child /\ i' = i /\ rd' = rd /\ wr' = wr
        /\ LineTypes /\ LineForked /\ Done /\ EndsHeld /\ Flow /\ InLine
    BY DEF Shell!WriteMark, PipesInv, InLine
  <1>1. /\ Len(line) \in Nat /\ i \in Nat /\ 1 <= i /\ i < Len(line)
        /\ \A c \in Shell!Commands : c \in Nat
        /\ \A p \in 1..(Len(line) - 1) : p \in Shell!Pipes
        /\ \A p \in Shell!Pipes : pipe[p] \in 0..PipeMax
    BY <1>0, Elements DEF LineForked
  <1>2. /\ pipe' \in [Shell!Pipes -> 0..PipeMax] /\ pipe'[i] = pipe[i] + 1
        /\ \A p \in Shell!Pipes : p # i => pipe'[p] = pipe[p]
    <2>1. i \in Shell!Pipes /\ pipe' = [pipe EXCEPT ![i] = @ + 1]
      BY <1>1 DEF Shell!WriteMark
    <2>2. pipe[i] + 1 \in 0..PipeMax
      BY <1>0, <1>1, <2>1
    <2> QED  BY <1>0, <2>1, <2>2 DEF LineTypes
  <1>3. LineTypes'
    BY <1>0, <1>2 DEF LineTypes
  <1>4. LineForked' /\ Done' /\ EndsHeld'
    BY <1>0, <1>1 DEF LineForked, Done, EndsHeld, Forking, Waited, Made
  <1>5. \A p \in 1..(Len(line) - 1) : /\ Made(p) /\ p # i => (Marked(p)' <=> Marked(p))
                                      /\ p = i => ~Marked(p) /\ Marked(p)'
    BY <1>0, <1>1 DEF Marked
  <1>6. Flow'
    <2> SUFFICES ASSUME NEW p \in 1..(Len(line) - 1)
                 PROVE  pipe'[p] + (line[p + 1].takes - todo[p + 1].takes)
                            = (line[p].out - todo[p].out) + IF Marked(p)' THEN 1 ELSE 0
      BY <1>0 DEF Flow
    <2>1. pipe[p] + (line[p + 1].takes - todo[p + 1].takes)
              = (line[p].out - todo[p].out) + IF Marked(p) THEN 1 ELSE 0
      BY <1>0 DEF Flow, Made, Forking
    <2>2. CASE p # i
      <3>1. Marked(p)' <=> Marked(p)
        BY <1>0, <1>1, <2>2 DEF Marked
      <3> QED  BY <1>1, <1>2, <2>1, <2>2, <3>1
    <2>3. CASE p = i
      <3>1. PICK x, a, b, k, d \in Nat :
                /\ x = pipe[p] /\ a = line[p + 1].takes /\ b = todo[p + 1].takes
                /\ k = line[p].out /\ d = todo[p].out
        BY <1>0, PipeNumbers
      <3>2. ~Marked(p) /\ Marked(p)' /\ pipe'[p] = x + 1
        BY <1>2, <1>5, <2>3, <3>1
      <3>3. x + (a - b) = (k - d) + 0
        BY <2>1, <3>1, <3>2
      <3>4. (x + 1) + (a - b) = (k - d) + 1
        BY <3>3
      <3> QED  BY <3>1, <3>2, <3>4
    <2> QED  BY <2>2, <2>3
  <1> QED  BY <1>0, <1>3, <1>4, <1>6 DEF PipesInv, InLine

LEMMA EndsClosed == ASSUME PipesInv, Shell!Close PROVE PipesInv'
  <1> USE ShellSizes
  <1>0. /\ at = "close" /\ line' = line /\ todo' = todo /\ child' = child /\ pipe' = pipe
        /\ LineTypes /\ LineForked /\ Done /\ EndsHeld /\ Flow /\ InLine
    BY DEF Shell!Close, PipesInv, InLine
  <1>1. /\ Len(line) \in Nat /\ i \in Nat /\ 1 <= i /\ i <= Len(line) /\ Len(line) <= MaxCommands
        /\ \A p \in 1..(Len(line) - 1) : p \in Shell!Pipes
        /\ \A c \in Shell!Commands : c \in Nat
        /\ \A c \in 1..Len(line) : c \in Shell!Commands
    BY <1>0, Elements DEF LineForked
  <1>2. \A p \in Shell!Pipes : /\ rd'[p] = IF p = i - 1 THEN rd[p] \ {0} ELSE rd[p]
                               /\ wr'[p] = IF p = i THEN wr[p] \ {0} ELSE wr[p]
                               /\ rd'[p] \in SUBSET (0..MaxCommands)
                               /\ wr'[p] \in SUBSET (0..MaxCommands)
    <2>1. \A p \in Shell!Pipes : /\ rd'[p] = IF p = i - 1 THEN rd[p] \ {0} ELSE rd[p]
                                 /\ wr'[p] = IF p = i THEN wr[p] \ {0} ELSE wr[p]
      BY DEF Shell!Close
    <2>2. \A p \in Shell!Pipes : rd[p] \subseteq 0..MaxCommands /\ wr[p] \subseteq 0..MaxCommands
      BY <1>0, Elements
    <2> QED  BY <2>1, <2>2
  <1>3. \/ i < Len(line) /\ at' = "wait" /\ i' = i + 1
        \/ i = Len(line) /\ at' = "prompt" /\ i' = i
    BY <1>1 DEF Shell!Close
  <1>4. LineTypes'
    <2>1. /\ rd' \in [Shell!Pipes -> SUBSET (0..MaxCommands)]
          /\ wr' \in [Shell!Pipes -> SUBSET (0..MaxCommands)]
      <3>1. rd' = [p \in Shell!Pipes |-> rd'[p]] /\ wr' = [p \in Shell!Pipes |-> wr'[p]]
        BY DEF Shell!Close
      <3> QED  BY <1>2, <3>1
    <2>2. i' \in Shell!Commands
      BY <1>1, <1>3
    <2> QED  BY <1>0, <1>3, <2>1, <2>2 DEF LineTypes
  <1>5. CASE i < Len(line)
    <2>1. at' = "wait" /\ i' = i + 1
      BY <1>3, <1>5
    <2>2. LineForked'
      <3>1. \A c \in Shell!Commands : Waited(c)' => Waited(c)
        BY <1>0, <1>1, <2>1 DEF Waited, Forking
      <3> QED  BY <1>0, <1>1, <1>5, <2>1, <3>1 DEF LineForked, Forking
    <2>3. Done'
      BY <1>0 DEF Done
    <2>4. EndsHeld'
      <3>1. ASSUME NEW c \in 1..Len(line), child[c] = "running"
            PROVE  (c > 1 => c \in wr'[c - 1]) /\ (c < Len(line) => c \in rd'[c])
        <4>1. (c > 1 => c \in wr[c - 1]) /\ (c < Len(line) => c \in rd[c]) /\ c # 0
          BY <1>0, <3>1 DEF EndsHeld
        <4>2. (c > 1 => c - 1 \in Shell!Pipes) /\ (c < Len(line) => c \in Shell!Pipes)
          BY <1>1
        <4> QED  BY <1>2, <4>1, <4>2
      <3> QED  BY <1>0, <2>1, <3>1 DEF EndsHeld, Forking
    <2>5. Flow'
      <3>1. \A p \in 1..(Len(line) - 1) : Made(p) /\ (Marked(p)' <=> Marked(p))
        BY <1>0, <1>1, <2>1 DEF Made, Marked, Forking
      <3> QED  BY <1>0, <3>1 DEF Flow
    <2> QED  BY <1>4, <2>1, <2>2, <2>3, <2>4, <2>5 DEF PipesInv, InLine
  <1>6. CASE i = Len(line)
    <2>1. at' = "prompt"
      BY <1>1, <1>3, <1>6
    <2>2. \A c \in Shell!Commands : child[c] # "running"
      BY <1>0, <1>1, <1>6 DEF LineForked, Waited, Forking
    <2> QED  BY <1>0, <1>4, <2>1, <2>2 DEF PipesInv, InLine
  <1> QED  BY <1>3, <1>5, <1>6

(* A running command reads the pipe before it, which it will not find at   *)
(* its end, and writes the one behind it, whose reading end it has.        *)
LEMMA CommandRuns ==
    ASSUME PipesInv, NEW c \in Shell!Commands, child[c] = "running"
    PROVE  /\ LineTypes /\ LineForked /\ Done /\ EndsHeld /\ Flow /\ InLine
           /\ c \in 1..Len(line) /\ ~Waited(c) /\ (Forking => c < i)
           /\ c > 1 => c - 1 \in 1..(Len(line) - 1) /\ wr[c - 1] # {}
           /\ c < Len(line) => c \in 1..(Len(line) - 1) /\ rd[c] # {}
           /\ todo[c].takes > 0 => c > 1
           /\ todo[c].out > 0 => c < Len(line)
  <1> USE ShellSizes
  <1>1. LineTypes /\ LineForked /\ Done /\ EndsHeld /\ Flow /\ InLine
    BY DEF PipesInv
  <1>2. Len(line) \in Nat /\ i \in Nat
    BY <1>1, Elements
  <1>3. c \in 1..Len(line) /\ ~Waited(c) /\ (Forking => c < i)
    BY <1>1, <1>2 DEF LineForked
  <1>4. /\ c > 1 => c \in wr[c - 1]
        /\ c < Len(line) => c \in rd[c]
    BY <1>1, <1>3 DEF EndsHeld
  <1>5. /\ todo[c].out \in Nat /\ todo[c].takes \in Nat
        /\ todo[c].out <= line[c].out /\ todo[c].takes <= line[c].takes
        /\ line[1].takes = 0 /\ line[Len(line)].out = 0
    BY <1>1, <1>3, Elements DEF Done
  <1>6. /\ c > 1 => c - 1 \in 1..(Len(line) - 1)
        /\ c < Len(line) => c \in 1..(Len(line) - 1)
    BY <1>2, <1>3
  <1>7. /\ todo[c].takes > 0 => c # 1
        /\ todo[c].out > 0 => c # Len(line)
    BY <1>5
  <1> QED  BY <1>1, <1>2, <1>3, <1>4, <1>6, <1>7

LEMMA CommandReads ==
    ASSUME PipesInv, NEW c \in Shell!Commands, Shell!Read(c) PROVE PipesInv'
  <1> USE ShellSizes
  <1>1. child[c] = "running" /\ todo[c].takes > 0 /\ (pipe[c - 1] > 0 \/ wr[c - 1] = {})
    BY DEF Shell!Read, Shell!MayRead
  <1>2. /\ LineTypes /\ LineForked /\ Done /\ EndsHeld /\ Flow /\ InLine
        /\ c \in 1..Len(line) /\ c > 1 /\ c - 1 \in 1..(Len(line) - 1) /\ wr[c - 1] # {}
    BY <1>1, CommandRuns
  <1>3. /\ line' = line /\ child' = child /\ rd' = rd /\ wr' = wr /\ at' = at /\ i' = i
        /\ pipe' = [pipe EXCEPT ![c - 1] = @ - 1]
        /\ todo' = [todo EXCEPT ![c].takes = @ - 1]
    BY <1>1, <1>2 DEF Shell!Read
  <1>4. /\ Len(line) \in Nat
        /\ \A p \in 1..(Len(line) - 1) : p \in Shell!Pipes /\ p \in 1..Len(line) /\ p + 1 \in 1..Len(line)
        /\ \A d \in 1..Len(line) : d \in Shell!Commands
        /\ \A p \in Shell!Pipes : pipe[p] \in 0..PipeMax
        /\ \A d \in Shell!Commands : todo[d].out \in Nat /\ todo[d].takes \in Nat
        /\ \A d \in 1..Len(line) : line[d].out \in Nat /\ line[d].takes \in Nat
    BY <1>2, Elements
  <1>5. /\ pipe' \in [Shell!Pipes -> 0..PipeMax] /\ pipe'[c - 1] = pipe[c - 1] - 1
        /\ \A p \in Shell!Pipes : p # c - 1 => pipe'[p] = pipe[p]
    <2>1. pipe[c - 1] - 1 \in 0..PipeMax /\ c - 1 \in Shell!Pipes
      BY <1>1, <1>2, <1>4
    <2> QED  BY <1>2, <1>3, <2>1 DEF LineTypes
  <1>6. /\ todo' \in [Shell!Commands -> [out : 0..MaxOutput, takes : 0..Shell!All,
                                         first : {"in", "out"}]]
        /\ todo'[c].takes = todo[c].takes - 1 /\ todo'[c].out = todo[c].out
        /\ \A d \in Shell!Commands : d # c => todo'[d] = todo[d]
    <2>1. todo[c] \in [out : 0..MaxOutput, takes : 0..Shell!All, first : {"in", "out"}]
      BY <1>2 DEF LineTypes
    <2>2. PICK r : r = [todo[c] EXCEPT !.takes = @ - 1]
      OBVIOUS
    <2>3. todo' = [todo EXCEPT ![c] = r]
      BY <1>3, <2>2
    <2>4. r \in [out : 0..MaxOutput, takes : 0..Shell!All, first : {"in", "out"}]
          /\ r.takes = todo[c].takes - 1 /\ r.out = todo[c].out
      <3>1. todo[c].takes - 1 \in 0..Shell!All
        BY <1>1, <2>1
      <3> QED  BY <2>1, <2>2, <3>1
    <2> QED  BY <1>2, <2>3, <2>4 DEF LineTypes
  <1>7. LineTypes'
    BY <1>2, <1>3, <1>5, <1>6 DEF LineTypes
  <1>8. LineForked' /\ EndsHeld'
    BY <1>2, <1>3 DEF LineForked, EndsHeld, Waited, Forking, Made
  <1>9. Done'
    <2>1. ASSUME NEW d \in 1..Len(line)
          PROVE  /\ todo'[d].out <= line[d].out /\ todo'[d].takes <= line[d].takes
                 /\ child[d] = "none" => todo'[d] = line[d]
                 /\ child[d] = "exited" => todo'[d].out = 0 /\ todo'[d].takes = 0
      <3>1. CASE d = c
        <4>1. todo[c].out <= line[c].out /\ todo[c].takes <= line[c].takes
          BY <1>2 DEF Done
        <4>2. PICK a, b, e, f \in Nat : /\ a = todo[c].out /\ b = todo[c].takes
                                        /\ e = line[c].out /\ f = line[c].takes
          BY <1>2, <1>4
        <4>3. a <= e /\ b <= f
          BY <4>1, <4>2
        <4>5. a - 1 <= e /\ b - 1 <= f
          BY <4>3
        <4>4. todo'[c].out <= e /\ todo'[c].takes <= f
          BY <1>6, <4>2, <4>3, <4>5
        <4> QED  BY <1>1, <3>1, <4>2, <4>4
      <3>2. CASE d # c
        BY <1>2, <1>4, <1>6, <3>2 DEF Done
      <3> QED  BY <3>1, <3>2
    <2> QED  BY <1>2, <1>3, <2>1 DEF Done
  <1>10. Flow'
    <2> SUFFICES ASSUME NEW p \in 1..(Len(line) - 1), Made(p)
                 PROVE  pipe'[p] + (line[p + 1].takes - todo'[p + 1].takes)
                            = (line[p].out - todo'[p].out) + IF Marked(p) THEN 1 ELSE 0
      BY <1>3 DEF Flow, Made, Marked, Forking
    <2>1. PICK b \in 0..1 : b = IF Marked(p) THEN 1 ELSE 0
      OBVIOUS
    <2>2. pipe[p] + (line[p + 1].takes - todo[p + 1].takes) = (line[p].out - todo[p].out) + b
      BY <1>2, <2>1 DEF Flow
    <2>3. todo'[p].out = todo[p].out
      BY <1>4, <1>6
    <2>4. PICK x, a, e, k, d \in Nat :
              /\ x = pipe[p] /\ a = line[p + 1].takes /\ e = todo[p + 1].takes
              /\ k = line[p].out /\ d = todo[p].out
      BY <1>2, PipeNumbers
    <2>5. x + (a - e) = (k - d) + b
      BY <2>2, <2>4
    <2>6. CASE p = c - 1
      <3>1. p + 1 = c
        BY <1>4, <2>6
      <3>2. pipe'[p] = x - 1 /\ todo'[p + 1].takes = e - 1
        BY <1>5, <1>6, <2>4, <2>6, <3>1
      <3>3. (x - 1) + (a - (e - 1)) = (k - d) + b
        BY <2>5
      <3> QED  BY <2>1, <2>3, <2>4, <3>2, <3>3
    <2>7. CASE p # c - 1
      <3>1. p + 1 # c /\ p \in Shell!Pipes /\ p + 1 \in Shell!Commands
        BY <1>4, <2>7
      <3>2. pipe'[p] = x /\ todo'[p + 1].takes = e
        BY <1>5, <1>6, <2>4, <2>7, <3>1
      <3> QED  BY <2>1, <2>3, <2>4, <2>5, <3>2
    <2> QED  BY <2>6, <2>7
  <1> QED  BY <1>2, <1>3, <1>7, <1>8, <1>9, <1>10 DEF PipesInv, InLine

LEMMA CommandWrites ==
    ASSUME PipesInv, NEW c \in Shell!Commands, Shell!Write(c) PROVE PipesInv'
  <1> USE ShellSizes
  <1>1. child[c] = "running" /\ todo[c].out > 0 /\ (pipe[c] < PipeMax \/ rd[c] = {})
    BY DEF Shell!Write, Shell!MayWrite
  <1>2. /\ LineTypes /\ LineForked /\ Done /\ EndsHeld /\ Flow /\ InLine
        /\ c \in 1..Len(line) /\ c < Len(line) /\ c \in 1..(Len(line) - 1) /\ rd[c] # {}
    BY <1>1, CommandRuns
  <1>3. /\ line' = line /\ child' = child /\ rd' = rd /\ wr' = wr /\ at' = at /\ i' = i
        /\ pipe' = [pipe EXCEPT ![c] = @ + 1]
        /\ todo' = [todo EXCEPT ![c].out = @ - 1]
    BY <1>1, <1>2 DEF Shell!Write
  <1>4. /\ Len(line) \in Nat
        /\ \A p \in 1..(Len(line) - 1) : p \in Shell!Pipes /\ p \in 1..Len(line) /\ p + 1 \in 1..Len(line)
        /\ \A d \in 1..Len(line) : d \in Shell!Commands
        /\ \A p \in Shell!Pipes : pipe[p] \in 0..PipeMax
        /\ \A d \in Shell!Commands : todo[d].out \in Nat /\ todo[d].takes \in Nat
        /\ \A d \in 1..Len(line) : line[d].out \in Nat /\ line[d].takes \in Nat
    BY <1>2, Elements
  <1>5. /\ pipe' \in [Shell!Pipes -> 0..PipeMax] /\ pipe'[c] = pipe[c] + 1
        /\ \A p \in Shell!Pipes : p # c => pipe'[p] = pipe[p]
    <2>1. pipe[c] + 1 \in 0..PipeMax /\ c \in Shell!Pipes
      BY <1>1, <1>2, <1>4
    <2> QED  BY <1>2, <1>3, <2>1 DEF LineTypes
  <1>6. /\ todo' \in [Shell!Commands -> [out : 0..MaxOutput, takes : 0..Shell!All,
                                         first : {"in", "out"}]]
        /\ todo'[c].out = todo[c].out - 1 /\ todo'[c].takes = todo[c].takes
        /\ \A d \in Shell!Commands : d # c => todo'[d] = todo[d]
    <2>1. todo[c] \in [out : 0..MaxOutput, takes : 0..Shell!All, first : {"in", "out"}]
      BY <1>2 DEF LineTypes
    <2>2. PICK r : r = [todo[c] EXCEPT !.out = @ - 1]
      OBVIOUS
    <2>3. todo' = [todo EXCEPT ![c] = r]
      BY <1>3, <2>2
    <2>4. r \in [out : 0..MaxOutput, takes : 0..Shell!All, first : {"in", "out"}]
          /\ r.out = todo[c].out - 1 /\ r.takes = todo[c].takes
      <3>1. todo[c].out - 1 \in 0..MaxOutput
        BY <1>1, <2>1
      <3> QED  BY <2>1, <2>2, <3>1
    <2> QED  BY <1>2, <2>3, <2>4 DEF LineTypes
  <1>7. LineTypes'
    BY <1>2, <1>3, <1>5, <1>6 DEF LineTypes
  <1>8. LineForked' /\ EndsHeld'
    BY <1>2, <1>3 DEF LineForked, EndsHeld, Waited, Forking, Made
  <1>9. Done'
    <2>1. ASSUME NEW d \in 1..Len(line)
          PROVE  /\ todo'[d].out <= line[d].out /\ todo'[d].takes <= line[d].takes
                 /\ child[d] = "none" => todo'[d] = line[d]
                 /\ child[d] = "exited" => todo'[d].out = 0 /\ todo'[d].takes = 0
      <3>1. CASE d = c
        <4>1. todo[c].out <= line[c].out /\ todo[c].takes <= line[c].takes
          BY <1>2 DEF Done
        <4>2. PICK a, b, e, f \in Nat : /\ a = todo[c].out /\ b = todo[c].takes
                                        /\ e = line[c].out /\ f = line[c].takes
          BY <1>2, <1>4
        <4>3. a <= e /\ b <= f
          BY <4>1, <4>2
        <4>5. a - 1 <= e /\ b - 1 <= f
          BY <4>3
        <4>4. todo'[c].out <= e /\ todo'[c].takes <= f
          BY <1>6, <4>2, <4>3, <4>5
        <4> QED  BY <1>1, <3>1, <4>2, <4>4
      <3>2. CASE d # c
        BY <1>2, <1>4, <1>6, <3>2 DEF Done
      <3> QED  BY <3>1, <3>2
    <2> QED  BY <1>2, <1>3, <2>1 DEF Done
  <1>10. Flow'
    <2> SUFFICES ASSUME NEW p \in 1..(Len(line) - 1), Made(p)
                 PROVE  pipe'[p] + (line[p + 1].takes - todo'[p + 1].takes)
                            = (line[p].out - todo'[p].out) + IF Marked(p) THEN 1 ELSE 0
      BY <1>3 DEF Flow, Made, Marked, Forking
    <2>1. PICK b \in 0..1 : b = IF Marked(p) THEN 1 ELSE 0
      OBVIOUS
    <2>2. pipe[p] + (line[p + 1].takes - todo[p + 1].takes) = (line[p].out - todo[p].out) + b
      BY <1>2, <2>1 DEF Flow
    <2>3. todo'[p + 1].takes = todo[p + 1].takes
      BY <1>4, <1>6
    <2>4. PICK x, a, e, k, d \in Nat :
              /\ x = pipe[p] /\ a = line[p + 1].takes /\ e = todo[p + 1].takes
              /\ k = line[p].out /\ d = todo[p].out
      BY <1>2, PipeNumbers
    <2>5. x + (a - e) = (k - d) + b
      BY <2>2, <2>4
    <2>6. CASE p = c
      <3>1. pipe'[p] = x + 1 /\ todo'[p].out = d - 1
        BY <1>5, <1>6, <2>4, <2>6
      <3>2. (x + 1) + (a - e) = (k - (d - 1)) + b
        BY <2>5
      <3> QED  BY <2>1, <2>3, <2>4, <3>1, <3>2
    <2>7. CASE p # c
      <3>1. p \in Shell!Pipes /\ p \in Shell!Commands
        BY <1>4
      <3>2. pipe'[p] = x /\ todo'[p].out = d
        BY <1>5, <1>6, <2>4, <2>7, <3>1
      <3> QED  BY <2>1, <2>3, <2>4, <2>5, <3>2
    <2> QED  BY <2>6, <2>7
  <1> QED  BY <1>2, <1>3, <1>7, <1>8, <1>9, <1>10 DEF PipesInv, InLine

LEMMA CommandExits ==
    ASSUME PipesInv, NEW c \in Shell!Commands, Shell!Exit(c) PROVE PipesInv'
  <1> USE ShellSizes
  <1>1. child[c] = "running" /\ todo[c].out = 0 /\ todo[c].takes = 0
    BY DEF Shell!Exit, Shell!MayExit
  <1>2. /\ LineTypes /\ LineForked /\ Done /\ EndsHeld /\ Flow /\ InLine
        /\ c \in 1..Len(line) /\ ~Waited(c) /\ (Forking => c < i)
    BY <1>1, CommandRuns
  <1>3. /\ line' = line /\ todo' = todo /\ pipe' = pipe /\ at' = at /\ i' = i
    BY DEF Shell!Exit
  <1>4. /\ Len(line) \in Nat /\ i \in Nat /\ c \in Nat
        /\ \A p \in 1..(Len(line) - 1) : p \in Shell!Pipes
        /\ \A d \in 1..Len(line) : d \in Shell!Commands
    BY <1>2, Elements
  <1>5. /\ child' \in [Shell!Commands -> {"none", "running", "exited"}] /\ child'[c] = "exited"
        /\ \A d \in Shell!Commands : d # c => child'[d] = child[d]
    BY <1>2 DEF Shell!Exit, LineTypes
  <1>6. \A p \in Shell!Pipes : /\ rd'[p] = rd[p] \ {c} /\ wr'[p] = wr[p] \ {c}
                               /\ rd'[p] \in SUBSET (0..MaxCommands)
                               /\ wr'[p] \in SUBSET (0..MaxCommands)
    <2>1. \A p \in Shell!Pipes : rd'[p] = rd[p] \ {c} /\ wr'[p] = wr[p] \ {c}
      BY DEF Shell!Exit
    <2>2. \A p \in Shell!Pipes : rd[p] \subseteq 0..MaxCommands /\ wr[p] \subseteq 0..MaxCommands
      BY <1>2, Elements
    <2> QED  BY <2>1, <2>2
  <1>7. LineTypes'
    <2>1. /\ rd' \in [Shell!Pipes -> SUBSET (0..MaxCommands)]
          /\ wr' \in [Shell!Pipes -> SUBSET (0..MaxCommands)]
      <3>1. rd' = [p \in Shell!Pipes |-> rd'[p]] /\ wr' = [p \in Shell!Pipes |-> wr'[p]]
        BY DEF Shell!Exit
      <3> QED  BY <1>6, <3>1
    <2> QED  BY <1>2, <1>3, <1>5, <2>1 DEF LineTypes
  <1>8. LineForked'
    <2>1. \A d \in Shell!Commands : (child'[d] = "none" <=> child[d] = "none")
                                    /\ (Waited(d)' <=> Waited(d))
      BY <1>1, <1>3, <1>5 DEF Waited, Forking
    <2>2. \A d \in Shell!Commands : Waited(d) => child'[d] = "exited"
      BY <1>2, <1>5 DEF LineForked
    <2> QED  BY <1>2, <1>3, <2>1, <2>2 DEF LineForked, Forking
  <1>9. Done'
    <2>1. ASSUME NEW d \in 1..Len(line)
          PROVE  /\ child'[d] = "none" => todo[d] = line[d]
                 /\ child'[d] = "exited" => todo[d].out = 0 /\ todo[d].takes = 0
      BY <1>1, <1>2, <1>4, <1>5 DEF Done
    <2> QED  BY <1>2, <1>3, <2>1 DEF Done
  <1>10. EndsHeld'
    <2>1. \A p \in 1..(Len(line) - 1) : Forking /\ Made(p) => 0 \in rd'[p] /\ 0 \in wr'[p]
      BY <1>2, <1>4, <1>6 DEF EndsHeld
    <2>2. ASSUME NEW d \in 1..Len(line), child'[d] = "running"
          PROVE  (d > 1 => d \in wr'[d - 1]) /\ (d < Len(line) => d \in rd'[d])
      <3>1. d # c /\ child[d] = "running"
        BY <1>4, <1>5, <2>2
      <3>2. (d > 1 => d \in wr[d - 1]) /\ (d < Len(line) => d \in rd[d])
        BY <1>2, <3>1 DEF EndsHeld
      <3>3. (d > 1 => d - 1 \in Shell!Pipes) /\ (d < Len(line) => d \in Shell!Pipes)
        BY <1>4
      <3> QED  BY <1>6, <3>1, <3>2, <3>3
    <2> QED  BY <1>3, <2>1, <2>2 DEF EndsHeld, Forking, Made
  <1>11. Flow'
    BY <1>2, <1>3 DEF Flow, Made, Marked, Forking
  <1> QED  BY <1>2, <1>3, <1>7, <1>8, <1>9, <1>10, <1>11 DEF PipesInv, InLine

LEMMA PipesStep == PipesInv /\ [RunTask]_main_vars => PipesInv' /\ [Shell!Next]_pipes
  <1>1. [RunTask]_main_vars => [Shell!Next]_pipes
    BY DEF RunTask, main_vars, sequential, processes, RunPhonebook, RunFileManager, RunMatrix,
           RunBytes, RunPlugins, RunShell, RunForkTask, RunShmTest, RunMsgTask, RunSocketTask,
           RunSelectServer
  <1> SUFFICES ASSUME PipesInv, [Shell!Next]_pipes PROVE PipesInv'
    BY <1>1
  <1>2. CASE Shell!Next
    <2>1. CASE Shell!Quit
      BY <2>1 DEF Shell!Quit, PipesInv, LineTypes, InLine
    <2> QED  BY <1>2, <2>1, LineRead, PipesSet, CommandForked, CommandWaitedFor, BytesWritten,
                EndsClosed, CommandReads, CommandWrites, CommandExits
             DEF Shell!Next, Shell!ShellStep, Shell!ChildStep
  <1>3. CASE UNCHANGED pipes
    BY <1>3 DEF pipes, PipesInv, LineTypes, InLine, LineForked, Done, EndsHeld, Flow, Made, Marked,
                Waited, Forking
  <1> QED  BY <1>2, <1>3

LEMMA PipesKept == MainSpec => []PipesInv
  <1>1. MainInit => PipesInv
    BY ShellSizes DEF MainInit, Shell!Init, PipesInv, LineTypes, InLine, Shell!Command,
                      Shell!NoCommand
  <1> QED  BY <1>1, PipesStep, PTL DEF MainSpec

(* When every command has exited, what is in the pipes tells what they     *)
(* wrote and read.                                                         *)
LEMMA ReturnIsHarmless ==
    ASSUME PipesInv, at = "close", i = Len(line) PROVE Shell!Harmless
  <1> USE ShellSizes
  <1>1. LineTypes /\ LineForked /\ Done /\ Flow
    BY DEF PipesInv, InLine
  <1>2. SUFFICES ASSUME NEW p \in 1..(Len(line) - 1)
                 PROVE  /\ line[p + 1].takes # MaxOutput + 2
                        /\ line[p].out + 1 <= PipeMax + line[p + 1].takes
    BY DEF Shell!Harmless
  <1>3. /\ p \in 1..Len(line) /\ p + 1 \in 1..Len(line)
        /\ p \in Shell!Commands /\ p + 1 \in Shell!Commands /\ Len(line) \in Nat
    BY <1>1, Elements
  <1>4. child[p] = "exited" /\ child[p + 1] = "exited"
    BY <1>1, <1>3 DEF LineForked, Waited, Forking
  <1>5. todo[p].out = 0 /\ todo[p + 1].takes = 0
    BY <1>1, <1>3, <1>4 DEF Done
  <1>6. pipe[p] + (line[p + 1].takes - todo[p + 1].takes) = (line[p].out - todo[p].out) + 1
    BY <1>1, <1>3 DEF Flow, Made, Marked, Forking
  <1>7. PICK x, a, b, c, d \in Nat :
            /\ x = pipe[p] /\ a = line[p + 1].takes /\ b = todo[p + 1].takes
            /\ c = line[p].out /\ d = todo[p].out /\ x <= PipeMax
    BY <1>1, PipeNumbers
  <1>8. b = 0 /\ d = 0 /\ x + (a - b) = (c - d) + 1
    BY <1>5, <1>6, <1>7
  <1>9. x + a = c + 1
    BY <1>8
  <1>10. c <= MaxOutput
    <2>1. line[p] \in Shell!Command
      BY <1>1, <1>3, Elements
    <2> QED  BY <1>7, <2>1 DEF Shell!Command
  <1>11. x <= PipeMax
    BY <1>7
  <1>12. a # MaxOutput + 2 /\ c + 1 <= PipeMax + a
    BY <1>9, <1>10, <1>11
  <1> QED  BY <1>7, <1>12

(* However long the pipelines and whatever the commands do, the shell      *)
(* comes back to its prompt after none but the harmless lines: a command   *)
(* that reads to the end of its pipe holds the writing end of it, and what *)
(* nobody takes out of a pipe must fit into it.                            *)
THEOREM ReturnsFromHarmlessOnly == MainSpec => Shell!ReturnsHarmless
  <1>1. PipesInv /\ [RunTask]_main_vars =>
            [at = "close" /\ at' = "prompt" => Shell!Harmless]_pipes
    <2> SUFFICES ASSUME PipesInv, Shell!Next, at = "close", at' = "prompt" PROVE Shell!Harmless
      BY PipesStep
    <2>1. Shell!Close
      BY DEF Shell!Next, Shell!ReadLine, Shell!Quit, Shell!ShellStep, Shell!SetPipes, Shell!Fork,
             Shell!Wait, Shell!WriteMark, Shell!ChildStep, Shell!Read, Shell!Write, Shell!Exit
    <2>2. i = Len(line)
      <3>1. i <= Len(line) /\ i \in Nat /\ Len(line) \in Nat
        BY Elements DEF PipesInv, InLine, LineForked
      <3> QED  BY <2>1, <3>1 DEF Shell!Close
    <2> QED  BY <2>2, ReturnIsHarmless
  <1> QED  BY <1>1, PipesKept, PTL DEF MainSpec, Shell!ReturnsHarmless, pipes, Shell!vars

(* The command that is waited for can always go on after a harmless line,  *)
(* and so can the one behind it if the shell waits to write.               *)
LEMMA CommandGoesOn ==
    ASSUME PipesInv, InLine, Shell!Harmless, NEW c \in 1..Len(line), child[c] = "running",
           ~Forking, c = i \/ (c = i + 1 /\ at = "mark" /\ pipe[i] > 0)
    PROVE  Shell!MayRead(c) \/ Shell!MayWrite(c) \/ Shell!MayExit(c)
  <1> USE ShellSizes
  <1>0. c \in Shell!Commands
    BY Elements DEF PipesInv
  <1>1. /\ LineTypes /\ LineForked /\ Done /\ EndsHeld /\ Flow
        /\ c > 1 => c - 1 \in 1..(Len(line) - 1)
        /\ c < Len(line) => c \in 1..(Len(line) - 1)
        /\ todo[c].takes > 0 => c > 1
        /\ todo[c].out > 0 => c < Len(line)
    BY <1>0, CommandRuns
  <1>2. /\ Len(line) \in Nat /\ i \in Nat /\ c \in Nat /\ 1 <= i
        /\ todo[c].takes \in Nat /\ todo[c].out \in Nat
        /\ todo[c].first \in {"in", "out"}
    <2>1. todo[c] \in [out : 0..MaxOutput, takes : 0..Shell!All, first : {"in", "out"}]
      BY <1>0, <1>1 DEF LineTypes
    <2> QED  BY <1>1, <2>1, Elements
  <1>3. ASSUME todo[c].takes > 0 PROVE pipe[c - 1] > 0
    <2>1. CASE c = i + 1
      BY <1>2, <2>1
    <2>2. CASE c = i
      <3>1. PICK p \in 1..(Len(line) - 1) : p = c - 1 /\ p + 1 = c
        BY <1>1, <1>2, <1>3
      <3>2. p \in Shell!Commands /\ p \in 1..Len(line)
        BY <1>1, Elements
      <3>3. child[p] = "exited"
        BY <1>1, <1>2, <2>2, <3>1, <3>2 DEF LineForked, Waited
      <3>4. todo[p].out = 0
        BY <1>1, <3>2, <3>3 DEF Done
      <3>5. pipe[p] + (line[c].takes - todo[c].takes) = (line[p].out - todo[p].out) + 1
        <4>1. Made(p) /\ Marked(p)
          BY <1>1, <1>2, <2>2, <3>1 DEF Made, Marked, Forking, LineTypes, InLine
        <4> QED  BY <1>1, <3>1, <4>1 DEF Flow
      <3>6. line[c].takes # MaxOutput + 2
        BY <3>1 DEF Shell!Harmless
      <3>7. todo[c].takes <= line[c].takes
        BY <1>1 DEF Done
      <3>8. PICK x, a, b, k, d \in Nat :
                /\ x = pipe[p] /\ a = line[p + 1].takes /\ b = todo[p + 1].takes
                /\ k = line[p].out /\ d = todo[p].out
                /\ x <= PipeMax /\ (a # MaxOutput + 2 => a <= 1)
        BY <1>1, PipeNumbers
      <3>9. d = 0 /\ a <= 1 /\ b <= a /\ b > 0 /\ x + (a - b) = (k - d) + 1
        BY <1>3, <3>1, <3>4, <3>5, <3>6, <3>7, <3>8
      <3>10. x > 0
        BY <3>9
      <3> QED  BY <3>1, <3>8, <3>10
    <2> QED  BY <2>1, <2>2
  <1>4. ASSUME todo[c].out > 0 PROVE pipe[c] < PipeMax
    <2>1. PICK p \in 1..(Len(line) - 1) : p = c
      BY <1>1, <1>4
    <2>3. pipe[p] + (line[p + 1].takes - todo[p + 1].takes) = (line[p].out - todo[p].out) + 0
      <3>1. Made(p) /\ ~Marked(p)
        <4>1. ~Waited(c)
          BY <1>0, CommandRuns
        <4> QED  BY <1>1, <1>2, <2>1, <4>1 DEF Made, Marked, Waited, Forking
      <3> QED  BY <1>1, <3>1 DEF Flow
    <2>4. /\ line[p + 1].takes # MaxOutput + 2
          /\ line[p].out + 1 <= PipeMax + line[p + 1].takes
      BY DEF Shell!Harmless
    <2>5. PICK x, a, b, k, d \in Nat :
              /\ x = pipe[p] /\ a = line[p + 1].takes /\ b = todo[p + 1].takes
              /\ k = line[p].out /\ d = todo[p].out
              /\ x <= PipeMax /\ (a # MaxOutput + 2 => a <= 1)
      BY <1>1, PipeNumbers
    <2>6. /\ d > 0 /\ x + (a - b) = (k - d) + 0
          /\ a <= 1 /\ k + 1 <= PipeMax + a
      BY <1>4, <2>1, <2>3, <2>4, <2>5
    <2>7. b <= a
      BY <1>1, <2>1, <2>5, Elements DEF Done
    <2>8. x < PipeMax
      BY <2>6, <2>7
    <2> QED  BY <2>1, <2>5, <2>8
  <1> QED  BY <1>0, <1>2, <1>3, <1>4 DEF Shell!MayRead, Shell!MayWrite, Shell!MayExit

(* After a harmless line the shell, or a command, can always go on, until  *)
(* the prompt is back.                                                     *)
THEOREM HarmlessLinesGoOn == MainSpec => []Shell!GoesOn
  <1>1. PipesInv => Shell!GoesOn
    <2> SUFFICES ASSUME PipesInv, InLine, Shell!Harmless, at \in {"wait", "mark"},
                        at = "wait" => child[i] # "exited",
                        at = "mark" => ~(pipe[i] < PipeMax)
                 PROVE  \E c \in Shell!Commands :
                            Shell!MayRead(c) \/ Shell!MayWrite(c) \/ Shell!MayExit(c)
      BY DEF Shell!GoesOn, PipesInv, LineTypes, InLine
    <2> USE ShellSizes
    <2>1. LineTypes /\ LineForked /\ Done /\ Flow /\ ~Forking
      BY DEF PipesInv, Forking
    <2>2. /\ Len(line) \in Nat /\ i \in Nat /\ 1 <= i /\ i <= Len(line)
          /\ \A c \in 1..Len(line) : /\ c \in Shell!Commands
                                     /\ child[c] \in {"none", "running", "exited"}
          /\ at = "mark" => i < Len(line)
      BY <2>1, Elements DEF LineForked
    <2>3. CASE at = "wait"
      <3>1. child[i] = "running"
        BY <2>1, <2>2, <2>3 DEF LineForked
      <3> QED  BY <2>1, <2>2, <3>1, CommandGoesOn
    <2>4. CASE at = "mark"
      <3>1. PICK p \in 1..(Len(line) - 1) : p = i
        BY <2>2, <2>4
      <3>2. /\ p + 1 \in 1..Len(line) /\ p + 1 \in Shell!Commands /\ p \in 1..Len(line)
            /\ p \in Shell!Commands
        BY <2>1, Elements
      <3>3. todo[p].out = 0
        BY <2>1, <2>2, <2>4, <3>1, <3>2 DEF LineForked, Done, Waited
      <3>4. pipe[p] + (line[p + 1].takes - todo[p + 1].takes) = (line[p].out - todo[p].out) + 0
        BY <2>1, <2>2, <2>4, <3>1 DEF Flow, Made, Marked
      <3>5. line[p].out + 1 <= PipeMax + line[p + 1].takes
        BY DEF Shell!Harmless
      <3>6. PICK x, a, b, k, d \in Nat :
                /\ x = pipe[p] /\ a = line[p + 1].takes /\ b = todo[p + 1].takes
                /\ k = line[p].out /\ d = todo[p].out
        BY <2>1, PipeNumbers
      <3>7. d = 0 /\ x + (a - b) = (k - d) + 0 /\ k + 1 <= PipeMax + a /\ ~(x < PipeMax)
        BY <2>4, <3>1, <3>3, <3>4, <3>5, <3>6
      <3>8. b > 0 /\ b <= a
        <4>1. b <= a
          BY <2>1, <3>2, <3>6 DEF Done
        <4>2. b > 0
          BY <3>7
        <4> QED  BY <4>1, <4>2
      <3>9. child[p + 1] = "running"
        <4>1. p + 1 <= Len(line) /\ child[p + 1] \in {"none", "running", "exited"}
          BY <2>2, <3>2
        <4>2. child[p + 1] # "none"
          BY <2>1, <3>2, <4>1 DEF LineForked
        <4>3. child[p + 1] # "exited"
          BY <2>1, <3>2, <3>6, <3>8 DEF Done
        <4> QED  BY <4>1, <4>2, <4>3
      <3>10. pipe[p] > 0
        <4>1. x > 0
          BY <3>7, <3>8
        <4> QED  BY <3>6, <4>1
      <3> QED  BY <2>1, <2>2, <2>4, <3>1, <3>2, <3>9, <3>10, CommandGoesOn
    <2> QED  BY <2>3, <2>4
  <1> QED  BY <1>1, PipesKept, PTL

-----------------------------------------------------------------------------
(* The fork task.  What a process has forked it forked in its order, and a *)
(* child is there just if the fork it is of succeeded; of the first pids,  *)
(* as many as it has waited for, all have ended.                           *)
Forked(p, k) == k <= Len(pids[p]) /\ pids[p][k] # ForkTask!Failed
FamilyInv ==
    /\ process \in [ForkTask!Processes -> {"none", "begins", "runs", "ended"}]
    /\ pids \in [ForkTask!Processes -> Seq(ForkTask!Processes \cup {ForkTask!Failed})]
    /\ waits \in [ForkTask!Processes -> Nat]
    /\ \A p \in ForkTask!Processes :
          /\ Len(pids[p]) <= Len(ForkTask!Forks[p])
          /\ waits[p] <= Len(pids[p])
          /\ process[p] = "ended" => waits[p] = Len(ForkTask!Forks[p])
          /\ \A k \in 1..Len(ForkTask!Forks[p]) :
                /\ Forked(p, k) => pids[p][k] = ForkTask!Forks[p][k]
                /\ ~Forked(p, k) => process[ForkTask!Forks[p][k]] = "none"
                /\ Forked(p, k) /\ k <= waits[p] => process[ForkTask!Forks[p][k]] = "ended"

(* Every process but the first is forked by one other, at one place.       *)
LEMMA OneParent ==
    /\ \A p \in ForkTask!Processes :
          /\ ForkTask!Forks[p] \in Seq(ForkTask!Processes)
          /\ Len(ForkTask!Forks[p]) \in Nat
          /\ \A k \in 1..Len(ForkTask!Forks[p]) :
                /\ ForkTask!Forks[p][k] \in ForkTask!Processes \ {ForkTask!Root}
                /\ ForkTask!Forks[p][k] # ForkTask!Failed
    /\ \A p, q \in ForkTask!Processes :
          \A k \in 1..Len(ForkTask!Forks[p]), l \in 1..Len(ForkTask!Forks[q]) :
              ForkTask!Forks[p][k] = ForkTask!Forks[q][l] => p = q /\ k = l
  BY DEF ForkTask!Forks, ForkTask!Processes, ForkTask!Root, ForkTask!Failed

(* A process that is no child about to be forked moves on.                 *)
LEMMA ProcessMoves ==
    ASSUME FamilyInv, NEW p \in ForkTask!Processes, NEW place \in {"begins", "runs", "ended"},
           process[p] \in {"begins", "runs"} \/ (p = ForkTask!Root /\ process[p] = "none"),
           place = "ended" => waits[p] = Len(ForkTask!Forks[p]),
           process' = [process EXCEPT ![p] = place], UNCHANGED <<pids, waits>>
    PROVE  FamilyInv'
  <1> DEFINE P == ForkTask!Processes
             Forks == ForkTask!Forks
  <1>1. /\ process' \in [P -> {"none", "begins", "runs", "ended"}] /\ process'[p] = place
        /\ \A q \in P : q # p => process'[q] = process[q]
    BY DEF FamilyInv
  <1>2. ASSUME NEW q \in P, NEW k \in 1..Len(Forks[q])
        PROVE  /\ ~Forked(q, k) => process'[Forks[q][k]] = "none"
               /\ Forked(q, k) /\ k <= waits[q] => process'[Forks[q][k]] = "ended"
    <2>1. PICK c \in P \ {ForkTask!Root} : c = Forks[q][k]
      BY OneParent
    <2>2. /\ ~Forked(q, k) => process[c] = "none"
          /\ Forked(q, k) /\ k <= waits[q] => process[c] = "ended"
      BY <2>1 DEF FamilyInv
    <2>3. process[c] \in {"none", "ended"} => c # p
      BY <2>1
    <2> QED  BY <1>1, <2>1, <2>2, <2>3
  <1>3. \A q \in P : process'[q] = "ended" => waits[q] = Len(Forks[q])
    BY <1>1 DEF FamilyInv
  <1> QED  BY <1>1, <1>2, <1>3 DEF FamilyInv, Forked

LEMMA FamilyStep == FamilyInv /\ ForkTask!Next => FamilyInv'
  <1> SUFFICES ASSUME FamilyInv, ForkTask!Next PROVE FamilyInv'
    OBVIOUS
  <1> DEFINE P == ForkTask!Processes
             Forks == ForkTask!Forks
  <1>1. CASE ForkTask!Start
    <2>1. /\ process' = [process EXCEPT ![ForkTask!Root] = "begins"] /\ UNCHANGED <<pids, waits>>
          /\ process[ForkTask!Root] = "none" /\ ForkTask!Root \in P
      BY <1>1 DEF ForkTask!Start, ForkTask!Processes
    <2> QED  BY <2>1, ProcessMoves
  <1>2. ASSUME NEW p \in P, ForkTask!print_introduction(p) PROVE FamilyInv'
    <2>1. /\ process[p] = "begins" /\ process' = [process EXCEPT ![p] = "runs"]
          /\ UNCHANGED <<pids, waits>>
      BY <1>2 DEF ForkTask!print_introduction
    <2> QED  BY <2>1, ProcessMoves
  <1>3. ASSUME NEW p \in P, ForkTask!Fork(p) PROVE FamilyInv'
    <2> DEFINE c == Forks[p][Len(pids[p]) + 1]
    <2>1. /\ process[p] = "runs" /\ Len(pids[p]) < Len(Forks[p]) /\ UNCHANGED waits
          /\ \/ /\ pids' = [pids EXCEPT ![p] = Append(pids[p], c)]
                /\ process' = [process EXCEPT ![c] = "begins"]
             \/ /\ pids' = [pids EXCEPT ![p] = Append(pids[p], ForkTask!Failed)]
                /\ UNCHANGED process
      BY <1>3 DEF ForkTask!Fork
    <2> DEFINE m == Len(pids[p]) + 1
    <2>2. /\ Len(pids[p]) \in Nat /\ m \in 1..Len(Forks[p]) /\ Len(Forks[p]) \in Nat
          /\ pids[p] \in Seq(P \cup {ForkTask!Failed})
          /\ waits[p] \in Nat /\ waits[p] <= Len(pids[p])
      BY <2>1, OneParent DEF FamilyInv
    <2>3. c \in P /\ c # ForkTask!Failed /\ process[c] = "none"
      <3>1. c = Forks[p][m] /\ ~Forked(p, m)
        BY <2>2 DEF Forked
      <3> QED  BY <2>2, <3>1, OneParent DEF FamilyInv
    <2>4. PICK pid \in {c, ForkTask!Failed} :
              /\ pids' = [pids EXCEPT ![p] = Append(pids[p], pid)]
              /\ process' = IF pid = c THEN [process EXCEPT ![c] = "begins"] ELSE process
      BY <2>1, <2>3
    <2>5. c = Forks[p][m]
      OBVIOUS
    <2> HIDE DEF c
    <2>6. /\ pids' \in [P -> Seq(P \cup {ForkTask!Failed})]
          /\ \A q \in P : q # p => pids'[q] = pids[q]
          /\ Len(pids'[p]) = m /\ pids'[p][m] = pid
          /\ \A k \in 1..Len(pids[p]) : pids'[p][k] = pids[p][k]
      <3>1. Append(pids[p], pid) \in Seq(P \cup {ForkTask!Failed})
        BY <2>2, <2>3, <2>4, AppendProperties
      <3> QED  BY <2>2, <2>3, <2>4, <3>1, AppendProperties DEF FamilyInv
    <2> HIDE DEF m
    <2>7. /\ process' \in [P -> {"none", "begins", "runs", "ended"}]
          /\ \A q \in P : q # c => process'[q] = process[q]
          /\ process'[c] = IF pid = c THEN "begins" ELSE "none"
      BY <2>3, <2>4 DEF FamilyInv
    <2>8. \A q \in P : process'[q] = "ended" => waits[q] = Len(Forks[q])
      BY <2>3, <2>7 DEF FamilyInv
    <2>9. \A q \in P : Len(pids'[q]) <= Len(Forks[q]) /\ waits[q] <= Len(pids'[q])
      <3>1. m <= Len(Forks[p]) /\ waits[p] <= m
        BY <2>2 DEF m
      <3> QED  BY <2>6, <3>1 DEF FamilyInv
    <2>10. ASSUME NEW q \in P, NEW k \in 1..Len(Forks[q])
           PROVE  /\ Forked(q, k)' => pids'[q][k] = Forks[q][k]
                  /\ ~Forked(q, k)' => process'[Forks[q][k]] = "none"
                  /\ Forked(q, k)' /\ k <= waits[q] => process'[Forks[q][k]] = "ended"
      <3>1. CASE q = p /\ k = m
        <4>1. Forks[q][k] = c /\ pids'[q][k] = pid /\ ~(k <= waits[q])
          BY <2>2, <2>5, <2>6, <3>1 DEF m
        <4>2. Forked(q, k)' <=> pid # ForkTask!Failed
          BY <2>2, <2>6, <3>1 DEF Forked, m
        <4> QED  BY <2>3, <2>4, <2>7, <4>1, <4>2
      <3>2. CASE ~(q = p /\ k = m)
        <4>1. Forks[q][k] # c /\ Forks[q][k] \in P
          BY <2>2, <2>5, <3>2, OneParent
        <4>2. process'[Forks[q][k]] = process[Forks[q][k]]
          BY <2>7, <4>1
        <4>3. (Forked(q, k)' <=> Forked(q, k)) /\ (Forked(q, k) => pids'[q][k] = pids[q][k])
          <5>1. CASE q # p
            BY <2>6, <5>1 DEF Forked
          <5>2. CASE q = p
            <6>1. k <= Len(pids'[p]) <=> k <= Len(pids[p])
              BY <2>2, <2>6, <3>2, <5>2 DEF m
            <6>2. k <= Len(pids[p]) => pids'[p][k] = pids[p][k]
              BY <2>2, <2>6
            <6> QED  BY <5>2, <6>1, <6>2 DEF Forked
          <5> QED  BY <5>1, <5>2
        <4> QED  BY <4>2, <4>3 DEF FamilyInv
      <3> QED  BY <3>1, <3>2
    <2> QED  BY <2>1, <2>6, <2>7, <2>8, <2>9, <2>10 DEF FamilyInv
  <1>4. ASSUME NEW p \in P, ForkTask!Wait(p) PROVE FamilyInv'
    <2> DEFINE pid == pids[p][waits[p] + 1]
    <2>1. /\ process[p] = "runs" /\ Len(pids[p]) = Len(Forks[p]) /\ waits[p] < Len(pids[p])
          /\ pid # ForkTask!Failed => process[pid] = "ended"
          /\ waits' = [waits EXCEPT ![p] = waits[p] + 1] /\ UNCHANGED <<process, pids>>
      BY <1>4 DEF ForkTask!Wait, ForkTask!ForksOver
    <2>2. waits[p] \in Nat /\ Len(pids[p]) \in Nat
      BY DEF FamilyInv
    <2>3. Forked(p, waits[p] + 1) => process[Forks[p][waits[p] + 1]] = "ended"
      BY <2>1, <2>2, OneParent, SMTT(30) DEF FamilyInv, Forked
    <2>4. /\ waits' \in [P -> Nat] /\ waits'[p] = waits[p] + 1
          /\ \A q \in P : q # p => waits'[q] = waits[q]
      BY <2>1, <2>2 DEF FamilyInv
    <2>5. ASSUME NEW q \in P
          PROVE  /\ waits'[q] <= Len(pids[q])
                 /\ process[q] = "ended" => waits'[q] = Len(Forks[q])
                 /\ \A k \in 1..Len(Forks[q]) :
                       Forked(q, k) /\ k <= waits'[q] => process[Forks[q][k]] = "ended"
      <3>1. CASE q = p
        <4>1. ASSUME NEW k \in 1..Len(Forks[p]), Forked(p, k), k <= waits[p] + 1
              PROVE  process[Forks[p][k]] = "ended"
          <5>1. CASE k = waits[p] + 1
            BY <2>3, <4>1, <5>1
          <5>2. CASE k <= waits[p]
            BY <4>1, <5>2 DEF FamilyInv
          <5> QED  BY <2>2, <4>1, <5>1, <5>2
        <4> QED  BY <2>1, <2>2, <2>4, <3>1, <4>1
      <3>2. CASE q # p
        BY <2>4, <3>2 DEF FamilyInv
      <3> QED  BY <3>1, <3>2
    <2> QED  BY <2>1, <2>4, <2>5 DEF FamilyInv, Forked
  <1>5. ASSUME NEW p \in P, ForkTask!Exit(p) PROVE FamilyInv'
    <2>1. /\ process[p] = "runs" /\ waits[p] = Len(Forks[p])
          /\ process' = [process EXCEPT ![p] = "ended"] /\ UNCHANGED <<pids, waits>>
      BY <1>5 DEF ForkTask!Exit, ForkTask!ForksOver
    <2> QED  BY <2>1, ProcessMoves
  <1> QED  BY <1>1, <1>2, <1>3, <1>4, <1>5 DEF ForkTask!Next, ForkTask!Step

LEMMA FamilyKept == MainSpec => []FamilyInv
  <1>1. MainInit => FamilyInv
    BY OneParent DEF MainInit, ForkTask!Init, FamilyInv, Forked
  <1>2. FamilyInv /\ [RunTask]_main_vars => FamilyInv'
    <2>1. [RunTask]_main_vars => ForkTask!Next \/ UNCHANGED family_tree
      BY DEF RunTask, main_vars, sequential, processes, RunPhonebook, RunFileManager, RunMatrix,
             RunBytes, RunPlugins, RunShell, RunForkTask, RunShmTest, RunMsgTask, RunSocketTask,
             RunSelectServer
    <2>2. FamilyInv /\ UNCHANGED family_tree => FamilyInv'
      BY DEF family_tree, FamilyInv, Forked
    <2> QED  BY <2>1, <2>2, FamilyStep
  <1> QED  BY <1>1, <1>2, PTL DEF MainSpec

(* Whichever forks fail, no process ends before a child of its own.        *)
THEOREM ChildrenAreWaitedFor == MainSpec => []ParentsOutlive
  <1>1. FamilyInv => ParentsOutlive
    <2> SUFFICES ASSUME FamilyInv, NEW p \in ForkTask!Processes, process[p] = "ended",
                        NEW k \in DOMAIN ForkTask!Forks[p]
                 PROVE  process[ForkTask!Forks[p][k]] \in {"none", "ended"}
      BY DEF ParentsOutlive, ForkTask!ParentsOutlive
    <2>1. k \in 1..Len(ForkTask!Forks[p])
      BY OneParent
    <2> QED  BY <2>1, OneParent DEF FamilyInv
  <1> QED  BY <1>1, FamilyKept, PTL

-----------------------------------------------------------------------------
(* The first shared-memory test.  What a parent has done to its segment    *)
(* goes by the call it has come to, and who printed took the one post of a *)
(* segment whose parent is over.                                           *)
Segment == [sized : BOOLEAN, raw : BOOLEAN, sem : Nat, buf : {"", "text"}]
SegmentTypes ==
    /\ shm_name \in 0..MaxRuns
    /\ segment \in [1..MaxRuns -> Segment]
    /\ parent \in [1..MaxRuns -> {"none", "open", "truncate", "sem_init", "strcpy", "sem_post",
                                  "over"}]
    /\ reader \in [1..MaxRuns -> {"none", "open", "opened", "waits", "forgotten", "killed",
                                  "printed", "misprinted"}]
    /\ shmem_fd \in [1..MaxRuns -> 0..MaxRuns]

(* A child begins with its run, and has a segment once past its poll.      *)
SegmentsOpened ==
    \A r \in 1..MaxRuns :
        /\ parent[r] = "none" => reader[r] = "none"
        /\ reader[r] \notin {"none", "open"} => shmem_fd[r] \in 1..MaxRuns

Prepared ==
    \A s \in 1..MaxRuns :
        /\ parent[s] \in {"strcpy", "sem_post", "over"} => ~segment[s].raw
        /\ parent[s] \in {"sem_post", "over"} => segment[s].buf = "text"
        /\ parent[s] # "over" => segment[s].sem = 0
        /\ segment[s].sem \in {0, 1}

OnePrinter ==
    /\ \A r \in 1..MaxRuns : /\ reader[r] # "misprinted"
                             /\ reader[r] = "printed" => /\ parent[shmem_fd[r]] = "over"
                                                         /\ segment[shmem_fd[r]].sem = 0
    /\ \A r, q \in 1..MaxRuns : reader[r] = "printed" /\ reader[q] = "printed"
                                    /\ shmem_fd[r] = shmem_fd[q] => r = q
    /\ \A s \in 1..MaxRuns : parent[s] = "over" /\ segment[s].sem = 0 =>
           \E r \in 1..MaxRuns : shmem_fd[r] = s /\ reader[r] = "printed"

SegmentInv == SegmentTypes /\ SegmentsOpened /\ Prepared /\ OnePrinter

(* A call of the parent leaves the children alone.                         *)
LEMMA ParentCalls ==
    ASSUME SegmentInv, NEW r \in 1..MaxRuns, NEW from, NEW to,
           ShmTest!Call(r, from, to), to \in {"truncate", "sem_init", "strcpy", "sem_post", "over"}
    PROVE  /\ parent[r] = from /\ parent'[r] = to /\ reader' = reader /\ shmem_fd' = shmem_fd
           /\ \A q \in 1..MaxRuns : q # r => parent'[q] = parent[q]
           /\ parent' \in [1..MaxRuns -> {"none", "open", "truncate", "sem_init", "strcpy",
                                          "sem_post", "over"}]
  BY DEF ShmTest!Call, SegmentInv, SegmentTypes

LEMMA RunStarted == ASSUME SegmentInv, NEW r \in 1..MaxRuns, ShmTest!Start(r) PROVE SegmentInv'
  <1>0. MaxRuns \in Nat
    BY Amounts
  <1>1. /\ parent[r] = "none" /\ shm_name' = 0 /\ segment' = segment /\ shmem_fd' = shmem_fd
        /\ parent' = [parent EXCEPT ![r] = "open"] /\ reader' = [reader EXCEPT ![r] = "open"]
    BY DEF ShmTest!Start, ShmTest!NoRun
  <1>2. /\ parent'[r] = "open" /\ reader'[r] = "open"
        /\ \A q \in 1..MaxRuns : q # r => parent'[q] = parent[q] /\ reader'[q] = reader[q]
    BY <1>1 DEF SegmentInv, SegmentTypes
  <1>3. SegmentTypes'
    BY <1>0, <1>1 DEF SegmentInv, SegmentTypes
  <1>4. SegmentsOpened' /\ Prepared'
    BY <1>1, <1>2 DEF SegmentInv, SegmentsOpened, Prepared
  <1>5. OnePrinter'
    <2>1. \A q \in 1..MaxRuns : reader[q] = "printed" => shmem_fd[q] \in 1..MaxRuns /\ shmem_fd[q] # r
      BY <1>1 DEF SegmentInv, SegmentsOpened, OnePrinter
    <2>2. \A q \in 1..MaxRuns : /\ reader'[q] = "printed" <=> (reader[q] = "printed" /\ q # r)
                                /\ shmem_fd'[q] = shmem_fd[q] /\ segment'[q] = segment[q]
                                /\ reader'[q] # "misprinted"
      BY <1>1, <1>2 DEF SegmentInv, OnePrinter
    <2>3. \A q \in 1..MaxRuns : reader'[q] = "printed" =>
              parent'[shmem_fd'[q]] = "over" /\ segment'[shmem_fd'[q]].sem = 0
      BY <1>1, <1>2, <2>1, <2>2 DEF SegmentInv, OnePrinter
    <2>4. \A p, q \in 1..MaxRuns : reader'[p] = "printed" /\ reader'[q] = "printed"
                                       /\ shmem_fd'[p] = shmem_fd'[q] => p = q
      BY <2>2 DEF SegmentInv, OnePrinter
    <2>5. ASSUME NEW s \in 1..MaxRuns, parent'[s] = "over", segment'[s].sem = 0
          PROVE  \E q \in 1..MaxRuns : shmem_fd'[q] = s /\ reader'[q] = "printed"
      <3>1. PICK q \in 1..MaxRuns : shmem_fd[q] = s /\ reader[q] = "printed"
        BY <1>1, <1>2, <2>5 DEF SegmentInv, OnePrinter
      <3>2. reader[r] = "none"
        BY <1>1 DEF SegmentInv, SegmentsOpened
      <3> QED  BY <2>2, <3>1, <3>2
    <2> QED  BY <2>2, <2>3, <2>4, <2>5 DEF OnePrinter
  <1> QED  BY <1>3, <1>4, <1>5 DEF SegmentInv

LEMMA ParentSteps ==
    ASSUME SegmentInv, NEW r \in 1..MaxRuns, ShmTest!ParentStep(r) PROVE SegmentInv'
  <1>0. SegmentTypes /\ SegmentsOpened /\ Prepared /\ OnePrinter /\ MaxRuns \in Nat
    BY Amounts DEF SegmentInv
  <1>1. CASE ShmTest!ShmOpen(r)
    <2>1. /\ parent[r] = "open" /\ parent'[r] = "truncate" /\ reader' = reader
          /\ shmem_fd' = shmem_fd /\ segment' = segment /\ shm_name' = r
          /\ \A q \in 1..MaxRuns : q # r => parent'[q] = parent[q]
          /\ parent' \in [1..MaxRuns -> {"none", "open", "truncate", "sem_init", "strcpy",
                                         "sem_post", "over"}]
      BY <1>1, ParentCalls DEF ShmTest!ShmOpen
    <2>2. SegmentTypes'
      BY <1>0, <2>1 DEF SegmentTypes
    <2>3. SegmentsOpened' /\ Prepared'
      BY <1>0, <2>1 DEF SegmentsOpened, Prepared
    <2>4. OnePrinter'
      BY <1>0, <2>1 DEF SegmentsOpened, OnePrinter
    <2> QED  BY <2>2, <2>3, <2>4 DEF SegmentInv
  <1>2. ASSUME NEW from \in {"truncate", "sem_init", "strcpy", "sem_post"},
               NEW to \in {"sem_init", "strcpy", "sem_post", "over"},
               ShmTest!Call(r, from, to), shm_name' = shm_name,
               NEW u \in Segment, segment' = [segment EXCEPT ![r] = u],
               to \in {"strcpy", "sem_post", "over"} => ~u.raw,
               to \in {"sem_post", "over"} => u.buf = "text",
               u.sem = IF to = "over" THEN 1 ELSE 0
        PROVE  SegmentInv'
    <2>1. /\ parent[r] = from /\ parent'[r] = to /\ reader' = reader /\ shmem_fd' = shmem_fd
          /\ \A q \in 1..MaxRuns : q # r => parent'[q] = parent[q]
          /\ parent' \in [1..MaxRuns -> {"none", "open", "truncate", "sem_init", "strcpy",
                                         "sem_post", "over"}]
      BY <1>2, ParentCalls
    <2>2. segment'[r] = u /\ \A q \in 1..MaxRuns : q # r => segment'[q] = segment[q]
      BY <1>0, <1>2 DEF SegmentTypes
    <2>3. segment' \in [1..MaxRuns -> Segment]
      BY <1>0, <1>2 DEF SegmentTypes
    <2>4. SegmentTypes'
      BY <1>0, <1>2, <2>1, <2>3 DEF SegmentTypes
    <2>5. SegmentsOpened'
      BY <1>0, <2>1 DEF SegmentsOpened
    <2>6. Prepared'
      BY <1>0, <1>2, <2>1, <2>2 DEF Prepared
    <2>7. OnePrinter'
      <3>1. \A q \in 1..MaxRuns : reader[q] = "printed" => shmem_fd[q] \in 1..MaxRuns /\ shmem_fd[q] # r
        BY <1>0, <1>2, <2>1 DEF OnePrinter, SegmentsOpened
      <3>2. \A q \in 1..MaxRuns : reader'[q] = reader[q] /\ shmem_fd'[q] = shmem_fd[q]
        BY <2>1
      <3>3. ASSUME NEW q \in 1..MaxRuns, reader'[q] = "printed"
            PROVE  parent'[shmem_fd'[q]] = "over" /\ segment'[shmem_fd'[q]].sem = 0
        BY <1>0, <2>1, <2>2, <3>1, <3>2, <3>3 DEF OnePrinter
      <3>4. ASSUME NEW s \in 1..MaxRuns, parent'[s] = "over", segment'[s].sem = 0
            PROVE  \E q \in 1..MaxRuns : shmem_fd'[q] = s /\ reader'[q] = "printed"
        <4>1. s # r
          BY <1>2, <2>1, <2>2, <3>4
        <4> QED  BY <1>0, <2>1, <2>2, <3>4, <4>1 DEF OnePrinter
      <3> QED  BY <1>0, <3>2, <3>3, <3>4 DEF OnePrinter
    <2> QED  BY <2>4, <2>5, <2>6, <2>7 DEF SegmentInv
  <1>3. segment[r] \in Segment
    BY <1>0 DEF SegmentTypes
  <1>4. CASE ShmTest!Ftruncate(r)
    <2>1. ShmTest!Call(r, "truncate", "sem_init") /\ shm_name' = shm_name
          /\ segment' = [segment EXCEPT ![r] = [segment[r] EXCEPT !.sized = TRUE]]
      BY <1>4 DEF ShmTest!Ftruncate
    <2>2. PICK u : u = [segment[r] EXCEPT !.sized = TRUE]
      OBVIOUS
    <2>3. u \in Segment /\ u.sem = segment[r].sem
      BY <1>3, <2>2 DEF Segment
    <2>4. parent[r] = "truncate"
      BY <2>1 DEF ShmTest!Call
    <2>5. u.sem = 0
      BY <1>0, <2>3, <2>4 DEF Prepared
    <2> QED  BY <1>2, <2>1, <2>2, <2>3, <2>5
  <1>5. CASE ShmTest!SemInit(r)
    <2>1. ShmTest!Call(r, "sem_init", "strcpy") /\ shm_name' = shm_name
          /\ segment' = [segment EXCEPT ![r] = [segment[r] EXCEPT !.raw = FALSE, !.sem = 0]]
      BY <1>3, <1>5 DEF ShmTest!SemInit, Segment
    <2>2. PICK u : u = [segment[r] EXCEPT !.raw = FALSE, !.sem = 0]
      OBVIOUS
    <2>3. u \in Segment /\ u.sem = 0 /\ ~u.raw
      BY <1>3, <2>2 DEF Segment
    <2> QED  BY <1>2, <2>1, <2>2, <2>3
  <1>6. CASE ShmTest!Strcpy(r)
    <2>1. ShmTest!Call(r, "strcpy", "sem_post") /\ shm_name' = shm_name
          /\ segment' = [segment EXCEPT ![r] = [segment[r] EXCEPT !.buf = "text"]]
      BY <1>6 DEF ShmTest!Strcpy
    <2>2. PICK u : u = [segment[r] EXCEPT !.buf = "text"]
      OBVIOUS
    <2>3. u \in Segment /\ u.sem = segment[r].sem /\ u.raw = segment[r].raw /\ u.buf = "text"
      BY <1>3, <2>2 DEF Segment
    <2>4. parent[r] = "strcpy"
      BY <2>1 DEF ShmTest!Call
    <2>5. u.sem = 0 /\ ~u.raw
      BY <1>0, <2>3, <2>4 DEF Prepared
    <2> QED  BY <1>2, <2>1, <2>2, <2>3, <2>5
  <1>7. CASE ShmTest!SemPost(r)
    <2>1. ShmTest!Call(r, "sem_post", "over") /\ shm_name' = shm_name
          /\ segment' = [segment EXCEPT ![r] = [segment[r] EXCEPT !.sem = @ + 1]]
      BY <1>7 DEF ShmTest!SemPost
    <2>2. PICK u : u = [segment[r] EXCEPT !.sem = @ + 1]
      OBVIOUS
    <2>3. u \in Segment /\ u.sem = segment[r].sem + 1 /\ u.raw = segment[r].raw
          /\ u.buf = segment[r].buf
      <3>1. PICK k \in Nat : k = segment[r].sem
        BY <1>3 DEF Segment
      <3>2. u = [segment[r] EXCEPT !.sem = k + 1] /\ k + 1 \in Nat
        BY <2>2, <3>1
      <3>3. u \in Segment /\ u.sem = k + 1 /\ u.raw = segment[r].raw /\ u.buf = segment[r].buf
        BY <1>3, <3>2 DEF Segment
      <3> QED  BY <3>1, <3>3
    <2>4. parent[r] = "sem_post"
      BY <2>1 DEF ShmTest!Call
    <2>5. u.sem = 1 /\ ~u.raw /\ u.buf = "text"
      BY <1>0, <2>3, <2>4 DEF Prepared
    <2> QED  BY <1>2, <2>1, <2>2, <2>3, <2>5
  <1> QED  BY <1>1, <1>4, <1>5, <1>6, <1>7 DEF ShmTest!ParentStep

LEMMA ChildSteps ==
    ASSUME SegmentInv, NEW r \in 1..MaxRuns, ShmTest!ChildStep(r) PROVE SegmentInv'
  <1>0. SegmentTypes /\ SegmentsOpened /\ Prepared /\ OnePrinter /\ MaxRuns \in Nat
    BY Amounts DEF SegmentInv
  <1>1. CASE ShmTest!ChildOpen(r)
    <2>1. /\ reader[r] = "open" /\ shm_name \in 1..MaxRuns
          /\ shmem_fd' = [shmem_fd EXCEPT ![r] = shm_name]
          /\ reader' = [reader EXCEPT ![r] = "opened"]
          /\ shm_name' = shm_name /\ segment' = segment /\ parent' = parent
      BY <1>0, <1>1 DEF ShmTest!ChildOpen, ShmTest!NoRun, SegmentTypes
    <2>2. /\ shmem_fd'[r] = shm_name /\ reader'[r] = "opened"
          /\ \A q \in 1..MaxRuns : q # r => shmem_fd'[q] = shmem_fd[q] /\ reader'[q] = reader[q]
      BY <1>0, <2>1 DEF SegmentTypes
    <2>3. SegmentTypes'
      BY <1>0, <2>1 DEF SegmentTypes
    <2>4. SegmentsOpened' /\ Prepared'
      BY <1>0, <2>1, <2>2 DEF SegmentsOpened, Prepared
    <2>5. OnePrinter'
      BY <1>0, <2>1, <2>2 DEF OnePrinter
    <2> QED  BY <2>3, <2>4, <2>5 DEF SegmentInv
  <1>2. CASE ShmTest!Touch(r)
    <2>1. PICK place \in {"killed", "waits", "forgotten"} : reader' = [reader EXCEPT ![r] = place]
      BY <1>2 DEF ShmTest!Touch
    <2>2. /\ reader[r] = "opened" /\ shmem_fd' = shmem_fd
          /\ shm_name' = shm_name /\ segment' = segment /\ parent' = parent
      BY <1>2 DEF ShmTest!Touch
    <2>3. /\ reader'[r] = place /\ \A q \in 1..MaxRuns : q # r => reader'[q] = reader[q]
      BY <1>0, <2>1 DEF SegmentTypes
    <2>4. SegmentTypes'
      BY <1>0, <2>1, <2>2 DEF SegmentTypes
    <2>5. SegmentsOpened' /\ Prepared'
      BY <1>0, <2>2, <2>3 DEF SegmentsOpened, Prepared
    <2>6. OnePrinter'
      BY <1>0, <2>2, <2>3 DEF OnePrinter
    <2> QED  BY <2>4, <2>5, <2>6 DEF SegmentInv
  <1>3. CASE ShmTest!SemWait(r)
    <2>1. PICK s : s = shmem_fd[r]
      OBVIOUS
    <2>2. /\ reader[r] = "waits" /\ ~segment[s].raw /\ segment[s].sem > 0
          /\ segment' = [segment EXCEPT ![s] = [segment[s] EXCEPT !.sem = @ - 1]]
          /\ reader' = [reader EXCEPT ![r] = IF segment[s].buf = "text" THEN "printed"
                                                                        ELSE "misprinted"]
          /\ shm_name' = shm_name /\ parent' = parent /\ shmem_fd' = shmem_fd
      BY <1>3, <2>1 DEF ShmTest!SemWait
    <2>3. s \in 1..MaxRuns
      BY <1>0, <2>1, <2>2 DEF SegmentsOpened
    <2>4. segment[s].sem = 1 /\ parent[s] = "over" /\ segment[s].buf = "text"
      BY <1>0, <2>2, <2>3 DEF Prepared
    <2>5. /\ reader' = [reader EXCEPT ![r] = "printed"] /\ reader'[r] = "printed"
          /\ \A q \in 1..MaxRuns : q # r => reader'[q] = reader[q]
      BY <1>0, <2>2, <2>4 DEF SegmentTypes
    <2>6. PICK u : u = [segment[s] EXCEPT !.sem = @ - 1]
      OBVIOUS
    <2>7. u \in Segment /\ u.sem = 0 /\ u.raw = segment[s].raw /\ u.buf = "text"
      <3>1. segment[s] \in Segment
        BY <1>0, <2>3 DEF SegmentTypes
      <3>2. u = [segment[s] EXCEPT !.sem = 0]
        BY <2>4, <2>6
      <3> QED  BY <2>4, <3>1, <3>2 DEF Segment
    <2>8. /\ segment' = [segment EXCEPT ![s] = u] /\ segment'[s] = u
          /\ \A q \in 1..MaxRuns : q # s => segment'[q] = segment[q]
      BY <1>0, <2>2, <2>3, <2>6 DEF SegmentTypes
    <2>9. SegmentTypes'
      BY <1>0, <2>2, <2>3, <2>5, <2>7, <2>8, ZenonT(60) DEF SegmentTypes
    <2>10. SegmentsOpened'
      BY <1>0, <2>1, <2>2, <2>3, <2>5 DEF SegmentsOpened
    <2>11. Prepared'
      BY <1>0, <2>2, <2>4, <2>7, <2>8 DEF Prepared
    <2>12. OnePrinter'
      <3>1. \A q \in 1..MaxRuns : reader[q] = "printed" => shmem_fd[q] # s
        BY <1>0, <2>4 DEF OnePrinter
      <3>2. \A q \in 1..MaxRuns : q # r /\ reader'[q] = "printed" =>
                shmem_fd'[q] \in 1..MaxRuns /\ shmem_fd'[q] # s
                /\ segment'[shmem_fd'[q]] = segment[shmem_fd[q]]
        BY <1>0, <2>2, <2>5, <2>8, <3>1 DEF SegmentsOpened
      <3>3. shmem_fd'[r] = s /\ parent'[s] = "over" /\ segment'[s].sem = 0
        BY <2>1, <2>2, <2>4, <2>7, <2>8
      <3>4. ASSUME NEW q \in 1..MaxRuns
            PROVE  /\ reader'[q] # "misprinted"
                   /\ reader'[q] = "printed" => parent'[shmem_fd'[q]] = "over"
                                                /\ segment'[shmem_fd'[q]].sem = 0
        BY <1>0, <2>2, <2>5, <3>2, <3>3 DEF OnePrinter
      <3>5. \A p, q \in 1..MaxRuns : reader'[p] = "printed" /\ reader'[q] = "printed"
                                         /\ shmem_fd'[p] = shmem_fd'[q] => p = q
        BY <1>0, <2>2, <2>5, <3>2, <3>3 DEF OnePrinter
      <3>6. ASSUME NEW t \in 1..MaxRuns, parent'[t] = "over", segment'[t].sem = 0
            PROVE  \E q \in 1..MaxRuns : shmem_fd'[q] = t /\ reader'[q] = "printed"
        <4>1. CASE t = s
          BY <2>5, <3>3, <4>1
        <4>2. CASE t # s
          <5>1. PICK q \in 1..MaxRuns : shmem_fd[q] = t /\ reader[q] = "printed"
            BY <1>0, <2>2, <2>8, <3>6, <4>2 DEF OnePrinter
          <5> QED  BY <2>2, <2>5, <5>1
        <4> QED  BY <4>1, <4>2
      <3> QED  BY <3>4, <3>5, <3>6 DEF OnePrinter
    <2> QED  BY <2>9, <2>10, <2>11, <2>12 DEF SegmentInv
  <1> QED  BY <1>1, <1>2, <1>3 DEF ShmTest!ChildStep

(* However many times the program is run, and whichever segments the       *)
(* children of earlier runs open, however early: no child prints half a    *)
(* text, no two print that of one segment, and the post of a parent that   *)
(* is over is there for a child that waits unless another printed.         *)
THEOREM TextsPrintedOnce == MainSpec => [](\A s \in ShmTest!Runs : ShmTest!PostUsedOnce(s))
  <1>1. MainInit => SegmentInv
    <2> SUFFICES ASSUME ShmTest!Init PROVE SegmentInv
      BY DEF MainInit
    <2>1. /\ shm_name = 0 /\ MaxRuns \in Nat
          /\ segment = [r \in 1..MaxRuns |-> [sized |-> FALSE, raw |-> TRUE, sem |-> 0, buf |-> ""]]
          /\ parent = [r \in 1..MaxRuns |-> "none"] /\ reader = [r \in 1..MaxRuns |-> "none"]
          /\ shmem_fd = [r \in 1..MaxRuns |-> 0]
      BY Amounts DEF ShmTest!Init, ShmTest!Runs, ShmTest!NoRun
    <2>2. SegmentTypes
      <3>1. [sized |-> FALSE, raw |-> TRUE, sem |-> 0, buf |-> ""] \in Segment
        BY DEF Segment
      <3>2. segment \in [1..MaxRuns -> Segment]
        BY <2>1, <3>1
      <3>3. parent \in [1..MaxRuns -> {"none", "open", "truncate", "sem_init", "strcpy",
                                       "sem_post", "over"}]
        BY <2>1
      <3>4. reader \in [1..MaxRuns -> {"none", "open", "opened", "waits", "forgotten", "killed",
                                       "printed", "misprinted"}]
        BY <2>1
      <3>5. 0 \in 0..MaxRuns
        BY Amounts
      <3>6. shmem_fd \in [1..MaxRuns -> 0..MaxRuns] /\ shm_name \in 0..MaxRuns
        BY <2>1, <3>5
      <3> QED  BY <3>2, <3>3, <3>4, <3>6 DEF SegmentTypes
    <2>3. SegmentsOpened /\ Prepared /\ OnePrinter
      BY <2>1 DEF SegmentsOpened, Prepared, OnePrinter
    <2> QED  BY <2>2, <2>3 DEF SegmentInv
  <1>2. SegmentInv /\ [RunTask]_main_vars => SegmentInv'
    <2>1. [RunTask]_main_vars => [ShmTest!Next]_shm_test
      BY DEF RunTask, main_vars, sequential, processes, RunPhonebook, RunFileManager, RunMatrix,
             RunBytes, RunPlugins, RunShell, RunForkTask, RunShmTest, RunMsgTask, RunSocketTask,
             RunSelectServer
    <2> SUFFICES ASSUME SegmentInv, [ShmTest!Next]_shm_test PROVE SegmentInv'
      BY <2>1
    <2>2. CASE ShmTest!Next
      BY <2>2, RunStarted, ParentSteps, ChildSteps DEF ShmTest!Next, ShmTest!Runs
    <2>3. CASE UNCHANGED shm_test
      BY <2>3 DEF shm_test, SegmentInv, SegmentTypes, SegmentsOpened, Prepared, OnePrinter
    <2> QED  BY <2>2, <2>3
  <1>3. SegmentInv => \A s \in ShmTest!Runs : ShmTest!PostUsedOnce(s)
    BY DEF SegmentInv, Prepared, OnePrinter, ShmTest!PostUsedOnce, ShmTest!On, ShmTest!Runs
  <1> QED  BY <1>1, <1>2, <1>3, PTL DEF MainSpec

-----------------------------------------------------------------------------
(* The message-queue test.  Which runs have sent each message, which       *)
(* children received it, and the messages that wait in POSIX queues, the   *)
(* k-th of queue q as <<q, k>>.                                            *)
Sent == {r \in 1..MaxSends : sender[r] \in {"msgsnd", "over", "failed"}}
Got == {r \in 1..MaxSends : receiver[r] \in {"unlink", "msgrcv", "over", "failed"}}
InQueues == {m \in (1..MaxSends) \X Nat : 1 <= m[2] /\ m[2] <= posix[m[1]]}
SysSent == {r \in 1..MaxSends : sender[r] = "over"}
SysGot == {r \in 1..MaxSends : receiver[r] = "over"}

QueueTypes ==
    /\ task1_queue \in 0..MaxSends
    /\ posix \in [1..MaxSends -> Nat]
    /\ sysv_mq \in Nat
    /\ sender \in [1..MaxSends -> {"none", "open", "send", "msgsnd", "over", "failed"}]
    /\ receiver \in [1..MaxSends -> {"none", "open", "receive", "unlink", "msgrcv", "over",
                                     "failed"}]
    /\ mq \in [1..MaxSends -> [sender : 0..MaxSends, receiver : 0..MaxSends]]

(* Parent and child begin together, in the order of the runs, have a queue *)
(* when they use it, and find the key of the System V queue both or not.   *)
Places ==
    \A r \in 1..MaxSends :
        /\ sender[r] = "none" <=> receiver[r] = "none"
        /\ sender[r] # "none" => \A q \in 1..(r - 1) : sender[q] # "none"
        /\ sender[r] = "send" => mq[r].sender \in 1..MaxSends
        /\ receiver[r] = "receive" => mq[r].receiver \in 1..MaxSends
        /\ sender[r] \in {"msgsnd", "over"} => keyed
        /\ sender[r] = "failed" => ~keyed
        /\ receiver[r] \in {"msgrcv", "over"} => keyed
        /\ receiver[r] = "failed" => ~keyed

(* No message is lost or made up.                                          *)
Counted ==
    /\ IsFiniteSet(InQueues)
    /\ Cardinality(InQueues) + Cardinality(Got) = Cardinality(Sent)
    /\ sysv_mq + Cardinality(SysGot) = Cardinality(SysSent)

QueueInv == QueueTypes /\ Places /\ Counted

LEMMA RunsFinite ==
    /\ MaxSends \in Nat
    /\ IsFiniteSet(Sent) /\ IsFiniteSet(Got) /\ IsFiniteSet(SysSent) /\ IsFiniteSet(SysGot)
    /\ Cardinality(Sent) \in Nat /\ Cardinality(Got) \in Nat
    /\ Cardinality(SysSent) \in Nat /\ Cardinality(SysGot) \in Nat
  <1>1. MaxSends \in Nat
    BY Amounts
  <1>2. IsFiniteSet(1..MaxSends)
    BY <1>1, FS_Interval
  <1>3. \A S \in SUBSET (1..MaxSends) : IsFiniteSet(S) /\ Cardinality(S) \in Nat
    BY <1>2, FS_Subset, FS_CardinalityType
  <1> QED  BY <1>1, <1>3 DEF Sent, Got, SysSent, SysGot

LEMMA MessageSent ==
    ASSUME QueueInv, NEW q \in 1..MaxSends, posix' = [posix EXCEPT ![q] = @ + 1],
           NEW r, r \notin Sent, Sent' = Sent \cup {r}, Got' = Got
    PROVE  /\ IsFiniteSet(InQueues')
           /\ Cardinality(InQueues') + Cardinality(Got') = Cardinality(Sent')
  <1>1. PICK k \in Nat : k = posix[q]
    BY DEF QueueInv, QueueTypes
  <1>2. posix'[q] = k + 1 /\ \A p \in 1..MaxSends : p # q => posix'[p] = posix[p]
    BY <1>1 DEF QueueInv, QueueTypes
  <1>3. <<q, k + 1>> \notin InQueues
    BY <1>1 DEF InQueues
  <1>4. InQueues' = InQueues \cup {<<q, k + 1>>}
    <2>1. ASSUME NEW m \in (1..MaxSends) \X Nat
          PROVE  m \in InQueues' <=> m \in InQueues \/ m = <<q, k + 1>>
      <3>1. PICK p \in 1..MaxSends, j \in Nat : m = <<p, j>>
        OBVIOUS
      <3>2. (m \in InQueues' <=> 1 <= j /\ j <= posix'[p]) /\ (m \in InQueues <=> 1 <= j /\ j <= posix[p])
        BY <3>1 DEF InQueues
      <3>3. CASE p = q
        BY <1>1, <1>2, <3>1, <3>2, <3>3
      <3>4. CASE p # q
        BY <1>2, <3>1, <3>2, <3>4
      <3> QED  BY <3>3, <3>4
    <2>2. InQueues \subseteq (1..MaxSends) \X Nat /\ InQueues' \subseteq (1..MaxSends) \X Nat
      BY DEF InQueues
    <2>3. <<q, k + 1>> \in (1..MaxSends) \X Nat
      OBVIOUS
    <2> QED  BY <2>1, <2>2, <2>3
  <1>5. /\ IsFiniteSet(InQueues) /\ Cardinality(InQueues) + Cardinality(Got) = Cardinality(Sent)
        /\ Cardinality(InQueues) \in Nat
    BY FS_CardinalityType DEF QueueInv, Counted
  <1>6. IsFiniteSet(InQueues') /\ Cardinality(InQueues') = Cardinality(InQueues) + 1
    BY <1>3, <1>4, <1>5, FS_AddElement
  <1>7. Cardinality(Sent') = Cardinality(Sent) + 1
    BY RunsFinite, FS_AddElement
  <1> QED  BY <1>5, <1>6, <1>7, RunsFinite

LEMMA MessageReceived ==
    ASSUME QueueInv, NEW q \in 1..MaxSends, posix[q] > 0, posix' = [posix EXCEPT ![q] = @ - 1],
           NEW r, r \notin Got, Got' = Got \cup {r}, Sent' = Sent
    PROVE  /\ IsFiniteSet(InQueues')
           /\ Cardinality(InQueues') + Cardinality(Got') = Cardinality(Sent')
  <1>1. PICK k \in Nat : k = posix[q]
    BY DEF QueueInv, QueueTypes
  <1>2. k > 0 /\ posix'[q] = k - 1 /\ \A p \in 1..MaxSends : p # q => posix'[p] = posix[p]
    BY <1>1 DEF QueueInv, QueueTypes
  <1>3. <<q, k>> \in InQueues
    BY <1>1, <1>2 DEF InQueues
  <1>4. InQueues' = InQueues \ {<<q, k>>}
    <2>1. ASSUME NEW m \in (1..MaxSends) \X Nat
          PROVE  m \in InQueues' <=> m \in InQueues /\ m # <<q, k>>
      <3>1. PICK p \in 1..MaxSends, j \in Nat : m = <<p, j>>
        OBVIOUS
      <3>2. (m \in InQueues' <=> 1 <= j /\ j <= posix'[p]) /\ (m \in InQueues <=> 1 <= j /\ j <= posix[p])
        BY <3>1 DEF InQueues
      <3>3. CASE p = q
        BY <1>1, <1>2, <3>1, <3>2, <3>3
      <3>4. CASE p # q
        BY <1>2, <3>1, <3>2, <3>4
      <3> QED  BY <3>3, <3>4
    <2>2. InQueues \subseteq (1..MaxSends) \X Nat /\ InQueues' \subseteq (1..MaxSends) \X Nat
      BY DEF InQueues
    <2> QED  BY <2>1, <2>2
  <1>5. /\ IsFiniteSet(InQueues) /\ Cardinality(InQueues) + Cardinality(Got) = Cardinality(Sent)
        /\ Cardinality(InQueues) \in Nat
    BY FS_CardinalityType DEF QueueInv, Counted
  <1>6. IsFiniteSet(InQueues') /\ Cardinality(InQueues') = Cardinality(InQueues) - 1
    BY <1>3, <1>4, <1>5, FS_RemoveElement
  <1>7. Cardinality(Got') = Cardinality(Got) + 1
    BY RunsFinite, FS_AddElement
  <1> QED  BY <1>5, <1>6, <1>7, RunsFinite

LEMMA SendersStep ==
    ASSUME QueueInv, NEW r \in 1..MaxSends, MsgTask!Start(r) \/ MsgTask!SenderStep(r)
    PROVE  QueueInv'
  <1>0. QueueTypes /\ Places /\ Counted /\ MaxSends \in Nat
    BY Amounts DEF QueueInv
  <1>1. CASE MsgTask!Start(r)
    <2>1. /\ sender[r] = "none" /\ receiver[r] = "none"
          /\ \A q \in 1..(r - 1) : sender[q] \in {"over", "failed"}
          /\ r = 1 \/ keyed' = keyed
          /\ sender' = [sender EXCEPT ![r] = "open"] /\ receiver' = [receiver EXCEPT ![r] = "open"]
          /\ task1_queue' = task1_queue /\ posix' = posix /\ sysv_mq' = sysv_mq /\ mq' = mq
      BY <1>0, <1>1 DEF MsgTask!Start, Places
    <2>2. /\ sender'[r] = "open" /\ receiver'[r] = "open"
          /\ \A q \in 1..MaxSends : q # r => sender'[q] = sender[q] /\ receiver'[q] = receiver[q]
      BY <1>0, <2>1 DEF QueueTypes
    <2>3. QueueTypes'
      BY <1>0, <2>1 DEF QueueTypes
    <2>4. Places'
      <3>1. CASE keyed' = keyed
        BY <1>0, <2>1, <2>2, <3>1 DEF Places
      <3>2. CASE r = 1
        <4>1. \A q \in 1..MaxSends : sender[q] = "none" /\ receiver[q] = "none"
          BY <1>0, <2>1, <3>2 DEF Places
        <4> QED  BY <1>0, <2>1, <2>2, <3>2, <4>1 DEF Places
      <3> QED  BY <2>1, <3>1, <3>2
    <2>5. Sent' = Sent /\ Got' = Got /\ InQueues' = InQueues /\ SysSent' = SysSent /\ SysGot' = SysGot
      BY <2>1, <2>2 DEF Sent, Got, InQueues, SysSent, SysGot
    <2> QED  BY <1>0, <2>1, <2>3, <2>4, <2>5 DEF QueueInv, Counted
  <1>2. CASE MsgTask!MqOpen(r)
    <2>1. PICK q \in 1..MaxSends : q = IF task1_queue = 0 THEN r ELSE task1_queue
      BY <1>0 DEF QueueTypes
    <2>2. /\ sender[r] = "open" /\ task1_queue' = q
          /\ mq' = [mq EXCEPT ![r].sender = q] /\ sender' = [sender EXCEPT ![r] = "send"]
          /\ posix' = posix /\ sysv_mq' = sysv_mq /\ keyed' = keyed /\ receiver' = receiver
      BY <1>2, <2>1 DEF MsgTask!MqOpen, MsgTask!NoQueue
    <2>3. /\ sender'[r] = "send" /\ \A p \in 1..MaxSends : p # r => sender'[p] = sender[p]
      BY <1>0, <2>2 DEF QueueTypes
    <2>4. /\ mq' \in [1..MaxSends -> [sender : 0..MaxSends, receiver : 0..MaxSends]]
          /\ mq'[r].sender = q /\ mq'[r].receiver = mq[r].receiver
          /\ \A p \in 1..MaxSends : p # r => mq'[p] = mq[p]
      <3>1. mq[r] \in [sender : 0..MaxSends, receiver : 0..MaxSends]
        BY <1>0 DEF QueueTypes
      <3>2. PICK m : m = [mq[r] EXCEPT !.sender = q]
        OBVIOUS
      <3>3. /\ m \in [sender : 0..MaxSends, receiver : 0..MaxSends]
            /\ m.sender = q /\ m.receiver = mq[r].receiver
        BY <1>0, <3>1, <3>2
      <3>4. mq' = [mq EXCEPT ![r] = m]
        BY <2>2, <3>2
      <3> QED  BY <1>0, <3>3, <3>4 DEF QueueTypes
    <2>5. QueueTypes'
      BY <1>0, <2>2, <2>4, SMTT(30) DEF QueueTypes
    <2>6. Places'
      BY <1>0, <2>2, <2>3, <2>4 DEF Places
    <2>7. Sent' = Sent /\ Got' = Got /\ InQueues' = InQueues /\ SysSent' = SysSent /\ SysGot' = SysGot
      BY <2>2, <2>3 DEF Sent, Got, InQueues, SysSent, SysGot
    <2> QED  BY <1>0, <2>2, <2>5, <2>6, <2>7 DEF QueueInv, Counted
  <1>3. CASE MsgTask!MqSend(r)
    <2>1. PICK q : q = mq[r].sender
      OBVIOUS
    <2>2. PICK to \in {"msgsnd", "failed"} : to = IF keyed THEN "msgsnd" ELSE "failed"
      OBVIOUS
    <2>3. /\ sender[r] = "send" /\ posix' = [posix EXCEPT ![q] = @ + 1]
          /\ sender' = [sender EXCEPT ![r] = to] /\ task1_queue' = task1_queue
          /\ sysv_mq' = sysv_mq /\ keyed' = keyed /\ receiver' = receiver /\ mq' = mq
      BY <1>3, <2>1, <2>2 DEF MsgTask!MqSend
    <2>4. q \in 1..MaxSends
      BY <1>0, <2>1, <2>3 DEF Places
    <2>5. /\ sender'[r] = to /\ \A p \in 1..MaxSends : p # r => sender'[p] = sender[p]
      BY <1>0, <2>3 DEF QueueTypes
    <2>6. QueueTypes'
      <3>1. posix' \in [1..MaxSends -> Nat]
        <4>1. PICK k \in Nat : k = posix[q]
          BY <1>0, <2>4 DEF QueueTypes
        <4>2. posix' = [posix EXCEPT ![q] = k + 1] /\ k + 1 \in Nat
          BY <2>3, <4>1
        <4> QED  BY <1>0, <4>2 DEF QueueTypes
      <3> QED  BY <1>0, <2>3, <3>1 DEF QueueTypes
    <2>7. Places'
      BY <1>0, <2>2, <2>3, <2>5 DEF Places
    <2>8. /\ Sent' = Sent \cup {r} /\ r \notin Sent /\ Got' = Got
          /\ SysSent' = SysSent /\ SysGot' = SysGot
      BY <2>3, <2>5 DEF Sent, Got, SysSent, SysGot
    <2>9. IsFiniteSet(InQueues') /\ Cardinality(InQueues') + Cardinality(Got') = Cardinality(Sent')
      BY <2>3, <2>4, <2>8, MessageSent
    <2> QED  BY <1>0, <2>3, <2>6, <2>7, <2>8, <2>9 DEF QueueInv, Counted
  <1>4. CASE MsgTask!MsgSnd(r)
    <2>1. /\ sender[r] = "msgsnd" /\ sysv_mq' = sysv_mq + 1
          /\ sender' = [sender EXCEPT ![r] = "over"] /\ task1_queue' = task1_queue
          /\ posix' = posix /\ keyed' = keyed /\ receiver' = receiver /\ mq' = mq
      BY <1>4 DEF MsgTask!MsgSnd
    <2>2. /\ sender'[r] = "over" /\ \A p \in 1..MaxSends : p # r => sender'[p] = sender[p]
      BY <1>0, <2>1 DEF QueueTypes
    <2>3. QueueTypes'
      BY <1>0, <2>1 DEF QueueTypes
    <2>4. Places'
      BY <1>0, <2>1, <2>2 DEF Places
    <2>5. /\ Sent' = Sent /\ Got' = Got /\ InQueues' = InQueues /\ SysGot' = SysGot
          /\ SysSent' = SysSent \cup {r} /\ r \notin SysSent
      BY <2>1, <2>2 DEF Sent, Got, InQueues, SysSent, SysGot
    <2>6. Cardinality(SysSent') = Cardinality(SysSent) + 1
      BY <2>5, RunsFinite, FS_AddElement
    <2>7. sysv_mq' + Cardinality(SysGot') = Cardinality(SysSent')
      <3>1. sysv_mq \in Nat /\ sysv_mq + Cardinality(SysGot) = Cardinality(SysSent)
        BY <1>0 DEF QueueTypes, Counted
      <3> QED  BY <2>1, <2>5, <2>6, <3>1, RunsFinite
    <2> QED  BY <1>0, <2>3, <2>4, <2>5, <2>7 DEF QueueInv, Counted
  <1> QED  BY <1>1, <1>2, <1>3, <1>4 DEF MsgTask!SenderStep

LEMMA ReceiversStep ==
    ASSUME QueueInv, NEW r \in 1..MaxSends, MsgTask!ReceiverStep(r) PROVE QueueInv'
  <1>0. QueueTypes /\ Places /\ Counted /\ MaxSends \in Nat
    BY Amounts DEF QueueInv
  <1>1. CASE MsgTask!PollOpen(r)
    <2>1. /\ receiver[r] = "open" /\ task1_queue \in 1..MaxSends
          /\ mq' = [mq EXCEPT ![r].receiver = task1_queue]
          /\ receiver' = [receiver EXCEPT ![r] = "receive"] /\ task1_queue' = task1_queue
          /\ posix' = posix /\ sysv_mq' = sysv_mq /\ keyed' = keyed /\ sender' = sender
      BY <1>0, <1>1 DEF MsgTask!PollOpen, MsgTask!NoQueue, QueueTypes
    <2>2. /\ receiver'[r] = "receive" /\ \A p \in 1..MaxSends : p # r => receiver'[p] = receiver[p]
      BY <1>0, <2>1 DEF QueueTypes
    <2>3. /\ mq' \in [1..MaxSends -> [sender : 0..MaxSends, receiver : 0..MaxSends]]
          /\ mq'[r].receiver = task1_queue /\ mq'[r].sender = mq[r].sender
          /\ \A p \in 1..MaxSends : p # r => mq'[p] = mq[p]
      BY <1>0, <2>1 DEF QueueTypes
    <2>4. QueueTypes'
      BY <1>0, <2>1, <2>3 DEF QueueTypes
    <2>5. Places'
      BY <1>0, <2>1, <2>2, <2>3 DEF Places
    <2>6. Sent' = Sent /\ Got' = Got /\ InQueues' = InQueues /\ SysSent' = SysSent /\ SysGot' = SysGot
      BY <2>1, <2>2 DEF Sent, Got, InQueues, SysSent, SysGot
    <2> QED  BY <1>0, <2>1, <2>4, <2>5, <2>6 DEF QueueInv, Counted
  <1>2. CASE MsgTask!MqReceive(r)
    <2>1. PICK q : q = mq[r].receiver
      OBVIOUS
    <2>2. /\ receiver[r] = "receive" /\ posix[q] > 0 /\ posix' = [posix EXCEPT ![q] = @ - 1]
          /\ receiver' = [receiver EXCEPT ![r] = "unlink"] /\ task1_queue' = task1_queue
          /\ sysv_mq' = sysv_mq /\ keyed' = keyed /\ sender' = sender /\ mq' = mq
      BY <1>2, <2>1 DEF MsgTask!MqReceive
    <2>3. q \in 1..MaxSends
      BY <1>0, <2>1, <2>2 DEF Places
    <2>4. /\ receiver'[r] = "unlink" /\ \A p \in 1..MaxSends : p # r => receiver'[p] = receiver[p]
      BY <1>0, <2>2 DEF QueueTypes
    <2>5. QueueTypes'
      <3>1. posix' \in [1..MaxSends -> Nat]
        BY <1>0, <2>2, <2>3 DEF QueueTypes
      <3> QED  BY <1>0, <2>2, <3>1 DEF QueueTypes
    <2>6. Places'
      BY <1>0, <2>2, <2>4 DEF Places
    <2>7. /\ Got' = Got \cup {r} /\ r \notin Got /\ Sent' = Sent
          /\ SysSent' = SysSent /\ SysGot' = SysGot
      BY <2>2, <2>4 DEF Sent, Got, SysSent, SysGot
    <2>8. IsFiniteSet(InQueues') /\ Cardinality(InQueues') + Cardinality(Got') = Cardinality(Sent')
      BY <2>2, <2>3, <2>7, MessageReceived
    <2> QED  BY <1>0, <2>2, <2>5, <2>6, <2>7, <2>8 DEF QueueInv, Counted
  <1>3. CASE MsgTask!MqUnlink(r)
    <2>1. PICK to \in {"msgrcv", "failed"} : to = IF keyed THEN "msgrcv" ELSE "failed"
      OBVIOUS
    <2>2. /\ receiver[r] = "unlink" /\ task1_queue' = 0 /\ receiver' = [receiver EXCEPT ![r] = to]
          /\ posix' = posix /\ sysv_mq' = sysv_mq /\ keyed' = keyed /\ sender' = sender /\ mq' = mq
      BY <1>3, <2>1 DEF MsgTask!MqUnlink, MsgTask!NoQueue
    <2>3. /\ receiver'[r] = to /\ \A p \in 1..MaxSends : p # r => receiver'[p] = receiver[p]
      BY <1>0, <2>2 DEF QueueTypes
    <2>4. QueueTypes'
      BY <1>0, <2>2 DEF QueueTypes
    <2>5. Places'
      BY <1>0, <2>1, <2>2, <2>3 DEF Places
    <2>6. Sent' = Sent /\ Got' = Got /\ InQueues' = InQueues /\ SysSent' = SysSent /\ SysGot' = SysGot
      BY <2>2, <2>3 DEF Sent, Got, InQueues, SysSent, SysGot
    <2> QED  BY <1>0, <2>2, <2>4, <2>5, <2>6 DEF QueueInv, Counted
  <1>4. CASE MsgTask!MsgRcv(r)
    <2>1. /\ receiver[r] = "msgrcv" /\ sysv_mq > 0 /\ sysv_mq' = sysv_mq - 1
          /\ receiver' = [receiver EXCEPT ![r] = "over"] /\ task1_queue' = task1_queue
          /\ posix' = posix /\ keyed' = keyed /\ sender' = sender /\ mq' = mq
      BY <1>4 DEF MsgTask!MsgRcv
    <2>2. /\ receiver'[r] = "over" /\ \A p \in 1..MaxSends : p # r => receiver'[p] = receiver[p]
      BY <1>0, <2>1 DEF QueueTypes
    <2>3. QueueTypes'
      BY <1>0, <2>1 DEF QueueTypes
    <2>4. Places'
      BY <1>0, <2>1, <2>2 DEF Places
    <2>5. /\ Sent' = Sent /\ Got' = Got /\ InQueues' = InQueues /\ SysSent' = SysSent
          /\ SysGot' = SysGot \cup {r} /\ r \notin SysGot
      BY <2>1, <2>2 DEF Sent, Got, InQueues, SysSent, SysGot
    <2>6. Cardinality(SysGot') = Cardinality(SysGot) + 1
      BY <2>5, RunsFinite, FS_AddElement
    <2>7. sysv_mq' + Cardinality(SysGot') = Cardinality(SysSent')
      <3>1. sysv_mq \in Nat /\ sysv_mq + Cardinality(SysGot) = Cardinality(SysSent)
        BY <1>0 DEF QueueTypes, Counted
      <3> QED  BY <2>1, <2>5, <2>6, <3>1, RunsFinite
    <2> QED  BY <1>0, <2>3, <2>4, <2>5, <2>7 DEF QueueInv, Counted
  <1> QED  BY <1>1, <1>2, <1>3, <1>4 DEF MsgTask!ReceiverStep

(* If a child is left behind when nobody is at a call that returns, the    *)
(* message it missed waits in a queue, and not in the System V queue.      *)
LEMMA MessageLeft ==
    ASSUME QueueInv, MsgTask!Halted, NEW r \in 1..MaxSends,
           receiver[r] \notin {"none", "over", "failed"}
    PROVE  /\ receiver[r] \in {"open", "receive"}
           /\ \E q \in 1..MaxSends : posix[q] > 0
  <1>0. QueueTypes /\ Places /\ Counted /\ MaxSends \in Nat
    BY Amounts DEF QueueInv
  <1>1. \A q \in 1..MaxSends : /\ sender[q] \in {"none", "over", "failed"}
                               /\ receiver[q] \in {"none", "over", "failed", "open", "receive",
                                                   "msgrcv"}
                               /\ receiver[q] = "msgrcv" => sysv_mq = 0
    BY DEF MsgTask!Halted, MsgTask!Senders
  <1>2. receiver[r] # "msgrcv"
    <2> SUFFICES ASSUME receiver[r] = "msgrcv" PROVE FALSE
      OBVIOUS
    <2>1. SysGot \subseteq SysSent /\ r \in SysSent /\ r \notin SysGot
      BY <1>0, <1>1 DEF Places, SysSent, SysGot
    <2>2. Cardinality(SysGot) <= Cardinality(SysSent) /\ Cardinality(SysGot) # Cardinality(SysSent)
      BY <2>1, RunsFinite, FS_Subset
    <2>3. sysv_mq = 0 /\ sysv_mq + Cardinality(SysGot) = Cardinality(SysSent)
      BY <1>0, <1>1 DEF Counted
    <2> QED  BY <2>2, <2>3, RunsFinite
  <1>3. Got \subseteq Sent /\ r \in Sent /\ r \notin Got
    BY <1>0, <1>1, <1>2 DEF Places, Got, Sent
  <1>4. Cardinality(Got) <= Cardinality(Sent) /\ Cardinality(Got) # Cardinality(Sent)
    BY <1>3, RunsFinite, FS_Subset
  <1>5. InQueues # {}
    <2>1. Cardinality(InQueues) + Cardinality(Got) = Cardinality(Sent)
      BY <1>0 DEF Counted
    <2>2. Cardinality({}) = 0
      BY FS_EmptySet
    <2> QED  BY <1>4, <2>1, <2>2, RunsFinite
  <1>6. PICK m \in (1..MaxSends) \X Nat : 1 <= m[2] /\ m[2] <= posix[m[1]]
    BY <1>5 DEF InQueues
  <1>7. m[1] \in 1..MaxSends /\ m[2] \in Nat
    BY <1>6
  <1>8. posix[m[1]] \in Nat
    BY <1>0, <1>7 DEF QueueTypes
  <1> QED  BY <1>1, <1>2, <1>6, <1>7, <1>8

(* However many times the program is run and whichever queues its children *)
(* open: a child is left waiting for ever only if the name was taken off a *)
(* queue in use.  The System V queue leaves nobody behind.                 *)
THEOREM LeftBehindOnlyCutOff == MainSpec => [](\A r \in MsgTask!Senders : MsgTask!HaltedOnlyCutOff(r))
  <1>1. MainInit => QueueInv
    <2> SUFFICES ASSUME MsgTask!Init PROVE QueueInv
      BY DEF MainInit
    <2>0. MaxSends \in Nat /\ 0 \in 0..MaxSends
      BY Amounts
    <2>1. /\ task1_queue = 0 /\ sysv_mq = 0
          /\ posix = [r \in 1..MaxSends |-> 0]
          /\ sender = [r \in 1..MaxSends |-> "none"] /\ receiver = [r \in 1..MaxSends |-> "none"]
          /\ mq = [r \in 1..MaxSends |-> [sender |-> 0, receiver |-> 0]]
      BY DEF MsgTask!Init, MsgTask!Senders, MsgTask!NoQueue
    <2>2. QueueTypes
      <3>1. mq \in [1..MaxSends -> [sender : 0..MaxSends, receiver : 0..MaxSends]]
        BY <2>0, <2>1
      <3> QED  BY <2>0, <2>1, <3>1 DEF QueueTypes
    <2>3. Places
      BY <2>0, <2>1 DEF Places
    <2>4. Sent = {} /\ Got = {} /\ SysSent = {} /\ SysGot = {}
      BY <2>1 DEF Sent, Got, SysSent, SysGot
    <2>5. InQueues = {}
      <3>1. ASSUME NEW m \in (1..MaxSends) \X Nat PROVE ~(1 <= m[2] /\ m[2] <= posix[m[1]])
        <4>1. m[1] \in 1..MaxSends /\ m[2] \in Nat
          OBVIOUS
        <4> QED  BY <2>1, <4>1
      <3> QED  BY <3>1 DEF InQueues
    <2>6. Counted
      BY <2>1, <2>4, <2>5, FS_EmptySet DEF Counted
    <2> QED  BY <2>2, <2>3, <2>6 DEF QueueInv
  <1>2. QueueInv /\ [RunTask]_main_vars => QueueInv'
    <2>1. [RunTask]_main_vars => [MsgTask!Next]_msg_task
      BY DEF RunTask, main_vars, sequential, processes, RunPhonebook, RunFileManager, RunMatrix,
             RunBytes, RunPlugins, RunShell, RunForkTask, RunShmTest, RunMsgTask, RunSocketTask,
             RunSelectServer
    <2> SUFFICES ASSUME QueueInv, [MsgTask!Next]_msg_task PROVE QueueInv'
      BY <2>1
    <2>2. CASE MsgTask!Next
      BY <2>2, SendersStep, ReceiversStep DEF MsgTask!Next, MsgTask!Senders
    <2>3. CASE UNCHANGED msg_task
      BY <2>3 DEF msg_task, QueueInv, QueueTypes, Places, Counted, Sent, Got, InQueues, SysSent, SysGot
    <2> QED  BY <2>2, <2>3
  <1>3. QueueInv => \A r \in MsgTask!Senders : MsgTask!HaltedOnlyCutOff(r)
    <2> SUFFICES ASSUME QueueInv, MsgTask!Halted, NEW r \in 1..MaxSends,
                        receiver[r] \notin {"none", "over", "failed"}
                 PROVE  MsgTask!CutOff
      BY DEF MsgTask!HaltedOnlyCutOff, MsgTask!Senders
    <2>1. PICK q \in 1..MaxSends : posix[q] > 0
      BY MessageLeft
    <2>2. CASE q # task1_queue
      BY <2>1, <2>2 DEF MsgTask!CutOff, MsgTask!Senders
    <2>3. CASE q = task1_queue
      <3>1. receiver[r] \in {"open", "receive"}
        BY MessageLeft
      <3>2. receiver[r] = "receive" /\ posix[mq[r].receiver] = 0
        BY <2>3, <3>1, RunsFinite DEF MsgTask!Halted, MsgTask!Senders, MsgTask!NoQueue
      <3>3. mq[r].receiver \in 1..MaxSends /\ mq[r].receiver # q
        BY <2>1, <3>2 DEF QueueInv, Places
      <3> QED  BY <2>3, <3>2, <3>3 DEF MsgTask!CutOff, MsgTask!Senders
    <2> QED  BY <2>2, <2>3
  <1> QED  BY <1>1, <1>2, <1>3, PTL DEF MainSpec

-----------------------------------------------------------------------------
(* The socket tasks.  A client waits at one server, once, or talks to one, *)
(* never both; a client that gave up was reset by a server that has ended, *)
(* and will not be accepted any more.                                      *)
SocketTypes ==
    /\ family \in {"aflocal", "afinet"}
    /\ address \in SocketTask!Servers \cup {0}
    /\ pending \in [SocketTask!Servers -> Seq(SocketTask!Clients)]
    /\ accepted \in [SocketTask!Servers -> SocketTask!Clients \cup {0}]
    /\ srv \in [SocketTask!Servers -> {"none", "accept", "send", "recv", "over", "failed"}]
    /\ cli \in [SocketTask!Clients -> {"none", "failed", "send", "killed", "recv",
                                       "printed answer", "printed own"}]
Queued ==
    \A s, t \in SocketTask!Servers : \A k \in 1..Len(pending[s]) :
        /\ \A l \in 1..Len(pending[t]) : pending[s][k] = pending[t][l] => s = t /\ k = l
        /\ pending[s][k] # accepted[t]
Connected ==
    \A s \in SocketTask!Servers : \A k \in 1..Len(pending[s]) :
        /\ pending[s][k] \in SocketTask!Clients
        /\ cli[pending[s][k]] \notin {"none", "failed"}
Served ==
    \A s \in SocketTask!Servers :
        /\ accepted[s] # 0 <=> srv[s] \in {"send", "recv", "over"}
        /\ accepted[s] # 0 =>
              /\ cli[accepted[s]] \notin {"none", "failed"}
              /\ \A t \in SocketTask!Servers : accepted[s] = accepted[t] => s = t
        /\ srv[s] = "over" => cli[accepted[s]] \in {"recv", "printed answer"}
Told ==
    \A c \in SocketTask!Clients :
        /\ cli[c] = "printed answer" => \E s \in SocketTask!Servers : accepted[s] = c
        /\ cli[c] \in {"printed own", "killed"} => SocketTask!IsReset(c)

SocketInv == SocketTypes /\ Queued /\ Connected /\ Served /\ Told

LEMMA QueuesStay ==
    ASSUME Queued, UNCHANGED <<pending, accepted>> PROVE Queued'
  BY DEF Queued

(* Every module counts alike.                                              *)
LEMMA SameCardinality ==
    ASSUME NEW S PROVE SocketTask!Cardinality(S) = Cardinality(S)
  BY DEF SocketTask!Cardinality, Cardinality

LEMMA NoClientIsZero == 0 \notin SocketTask!Clients /\ 0 \notin SocketTask!Servers
  BY Amounts DEF SocketTask!Clients, SocketTask!Servers

(* A reset is for good: the queue of a server that has ended stays.        *)
LEMMA ResetStays ==
    ASSUME NEW c \in SocketTask!Clients, SocketTask!IsReset(c),
           \A s \in SocketTask!Servers : srv[s] = "over" =>
               /\ srv'[s] = "over"
               /\ \A k \in DOMAIN pending[s] :
                      k \in DOMAIN pending'[s] /\ pending'[s][k] = pending[s][k]
    PROVE  SocketTask!IsReset(c)'
  BY DEF SocketTask!IsReset

(* A client that is reset is accepted by nobody.                           *)
LEMMA ResetIsNotServed ==
    ASSUME SocketInv, NEW c \in SocketTask!Clients, SocketTask!IsReset(c),
           NEW s \in SocketTask!Servers
    PROVE  accepted[s] # c
  <1>1. PICK t \in SocketTask!Servers : \E k \in DOMAIN pending[t] : pending[t][k] = c
    BY DEF SocketTask!IsReset
  <1>2. DOMAIN pending[t] = 1..Len(pending[t])
    BY LenProperties DEF SocketInv, SocketTypes
  <1> QED  BY <1>1, <1>2 DEF SocketInv, Queued

(* A client comes to its end.                                              *)
LEMMA ClientMoves ==
    ASSUME SocketInv, UNCHANGED <<family, address, pending, accepted, srv>>,
           NEW c \in SocketTask!Clients,
           NEW to \in {"recv", "killed", "printed answer", "printed own"},
           cli' = [cli EXCEPT ![c] = to], cli[c] \in {"send", "recv"},
           to = "recv" => cli[c] = "send",
           to = "printed answer" => \E s \in SocketTask!Servers : accepted[s] = c,
           to \in {"printed own", "killed"} => SocketTask!IsReset(c)
    PROVE  SocketInv'
  <1>1. SocketTypes' /\ cli'[c] = to /\ \A d \in SocketTask!Clients : d # c => cli'[d] = cli[d]
    BY DEF SocketInv, SocketTypes
  <1>2. \A d \in SocketTask!Clients :
            cli[d] \notin {"none", "failed"} => cli'[d] \notin {"none", "failed"}
    BY <1>1
  <1>3. Queued' /\ Connected'
    <2>1. Queued'
      BY QueuesStay DEF SocketInv
    <2>2. Connected'
      BY <1>2 DEF SocketInv, Connected
    <2> QED  BY <2>1, <2>2
  <1>4. Served'
    <2>1. ASSUME NEW s \in SocketTask!Servers, accepted[s] # 0
          PROVE  /\ accepted[s] \in SocketTask!Clients
                 /\ cli'[accepted[s]] \notin {"none", "failed"}
                 /\ srv[s] = "over" => cli'[accepted[s]] \in {"recv", "printed answer"}
      <3>1. accepted[s] \in SocketTask!Clients
        BY <2>1 DEF SocketInv, SocketTypes
      <3>2. accepted[s] = c => to \in {"recv", "printed answer"}
        BY ResetIsNotServed
      <3> QED  BY <1>1, <1>2, <2>1, <3>1, <3>2 DEF SocketInv, Served
    <2> QED  BY <2>1 DEF SocketInv, Served
  <1>5. Told'
    <2>1. \A d \in SocketTask!Clients : SocketTask!IsReset(d) => SocketTask!IsReset(d)'
      BY DEF SocketTask!IsReset
    <2> QED  BY <1>1, <2>1 DEF SocketInv, Told
  <1> QED  BY <1>1, <1>3, <1>4, <1>5 DEF SocketInv

(* A server moves on without taking a client.                              *)
LEMMA ServerMoves ==
    ASSUME SocketInv, UNCHANGED <<pending, accepted, cli>>,
           family' \in {"aflocal", "afinet"}, address' \in SocketTask!Servers \cup {0},
           NEW s \in SocketTask!Servers,
           NEW to \in {"accept", "failed", "recv", "over"}, srv' = [srv EXCEPT ![s] = to],
           to \in {"accept", "failed"} => srv[s] = "none",
           to = "recv" => srv[s] = "send",
           to = "over" => srv[s] = "recv" /\ cli[accepted[s]] # "send"
    PROVE  SocketInv'
  <1>1. SocketTypes' /\ srv'[s] = to /\ \A t \in SocketTask!Servers : t # s => srv'[t] = srv[t]
    BY DEF SocketInv, SocketTypes
  <1>2. \A t \in SocketTask!Servers : srv[t] = "over" => srv'[t] = "over"
    BY <1>1
  <1>3. Told'
    <2>1. \A c \in SocketTask!Clients : SocketTask!IsReset(c) => SocketTask!IsReset(c)'
      BY <1>2 DEF SocketTask!IsReset
    <2> QED  BY <2>1 DEF SocketInv, Told
  <1>4. to = "over" => cli[accepted[s]] \in {"recv", "printed answer"}
    <2> SUFFICES ASSUME to = "over" PROVE cli[accepted[s]] \in {"recv", "printed answer"}
      OBVIOUS
    <2>1. PICK c \in SocketTask!Clients : c = accepted[s]
      BY DEF SocketInv, SocketTypes, Served
    <2>2. cli[c] \notin {"printed own", "killed"}
      BY <2>1, ResetIsNotServed DEF SocketInv, Told
    <2>3. cli[c] \notin {"none", "failed", "send"}
      BY <2>1, NoClientIsZero DEF SocketInv, Served
    <2> QED  BY <2>1, <2>2, <2>3 DEF SocketInv, SocketTypes
  <1>5. Served'
    <2>1. accepted[s] # 0 <=> to \in {"recv", "over"}
      BY DEF SocketInv, Served
    <2> QED  BY <1>1, <1>4, <2>1 DEF SocketInv, Served
  <1>6. Queued' /\ Connected'
    BY DEF SocketInv, Queued, Connected
  <1> QED  BY <1>1, <1>3, <1>5, <1>6 DEF SocketInv

LEMMA SocketStep == SocketInv /\ SocketTask!Next => SocketInv'
  <1> SUFFICES ASSUME SocketInv, SocketTask!Next PROVE SocketInv'
    OBVIOUS
  <1> DEFINE Servers == SocketTask!Servers
             Clients == SocketTask!Clients
  <1>1. ASSUME NEW s \in Servers, SocketTask!Bind(s) PROVE SocketInv'
    <2>1. PICK to \in {"accept", "failed"} : srv' = [srv EXCEPT ![s] = to]
      BY <1>1 DEF SocketTask!Bind
    <2>2. /\ UNCHANGED <<pending, accepted, cli>> /\ srv[s] = "none"
          /\ family' \in {"aflocal", "afinet"} /\ address' \in Servers \cup {0}
      BY <1>1 DEF SocketTask!Bind, SocketInv, SocketTypes
    <2> QED  BY <2>1, <2>2, ServerMoves
  <1>2. ASSUME NEW s \in Servers, SocketTask!SendText(s) PROVE SocketInv'
    <2>1. /\ UNCHANGED <<family, address, pending, accepted, cli>> /\ srv[s] = "send"
          /\ srv' = [srv EXCEPT ![s] = "recv"]
      BY <1>2 DEF SocketTask!SendText
    <2>2. family' \in {"aflocal", "afinet"} /\ address' \in Servers \cup {0}
      BY <2>1 DEF SocketInv, SocketTypes
    <2> QED  BY <2>1, <2>2, ServerMoves
  <1>3. ASSUME NEW s \in Servers, SocketTask!RecvAndEnd(s) PROVE SocketInv'
    <2>1. /\ UNCHANGED <<family, pending, accepted, cli>> /\ srv[s] = "recv"
          /\ srv' = [srv EXCEPT ![s] = "over"] /\ cli[accepted[s]] # "send"
          /\ address' \in {0, address}
      BY <1>3 DEF SocketTask!RecvAndEnd, SocketTask!None
    <2>2. family' \in {"aflocal", "afinet"} /\ address' \in Servers \cup {0}
      BY <2>1 DEF SocketInv, SocketTypes
    <2> QED  BY <2>1, <2>2, ServerMoves
  <1>4. ASSUME NEW s \in Servers, SocketTask!Accept(s) PROVE SocketInv'
    <2> DEFINE h == Head(pending[s])
    <2>1. /\ srv[s] = "accept" /\ pending[s] # <<>> /\ UNCHANGED <<family, address, cli>>
          /\ accepted' = [accepted EXCEPT ![s] = h]
          /\ pending' = [pending EXCEPT ![s] = Tail(pending[s])]
          /\ srv' = [srv EXCEPT ![s] = "send"]
      BY <1>4 DEF SocketTask!Accept
    <2>2. /\ pending[s] \in Seq(Clients) /\ Len(pending[s]) \in Nat \ {0}
          /\ h \in Clients /\ h = pending[s][1] /\ Tail(pending[s]) \in Seq(Clients)
          /\ Len(Tail(pending[s])) = Len(pending[s]) - 1
          /\ \A k \in 1..Len(Tail(pending[s])) : Tail(pending[s])[k] = pending[s][k + 1]
      <3>1. pending[s] \in Seq(Clients)
        BY DEF SocketInv, SocketTypes
      <3> QED  BY <2>1, <3>1, HeadTailProperties
    <2> HIDE DEF h
    <2>3. /\ pending' \in [Servers -> Seq(Clients)] /\ pending'[s] = Tail(pending[s])
          /\ \A t \in Servers : t # s => pending'[t] = pending[t]
      BY <2>1, <2>2 DEF SocketInv, SocketTypes
    <2>4. /\ SocketTypes' /\ accepted'[s] = h /\ srv'[s] = "send"
          /\ \A t \in Servers : t # s => accepted'[t] = accepted[t] /\ srv'[t] = srv[t]
      BY <2>1, <2>2, <2>3 DEF SocketInv, SocketTypes
    <2>5. /\ cli[h] \notin {"none", "failed"} /\ h # 0 /\ accepted[s] = 0
          /\ \A t \in Servers : accepted[t] # h
          /\ \A t \in Servers : \A k \in 1..Len(pending[t]) :
                 pending[t][k] = h => t = s /\ k = 1
      <3>1. 1 \in 1..Len(pending[s]) /\ pending[s][1] = h
        BY <2>2
      <3>2. accepted[s] = 0 /\ cli[h] \notin {"none", "failed"}
        BY <2>1, <3>1 DEF SocketInv, Served, Connected
      <3> QED  BY <2>2, <3>1, <3>2, NoClientIsZero DEF SocketInv, Queued
    <2>6. ASSUME NEW t \in Servers, NEW k \in 1..Len(pending'[t])
          PROVE  \E l \in 1..Len(pending[t]) :
                     pending'[t][k] = pending[t][l] /\ l = (IF t = s THEN k + 1 ELSE k)
      <3>1. CASE t = s
        <4>1. k \in 1..Len(Tail(pending[s])) /\ k + 1 \in 1..Len(pending[s])
          BY <2>2, <2>3, <3>1
        <4>2. pending'[t][k] = pending[s][k + 1]
          BY <2>2, <2>3, <3>1, <4>1
        <4> QED  BY <3>1, <4>1, <4>2
      <3>2. CASE t # s
        BY <2>3, <3>2
      <3> QED  BY <3>1, <3>2
    <2>7. Queued'
      <3> SUFFICES ASSUME NEW t \in Servers, NEW u \in Servers, NEW k \in 1..Len(pending'[t])
                   PROVE  /\ \A l \in 1..Len(pending'[u]) :
                                 pending'[t][k] = pending'[u][l] => t = u /\ k = l
                          /\ pending'[t][k] # accepted'[u]
        BY DEF Queued
      <3>1. PICK kk \in 1..Len(pending[t]) :
                pending'[t][k] = pending[t][kk] /\ kk = (IF t = s THEN k + 1 ELSE k)
        BY <2>6
      <3>2. ASSUME NEW l \in 1..Len(pending'[u]), pending'[t][k] = pending'[u][l]
            PROVE  t = u /\ k = l
        <4>1. PICK ll \in 1..Len(pending[u]) :
                  pending'[u][l] = pending[u][ll] /\ ll = (IF u = s THEN l + 1 ELSE l)
          BY <2>6
        <4>2. t = u /\ kk = ll
          BY <3>1, <3>2, <4>1 DEF SocketInv, Queued
        <4> QED  BY <3>1, <4>1, <4>2
      <3>3. pending'[t][k] # accepted'[u]
        <4>1. CASE u = s
          BY <2>4, <2>5, <3>1, <4>1
        <4>2. CASE u # s
          BY <2>4, <3>1, <4>2 DEF SocketInv, Queued
        <4> QED  BY <4>1, <4>2
      <3> QED  BY <3>2, <3>3
    <2>8. Connected'
      BY <2>1, <2>6 DEF SocketInv, Connected
    <2>9. Served'
      <3> SUFFICES ASSUME NEW t \in Servers
                   PROVE  /\ accepted'[t] # 0 <=> srv'[t] \in {"send", "recv", "over"}
                          /\ accepted'[t] # 0 =>
                                /\ cli'[accepted'[t]] \notin {"none", "failed"}
                                /\ \A u \in Servers : accepted'[t] = accepted'[u] => t = u
                          /\ srv'[t] = "over" => cli'[accepted'[t]] \in {"recv", "printed answer"}
        BY DEF Served
      <3>1. CASE t = s
        <4>1. UNCHANGED cli
          BY <2>1
        <4>2. \A u \in Servers : h = accepted'[u] => s = u
          BY <2>4, <2>5
        <4> QED  BY <2>4, <2>5, <3>1, <4>1, <4>2
      <3>2. CASE t # s
        <4>1. accepted'[t] = accepted[t] /\ srv'[t] = srv[t] /\ accepted[t] # h
          BY <2>4, <2>5, <3>2
        <4>2. \A u \in Servers : accepted[t] = accepted'[u] => u # s /\ accepted'[u] = accepted[u]
          BY <2>4, <4>1
        <4>3. UNCHANGED cli
          BY <2>1
        <4>4. \A u \in Servers : accepted[t] # 0 /\ accepted[t] = accepted'[u] => t = u
          <5>1. accepted[t] # 0 => \A u \in Servers : accepted[t] = accepted[u] => t = u
            BY DEF SocketInv, Served
          <5> QED  BY <4>2, <5>1
        <4> QED  BY <4>1, <4>3, <4>4 DEF SocketInv, Served
      <3> QED  BY <3>1, <3>2
    <2>10. Told'
      <3>1. ASSUME NEW c \in Clients, SocketTask!IsReset(c) PROVE SocketTask!IsReset(c)'
        <4>1. \A t \in Servers : srv[t] = "over" =>
                  /\ srv'[t] = "over"
                  /\ \A k \in DOMAIN pending[t] :
                         k \in DOMAIN pending'[t] /\ pending'[t][k] = pending[t][k]
          BY <2>1, <2>3, <2>4
        <4> QED  BY <3>1, <4>1, ResetStays
      <3>2. ASSUME NEW c \in Clients, cli[c] = "printed answer"
            PROVE  \E t \in Servers : accepted'[t] = c
        <4>1. PICK t \in Servers : accepted[t] = c
          BY <3>2 DEF SocketInv, Told
        <4> QED  BY <2>4, <2>5, <4>1, NoClientIsZero
      <3> QED  BY <2>1, <3>1, <3>2 DEF SocketInv, Told
    <2> QED  BY <2>4, <2>7, <2>8, <2>9, <2>10 DEF SocketInv
  <1>5. ASSUME NEW c \in Clients, SocketTask!Connect(c) PROVE SocketInv'
    <2>1. /\ cli[c] = "none" /\ UNCHANGED <<family, address, accepted, srv>>
          /\ cli' = [cli EXCEPT ![c] = IF address = 0 THEN "failed" ELSE "send"]
          /\ pending' = [s \in Servers |-> IF s = address THEN Append(pending[s], c)
                                            ELSE pending[s]]
      BY <1>5 DEF SocketTask!Connect, SocketTask!None
    <2>2. \A s \in Servers :
              /\ pending'[s] \in Seq(Clients) /\ Len(pending[s]) \in Nat
              /\ Len(pending'[s]) = IF s = address THEN Len(pending[s]) + 1 ELSE Len(pending[s])
              /\ \A k \in 1..Len(pending[s]) : pending'[s][k] = pending[s][k]
              /\ s = address => pending'[s][Len(pending[s]) + 1] = c
      <3> TAKE s \in Servers
      <3>1. pending[s] \in Seq(Clients)
        BY DEF SocketInv, SocketTypes
      <3> QED  BY <2>1, <3>1, AppendProperties, LenProperties
    <2>3. /\ SocketTypes' /\ cli'[c] = IF address = 0 THEN "failed" ELSE "send"
          /\ \A d \in Clients : d # c => cli'[d] = cli[d]
      BY <2>1, <2>2 DEF SocketInv, SocketTypes
    <2>4. /\ \A s \in Servers : \A k \in 1..Len(pending[s]) :
                 pending[s][k] # c /\ pending[s][k] \in Clients
          /\ \A s \in Servers : accepted[s] # c
      <3>1. \A s \in Servers : accepted[s] # c
        BY <2>1, NoClientIsZero DEF SocketInv, Served
      <3> QED  BY <2>1, <3>1 DEF SocketInv, Connected
    <2>5. ASSUME NEW s \in Servers, NEW k \in 1..Len(pending'[s])
          PROVE  \/ k \in 1..Len(pending[s]) /\ pending'[s][k] = pending[s][k]
                 \/ s = address /\ k = Len(pending[s]) + 1 /\ pending'[s][k] = c
      BY <2>2
    <2>6. Queued'
      <3> SUFFICES ASSUME NEW s \in Servers, NEW t \in Servers, NEW k \in 1..Len(pending'[s])
                   PROVE  /\ \A l \in 1..Len(pending'[t]) :
                                 pending'[s][k] = pending'[t][l] => s = t /\ k = l
                          /\ pending'[s][k] # accepted'[t]
        BY DEF Queued
      <3>1. ASSUME NEW l \in 1..Len(pending'[t]), pending'[s][k] = pending'[t][l]
            PROVE  s = t /\ k = l
        <4>1. CASE k \in 1..Len(pending[s]) /\ pending'[s][k] = pending[s][k]
          <5>1. pending[s][k] # c
            BY <2>4, <4>1
          <5>2. l \in 1..Len(pending[t]) /\ pending'[t][l] = pending[t][l]
            BY <2>5, <3>1, <4>1, <5>1
          <5>3. pending[s][k] = pending[t][l]
            BY <3>1, <4>1, <5>2
          <5> QED  BY <4>1, <5>2, <5>3 DEF SocketInv, Queued
        <4>2. CASE s = address /\ k = Len(pending[s]) + 1 /\ pending'[s][k] = c
          BY <2>4, <2>5, <3>1, <4>2
        <4> QED  BY <2>5, <4>1, <4>2
      <3>2. pending'[s][k] # accepted'[t]
        BY <2>1, <2>4, <2>5 DEF SocketInv, Queued
      <3> QED  BY <3>1, <3>2
    <2>7. Connected'
      <3> SUFFICES ASSUME NEW s \in Servers, NEW k \in 1..Len(pending'[s])
                   PROVE  /\ pending'[s][k] \in Clients
                          /\ cli'[pending'[s][k]] \notin {"none", "failed"}
        BY DEF Connected
      <3>1. CASE k \in 1..Len(pending[s]) /\ pending'[s][k] = pending[s][k]
        BY <2>3, <2>4, <3>1 DEF SocketInv, Connected
      <3>2. CASE s = address /\ pending'[s][k] = c
        BY <2>3, <3>2, NoClientIsZero
      <3> QED  BY <2>5, <3>1, <3>2
    <2>8. Served'
      <3>1. \A s \in Servers : accepted[s] # 0 => cli'[accepted[s]] = cli[accepted[s]]
        BY <2>3, <2>4 DEF SocketInv, SocketTypes
      <3>2. ASSUME NEW s \in Servers, srv[s] = "over"
            PROVE  cli'[accepted[s]] \in {"recv", "printed answer"}
        <4>1. accepted[s] # 0
          BY <3>2 DEF SocketInv, Served
        <4> QED  BY <3>1, <3>2, <4>1 DEF SocketInv, Served
      <3>3. ASSUME NEW s \in Servers, accepted[s] # 0
            PROVE  cli'[accepted[s]] \notin {"none", "failed"}
        BY <3>1, <3>3 DEF SocketInv, Served
      <3>4. UNCHANGED <<accepted, srv>>
        BY <2>1
      <3> QED  BY <3>2, <3>3, <3>4 DEF SocketInv, Served
    <2>9. Told'
      <3>1. ASSUME NEW d \in Clients, SocketTask!IsReset(d) PROVE SocketTask!IsReset(d)'
        <4>1. \A s \in Servers : srv[s] = "over" =>
                  /\ srv'[s] = "over"
                  /\ \A k \in DOMAIN pending[s] :
                         k \in DOMAIN pending'[s] /\ pending'[s][k] = pending[s][k]
          <5> SUFFICES ASSUME NEW s \in Servers, NEW k \in DOMAIN pending[s]
                       PROVE  k \in DOMAIN pending'[s] /\ pending'[s][k] = pending[s][k]
            BY <2>1
          <5>1. pending[s] \in Seq(Clients) /\ pending'[s] \in Seq(Clients)
            BY <2>2 DEF SocketInv, SocketTypes
          <5>2. DOMAIN pending[s] = 1..Len(pending[s]) /\ DOMAIN pending'[s] = 1..Len(pending'[s])
            BY <5>1, LenProperties
          <5> QED  BY <2>2, <5>2
        <4> QED  BY <3>1, <4>1, ResetStays
      <3>2. ASSUME NEW d \in Clients, cli'[d] \in {"printed answer", "printed own", "killed"}
            PROVE  cli'[d] = cli[d]
        BY <2>3, <3>2
      <3> QED  BY <2>1, <3>1, <3>2 DEF SocketInv, Told
    <2> QED  BY <2>3, <2>6, <2>7, <2>8, <2>9 DEF SocketInv
  <1>6. ASSUME NEW c \in Clients, SocketTask!SendOwn(c) PROVE SocketInv'
    <2>1. PICK to \in {"killed", "recv"} :
              cli' = [cli EXCEPT ![c] = to] /\ (to = "killed" => SocketTask!IsReset(c))
      BY <1>6 DEF SocketTask!SendOwn
    <2>2. cli[c] = "send" /\ UNCHANGED <<family, address, pending, accepted, srv>>
      BY <1>6 DEF SocketTask!SendOwn
    <2> QED  BY <2>1, <2>2, ClientMoves
  <1>7. ASSUME NEW c \in Clients, SocketTask!RecvAndPrint(c) PROVE SocketInv'
    <2>1. cli[c] = "recv" /\ UNCHANGED <<family, address, pending, accepted, srv>>
      BY <1>7 DEF SocketTask!RecvAndPrint
    <2>2. CASE /\ \E s \in Servers : accepted[s] = c
               /\ cli' = [cli EXCEPT ![c] = "printed answer"]
      BY <2>1, <2>2, ClientMoves
    <2>3. CASE /\ SocketTask!IsReset(c)
               /\ cli' = [cli EXCEPT ![c] = "printed own"]
      BY <2>1, <2>3, ClientMoves
    <2> QED  BY <1>7, <2>2, <2>3 DEF SocketTask!RecvAndPrint
  <1> QED  BY <1>1, <1>2, <1>3, <1>4, <1>5, <1>6, <1>7 DEF SocketTask!Next

LEMMA SocketKept == MainSpec => []SocketInv
  <1>1. MainInit => SocketInv
    BY NoClientIsZero DEF MainInit, SocketTask!Init, SocketTask!None, SocketInv, SocketTypes,
                          Queued, Connected, Served, Told
  <1>2. SocketInv /\ [RunTask]_main_vars => SocketInv'
    <2>1. [RunTask]_main_vars => SocketTask!Next \/ UNCHANGED sockets
      BY DEF RunTask, main_vars, servers, RunPhonebook, RunFileManager, RunMatrix, RunBytes,
             RunPlugins, RunShell, RunForkTask, RunShmTest, RunMsgTask, RunSocketTask,
             RunSelectServer
    <2>2. ASSUME SocketInv, UNCHANGED sockets PROVE SocketInv'
      <3>1. SocketTypes' /\ Queued'
        <4>1. UNCHANGED <<family, address, pending, accepted, srv, cli>> /\ SocketTypes /\ Queued
          BY <2>2 DEF sockets, SocketInv
        <4>2. Queued'
          BY <4>1, QueuesStay
        <4> QED  BY <4>1, <4>2 DEF SocketTypes
      <3>2. Connected' /\ Served'
        BY <2>2 DEF sockets, SocketInv, Connected, Served
      <3>3. \A c \in SocketTask!Clients : SocketTask!IsReset(c)' = SocketTask!IsReset(c)
        BY <2>2 DEF sockets, SocketTask!IsReset
      <3>4. Told'
        BY <2>2, <3>3 DEF sockets, SocketInv, Told
      <3> QED  BY <3>1, <3>2, <3>4 DEF SocketInv
    <2> QED  BY <2>1, <2>2, SocketStep
  <1> QED  BY <1>1, <1>2, PTL DEF MainSpec

(* For any number of servers that follow one another at the address and of *)
(* clients: each server serves one client, which then prints its text, and *)
(* no client that was accepted prints its own text or is killed.           *)
THEOREM ServersKeepTheirClients == MainSpec => []AcceptedGetsAnswer
  <1>1. SocketInv => AcceptedGetsAnswer
    <2> SUFFICES ASSUME SocketInv PROVE AcceptedGetsAnswer
      OBVIOUS
    <2>1. ASSUME NEW c \in SocketTask!Clients, cli[c] = "printed answer"
          PROVE  SocketTask!Cardinality({s \in SocketTask!Servers : accepted[s] = c}) = 1
      <3>1. PICK t \in SocketTask!Servers : accepted[t] = c
        BY <2>1 DEF SocketInv, Told
      <3>2. {s \in SocketTask!Servers : accepted[s] = c} = {t}
        BY <3>1, NoClientIsZero DEF SocketInv, Served
      <3> QED  BY <3>2, FS_Singleton, SameCardinality
    <2>2. ASSUME NEW c \in SocketTask!Clients, cli[c] \in {"printed own", "killed"},
                 NEW s \in SocketTask!Servers
          PROVE  accepted[s] # c
      BY <2>2, ResetIsNotServed DEF SocketInv, Told
    <2>3. \A s \in SocketTask!Servers :
              srv[s] = "over" => cli[accepted[s]] \in {"recv", "printed answer"}
      BY DEF SocketInv, Served
    <2> QED  BY <2>1, <2>2, <2>3 DEF AcceptedGetsAnswer, SocketTask!AcceptedGetsAnswer
  <1> QED  BY <1>1, SocketKept, PTL
=============================================================================
