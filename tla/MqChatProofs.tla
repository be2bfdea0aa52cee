---------------------------- MODULE MqChatProofs ----------------------------
(* The message-queue chat implements the totally ordered broadcast, for    *)
(* any clients, any names and queues of any length.                        *)
EXTENDS MqChat, TLAPS

Line == {NoLine, StopLine} \cup {TextLine(k) : k \in 1..MaxLines}
Registered == {clients[i] : i \in 1..Len(clients)}
Inside == {"top", "drain"}

Places == {"connect", "name", "failed", "join", "top", "drain", "quit", "done"}
Messages == Text \cup Names \cup {"stop"}
Queues == [1..3 -> Seq(Messages)]

QueueTypes ==
    /\ connection \in Queues /\ connection[1] \in Seq(Text)
    /\ queue \in [Clients -> Queues]
    /\ \A c \in Clients : queue[c][1] \in Seq(Text)

Types ==
    /\ owner \in [Names -> Clients \cup {NoOwner}]
    /\ spc \in {"start", "loop", "send", "stopping", "stopped", "crashed"}
    /\ clients \in Seq(Clients)
    /\ next \in Nat \ {0}
    /\ cpc \in [Clients -> Places]
    /\ name \in [Clients -> Names \cup {NoOwner}]
    /\ input \in [Clients -> Line]
    /\ typed \in 0..MaxLines
    /\ texts \in [Clients -> 0..typed]
    /\ log \in Seq(Text)
    /\ joined \in [Registered -> 0..Len(log)]
    /\ shown \in [Clients -> Seq(Text)]

(* A client in the chat owns the name it chose.                            *)
Owned ==
    \A c \in Clients : cpc[c] \in {"join", "top", "drain", "quit"} =>
        name[c] \in Names /\ owner[name[c]] = c

(* Nobody is told to stop, or leaves, before the server has stopped.       *)
NobodyStopped ==
    spc \in {"start", "loop", "send", "crashed"} =>
        \A c \in Clients : cpc[c] \notin {"quit", "done"} /\ queue[c][3] = <<>>

(* The joins in the queue are of clients in the chat whom the server does  *)
(* not know yet, one of each.                                              *)
JoinsFresh ==
    spc \in {"start", "loop", "send", "crashed"} =>
        /\ \A i \in 1..Len(connection[2]) :
              \E c \in Clients \ Registered :
                  cpc[c] \in Inside /\ name[c] = connection[2][i]
        /\ \A i, j \in 1..Len(connection[2]) : connection[2][i] = connection[2][j] => i = j

(* The array of clients names each once, and only such as joined.          *)
MembersDistinct ==
    /\ \A i, j \in 1..Len(clients) : clients[i] = clients[j] => i = j
    /\ \A c \in Registered : cpc[c] \in {"top", "drain", "quit", "done"}

(* Due to a client is the message the server has not sent it yet.          *)
Due(c) == spc = "send" /\ \E i \in next..Len(clients) : clients[i] = c

(* What a member was shown, what waits in its queue and what is due to it  *)
(* are together as many as were stored since it joined, and the queue      *)
(* holds them in their order.                                              *)
Delivered ==
    /\ spc = "send" => Len(log) > 0 /\ out = log[Len(log)]
    /\ \A c \in Clients \ Registered : shown[c] = <<>> /\ queue[c][1] = <<>>
    /\ \A c \in Registered :
          /\ Due(c) => joined[c] + Len(shown[c]) + Len(queue[c][1]) + 1 = Len(log)
          /\ ~Due(c) => joined[c] + Len(shown[c]) + Len(queue[c][1]) = Len(log)
          /\ \A k \in 1..Len(queue[c][1]) :
                queue[c][1][k] = log[joined[c] + Len(shown[c]) + k]

ChatInv ==
    /\ QueueTypes /\ Types
    /\ Owned /\ NobodyStopped /\ JoinsFresh /\ MembersDistinct /\ Delivered

-----------------------------------------------------------------------------
(* A death changes nothing but who is dead: what holds of all the rest     *)
(* holds behind it as behind a step that changes nothing.                  *)
Kept == <<serverVars, connection, queue, cpc, name, input, typed, texts, shown>>

LEMMA DeathKeepsTheRest ==
    ASSUME UNCHANGED vars \/ \E c \in Clients : Die(c)
    PROVE  UNCHANGED Kept
  <1>1. CASE UNCHANGED vars
    BY <1>1 DEF vars, clientVars, Kept
  <1>2. ASSUME NEW c \in Clients, Die(c) PROVE UNCHANGED Kept
    BY <1>2 DEF Die, Kept
  <1> QED  BY <1>1, <1>2

(* Sequences with one element more, or one less.                           *)
LEMMA Appended ==
    ASSUME NEW S, NEW s \in Seq(S), NEW e \in S
    PROVE  /\ Append(s, e) \in Seq(S) /\ Len(s) \in Nat
           /\ Len(Append(s, e)) = Len(s) + 1
           /\ Append(s, e)[Len(s) + 1] = e
           /\ \A k \in 1..Len(s) : Append(s, e)[k] = s[k]
  OBVIOUS

LEMMA Taken ==
    ASSUME NEW S, NEW s \in Seq(S), s # <<>>
    PROVE  /\ Tail(s) \in Seq(S) /\ Len(s) \in Nat \ {0}
           /\ Len(Tail(s)) = Len(s) - 1
           /\ Head(s) = s[1] /\ s[1] \in S
           /\ \A k \in 1..(Len(s) - 1) : Tail(s)[k] = s[k + 1]
  OBVIOUS

(* What a call does to the one priority it is about, and to the others.    *)
LEMMA PutQueue ==
    ASSUME NEW q \in Queues, NEW p \in 1..3, NEW m \in Messages
    PROVE  /\ Put(q, p, m) \in Queues
           /\ Put(q, p, m)[p] = Append(q[p], m)
           /\ \A r \in 1..3 : r # p => Put(q, p, m)[r] = q[r]
  BY DEF Put, Queues

LEMMA TakeQueue ==
    ASSUME NEW q \in Queues, NEW p \in 1..3, Receives(q, p)
    PROVE  /\ Take(q, p) \in Queues /\ q[p] # <<>> /\ q[p] \in Seq(Messages)
           /\ Take(q, p)[p] = Tail(q[p])
           /\ \A r \in 1..3 : r # p => Take(q, p)[r] = q[r]
  BY DEF Take, Receives, Queues

LEMMA RegisteredKnown ==
    ASSUME Types PROVE Registered \subseteq Clients
  BY DEF Types, Registered

LEMMA Counts ==
    ASSUME QueueTypes, Types
    PROVE  /\ Len(log) \in Nat
           /\ \A d \in Clients : Len(shown[d]) \in Nat /\ Len(queue[d][1]) \in Nat
           /\ \A d \in Registered : d \in Clients /\ joined[d] \in Nat
  <1>1. log \in Seq(Text) /\ joined \in [Registered -> 0..Len(log)]
    BY DEF Types
  <1>2. \A d \in Clients : shown[d] \in Seq(Text) /\ queue[d][1] \in Seq(Text)
    BY DEF Types, QueueTypes
  <1> QED  BY <1>1, <1>2, RegisteredKnown

(* What Delivered says of one member.                                      *)
LEMMA DeliveredEach ==
    ASSUME spc' = "send" => Len(log') > 0 /\ out' = log'[Len(log')],
           \A d \in Clients \ Registered' : shown'[d] = <<>> /\ queue'[d][1] = <<>>,
           \A d \in Registered' :
              /\ Due(d)' => joined'[d] + Len(shown'[d]) + Len(queue'[d][1]) + 1 = Len(log')
              /\ ~Due(d)' => joined'[d] + Len(shown'[d]) + Len(queue'[d][1]) = Len(log')
              /\ \A k \in 1..Len(queue'[d][1]) :
                    queue'[d][1][k] = log'[joined'[d] + Len(shown'[d]) + k]
    PROVE  Delivered'
  BY DEF Delivered

(* What a step must not do to keep the parts of the invariant.             *)
LEMMA JoinsFreshKept ==
    ASSUME JoinsFresh, UNCHANGED spc, Registered' = Registered,
           connection'[2] = connection[2],
           \A d \in Clients : cpc[d] \in Inside => cpc'[d] \in Inside /\ name'[d] = name[d]
    PROVE  JoinsFresh'
  <1> SUFFICES ASSUME spc \in {"start", "loop", "send", "crashed"} PROVE JoinsFresh'
    BY DEF JoinsFresh
  <1>1. ASSUME NEW k \in 1..Len(connection[2])
        PROVE  \E d \in Clients \ Registered : cpc'[d] \in Inside /\ name'[d] = connection[2][k]
    BY DEF JoinsFresh
  <1>2. \A k, l \in 1..Len(connection[2]) : connection[2][k] = connection[2][l] => k = l
    BY DEF JoinsFresh
  <1> QED  BY <1>1, <1>2 DEF JoinsFresh

LEMMA MembersKept ==
    ASSUME Types, MembersDistinct, UNCHANGED clients, Registered' = Registered,
           \A d \in Clients : cpc[d] \in {"top", "drain", "quit", "done"}
                              => cpc'[d] \in {"top", "drain", "quit", "done"}
    PROVE  MembersDistinct'
  BY RegisteredKnown DEF MembersDistinct

LEMMA DeliveredKept ==
    ASSUME Types, Delivered, Registered' = Registered,
           UNCHANGED <<spc, clients, next, out, log, joined, shown>>,
           \A d \in Clients : queue'[d][1] = queue[d][1]
    PROVE  Delivered'
  BY RegisteredKnown DEF Delivered, Due

-----------------------------------------------------------------------------
LEMMA Invariance == Spec => []ChatInv
  <1>1. Init => ChatInv
    <2> SUFFICES ASSUME Init PROVE ChatInv
      OBVIOUS
    <2> USE DEF Init, EmptyQueue
    <2>1. Registered = {}
      BY DEF Registered
    <2>2. Types
      BY <2>1, MaxLinesNat DEF Types, Line, Places
    <2>3. QueueTypes
      BY DEF QueueTypes, Queues
    <2> QED
      BY <2>1, <2>2, <2>3, OwnerKnown
      DEF ChatInv, Owned, NobodyStopped, JoinsFresh, MembersDistinct, Delivered, Due
  <1>2. ChatInv /\ [Next]_vars => ChatInv'
    <2> SUFFICES ASSUME ChatInv, [Next]_vars PROVE ChatInv'
      OBVIOUS
    <2>0. /\ QueueTypes /\ Types
          /\ Owned /\ NobodyStopped /\ JoinsFresh /\ MembersDistinct /\ Delivered
      BY DEF ChatInv
    <2>1. CASE ServerOpen
      <3> USE <2>1 DEF ServerOpen, clientVars
      <3>1. Registered' = Registered
        BY DEF Registered
      <3>2. QueueTypes' /\ Types'
        BY <2>0, <3>1 DEF QueueTypes, Types
      <3>3. Owned' /\ NobodyStopped' /\ JoinsFresh' /\ MembersDistinct'
        BY <2>0, <3>1 DEF Owned, NobodyStopped, JoinsFresh, MembersDistinct
      <3>4. Delivered'
        BY <2>0, <3>1 DEF Delivered, Due, Types
      <3> QED  BY <3>2, <3>3, <3>4 DEF ChatInv
    <2>2. CASE ServerJoin
      <3> DEFINE n == Head(connection[2])
      <3>1. /\ spc = "loop" /\ Receives(connection, 2) /\ connection' = Take(connection, 2)
            /\ UNCHANGED <<owner, queue, out, next, log, cpc, name, input, typed, texts, shown>>
            /\ owner[n] # NoOwner =>
                  /\ clients' = Append(clients, owner[n])
                  /\ joined' = [d \in DOMAIN joined \cup {owner[n]} |->
                                   IF d = owner[n] THEN Len(log) ELSE joined[d]]
                  /\ spc' \in {"loop", "crashed"}
        BY <2>2 DEF ServerJoin, clientVars
      <3>2. /\ connection' \in Queues /\ connection'[1] = connection[1]
            /\ connection[2] # <<>> /\ connection[2] \in Seq(Messages)
            /\ connection'[2] = Tail(connection[2])
        BY <2>0, <3>1, TakeQueue DEF QueueTypes
      <3>3. /\ Len(connection[2]) \in Nat \ {0} /\ n = connection[2][1]
            /\ Len(connection'[2]) = Len(connection[2]) - 1
            /\ \A k \in 1..(Len(connection[2]) - 1) : connection'[2][k] = connection[2][k + 1]
        BY <3>2, Taken
      <3> HIDE DEF n
      <3>4. PICK c \in Clients \ Registered : cpc[c] \in Inside /\ name[c] = n
        BY <2>0, <3>1, <3>3 DEF JoinsFresh
      <3>5. owner[n] = c /\ n \in Names /\ c # NoOwner
        BY <2>0, <3>4, OwnerKnown DEF Owned, Inside
      <3>6. /\ c \in Clients /\ c \notin Registered /\ cpc[c] \in Inside /\ name[c] = n
            /\ clients' = Append(clients, c) /\ spc' \in {"loop", "crashed"}
            /\ joined' = [e \in DOMAIN joined \cup {c} |->
                             IF e = c THEN Len(log) ELSE joined[e]]
        BY <3>1, <3>4, <3>5
      <3>7. /\ clients' \in Seq(Clients) /\ Len(clients) \in Nat
            /\ Len(clients') = Len(clients) + 1 /\ clients'[Len(clients) + 1] = c
            /\ \A k \in 1..Len(clients) : clients'[k] = clients[k]
        BY <2>0, <3>6, Appended DEF Types
      <3>8. Registered' = Registered \cup {c}
        BY <3>7 DEF Registered
      <3>9. QueueTypes'
        BY <2>0, <3>1, <3>2 DEF QueueTypes
      <3>10. joined' \in [Registered' -> 0..Len(log)]
        BY <2>0, <3>6, <3>8 DEF Types
      <3>11. Types'
        BY <2>0, <3>1, <3>6, <3>7, <3>10 DEF Types
      <3>12. Owned' /\ NobodyStopped'
        BY <2>0, <3>1, <3>6 DEF Owned, NobodyStopped
      <3>13. JoinsFresh'
        <4>1. ASSUME NEW k \in 1..Len(connection'[2])
              PROVE  \E e \in Clients \ Registered' :
                         cpc[e] \in Inside /\ name[e] = connection'[2][k]
          <5>1. k + 1 \in 1..Len(connection[2]) /\ connection'[2][k] = connection[2][k + 1]
                /\ 1 \in 1..Len(connection[2]) /\ k + 1 # 1
            BY <3>3
          <5>2. PICK e \in Clients \ Registered : cpc[e] \in Inside /\ name[e] = connection[2][k + 1]
            BY <2>0, <3>1, <5>1 DEF JoinsFresh
          <5>3. connection[2][k + 1] # connection[2][1]
            BY <2>0, <3>1, <5>1 DEF JoinsFresh
          <5> QED  BY <3>3, <3>6, <3>8, <5>1, <5>2, <5>3
        <4>2. ASSUME NEW k \in 1..Len(connection'[2]), NEW l \in 1..Len(connection'[2]),
                     connection'[2][k] = connection'[2][l]
              PROVE  k = l
          <5>1. /\ k + 1 \in 1..Len(connection[2]) /\ l + 1 \in 1..Len(connection[2])
                /\ connection[2][k + 1] = connection[2][l + 1]
            BY <3>3, <4>2, SMTT(30)
          <5>2. k + 1 = l + 1
            BY <2>0, <3>1, <5>1 DEF JoinsFresh
          <5> QED  BY <3>3, <5>2
        <4> QED  BY <3>1, <4>1, <4>2 DEF JoinsFresh
      <3>14. MembersDistinct'
        <4>1. \A k \in 1..Len(clients) : clients[k] # c
          BY <3>6 DEF Registered
        <4> QED  BY <2>0, <3>1, <3>6, <3>7, <3>8, <4>1 DEF MembersDistinct, Inside
      <3>15. Delivered'
        <4>1. shown[c] = <<>> /\ queue[c][1] = <<>> /\ joined'[c] = Len(log) /\ Len(log) \in Nat
          BY <2>0, <3>6 DEF Delivered, Types
        <4>2. \A e \in Registered : joined'[e] = joined[e]
          BY <2>0, <3>6 DEF Types
        <4>3. \A e \in Clients : ~Due(e) /\ ~Due(e)'
          BY <3>1, <3>6 DEF Due
        <4>4. ASSUME NEW e \in Registered'
              PROVE  /\ ~Due(e)'
                     /\ joined'[e] + Len(shown'[e]) + Len(queue'[e][1]) = Len(log')
                     /\ \A k \in 1..Len(queue'[e][1]) :
                           queue'[e][1][k] = log'[joined'[e] + Len(shown'[e]) + k]
          <5>1. CASE e = c
            <6>1. /\ shown'[c] = <<>> /\ queue'[c][1] = <<>> /\ joined'[c] = Len(log')
                  /\ Len(log') \in Nat /\ ~Due(c)'
              BY <3>1, <3>6, <4>1, <4>3
            <6>2. Len(shown'[c]) = 0 /\ Len(queue'[c][1]) = 0
              BY <6>1
            <6> QED  BY <5>1, <6>1, <6>2
          <5>2. CASE e \in Registered
            <6>1. e \in Clients /\ ~Due(e) /\ ~Due(e)' /\ joined'[e] = joined[e]
              BY <2>0, <4>2, <4>3, <5>2, RegisteredKnown
            <6>2. /\ joined[e] + Len(shown[e]) + Len(queue[e][1]) = Len(log)
                  /\ \A k \in 1..Len(queue[e][1]) :
                        queue[e][1][k] = log[joined[e] + Len(shown[e]) + k]
              BY <2>0, <5>2, <6>1 DEF Delivered
            <6> QED  BY <3>1, <6>1, <6>2
          <5> QED  BY <3>8, <5>1, <5>2
        <4>5. \A e \in Clients \ Registered' : shown'[e] = <<>> /\ queue'[e][1] = <<>>
          BY <2>0, <3>1, <3>8 DEF Delivered
        <4> QED  BY <3>6, <4>4, <4>5, DeliveredEach
      <3> QED  BY <3>9, <3>11, <3>12, <3>13, <3>14, <3>15 DEF ChatInv
    <2>3. CASE ServerText
      <3>1. /\ spc = "loop" /\ Receives(connection, 1) /\ connection' = Take(connection, 1)
            /\ UNCHANGED <<owner, queue, clients, joined, cpc, name, input, typed, texts, shown>>
            /\ \/ /\ spc' = "send" /\ out' = Head(connection[1]) /\ next' = 1
                  /\ log' = Append(log, out')
               \/ spc' = "crashed" /\ UNCHANGED <<out, next, log>>
        BY <2>3 DEF ServerText, clientVars
      <3>2. Registered' = Registered
        BY <3>1 DEF Registered
      <3>3. /\ connection' \in Queues /\ connection'[2] = connection[2]
            /\ connection[1] # <<>> /\ connection'[1] = Tail(connection[1])
        BY <2>0, <3>1, TakeQueue DEF QueueTypes
      <3>4. connection'[1] \in Seq(Text) /\ Head(connection[1]) \in Text
        BY <2>0, <3>3, Taken DEF QueueTypes
      <3>5. QueueTypes'
        BY <2>0, <3>1, <3>3, <3>4 DEF QueueTypes
      <3>6. Len(log) \in Nat /\ log' \in Seq(Text) /\ Len(log') >= Len(log)
        <4>1. log \in Seq(Text)
          BY <2>0 DEF Types
        <4>2. CASE log' = Append(log, out') /\ out' = Head(connection[1])
          <5>1. log' = Append(log, Head(connection[1]))
            BY <4>2
          <5> QED  BY <3>4, <4>1, <5>1, Appended
        <4> QED  BY <3>1, <4>1, <4>2
      <3>7. Types'
        BY <2>0, <3>1, <3>2, <3>6 DEF Types
      <3>8. Owned' /\ NobodyStopped' /\ JoinsFresh' /\ MembersDistinct'
        BY <2>0, <3>1, <3>2, <3>3 DEF Owned, NobodyStopped, JoinsFresh, MembersDistinct
      <3>9. Delivered'
        <4>1. CASE spc' = "crashed"
          BY <2>0, <3>1, <3>2, <4>1 DEF Delivered, Due
        <4>2. CASE spc' = "send"
          <5>1. /\ next' = 1 /\ Len(log) \in Nat
                /\ Len(log') = Len(log) + 1 /\ out' = log'[Len(log')]
                /\ \A k \in 1..Len(log) : log'[k] = log[k]
            <6>1. log \in Seq(Text) /\ next' = 1 /\ out' \in Text /\ log' = Append(log, out')
              BY <2>0, <3>1, <3>4, <4>2 DEF Types
            <6> QED  BY <6>1, Appended
          <5>2. \A d \in Registered : Due(d)' /\ ~Due(d)
            BY <3>1, <4>2, <5>1 DEF Due, Registered
          <5>3. ASSUME NEW d \in Registered
                PROVE  /\ joined[d] + Len(shown[d]) + Len(queue[d][1]) + 1 = Len(log')
                       /\ \A k \in 1..Len(queue[d][1]) :
                             queue[d][1][k] = log'[joined[d] + Len(shown[d]) + k]
            <6>1. /\ joined[d] + Len(shown[d]) + Len(queue[d][1]) = Len(log)
                  /\ \A k \in 1..Len(queue[d][1]) :
                        queue[d][1][k] = log[joined[d] + Len(shown[d]) + k]
              BY <2>0, <5>2 DEF Delivered
            <6>2. joined[d] \in Nat /\ Len(shown[d]) \in Nat /\ Len(queue[d][1]) \in Nat
              BY <2>0, Counts
            <6>3. ASSUME NEW k \in 1..Len(queue[d][1])
                  PROVE  queue[d][1][k] = log'[joined[d] + Len(shown[d]) + k]
              <7>1. joined[d] + Len(shown[d]) + k \in 1..Len(log)
                BY <5>1, <6>1, <6>2, SMTT(30)
              <7> QED  BY <5>1, <6>1, <7>1
            <6> QED  BY <5>1, <6>1, <6>2, <6>3
          <5>4. \A d \in Clients \ Registered : shown[d] = <<>> /\ queue[d][1] = <<>>
            BY <2>0 DEF Delivered
          <5> QED  BY <3>1, <3>2, <5>1, <5>2, <5>3, <5>4, DeliveredEach
        <4> QED  BY <3>1, <4>1, <4>2
      <3> QED  BY <3>5, <3>7, <3>8, <3>9 DEF ChatInv
    <2>4. CASE ServerSend
      <3>0. PICK c \in Clients : c = clients[next]
        BY <2>0, <2>4 DEF ServerSend, Types
      <3>1. /\ spc = "send" /\ next \in Nat \ {0} /\ next <= Len(clients) /\ Len(clients) \in Nat
            /\ queue' = [queue EXCEPT ![c] = Put(queue[c], 1, out)] /\ next' = next + 1
            /\ UNCHANGED <<connection, owner, spc, clients, out, log, joined,
                           cpc, name, input, typed, texts, shown>>
        BY <2>0, <2>4, <3>0 DEF ServerSend, clientVars, Types
      <3>2. Registered' = Registered
        BY <3>1 DEF Registered
      <3>3. c \in Registered /\ c \in Clients /\ Due(c) /\ queue[c] \in Queues
        BY <2>0, <3>0, <3>1 DEF Types, QueueTypes, Registered, Due
      <3>4. Len(log) \in Nat \ {0} /\ out = log[Len(log)] /\ out \in Text
        BY <2>0, <3>1 DEF Delivered, Types
      <3>5. ~Due(c)' /\ \A d \in Clients : d # c => (Due(d)' <=> Due(d))
        <4>1. \A k \in 1..Len(clients) : clients[k] = c => k = next
          BY <2>0, <3>0, <3>1 DEF MembersDistinct
        <4>2. ~Due(c)'
          BY <3>1, <4>1 DEF Due
        <4>3. ASSUME NEW d \in Clients, d # c PROVE Due(d)' <=> Due(d)
          <5>1. \A k \in next..Len(clients) : clients[k] = d <=> k \in next'..Len(clients) /\ clients[k] = d
            BY <3>0, <3>1, <4>3
          <5>2. next'..Len(clients) \subseteq next..Len(clients)
            BY <3>1
          <5> QED  BY <3>1, <5>1, <5>2 DEF Due
        <4> QED  BY <4>2, <4>3
      <3>6. /\ queue'[c] \in Queues /\ queue'[c][1] = Append(queue[c][1], out)
            /\ queue'[c][3] = queue[c][3]
            /\ \A d \in Clients : d # c => queue'[d] = queue[d]
            /\ queue' \in [Clients -> Queues]
        <4>1. out \in Messages
          BY <3>4 DEF Messages
        <4>2. PICK q \in Queues : q = queue[c]
          BY <3>3
        <4>3. /\ Put(q, 1, out) \in Queues /\ Put(q, 1, out)[1] = Append(q[1], out)
              /\ \A r \in 1..3 : r # 1 => Put(q, 1, out)[r] = q[r]
          BY <4>1, PutQueue
        <4>4. Put(q, 1, out)[3] = q[3]
          BY <4>3
        <4> QED  BY <2>0, <3>1, <3>3, <4>2, <4>3, <4>4 DEF QueueTypes
      <3>7. /\ queue'[c][1] \in Seq(Text) /\ Len(queue[c][1]) \in Nat
            /\ Len(queue'[c][1]) = Len(queue[c][1]) + 1
            /\ queue'[c][1][Len(queue[c][1]) + 1] = out
            /\ \A k \in 1..Len(queue[c][1]) : queue'[c][1][k] = queue[c][1][k]
        BY <2>0, <3>3, <3>4, <3>6, Appended DEF QueueTypes
      <3>8. QueueTypes'
        BY <2>0, <3>1, <3>6, <3>7 DEF QueueTypes
      <3>9. Types'
        BY <2>0, <3>1, <3>2 DEF Types
      <3>10. Owned' /\ JoinsFresh' /\ MembersDistinct'
        BY <2>0, <3>1, <3>2 DEF Owned, JoinsFresh, MembersDistinct
      <3>11. NobodyStopped'
        BY <2>0, <3>1, <3>6 DEF NobodyStopped
      <3>12. /\ joined[c] + Len(shown[c]) + Len(queue'[c][1]) = Len(log)
             /\ \A k \in 1..Len(queue'[c][1]) :
                   queue'[c][1][k] = log[joined[c] + Len(shown[c]) + k]
        <4>1. /\ joined[c] + Len(shown[c]) + Len(queue[c][1]) + 1 = Len(log)
              /\ \A k \in 1..Len(queue[c][1]) :
                    queue[c][1][k] = log[joined[c] + Len(shown[c]) + k]
          BY <2>0, <3>3 DEF Delivered
        <4>2. joined[c] \in Nat /\ Len(shown[c]) \in Nat
          BY <2>0, <3>3, Counts
        <4>4. Len(queue'[c][1]) = Len(queue[c][1]) + 1 /\ Len(queue[c][1]) \in Nat
          BY <3>7
        <4>5. joined[c] + Len(shown[c]) + Len(queue'[c][1]) = Len(log)
          <5>1. joined[c] + Len(shown[c]) + Len(queue[c][1]) + 1 = Len(log) /\ Len(log) \in Nat
            BY <3>4, <4>1
          <5>2. PICK x \in Nat, y \in Nat, z \in Nat :
                    x = joined[c] /\ y = Len(shown[c]) /\ z = Len(queue[c][1])
            BY <4>2, <4>4
          <5>3. x + y + z + 1 = Len(log)
            BY <5>1, <5>2
          <5>4. x + y + (z + 1) = Len(log)
            BY <5>1, <5>3
          <5>5. Len(queue'[c][1]) = z + 1
            BY <4>4, <5>2
          <5> QED  BY <5>2, <5>4, <5>5
        <4>3. ASSUME NEW k \in 1..Len(queue'[c][1])
              PROVE  queue'[c][1][k] = log[joined[c] + Len(shown[c]) + k]
          <5>1. CASE k = Len(queue[c][1]) + 1
            <6>1. joined[c] + Len(shown[c]) + k = Len(log)
              BY <4>4, <4>5, <5>1
            <6> QED  BY <3>4, <3>7, <5>1, <6>1
          <5>2. CASE k # Len(queue[c][1]) + 1
            <6>1. k \in 1..Len(queue[c][1])
              BY <3>7, <5>2
            <6> QED  BY <3>7, <4>1, <6>1
          <5> QED  BY <5>1, <5>2
        <4> QED  BY <4>3, <4>4, <4>5
      <3>13. Delivered'
        <4>1. ASSUME NEW d \in Registered
              PROVE  /\ Due(d)' => joined[d] + Len(shown[d]) + Len(queue'[d][1]) + 1 = Len(log)
                     /\ ~Due(d)' => joined[d] + Len(shown[d]) + Len(queue'[d][1]) = Len(log)
                     /\ \A k \in 1..Len(queue'[d][1]) :
                           queue'[d][1][k] = log[joined[d] + Len(shown[d]) + k]
          <5>1. CASE d = c
            BY <3>5, <3>12, <5>1
          <5>2. CASE d # c
            <6>1. d \in Clients /\ queue'[d] = queue[d] /\ (Due(d)' <=> Due(d))
              BY <2>0, <3>5, <3>6, <5>2, RegisteredKnown
            <6> QED  BY <2>0, <6>1 DEF Delivered
          <5> QED  BY <5>1, <5>2
        <4>2. \A d \in Clients \ Registered : shown[d] = <<>> /\ queue'[d][1] = <<>>
          BY <2>0, <3>3, <3>6 DEF Delivered
        <4> QED  BY <3>1, <3>2, <3>4, <4>1, <4>2, DeliveredEach
      <3> QED  BY <3>8, <3>9, <3>10, <3>11, <3>13 DEF ChatInv
    <2>5. CASE ServerSent
      <3> USE <2>5 DEF ServerSent, clientVars
      <3>1. Registered' = Registered
        BY DEF Registered
      <3>2. QueueTypes' /\ Types'
        BY <2>0, <3>1 DEF QueueTypes, Types
      <3>3. Owned' /\ NobodyStopped' /\ JoinsFresh' /\ MembersDistinct'
        BY <2>0, <3>1 DEF Owned, NobodyStopped, JoinsFresh, MembersDistinct
      <3>4. Delivered'
        BY <2>0, <3>1 DEF Delivered, Due, Types
      <3> QED  BY <3>2, <3>3, <3>4 DEF ChatInv
    <2>6. CASE ServerStop
      <3>1. /\ spc = "loop" /\ spc' = "stopping" /\ next' = 1
            /\ Receives(connection, 3) /\ connection' = Take(connection, 3)
            /\ UNCHANGED <<owner, queue, clients, out, log, joined,
                           cpc, name, input, typed, texts, shown>>
        BY <2>6 DEF ServerStop, clientVars
      <3>2. Registered' = Registered
        BY <3>1 DEF Registered
      <3>3. connection' \in Queues /\ connection'[1] = connection[1]
        BY <2>0, <3>1, TakeQueue DEF QueueTypes
      <3>4. QueueTypes' /\ Types'
        BY <2>0, <3>1, <3>2, <3>3 DEF QueueTypes, Types
      <3>5. Owned' /\ NobodyStopped' /\ JoinsFresh' /\ MembersDistinct'
        BY <2>0, <3>1, <3>2 DEF Owned, NobodyStopped, JoinsFresh, MembersDistinct
      <3>6. Delivered'
        BY <2>0, <3>1, <3>2 DEF Delivered, Due
      <3> QED  BY <3>4, <3>5, <3>6 DEF ChatInv
    <2>7. CASE ServerSendStop
      <3> DEFINE c == clients[next]
      <3>1. /\ spc = "stopping" /\ next \in Nat \ {0} /\ next <= Len(clients)
            /\ queue' = [queue EXCEPT ![c] = Put(queue[c], 3, "stop")] /\ next' = next + 1
            /\ UNCHANGED <<connection, owner, spc, clients, out, log, joined,
                           cpc, name, input, typed, texts, shown>>
        BY <2>0, <2>7 DEF ServerSendStop, clientVars, Types
      <3>2. Registered' = Registered
        BY <3>1 DEF Registered
      <3>3. c \in Clients /\ queue[c] \in Queues
        BY <2>0, <3>1 DEF Types, QueueTypes
      <3> HIDE DEF c
      <3>4. queue' \in [Clients -> Queues] /\ \A d \in Clients : queue'[d][1] = queue[d][1]
        BY <2>0, <3>1, <3>3, PutQueue DEF QueueTypes, Messages
      <3>5. QueueTypes' /\ Types'
        <4>1. QueueTypes'
          BY <2>0, <3>1, <3>4 DEF QueueTypes
        <4>2. Types'
          BY <2>0, <3>1, <3>2 DEF Types
        <4> QED  BY <4>1, <4>2
      <3>6. Owned' /\ NobodyStopped' /\ JoinsFresh' /\ MembersDistinct'
        BY <2>0, <3>1, <3>2 DEF Owned, NobodyStopped, JoinsFresh, MembersDistinct
      <3>7. Delivered'
        BY <2>0, <3>1, <3>2, <3>4, RegisteredKnown DEF Delivered, Due
      <3> QED  BY <3>5, <3>6, <3>7 DEF ChatInv
    <2>8. CASE ServerEnd
      <3> USE <2>8 DEF ServerEnd, clientVars
      <3>1. Registered' = Registered
        BY DEF Registered
      <3>2. QueueTypes' /\ Types'
        BY <2>0, <3>1 DEF QueueTypes, Types
      <3>3. Owned' /\ NobodyStopped' /\ JoinsFresh' /\ MembersDistinct'
        BY <2>0, <3>1 DEF Owned, NobodyStopped, JoinsFresh, MembersDistinct
      <3>4. Delivered'
        BY <2>0, <3>1 DEF Delivered, Due, Types
      <3> QED  BY <3>2, <3>3, <3>4 DEF ChatInv
    <2>9. ASSUME NEW c \in Clients, Connect(c) PROVE ChatInv'
      <3>1. /\ UNCHANGED <<connection, queue, owner, spc, clients, out, next, log, joined, shown,
                           name, input, typed, texts>>
            /\ Registered' = Registered
        BY <2>9 DEF Connect, serverVars, Registered
      <3>2. /\ cpc' \in [Clients -> Places] /\ cpc'[c] # "join"
            /\ \A d \in Clients : d # c => cpc'[d] = cpc[d]
            /\ cpc[c] \in Inside => cpc'[c] \in Inside
            /\ cpc[c] \in Inside \/ cpc[c] = "connect"
            /\ cpc'[c] \in Inside => cpc[c] \in Inside
            /\ cpc'[c] \notin {"quit", "done"}
        BY <2>0, <2>9 DEF Connect, At, Types, Places, Inside
      <3>3. QueueTypes' /\ Types'
        BY <2>0, <3>1, <3>2 DEF QueueTypes, Types
      <3>4. Owned' /\ NobodyStopped'
        BY <2>0, <3>1, <3>2 DEF Owned, NobodyStopped, Inside
      <3>5. JoinsFresh' /\ MembersDistinct' /\ Delivered'
        BY <2>0, <3>1, <3>2, JoinsFreshKept, MembersKept, DeliveredKept DEF Inside
      <3> QED  BY <3>3, <3>4, <3>5 DEF ChatInv
    <2>10. ASSUME NEW c \in Clients, ChooseName(c) PROVE ChatInv'
      <3>1. /\ UNCHANGED <<connection, queue, spc, clients, out, next, log, joined, shown,
                           input, typed, texts>>
            /\ Registered' = Registered
        BY <2>10 DEF ChooseName, Registered
      <3>2. /\ cpc[c] = "name" /\ cpc' \in [Clients -> Places]
            /\ \A d \in Clients : d # c => cpc'[d] = cpc[d]
            /\ cpc'[c] \in {"join", "failed"}
        BY <2>0, <2>10 DEF ChooseName, At, Types, Places
      <3>3. PICK n \in Names :
                IF owner[n] = NoOwner
                THEN /\ owner' = [owner EXCEPT ![n] = c] /\ name' = [name EXCEPT ![c] = n]
                ELSE cpc'[c] = "failed" /\ UNCHANGED <<owner, name>>
        BY <2>0, <2>10 DEF ChooseName, At, Types
      <3>4. /\ owner' \in [Names -> Clients \cup {NoOwner}]
            /\ name' \in [Clients -> Names \cup {NoOwner}]
            /\ \A d \in Clients : d # c => name'[d] = name[d]
        BY <2>0, <3>3 DEF Types
      <3>5. QueueTypes' /\ Types'
        BY <2>0, <3>1, <3>2, <3>4 DEF QueueTypes, Types
      <3>6. Owned'
        <4>1. CASE owner[n] = NoOwner
          <5>1. owner'[n] = c /\ name'[c] = n
                /\ \A k \in Names : k # n => owner'[k] = owner[k]
            BY <2>0, <3>3, <4>1 DEF Types
          <5>2. \A d \in Clients : cpc[d] \in {"join", "top", "drain", "quit"} => name[d] # n
            BY <2>0, <4>1, OwnerKnown DEF Owned
          <5> QED  BY <2>0, <3>2, <3>4, <5>1, <5>2 DEF Owned
        <4>2. CASE owner[n] # NoOwner
          BY <2>0, <3>2, <3>3, <4>2 DEF Owned
        <4> QED  BY <4>1, <4>2
      <3>7. NobodyStopped'
        BY <2>0, <3>1, <3>2 DEF NobodyStopped
      <3>8. JoinsFresh' /\ MembersDistinct' /\ Delivered'
        BY <2>0, <3>1, <3>2, <3>4, JoinsFreshKept, MembersKept, DeliveredKept DEF Inside
      <3> QED  BY <3>5, <3>6, <3>7, <3>8 DEF ChatInv
    <2>11. ASSUME NEW c \in Clients, Join(c) PROVE ChatInv'
      <3>1. /\ UNCHANGED <<queue, owner, spc, clients, out, next, log, joined, shown,
                           name, input, typed, texts>>
            /\ Registered' = Registered
            /\ cpc[c] = "join" /\ cpc' = [cpc EXCEPT ![c] = "top"]
            /\ connection' = Put(connection, 2, name[c])
        BY <2>11 DEF Join, At, serverVars, Registered
      <3>2. /\ cpc' \in [Clients -> Places] /\ cpc'[c] = "top"
            /\ \A d \in Clients : d # c => cpc'[d] = cpc[d]
        BY <2>0, <3>1 DEF Types, Places
      <3>3. name[c] \in Names /\ owner[name[c]] = c /\ c \notin Registered
        BY <2>0, <3>1 DEF Owned, MembersDistinct
      <3>4. /\ connection' \in Queues /\ connection'[1] = connection[1]
            /\ connection'[2] = Append(connection[2], name[c])
        <4>1. connection \in Queues
          BY <2>0 DEF QueueTypes
        <4>2. name[c] \in Messages
          BY <3>3 DEF Messages
        <4>3. /\ Put(connection, 2, name[c]) \in Queues
              /\ Put(connection, 2, name[c])[2] = Append(connection[2], name[c])
              /\ \A r \in 1..3 : r # 2 => Put(connection, 2, name[c])[r] = connection[r]
          BY <4>1, <4>2, PutQueue
        <4> QED  BY <3>1, <4>3
      <3>5. /\ Len(connection[2]) \in Nat /\ Len(connection'[2]) = Len(connection[2]) + 1
            /\ connection'[2][Len(connection[2]) + 1] = name[c]
            /\ \A k \in 1..Len(connection[2]) : connection'[2][k] = connection[2][k]
        <4>1. connection[2] \in Seq(Messages) /\ name[c] \in Messages
          BY <2>0, <3>3 DEF QueueTypes, Queues, Messages
        <4> QED  BY <3>4, <4>1, Appended
      <3>6. QueueTypes' /\ Types'
        BY <2>0, <3>1, <3>2, <3>4 DEF QueueTypes, Types
      <3>7. Owned' /\ NobodyStopped'
        BY <2>0, <3>1, <3>2 DEF Owned, NobodyStopped
      <3>8. JoinsFresh'
        <4> SUFFICES ASSUME spc \in {"start", "loop", "send", "crashed"} PROVE JoinsFresh'
          BY <3>1 DEF JoinsFresh
        <4>1. ASSUME NEW k \in 1..Len(connection[2]) PROVE connection[2][k] # name[c]
          <5>1. PICK d \in Clients \ Registered : cpc[d] \in Inside /\ name[d] = connection[2][k]
            BY <2>0 DEF JoinsFresh
          <5>2. owner[name[d]] = d /\ d # c
            BY <2>0, <3>1, <5>1 DEF Owned, Inside
          <5> QED  BY <3>3, <5>1, <5>2
        <4>2. ASSUME NEW k \in 1..Len(connection'[2])
              PROVE  \E d \in Clients \ Registered : cpc'[d] \in Inside /\ name[d] = connection'[2][k]
          <5>1. CASE k = Len(connection[2]) + 1
            BY <3>2, <3>3, <3>5, <5>1 DEF Inside
          <5>2. CASE k \in 1..Len(connection[2])
            <6>1. PICK d \in Clients \ Registered : cpc[d] \in Inside /\ name[d] = connection[2][k]
              BY <2>0, <5>2 DEF JoinsFresh
            <6>2. cpc'[d] \in Inside
              BY <3>2, <6>1 DEF Inside
            <6> QED  BY <3>5, <5>2, <6>1, <6>2
          <5> QED  BY <3>5, <5>1, <5>2
        <4>3. ASSUME NEW k \in 1..Len(connection'[2]), NEW l \in 1..Len(connection'[2]),
                     connection'[2][k] = connection'[2][l]
              PROVE  k = l
          <5>1. \A x, y \in 1..Len(connection[2]) : connection[2][x] = connection[2][y] => x = y
            BY <2>0 DEF JoinsFresh
          <5>2. CASE k = Len(connection[2]) + 1 /\ l = Len(connection[2]) + 1
            BY <5>2
          <5>3. CASE k \in 1..Len(connection[2]) /\ l \in 1..Len(connection[2])
            BY <3>5, <4>3, <5>1, <5>3
          <5>4. CASE k \in 1..Len(connection[2]) /\ l = Len(connection[2]) + 1
            BY <3>5, <4>1, <4>3, <5>4
          <5>5. CASE k = Len(connection[2]) + 1 /\ l \in 1..Len(connection[2])
            BY <3>5, <4>1, <4>3, <5>5
          <5> QED  BY <3>5, <5>2, <5>3, <5>4, <5>5
        <4> QED  BY <3>1, <4>2, <4>3 DEF JoinsFresh
      <3>9. MembersDistinct' /\ Delivered'
        BY <2>0, <3>1, <3>2, MembersKept, DeliveredKept
      <3> QED  BY <3>6, <3>7, <3>8, <3>9 DEF ChatInv
    <2>12. ASSUME NEW c \in Clients, SendStop(c) PROVE ChatInv'
      <3>1. /\ UNCHANGED <<queue, owner, spc, clients, out, next, log, joined, shown,
                           name, typed, texts>>
            /\ Registered' = Registered
            /\ cpc[c] = "top" /\ cpc' = [cpc EXCEPT ![c] = "drain"]
            /\ input' = [input EXCEPT ![c] = NoLine]
        BY <2>12 DEF SendStop, At, serverVars, Registered
      <3>2. /\ cpc' \in [Clients -> Places] /\ cpc'[c] = "drain"
            /\ \A d \in Clients : d # c => cpc'[d] = cpc[d]
        BY <2>0, <3>1 DEF Types, Places
      <3>4. /\ connection' \in Queues /\ connection'[1] \in Seq(Text)
            /\ connection'[2] = connection[2]
        BY <2>0, <2>12, PutQueue DEF SendStop, QueueTypes, Messages
      <3>5. QueueTypes' /\ Types'
        BY <2>0, <3>1, <3>2, <3>4 DEF QueueTypes, Types, Line
      <3>6. Owned' /\ NobodyStopped'
        BY <2>0, <3>1, <3>2 DEF Owned, NobodyStopped
      <3>7. JoinsFresh' /\ MembersDistinct' /\ Delivered'
        BY <2>0, <3>1, <3>2, <3>4, JoinsFreshKept, MembersKept, DeliveredKept DEF Inside
      <3> QED  BY <3>5, <3>6, <3>7 DEF ChatInv
    <2>13. ASSUME NEW c \in Clients, SendText(c) PROVE ChatInv'
      <3>1. /\ UNCHANGED <<queue, owner, spc, clients, out, next, log, joined, shown,
                           name, typed, texts>>
            /\ Registered' = Registered
            /\ cpc[c] = "top" /\ cpc' = [cpc EXCEPT ![c] = "drain"]
            /\ input' = [input EXCEPT ![c] = NoLine]
        BY <2>13 DEF SendText, At, serverVars, Registered
      <3>2. /\ cpc' \in [Clients -> Places] /\ cpc'[c] = "drain"
            /\ \A d \in Clients : d # c => cpc'[d] = cpc[d]
        BY <2>0, <3>1 DEF Types, Places
      <3> DEFINE m == [from |-> name[c], number |-> input[c].number]
      <3>3. m \in Text
        <4>1. input[c].kind = "text" /\ input[c] \in Line
          BY <2>0, <2>13 DEF SendText, Types
        <4>2. input[c].number \in 1..MaxLines
          BY <4>1 DEF Line, NoLine, StopLine, TextLine
        <4>3. name[c] \in Names
          BY <2>0, <3>1 DEF Owned
        <4> QED  BY <4>2, <4>3 DEF Text
      <3>4. /\ connection' \in Queues /\ connection'[1] \in Seq(Text)
            /\ connection'[2] = connection[2]
        <4>1. connection' = Put(connection, 1, m)
          BY <2>13 DEF SendText
        <4> HIDE DEF m
        <4>2. m \in Messages
          BY <3>3 DEF Messages
        <4>3. /\ Put(connection, 1, m) \in Queues
              /\ Put(connection, 1, m)[1] = Append(connection[1], m)
              /\ Put(connection, 1, m)[2] = connection[2]
          BY <2>0, <4>2, PutQueue DEF QueueTypes
        <4>4. Append(connection[1], m) \in Seq(Text)
          BY <2>0, <3>3, Appended DEF QueueTypes
        <4> QED  BY <4>1, <4>3, <4>4
      <3>5. QueueTypes' /\ Types'
        BY <2>0, <3>1, <3>2, <3>4 DEF QueueTypes, Types, Line
      <3>6. Owned' /\ NobodyStopped'
        BY <2>0, <3>1, <3>2 DEF Owned, NobodyStopped
      <3>7. JoinsFresh' /\ MembersDistinct' /\ Delivered'
        BY <2>0, <3>1, <3>2, <3>4, JoinsFreshKept, MembersKept, DeliveredKept DEF Inside
      <3> QED  BY <3>5, <3>6, <3>7 DEF ChatInv
    <2>14. ASSUME NEW c \in Clients, NoInput(c) PROVE ChatInv'
      <3>1. /\ UNCHANGED <<connection, queue, owner, spc, clients, out, next, log, joined, shown,
                           name, input, typed, texts>>
            /\ Registered' = Registered
        BY <2>14 DEF NoInput, serverVars, Registered
      <3>2. /\ cpc' \in [Clients -> Places] /\ cpc'[c] # "join"
            /\ \A d \in Clients : d # c => cpc'[d] = cpc[d]
            /\ cpc[c] \in Inside => cpc'[c] \in Inside
            /\ cpc[c] \in Inside \/ cpc[c] = "connect"
            /\ cpc'[c] \in Inside => cpc[c] \in Inside
            /\ cpc'[c] \notin {"quit", "done"}
        BY <2>0, <2>14 DEF NoInput, At, Types, Places, Inside
      <3>3. QueueTypes' /\ Types'
        BY <2>0, <3>1, <3>2 DEF QueueTypes, Types
      <3>4. Owned' /\ NobodyStopped'
        BY <2>0, <3>1, <3>2 DEF Owned, NobodyStopped, Inside
      <3>5. JoinsFresh' /\ MembersDistinct' /\ Delivered'
        BY <2>0, <3>1, <3>2, JoinsFreshKept, MembersKept, DeliveredKept DEF Inside
      <3> QED  BY <3>3, <3>4, <3>5 DEF ChatInv
    <2>15. ASSUME NEW c \in Clients, Receive(c) PROVE ChatInv'
      <3> DEFINE q == queue[c][1]
      <3>1. /\ UNCHANGED <<connection, owner, spc, clients, out, next, log, joined,
                           name, input, typed, texts>>
            /\ Registered' = Registered
            /\ Receives(queue[c], 1) /\ queue[c] \in Queues
            /\ queue' = [queue EXCEPT ![c] = Take(queue[c], 1)]
            /\ shown' = [shown EXCEPT ![c] = Append(shown[c], Head(q))]
        BY <2>0, <2>15 DEF Receive, At, serverVars, Registered, QueueTypes
      <3>2. UNCHANGED cpc
        BY <2>0, <2>15 DEF Receive, At, Types
      <3>3. /\ queue' \in [Clients -> Queues] /\ q # <<>> /\ q \in Seq(Text)
            /\ queue'[c][1] = Tail(q) /\ queue'[c][3] = queue[c][3]
            /\ \A d \in Clients : d # c => queue'[d] = queue[d]
        BY <2>0, <3>1, TakeQueue DEF QueueTypes
      <3> HIDE DEF q
      <3>4. /\ Tail(q) \in Seq(Text) /\ Len(q) \in Nat \ {0} /\ Head(q) \in Text
            /\ Len(Tail(q)) = Len(q) - 1
            /\ \A k \in 1..(Len(q) - 1) : Tail(q)[k] = q[k + 1]
        BY <3>3, Taken
      <3>5. /\ shown' \in [Clients -> Seq(Text)] /\ Len(shown[c]) \in Nat
            /\ Len(shown'[c]) = Len(shown[c]) + 1
            /\ \A d \in Clients : d # c => shown'[d] = shown[d]
        <4>1. shown[c] \in Seq(Text)
          BY <2>0 DEF Types
        <4> QED  BY <2>0, <3>1, <3>4, <4>1, Appended DEF Types
      <3>6. QueueTypes'
        BY <2>0, <3>1, <3>3, <3>4 DEF QueueTypes
      <3>7. Types'
        BY <2>0, <3>1, <3>2, <3>5 DEF Types
      <3>8. Owned' /\ JoinsFresh' /\ MembersDistinct'
        BY <2>0, <3>1, <3>2 DEF Owned, JoinsFresh, MembersDistinct
      <3>9. NobodyStopped'
        BY <2>0, <3>1, <3>2, <3>3 DEF NobodyStopped
      <3>10. c \in Registered /\ joined[c] \in Nat
        BY <2>0, <3>3 DEF Delivered, Types, q
      <3>11. /\ joined[c] + Len(shown'[c]) + Len(Tail(q)) = joined[c] + Len(shown[c]) + Len(q)
             /\ \A k \in 1..Len(Tail(q)) : Tail(q)[k] = log[joined[c] + Len(shown'[c]) + k]
        <4>1. \A k \in 1..Len(q) : q[k] = log[joined[c] + Len(shown[c]) + k]
          BY <2>0, <3>10 DEF Delivered, q
        <4>2. ASSUME NEW k \in 1..Len(Tail(q))
              PROVE  Tail(q)[k] = log[joined[c] + Len(shown'[c]) + k]
          <5>1. k + 1 \in 1..Len(q) /\ Tail(q)[k] = q[k + 1]
            BY <3>4
          <5>2. joined[c] + Len(shown[c]) + (k + 1) = joined[c] + Len(shown'[c]) + k
            <6>1. k \in Nat /\ Len(shown[c]) \in Nat /\ joined[c] \in Nat
              BY <3>4, <3>5, <3>10
            <6> QED  BY <3>5, <6>1
          <5> QED  BY <4>1, <5>1, <5>2
        <4> QED  BY <3>4, <3>5, <3>10, <4>2
      <3>12. \A d \in Clients : Due(d)' <=> Due(d)
        BY <3>1 DEF Due
      <3>13. /\ Due(c) => joined[c] + Len(shown[c]) + Len(q) + 1 = Len(log)
             /\ ~Due(c) => joined[c] + Len(shown[c]) + Len(q) = Len(log)
        BY <2>0, <3>10 DEF Delivered, q
      <3>14. ASSUME NEW d \in Registered
             PROVE  /\ Due(d)' => joined[d] + Len(shown'[d]) + Len(queue'[d][1]) + 1 = Len(log)
                    /\ ~Due(d)' => joined[d] + Len(shown'[d]) + Len(queue'[d][1]) = Len(log)
                    /\ \A k \in 1..Len(queue'[d][1]) :
                          queue'[d][1][k] = log[joined[d] + Len(shown'[d]) + k]
        <4>1. CASE d = c
          BY <3>3, <3>11, <3>12, <3>13, <4>1
        <4>2. CASE d # c
          <5>1. /\ d \in Clients /\ queue'[d] = queue[d] /\ shown'[d] = shown[d]
                /\ Due(d)' <=> Due(d)
            BY <2>0, <3>3, <3>5, <3>12, <4>2, RegisteredKnown
          <5> QED  BY <2>0, <5>1 DEF Delivered
        <4> QED  BY <4>1, <4>2
      <3>15. \A d \in Clients \ Registered : shown'[d] = <<>> /\ queue'[d][1] = <<>>
        BY <2>0, <3>3, <3>5, <3>10 DEF Delivered
      <3>16. spc' = "send" => Len(log') > 0 /\ out' = log'[Len(log')]
        BY <2>0, <3>1 DEF Delivered
      <3>17. Delivered'
        BY <3>1, <3>14, <3>15, <3>16 DEF Delivered
      <3> QED  BY <3>6, <3>7, <3>8, <3>9, <3>17 DEF ChatInv
    <2>16. ASSUME NEW c \in Clients, Drained(c) PROVE ChatInv'
      <3>1. /\ UNCHANGED <<connection, queue, owner, spc, clients, out, next, log, joined, shown,
                           name, input, typed, texts>>
            /\ Registered' = Registered
        BY <2>16 DEF Drained, serverVars, Registered
      <3>2. /\ cpc' \in [Clients -> Places] /\ cpc'[c] # "join"
            /\ \A d \in Clients : d # c => cpc'[d] = cpc[d]
            /\ cpc[c] \in Inside => cpc'[c] \in Inside
            /\ cpc[c] \in Inside \/ cpc[c] = "connect"
            /\ cpc'[c] \in Inside => cpc[c] \in Inside
            /\ cpc'[c] \notin {"quit", "done"}
        BY <2>0, <2>16 DEF Drained, At, Types, Places, Inside
      <3>3. QueueTypes' /\ Types'
        BY <2>0, <3>1, <3>2 DEF QueueTypes, Types
      <3>4. Owned' /\ NobodyStopped'
        BY <2>0, <3>1, <3>2 DEF Owned, NobodyStopped, Inside
      <3>5. JoinsFresh' /\ MembersDistinct' /\ Delivered'
        BY <2>0, <3>1, <3>2, JoinsFreshKept, MembersKept, DeliveredKept DEF Inside
      <3> QED  BY <3>3, <3>4, <3>5 DEF ChatInv
    <2>17. ASSUME NEW c \in Clients, ReceiveStop(c) PROVE ChatInv'
      <3>1. /\ UNCHANGED <<connection, owner, spc, clients, out, next, log, joined, shown,
                           name, input, typed, texts>>
            /\ Registered' = Registered
            /\ Receives(queue[c], 3) /\ queue[c] \in Queues
            /\ queue' = [queue EXCEPT ![c] = Take(queue[c], 3)]
            /\ cpc[c] = "drain" /\ cpc' = [cpc EXCEPT ![c] = "quit"]
        BY <2>0, <2>17 DEF ReceiveStop, At, serverVars, Registered, QueueTypes
      <3>2. /\ cpc' \in [Clients -> Places] /\ cpc'[c] = "quit"
            /\ \A d \in Clients : d # c => cpc'[d] = cpc[d]
        BY <2>0, <3>1 DEF Types, Places
      <3>3. /\ queue' \in [Clients -> Queues] /\ queue[c][3] # <<>>
            /\ \A d \in Clients : queue'[d][1] = queue[d][1]
        BY <2>0, <3>1, TakeQueue DEF QueueTypes
      <3>4. spc \notin {"start", "loop", "send", "crashed"}
        BY <2>0, <3>3 DEF NobodyStopped
      <3>5. QueueTypes' /\ Types'
        BY <2>0, <3>1, <3>2, <3>3 DEF QueueTypes, Types
      <3>6. Owned' /\ NobodyStopped' /\ JoinsFresh'
        BY <2>0, <3>1, <3>2, <3>4 DEF Owned, NobodyStopped, JoinsFresh
      <3>7. MembersDistinct' /\ Delivered'
        BY <2>0, <3>1, <3>2, <3>3, MembersKept, DeliveredKept
      <3> QED  BY <3>5, <3>6, <3>7 DEF ChatInv
    <2>18. ASSUME NEW c \in Clients, Quit(c) PROVE ChatInv'
      <3>1. /\ UNCHANGED <<connection, queue, spc, clients, out, next, log, joined, shown,
                           name, input, typed, texts>>
            /\ Registered' = Registered
            /\ cpc[c] = "quit" /\ cpc' = [cpc EXCEPT ![c] = "done"]
            /\ owner' = [owner EXCEPT ![name[c]] = NoOwner]
        BY <2>18 DEF Quit, At, Registered
      <3>2. /\ cpc' \in [Clients -> Places] /\ cpc'[c] = "done"
            /\ \A d \in Clients : d # c => cpc'[d] = cpc[d]
        BY <2>0, <3>1 DEF Types, Places
      <3>3. spc \notin {"start", "loop", "send", "crashed"}
        BY <2>0, <3>1 DEF NobodyStopped
      <3>4. /\ owner' \in [Names -> Clients \cup {NoOwner}]
            /\ owner[name[c]] = c
            /\ \A n \in Names : n # name[c] => owner'[n] = owner[n]
        BY <2>0, <3>1 DEF Types, Owned
      <3>5. QueueTypes' /\ Types'
        BY <2>0, <3>1, <3>2, <3>4 DEF QueueTypes, Types
      <3>6. Owned'
        BY <2>0, <3>1, <3>2, <3>4 DEF Owned
      <3>7. NobodyStopped' /\ JoinsFresh'
        BY <2>0, <3>1, <3>3 DEF NobodyStopped, JoinsFresh
      <3>8. MembersDistinct' /\ Delivered'
        BY <2>0, <3>1, <3>2, MembersKept, DeliveredKept
      <3> QED  BY <3>5, <3>6, <3>7, <3>8 DEF ChatInv
    <2>19. ASSUME NEW c \in Clients, Type(c) PROVE ChatInv'
      <3>1. /\ UNCHANGED <<connection, queue, owner, spc, clients, out, next, log, joined, shown,
                           cpc, name>>
            /\ Registered' = Registered
            /\ typed < MaxLines /\ typed' = typed + 1
            /\ \/ input' = [input EXCEPT ![c] = StopLine] /\ UNCHANGED texts
               \/ /\ texts' = [texts EXCEPT ![c] = @ + 1]
                  /\ input' = [input EXCEPT ![c] = TextLine(texts'[c])]
        BY <2>19 DEF Type, serverVars, Registered
      <3>2. typed \in Nat /\ typed' \in 0..MaxLines /\ 0..typed \subseteq 0..typed'
        BY <2>0, <3>1, MaxLinesNat DEF Types
      <3>3. texts' \in [Clients -> 0..typed'] /\ input' \in [Clients -> Line]
        <4>0. texts \in [Clients -> 0..typed] /\ input \in [Clients -> Line]
          BY <2>0 DEF Types
        <4>1. CASE input' = [input EXCEPT ![c] = StopLine] /\ UNCHANGED texts
          <5>1. StopLine \in Line
            BY DEF Line
          <5> QED  BY <3>2, <4>0, <4>1, <5>1
        <4>2. CASE /\ texts' = [texts EXCEPT ![c] = @ + 1]
                   /\ input' = [input EXCEPT ![c] = TextLine(texts'[c])]
          <5>1. texts[c] + 1 \in 1..MaxLines /\ texts[c] + 1 \in 0..typed' /\ texts'[c] = texts[c] + 1
            BY <3>1, <3>2, <4>0, <4>2, MaxLinesNat
          <5>2. TextLine(texts'[c]) \in Line
            BY <5>1 DEF Line
          <5> QED  BY <3>2, <4>0, <4>2, <5>1, <5>2
        <4> QED  BY <3>1, <4>1, <4>2
      <3>4. QueueTypes' /\ Types'
        BY <2>0, <3>1, <3>2, <3>3 DEF QueueTypes, Types
      <3>5. Owned' /\ NobodyStopped' /\ JoinsFresh' /\ MembersDistinct' /\ Delivered'
        BY <2>0, <3>1 DEF Owned, NobodyStopped, JoinsFresh, MembersDistinct, Delivered, Due
      <3> QED  BY <3>4, <3>5 DEF ChatInv
    <2>20. CASE UNCHANGED Kept
      <3>1. Registered' = Registered
        BY <2>20 DEF Kept, serverVars, Registered
      <3>2. QueueTypes' /\ Types' /\ Owned' /\ NobodyStopped'
        BY <2>0, <2>20, <3>1 DEF Kept, serverVars, QueueTypes, Types, Owned, NobodyStopped
      <3>3. JoinsFresh' /\ MembersDistinct' /\ Delivered'
        BY <2>0, <2>20, <3>1 DEF Kept, serverVars, JoinsFresh, MembersDistinct, Delivered, Due
      <3> QED  BY <3>2, <3>3 DEF ChatInv
    <2> QED
      BY <2>1, <2>2, <2>3, <2>4, <2>5, <2>6, <2>7, <2>8, <2>9, <2>10, <2>11, <2>12, <2>13,
         <2>14, <2>15, <2>16, <2>17, <2>18, <2>19, <2>20, DeathKeepsTheRest DEF Next, ServerStep, ClientStep
  <1> QED  BY <1>1, <1>2, PTL DEF Spec

(* The array never names a client twice, and until the server stops each   *)
(* entry is the queue of the client that still owns the name it joined by: *)
(* no late joiner takes over a name between the join and its handling.     *)
THEOREM MembersKeepTheirNames == Spec => []RegisteredOnce
  <1>1. ChatInv => RegisteredOnce
    <2> SUFFICES ASSUME ChatInv PROVE RegisteredOnce
      OBVIOUS
    <2>1. ASSUME spc \in {"loop", "send"}, NEW i \in 1..Len(clients)
          PROVE  owner[name[clients[i]]] = clients[i]
      <3>1. clients[i] \in Registered /\ clients[i] \in Clients
        BY RegisteredKnown DEF ChatInv, Registered
      <3>2. cpc[clients[i]] \in {"top", "drain"}
        BY <2>1, <3>1 DEF ChatInv, MembersDistinct, NobodyStopped
      <3> QED  BY <3>1, <3>2 DEF ChatInv, Owned
    <2> QED  BY <2>1 DEF ChatInv, Types, MembersDistinct, RegisteredOnce
  <1> QED  BY <1>1, Invariance, PTL

-----------------------------------------------------------------------------
(* The steps of the chat seen as steps of the broadcast.                   *)
LEMMA JoinIsJoin == ASSUME ChatInv, ServerJoin PROVE [Ordered!Next]_Ordered!vars
  <1>1. CASE owner[Head(connection[2])] = NoOwner
    BY <1>1 DEF ServerJoin, clientVars, Ordered!vars
  <1>2. CASE owner[Head(connection[2])] # NoOwner
    <2> DEFINE c == owner[Head(connection[2])]
    <2>1. /\ spc = "loop" /\ connection[2] # <<>> /\ connection[2] \in Seq(Messages)
          /\ UNCHANGED <<log, shown>>
          /\ joined' = [d \in DOMAIN joined \cup {c} |-> IF d = c THEN Len(log) ELSE joined[d]]
      BY <1>2, TakeQueue DEF ServerJoin, clientVars, ChatInv, QueueTypes
    <2>2. Head(connection[2]) = connection[2][1] /\ 1 \in 1..Len(connection[2])
      BY <2>1, Taken
    <2>3. PICK d \in Clients \ Registered : cpc[d] \in Inside /\ name[d] = connection[2][1]
      BY <2>1, <2>2 DEF ChatInv, JoinsFresh
    <2>4. c = d
      BY <2>2, <2>3 DEF ChatInv, Owned, Inside
    <2>5. DOMAIN joined = Registered
      BY DEF ChatInv, Types
    <2>6. Ordered!Join(d)
      BY <2>1, <2>3, <2>4, <2>5 DEF Ordered!Join
    <2> QED  BY <2>3, <2>6 DEF Ordered!Next
  <1> QED  BY <1>1, <1>2

LEMMA TextIsPublish == ASSUME ChatInv, ServerText PROVE [Ordered!Next]_Ordered!vars
  <1>1. /\ Receives(connection, 1) /\ UNCHANGED <<joined, shown>>
        /\ log' = Append(log, Head(connection[1])) \/ UNCHANGED log
    BY DEF ServerText, clientVars
  <1>2. connection[1] # <<>> /\ connection[1] \in Seq(Text)
    BY <1>1, TakeQueue DEF ChatInv, QueueTypes
  <1>3. Head(connection[1]) \in Text
    BY <1>2, Taken
  <1> QED  BY <1>1, <1>3 DEF Ordered!Next, Ordered!Publish, Ordered!vars

LEMMA ReceiveIsShow ==
    ASSUME ChatInv, NEW c \in Clients, Receive(c) PROVE Ordered!Show(c)
  <1>1. /\ UNCHANGED <<log, joined>> /\ Receives(queue[c], 1) /\ queue[c] \in Queues
        /\ shown' = [shown EXCEPT ![c] = Append(@, Head(queue[c][1]))]
    BY DEF Receive, serverVars, ChatInv, QueueTypes
  <1>2. queue[c][1] # <<>> /\ queue[c][1] \in Seq(Text)
    BY <1>1, TakeQueue DEF ChatInv, QueueTypes
  <1>3. Len(queue[c][1]) \in Nat \ {0} /\ Head(queue[c][1]) = queue[c][1][1]
    BY <1>2, Taken
  <1>4. c \in Registered
    BY <1>2 DEF ChatInv, Delivered
  <1>5. joined[c] \in Nat /\ Len(shown[c]) \in Nat /\ Len(log) \in Nat
    BY <1>4, Counts DEF ChatInv
  <1>6. \/ joined[c] + Len(shown[c]) + Len(queue[c][1]) + 1 = Len(log)
        \/ joined[c] + Len(shown[c]) + Len(queue[c][1]) = Len(log)
    BY <1>4 DEF ChatInv, Delivered
  <1>7. joined[c] + Len(shown[c]) < Len(log)
    <2>1. PICK x \in Nat, y \in Nat, z \in Nat \ {0} :
              x = joined[c] /\ y = Len(shown[c]) /\ z = Len(queue[c][1])
      BY <1>3, <1>5
    <2>2. x + y + z + 1 = Len(log) \/ x + y + z = Len(log)
      BY <1>6, <2>1
    <2>3. x + y < Len(log)
      BY <2>2
    <2> QED  BY <2>1, <2>3
  <1>8. queue[c][1][1] = log[joined[c] + Len(shown[c]) + 1]
    BY <1>3, <1>4 DEF ChatInv, Delivered
  <1>9. c \in DOMAIN joined
    BY <1>4 DEF ChatInv, Types
  <1>10. shown' = [shown EXCEPT ![c] = Append(@, log[joined[c] + Len(@) + 1])]
    BY <1>1, <1>3, <1>8
  <1> QED  BY <1>1, <1>7, <1>9, <1>10 DEF Ordered!Show

(* The message-queue chat implements the totally ordered broadcast: what   *)
(* each member prints is the server's log from where it joined, in order,  *)
(* nothing lost, repeated or overtaken, however the bounded queues fill.   *)
THEOREM ImplementsBroadcast == Spec => OrderedBroadcast
  <1>1. Init => Ordered!Init
    BY DEF Init, Ordered!Init
  <1>2. ChatInv /\ [Next]_vars => [Ordered!Next]_Ordered!vars
    <2> SUFFICES ASSUME ChatInv, [Next]_vars PROVE [Ordered!Next]_Ordered!vars
      OBVIOUS
    <2>1. CASE ServerJoin
      BY <2>1, JoinIsJoin
    <2>2. CASE ServerText
      BY <2>2, TextIsPublish
    <2>3. CASE ServerOpen \/ ServerSend \/ ServerSent \/ ServerStop \/ ServerSendStop \/ ServerEnd
      BY <2>3 DEF ServerOpen, ServerSend, ServerSent, ServerStop, ServerSendStop, ServerEnd,
                  clientVars, Ordered!vars
    <2>4. ASSUME NEW c \in Clients, Receive(c) PROVE Ordered!Next
      BY <2>4, ReceiveIsShow DEF Ordered!Next
    <2>5. ASSUME NEW c \in Clients,
                 \/ Connect(c) \/ ChooseName(c) \/ Join(c) \/ SendStop(c) \/ SendText(c)
                 \/ NoInput(c) \/ Drained(c) \/ ReceiveStop(c) \/ Quit(c) \/ Type(c)
          PROVE  UNCHANGED Ordered!vars
      BY <2>5 DEF Connect, ChooseName, Join, SendStop, SendText, NoInput, Drained,
                  ReceiveStop, Quit, Type, serverVars, Ordered!vars
    <2>6. CASE UNCHANGED Kept
      BY <2>6 DEF Kept, serverVars, Ordered!vars
    <2> QED
      BY <2>1, <2>2, <2>3, <2>4, <2>5, <2>6, DeathKeepsTheRest DEF Next, ServerStep, ClientStep
  <1> QED  BY <1>1, <1>2, Invariance, PTL DEF Spec, OrderedBroadcast, Ordered!Spec

-----------------------------------------------------------------------------
(* A text behind the others is one more of its sender's, and of nobody     *)
(* else's; one moved from the queue into the log changes nothing.          *)
LEMMA Moved ==
    ASSUME NEW S, NEW s \in Seq(S), NEW q \in Seq(S), q # <<>>
    PROVE  Append(s, Head(q)) \o Tail(q) = s \o q
  OBVIOUS

LEMMA Behind ==
    ASSUME NEW S, NEW s \in Seq(S), NEW q \in Seq(S), NEW e \in S
    PROVE  s \o Append(q, e) = Append(s \o q, e) /\ s \o q \in Seq(S)
  OBVIOUS

LEMMA OneMore ==
    ASSUME NEW s \in Seq(Text), NEW n \in Names, NEW k \in 0..MaxLines, k + 1 \in 1..MaxLines,
           NumberedUpTo(s, n, k)
    PROVE  NumberedUpTo(Append(s, [from |-> n, number |-> k + 1]), n, k + 1)
  <1> DEFINE m == [from |-> n, number |-> k + 1]
             t == Append(s, m)
             own == {i \in 1..Len(s) : s[i].from = n}
             own1 == {i \in 1..Len(t) : t[i].from = n}
  <1>1. m \in Text /\ m.from = n /\ m.number = k + 1
    BY DEF Text
  <1> HIDE DEF m
  <1>2. /\ Len(s) \in Nat /\ Len(t) = Len(s) + 1 /\ t[Len(s) + 1] = m
        /\ \A i \in 1..Len(s) : t[i] = s[i]
    BY <1>1, Appended
  <1>3. \A i \in 1..Len(s) : s[i] \in Text
    OBVIOUS
  <1> HIDE DEF t
  <1>4. own1 = own \cup {Len(s) + 1} /\ \A i \in own : t[i] = s[i] /\ i < Len(s) + 1
    BY <1>1, <1>2
  <1>5. {s[i].number : i \in own} = 1..k /\ \A i, j \in own : i < j => s[i].number < s[j].number
    BY DEF NumberedUpTo
  <1>6. \A i \in own : s[i].number \in 1..k
    BY <1>5
  <1>7. {t[i].number : i \in own1} = {s[i].number : i \in own} \cup {k + 1}
    BY <1>1, <1>2, <1>4
  <1>8. {t[i].number : i \in own1} = 1..(k + 1)
    <2>1. (1..k) \cup {k + 1} = 1..(k + 1)
      BY MaxLinesNat
    <2> QED
      BY <1>5, <1>7, <2>1
  <1>9. ASSUME NEW i \in own1, NEW j \in own1, i < j
        PROVE  t[i].number < t[j].number
    <2>1. i \in own /\ t[i] = s[i]
      BY <1>2, <1>4, <1>9
    <2>2. CASE j \in own
      BY <1>4, <1>5, <1>9, <2>1, <2>2
    <2>3. CASE j = Len(s) + 1
      BY <1>1, <1>2, <1>6, <2>1, <2>3
    <2> QED
      BY <1>4, <2>2, <2>3
  <1>10. NumberedUpTo(t, n, k + 1)
    BY <1>8, <1>9 DEF NumberedUpTo
  <1> QED
    BY <1>10 DEF t, m

LEMMA OneOther ==
    ASSUME NEW s \in Seq(Text), NEW n \in Names, NEW k, NEW m \in Text, m.from # n,
           NumberedUpTo(s, n, k)
    PROVE  NumberedUpTo(Append(s, m), n, k)
  <1>1. /\ Len(s) \in Nat /\ Len(Append(s, m)) = Len(s) + 1 /\ Append(s, m)[Len(s) + 1] = m
        /\ \A i \in 1..Len(s) : Append(s, m)[i] = s[i]
    BY Appended
  <1>2. {i \in 1..Len(Append(s, m)) : Append(s, m)[i].from = n} = {i \in 1..Len(s) : s[i].from = n}
    BY <1>1
  <1> QED
    BY <1>1, <1>2 DEF NumberedUpTo

(* As long as nobody was told to stop, whoever has no name has typed       *)
(* nothing, and every text stored or queued bears a name that is taken.    *)
Running == spc \in {"start", "loop", "send"}
SentTexts == log \o connection[1]
NamelessSilent ==
    \A c \in Clients : cpc[c] \in {"connect", "name", "failed"} =>
        name[c] = NoOwner /\ texts[c] = 0 /\ input[c] = NoLine
SendersTaken ==
    \A i \in 1..Len(SentTexts) : owner[SentTexts[i].from] # NoOwner
NumberedEach ==
    \A c \in Clients : name[c] # NoOwner =>
        NumberedUpTo(SentTexts, name[c], SentBy(c))
HeldIsLast ==
    \A c \in Clients : HoldsText(c) => input[c].number = texts[c] /\ texts[c] > 0
OrderInv == Running => NamelessSilent /\ SendersTaken /\ NumberedEach /\ HeldIsLast

(* While the server runs every named client is in the chat and owns its    *)
(* name, so no two of them share one.                                      *)
LEMMA NamesOwned ==
    ASSUME ChatInv, OrderInv, Running, NEW c \in Clients, name[c] # NoOwner
    PROVE  name[c] \in Names /\ owner[name[c]] = c /\ cpc[c] \in {"join", "top", "drain"}
  <1>1. cpc[c] \in {"join", "top", "drain"}
    BY DEF ChatInv, NobodyStopped, OrderInv, Running, NamelessSilent, Types, Places
  <1> QED
    BY <1>1 DEF ChatInv, Owned

LEMMA SentTyped ==
    ASSUME ChatInv
    PROVE  /\ log \in Seq(Text) /\ connection[1] \in Seq(Text) /\ SentTexts \in Seq(Text)
           /\ texts \in [Clients -> 0..MaxLines] /\ texts \in [Clients -> Nat]
           /\ input \in [Clients -> Line] /\ name \in [Clients -> Names \cup {NoOwner}]
  <1>1. /\ log \in Seq(Text) /\ connection[1] \in Seq(Text) /\ texts \in [Clients -> 0..typed]
        /\ typed \in 0..MaxLines /\ input \in [Clients -> Line]
        /\ name \in [Clients -> Names \cup {NoOwner}]
    BY DEF ChatInv, Types, QueueTypes
  <1>2. 0..typed \subseteq 0..MaxLines /\ 0..typed \subseteq Nat
    BY <1>1, MaxLinesNat
  <1> QED
    BY <1>1, <1>2 DEF SentTexts

(* A step that sends no text, names nobody and types nothing.              *)
LEMMA OrderKept ==
    ASSUME OrderInv, Running' => Running, SentTexts' = SentTexts,
           UNCHANGED <<owner, name, input, texts>>,
           \A c \in Clients : cpc'[c] \in {"connect", "name", "failed"} =>
               cpc[c] \in {"connect", "name", "failed"}
    PROVE  OrderInv'
  BY DEF OrderInv, NamelessSilent, SendersTaken, NumberedEach, HeldIsLast, SentBy, HoldsText

LEMMA OrderServer ==
    ASSUME ChatInv, OrderInv, ServerStep
    PROVE  OrderInv'
  <1> USE DEF clientVars, Running
  <1>1. connection \in Queues
    BY DEF ChatInv, QueueTypes
  <1>2. CASE ServerOpen
    BY <1>2, OrderKept DEF ServerOpen, SentTexts
  <1>3. CASE ServerJoin
    <2>1. connection'[1] = connection[1]
      BY <1>1, <1>3, TakeQueue DEF ServerJoin
    <2> QED
      BY <1>3, <2>1, OrderKept DEF ServerJoin, SentTexts
  <1>4. CASE ServerText
    <2>1. Running' => log' = Append(log, Head(connection[1]))
      BY <1>4 DEF ServerText
    <2>2. connection'[1] = Tail(connection[1]) /\ connection[1] # <<>>
      BY <1>1, <1>4, TakeQueue DEF ServerText
    <2>3. Append(log, Head(connection[1])) \o Tail(connection[1]) = log \o connection[1]
      BY <2>2, SentTyped, Moved
    <2>4. Running' => SentTexts' = SentTexts
      BY <2>1, <2>2, <2>3 DEF SentTexts
    <2>5. CASE Running'
      BY <1>4, <2>4, <2>5, OrderKept DEF ServerText
    <2> QED
      BY <2>5 DEF OrderInv
  <1>5. CASE ServerSend
    BY <1>5, OrderKept DEF ServerSend, SentTexts
  <1>6. CASE ServerSent
    BY <1>6, OrderKept DEF ServerSent, SentTexts
  <1>7. CASE ServerStop
    <2>1. connection'[1] = connection[1]
      BY <1>1, <1>7, TakeQueue DEF ServerStop
    <2> QED
      BY <1>7, <2>1, OrderKept DEF ServerStop, SentTexts
  <1>8. CASE ServerSendStop
    BY <1>8, OrderKept DEF ServerSendStop, SentTexts
  <1>9. CASE ServerEnd
    BY <1>9, OrderKept DEF ServerEnd, SentTexts
  <1> QED
    BY <1>2, <1>3, <1>4, <1>5, <1>6, <1>7, <1>8, <1>9 DEF ServerStep

(* The name a client takes was nobody's, so no text bears it yet.          *)
LEMMA OrderNaming ==
    ASSUME ChatInv, OrderInv, NEW c \in Clients, ChooseName(c)
    PROVE  OrderInv'
  <1> USE DEF clientVars, Running
  <1> SUFFICES ASSUME Running' PROVE OrderInv'
    BY DEF OrderInv
  <1>1. PICK n \in Names :
          IF owner[n] = NoOwner
          THEN /\ At(c, "name", "join")
               /\ owner' = [owner EXCEPT ![n] = c]
               /\ name' = [name EXCEPT ![c] = n]
          ELSE At(c, "name", "failed") /\ UNCHANGED <<owner, name>>
    BY DEF ChooseName
  <1>2. /\ UNCHANGED <<input, texts, spc, log, connection>> /\ SentTexts' = SentTexts
        /\ cpc[c] = "name" /\ cpc \in [Clients -> Places] /\ Running
    BY <1>1 DEF ChooseName, At, SentTexts, ChatInv, Types
  <1>3. CASE owner[n] # NoOwner
    BY <1>1, <1>2, <1>3, OrderKept DEF At
  <1>4. CASE owner[n] = NoOwner
    <2>1. /\ At(c, "name", "join") /\ owner' = [owner EXCEPT ![n] = c]
          /\ name' = [name EXCEPT ![c] = n]
      BY <1>1, <1>4
    <2>2. /\ owner \in [Names -> Clients \cup {NoOwner}]
          /\ c # NoOwner /\ texts[c] = 0 /\ input[c] = NoLine /\ name[c] = NoOwner
      BY <1>2, OwnerKnown DEF ChatInv, Types, OrderInv, NamelessSilent
    <2>3. NamelessSilent'
      BY <1>2, <2>1, SentTyped DEF OrderInv, NamelessSilent, At
    <2>4. \A i \in 1..Len(SentTexts) : SentTexts[i] \in Text
      BY SentTyped
    <2>5. SendersTaken'
      BY <1>2, <2>1, <2>2, <2>4 DEF OrderInv, SendersTaken, Text
    <2>6. HeldIsLast'
      BY <1>2 DEF OrderInv, HeldIsLast, HoldsText
    <2>7. {i \in 1..Len(SentTexts) : SentTexts[i].from = n} = {}
      BY <1>2, <1>4 DEF OrderInv, SendersTaken
    <2>8. NumberedUpTo(SentTexts, n, 0)
      BY <2>7 DEF NumberedUpTo
    <2>9. SentBy(c)' = 0 /\ name'[c] = n
      BY <1>2, <2>1, <2>2, SentTyped DEF SentBy, HoldsText, NoLine
    <2>10. ASSUME NEW d \in Clients, name'[d] # NoOwner
           PROVE  NumberedUpTo(SentTexts, name'[d], SentBy(d)')
      <3>1. CASE d = c
        BY <2>8, <2>9, <3>1
      <3>2. CASE d # c
        <4>1. name'[d] = name[d] /\ SentBy(d)' = SentBy(d)
          BY <1>2, <2>1, <3>2, SentTyped DEF SentBy, HoldsText
        <4> QED
          BY <1>2, <2>10, <4>1 DEF OrderInv, NumberedEach
      <3> QED
        BY <3>1, <3>2
    <2>11. NumberedEach'
      BY <1>2, <2>10 DEF NumberedEach
    <2> QED
      BY <2>3, <2>5, <2>6, <2>11 DEF OrderInv
  <1> QED
    BY <1>3, <1>4

(* A text sent is the next number of its sender.                           *)
LEMMA OrderSending ==
    ASSUME ChatInv, OrderInv, NEW c \in Clients, SendText(c)
    PROVE  OrderInv'
  <1> USE DEF serverVars, Running
  <1> SUFFICES ASSUME Running' PROVE OrderInv'
    BY DEF OrderInv
  <1> DEFINE m == [from |-> name[c], number |-> input[c].number]
  <1>1. /\ Running /\ HoldsText(c) /\ At(c, "top", "drain")
        /\ connection' = Put(connection, 1, m)
        /\ input' = [input EXCEPT ![c] = NoLine]
        /\ UNCHANGED <<owner, name, texts, log>>
    BY DEF SendText, HoldsText
  <1>2. name[c] \in Names /\ owner[name[c]] = c /\ c # NoOwner
    <2>1. cpc[c] = "top"
      BY <1>1 DEF At
    <2>2. name[c] \in Names /\ owner[name[c]] = c
      BY <2>1 DEF ChatInv, Owned
    <2> QED
      BY <2>2, OwnerKnown
  <1>3. texts[c] \in 1..MaxLines /\ input[c].number = texts[c]
    BY <1>1, SentTyped DEF OrderInv, HeldIsLast
  <1>4. m \in Text
    BY <1>2, <1>3, SMTT(30) DEF Text
  <1>5. connection'[1] = Append(connection[1], m)
    <2>1. m \in Messages /\ connection \in Queues
      BY <1>4 DEF Messages, ChatInv, QueueTypes
    <2> QED
      BY <1>1, <2>1, PutQueue, SMTT(30)
  <1>6. SentTexts' = Append(SentTexts, m)
    <2>1. log \o Append(connection[1], m) = Append(log \o connection[1], m)
      <3> HIDE DEF m
      <3> QED
        BY <1>4, SentTyped, Behind, SMTT(30)
    <2> QED
      BY <1>1, <1>5, <2>1 DEF SentTexts
  <1>7. NamelessSilent'
    BY <1>1, SentTyped DEF OrderInv, NamelessSilent, At, ChatInv, Types
  <1>8. SendersTaken'
    <2>1. /\ Len(SentTexts) \in Nat /\ Len(SentTexts') = Len(SentTexts) + 1
          /\ SentTexts'[Len(SentTexts) + 1] = m
          /\ \A i \in 1..Len(SentTexts) : SentTexts'[i] = SentTexts[i]
      BY <1>4, <1>6, SentTyped, Appended
    <2>2. owner[m.from] # NoOwner
      BY <1>2
    <2> HIDE DEF m
    <2> QED
      BY <1>1, <2>1, <2>2 DEF OrderInv, SendersTaken
  <1>9. HeldIsLast'
    BY <1>1, SentTyped DEF OrderInv, HeldIsLast, HoldsText, NoLine
  <1>10. SentBy(c) = texts[c] - 1 /\ SentBy(c)' = texts[c]
    BY <1>1, SentTyped DEF SentBy, HoldsText, NoLine
  <1>11. ASSUME NEW d \in Clients, name'[d] # NoOwner
         PROVE  NumberedUpTo(SentTexts', name'[d], SentBy(d)')
    <2>1. name[d] \in Names /\ owner[name[d]] = d /\ NumberedUpTo(SentTexts, name[d], SentBy(d))
      BY <1>1, <1>11, NamesOwned DEF OrderInv, NumberedEach
    <2>2. CASE d = c
      <3>1. m = [from |-> name[c], number |-> (texts[c] - 1) + 1]
        BY <1>3
      <3>2. NumberedUpTo(SentTexts, name[c], texts[c] - 1)
        BY <1>10, <2>1, <2>2
      <3>3. texts[c] - 1 \in 0..MaxLines /\ (texts[c] - 1) + 1 = texts[c]
        BY <1>3, MaxLinesNat
      <3>4. NumberedUpTo(Append(SentTexts, m), name[c], texts[c])
        BY <1>2, <1>3, <3>1, <3>2, <3>3, SentTyped, OneMore
      <3> QED
        BY <1>1, <1>6, <1>10, <2>2, <3>4
    <2>3. CASE d # c
      <3>1. m.from # name[d]
        BY <1>2, <2>1, <2>3
      <3>2. SentBy(d)' = SentBy(d)
        BY <1>1, <2>3, SentTyped DEF SentBy, HoldsText
      <3> QED
        BY <1>1, <1>4, <1>6, <2>1, <3>1, <3>2, SentTyped, OneOther
    <2> QED
      BY <2>2, <2>3
  <1>12. NumberedEach'
    BY <1>11 DEF NumberedEach
  <1> QED
    BY <1>7, <1>8, <1>9, <1>12 DEF OrderInv

(* A line typed is not sent yet; a stop holds no text.                     *)
LEMMA OrderTyping ==
    ASSUME ChatInv, OrderInv, NEW c \in Clients, Type(c)
    PROVE  OrderInv'
  <1> USE DEF serverVars, Running
  <1>1. /\ UNCHANGED <<owner, name, cpc, spc, log, connection>>
        /\ cpc[c] \in {"top", "drain"} /\ input[c] = NoLine
        /\ \/ input' = [input EXCEPT ![c] = StopLine] /\ texts' = texts
           \/ /\ texts' = [texts EXCEPT ![c] = @ + 1]
              /\ input' = [input EXCEPT ![c] = TextLine(texts[c] + 1)]
    <2>1. texts' = [texts EXCEPT ![c] = @ + 1] => texts'[c] = texts[c] + 1
      BY SentTyped
    <2> QED
      BY <2>1 DEF Type
  <1>2. SentTexts' = SentTexts
    BY <1>1 DEF SentTexts
  <1>3. /\ \A d \in Clients : SentBy(d)' = SentBy(d)
        /\ \A d \in Clients : d # c => input'[d] = input[d] /\ texts'[d] = texts[d]
        /\ HoldsText(c)' => input'[c].number = texts'[c] /\ texts'[c] > 0
    <2>1. CASE input' = [input EXCEPT ![c] = StopLine] /\ texts' = texts
      BY <1>1, <2>1, SentTyped DEF SentBy, HoldsText, NoLine, StopLine
    <2>2. CASE /\ texts' = [texts EXCEPT ![c] = @ + 1]
               /\ input' = [input EXCEPT ![c] = TextLine(texts[c] + 1)]
      <3>1. /\ texts'[c] = texts[c] + 1 /\ texts[c] \in Nat /\ input'[c] = TextLine(texts[c] + 1)
            /\ \A d \in Clients : d # c => input'[d] = input[d] /\ texts'[d] = texts[d]
        BY <2>2, SentTyped
      <3>2. ~HoldsText(c) /\ HoldsText(c)' /\ input'[c].number = texts[c] + 1
        BY <1>1, <3>1 DEF HoldsText, NoLine, TextLine
      <3>3. SentBy(c)' = SentBy(c)
        BY <3>1, <3>2 DEF SentBy
      <3>4. \A d \in Clients : d # c => SentBy(d)' = SentBy(d)
        BY <3>1 DEF SentBy, HoldsText
      <3> QED
        BY <3>1, <3>2, <3>3, <3>4
    <2> QED
      BY <1>1, <2>1, <2>2
  <1>4. Running => NamelessSilent'
    BY <1>1, <1>3 DEF OrderInv, NamelessSilent
  <1>5. Running => HeldIsLast'
    BY <1>3 DEF OrderInv, HeldIsLast, HoldsText
  <1>6. Running => SendersTaken' /\ NumberedEach'
    BY <1>1, <1>2, <1>3 DEF OrderInv, SendersTaken, NumberedEach
  <1> QED
    BY <1>1, <1>4, <1>5, <1>6 DEF OrderInv

LEMMA OrderClient ==
    ASSUME ChatInv, OrderInv, NEW c \in Clients, ClientStep(c)
    PROVE  OrderInv'
  <1> USE DEF serverVars, Running
  <1>0. connection \in Queues /\ cpc \in [Clients -> Places]
    BY DEF ChatInv, QueueTypes, Types
  <1>1. CASE Connect(c)
    BY <1>0, <1>1, OrderKept DEF Connect, At, SentTexts
  <1>2. CASE Join(c)
    <2>1. connection'[1] = connection[1]
      <3>1. name[c] \in Messages
        BY <1>2 DEF Join, At, ChatInv, Owned, Messages
      <3> QED
        BY <1>0, <1>2, <3>1, PutQueue, SMTT(30) DEF Join
    <2> QED
      BY <1>0, <1>2, <2>1, OrderKept DEF Join, At, SentTexts
  <1>3. CASE NoInput(c)
    BY <1>0, <1>3, OrderKept DEF NoInput, At, SentTexts
  <1>4. CASE Receive(c)
    BY <1>0, <1>4, OrderKept DEF Receive, At, SentTexts
  <1>5. CASE Drained(c)
    BY <1>0, <1>5, OrderKept DEF Drained, At, SentTexts
  <1>6. CASE ReceiveStop(c)
    BY <1>0, <1>6, OrderKept DEF ReceiveStop, At, SentTexts
  <1>7. CASE SendStop(c)
    <2>1. connection'[1] = connection[1]
      <3>1. "stop" \in Messages
        BY DEF Messages
      <3> QED
        BY <1>0, <1>7, <3>1, PutQueue, SMTT(30) DEF SendStop
    <2>2. SentTexts' = SentTexts
      BY <1>7, <2>1 DEF SendStop, SentTexts
    <2>3. \A d \in Clients : (HoldsText(d)' <=> HoldsText(d)) /\ (HoldsText(d) => input'[d] = input[d])
      BY <1>7, SentTyped DEF SendStop, HoldsText, NoLine, StopLine
    <2>4. UNCHANGED <<owner, name, texts, spc>>
      BY <1>7 DEF SendStop
    <2>5. \A d \in Clients : SentBy(d)' = SentBy(d)
      BY <2>3, <2>4 DEF SentBy
    <2>6. Running => NamelessSilent'
      BY <1>0, <1>7, SentTyped DEF SendStop, At, OrderInv, NamelessSilent
    <2>7. Running => HeldIsLast'
      BY <2>3, <2>4 DEF OrderInv, HeldIsLast
    <2>8. Running => SendersTaken' /\ NumberedEach'
      BY <2>2, <2>4, <2>5 DEF OrderInv, SendersTaken, NumberedEach
    <2> QED
      BY <2>4, <2>6, <2>7, <2>8 DEF OrderInv
  <1>8. CASE Quit(c)
    BY <1>8 DEF Quit, At, OrderInv, ChatInv, NobodyStopped
  <1> QED
    BY <1>1, <1>2, <1>3, <1>4, <1>5, <1>6, <1>7, <1>8, OrderNaming, OrderSending DEF ClientStep

(* The texts of one user are stored by the server, or wait in its queue,   *)
(* in the order typed, none lost and none twice.                           *)
THEOREM SendersKeepOrder == Spec => []SendersInOrder
  <1>1. Init => OrderInv
    <2> SUFFICES ASSUME Init PROVE OrderInv
      OBVIOUS
    <2>1. SentTexts = <<>> /\ Len(SentTexts) = 0
      BY DEF Init, EmptyQueue, SentTexts
    <2> QED
      BY <2>1 DEF Init, OrderInv, NamelessSilent, SendersTaken, NumberedEach, HeldIsLast,
                  HoldsText, NoLine
  <1>2. ChatInv /\ OrderInv /\ [Next]_vars => OrderInv'
    <2>1. CASE UNCHANGED Kept
      BY <2>1 DEF Kept, serverVars, OrderInv, Running, NamelessSilent, SendersTaken,
                  NumberedEach, HeldIsLast, SentTexts, SentBy, HoldsText
    <2> QED
      BY <2>1, OrderServer, OrderClient, OrderTyping, DeathKeepsTheRest DEF Next
  <1>3. ChatInv /\ OrderInv => SendersInOrder
    BY DEF OrderInv, Running, NumberedEach, HeldIsLast, SentTexts, SendersInOrder
  <1> QED
    BY <1>1, <1>2, <1>3, Invariance, PTL DEF Spec
-----------------------------------------------------------------------------
(* Nobody is left behind: what a member lacks and the stop it is to get    *)
(* are in its queue or still to be sent, and a client the server waits for *)
(* is there to make room.                                                  *)

(* The stop got to a client: it is in its queue, or was received.          *)
Told(c) == \/ cpc[c] \in {"quit", "done"}
           \/ cpc[c] \in Inside /\ queue[c][3] # <<>>
Untold(c) == cpc[c] \in Inside /\ queue[c][3] = <<>>

(* A stopping server has told the clients before the next one and no other *)
(* of its clients.  Nobody sends a client a join.                          *)
StopInv ==
    /\ \A c \in Clients : queue[c][2] = <<>>
    /\ spc = "stopping" => \A i \in 1..Len(clients) :
          /\ i < next => Told(clients[i])
          /\ i >= next => Untold(clients[i])
    /\ spc = "stopped" => \A c \in Registered : Told(c)

LEMMA StopKept ==
    ASSUME Types, StopInv, UNCHANGED <<spc, clients, next>>,
           \A c \in Clients : queue'[c][2] = queue[c][2],
           \A c \in Clients : (Told(c) => Told(c)') /\ (Untold(c) => Untold(c)')
    PROVE  StopInv'
  <1>1. /\ Registered' = Registered /\ Registered \subseteq Clients
        /\ \A i \in 1..Len(clients) : clients[i] \in Clients
    BY RegisteredKnown DEF Registered, Types
  <1> HIDE DEF Told, Untold
  <1> QED  BY <1>1 DEF StopInv

(* A step of one client that leaves its queue alone.                       *)
LEMMA StopKeptByClient ==
    ASSUME Types, StopInv, UNCHANGED <<spc, clients, next, queue>>,
           NEW c \in Clients, \A d \in Clients : d # c => cpc'[d] = cpc[d],
           cpc[c] \in Inside => cpc'[c] \in Inside,
           cpc[c] \in {"quit", "done"} => cpc'[c] \in {"quit", "done"}
    PROVE  StopInv'
  <1>1. \A d \in Clients : (Told(d) => Told(d)') /\ (Untold(d) => Untold(d)')
    BY DEF Told, Untold
  <1> QED  BY <1>1, StopKept

LEMMA StopServer == ASSUME ChatInv, StopInv, ServerStep PROVE StopInv'
  <1>0. QueueTypes /\ Types /\ NobodyStopped /\ MembersDistinct
    BY DEF ChatInv
  <1>1. ASSUME spc' \notin {"stopping", "stopped"}, UNCHANGED queue PROVE StopInv'
    BY <1>1 DEF StopInv
  <1>2. CASE ServerOpen \/ ServerJoin \/ ServerText \/ ServerSent
    <2>1. spc' \notin {"stopping", "stopped"} /\ UNCHANGED queue
      BY <1>2 DEF ServerOpen, ServerJoin, ServerText, ServerSent
    <2> QED  BY <1>1, <2>1
  <1>3. CASE ServerSend
    <2>1. PICK c \in Clients : c = clients[next]
      BY <1>0, <1>3 DEF ServerSend, Types
    <2>2. spc' = "send" /\ queue' = [queue EXCEPT ![c] = Put(queue[c], 1, out)]
      BY <1>3, <2>1 DEF ServerSend
    <2>3. queue[c] \in Queues /\ queue \in [Clients -> Queues]
      BY <1>0 DEF QueueTypes
    <2>4. Put(queue[c], 1, out)[2] = queue[c][2]
      BY <2>3 DEF Put, Queues
    <2>5. \A d \in Clients : queue'[d][2] = queue[d][2]
      BY <2>2, <2>3, <2>4
    <2> QED  BY <2>2, <2>5 DEF StopInv
  <1>4. CASE ServerStop
    <2>1. spc = "loop" /\ spc' = "stopping" /\ next' = 1 /\ UNCHANGED <<clients, queue, cpc>>
      BY <1>4 DEF ServerStop, clientVars
    <2>2. ASSUME NEW i \in 1..Len(clients) PROVE Untold(clients[i])'
      <3>1. clients[i] \in Registered /\ clients[i] \in Clients
        BY <1>0 DEF Registered, Types
      <3> QED  BY <1>0, <2>1, <3>1 DEF NobodyStopped, MembersDistinct, Untold, Inside
    <2>3. \A i \in 1..Len(clients) : ~(i < 1)
      OBVIOUS
    <2> HIDE DEF Told, Untold
    <2> QED  BY <2>1, <2>2, <2>3 DEF StopInv
  <1>5. CASE ServerSendStop
    <2>1. PICK c \in Clients : c = clients[next]
      BY <1>0, <1>5 DEF ServerSendStop, Types
    <2>2. /\ spc = "stopping" /\ next \in Nat \ {0} /\ next <= Len(clients) /\ Len(clients) \in Nat
          /\ queue' = [queue EXCEPT ![c] = Put(queue[c], 3, "stop")] /\ next' = next + 1
          /\ UNCHANGED <<spc, clients, cpc>>
      BY <1>0, <1>5, <2>1 DEF ServerSendStop, clientVars, Types
    <2>3. queue[c] \in Queues /\ queue \in [Clients -> Queues]
      BY <1>0 DEF QueueTypes
    <2>4. /\ Put(queue[c], 3, "stop")[2] = queue[c][2]
          /\ Put(queue[c], 3, "stop")[3] = Append(queue[c][3], "stop")
      BY <2>3, PutQueue DEF Messages
    <2>5. queue'[c][3] # <<>>
      <3>1. queue[c][3] \in Seq(Messages) /\ "stop" \in Messages
        BY <2>3 DEF Queues, Messages
      <3>2. Append(queue[c][3], "stop") # <<>>
        BY <3>1, Appended
      <3> QED  BY <2>2, <2>3, <2>4, <3>2
    <2>6. /\ \A d \in Clients : queue'[d][2] = queue[d][2]
          /\ \A d \in Clients : d # c => queue'[d] = queue[d]
      BY <2>2, <2>3, <2>4
    <2>7. next \in 1..Len(clients) /\ Untold(c)
      BY <2>1, <2>2 DEF StopInv
    <2>8. Told(c)'
      BY <2>2, <2>5, <2>7 DEF Told, Untold
    <2>9. ASSUME NEW i \in 1..Len(clients)
          PROVE  (i < next' => Told(clients[i])') /\ (i >= next' => Untold(clients[i])')
      <3>1. CASE i = next
        BY <2>1, <2>2, <2>8, <3>1
      <3>2. CASE i # next
        <4>1. clients[i] # c /\ clients[i] \in Clients
          BY <1>0, <2>1, <2>7, <3>2 DEF MembersDistinct, Types
        <4>2. (Told(clients[i])' <=> Told(clients[i])) /\ (Untold(clients[i])' <=> Untold(clients[i]))
          BY <2>2, <2>6, <4>1 DEF Told, Untold
        <4>3. (i < next => Told(clients[i])) /\ (i >= next => Untold(clients[i]))
          BY <2>2 DEF StopInv
        <4>4. (i < next' => i < next) /\ (i >= next' => i >= next)
          BY <2>2, <3>2
        <4> QED  BY <4>2, <4>3, <4>4
      <3> QED  BY <3>1, <3>2
    <2> HIDE DEF Told, Untold
    <2> QED  BY <2>2, <2>6, <2>9 DEF StopInv
  <1>6. CASE ServerEnd
    <2>1. spc = "stopping" /\ next > Len(clients) /\ spc' = "stopped" /\ next \in Nat
          /\ UNCHANGED <<clients, queue, cpc>>
      BY <1>0, <1>6 DEF ServerEnd, clientVars, Types
    <2>2. Registered' = Registered
      BY <2>1 DEF Registered
    <2>3. ASSUME NEW d \in Registered PROVE Told(d)'
      <3>1. PICK i \in 1..Len(clients) : d = clients[i]
        BY DEF Registered
      <3>2. i < next
        BY <1>0, <2>1 DEF Types
      <3>3. Told(d)
        BY <2>1, <3>1, <3>2 DEF StopInv
      <3> QED  BY <2>1, <3>3 DEF Told
    <2> HIDE DEF Told, Untold
    <2> QED  BY <2>1, <2>2, <2>3 DEF StopInv
  <1> QED  BY <1>2, <1>3, <1>4, <1>5, <1>6 DEF ServerStep

LEMMA StopClient ==
    ASSUME ChatInv, StopInv, NEW c \in Clients, ClientStep(c) \/ Type(c) PROVE StopInv'
  <1>0. QueueTypes /\ Types
    BY DEF ChatInv
  <1>1. cpc \in [Clients -> Places]
    BY <1>0 DEF Types
  <1>2. CASE Connect(c) \/ ChooseName(c) \/ Join(c) \/ SendStop(c) \/ SendText(c)
             \/ NoInput(c) \/ Drained(c) \/ Quit(c) \/ Type(c)
    <2>1. UNCHANGED <<spc, clients, next, queue>>
      BY <1>2 DEF Connect, ChooseName, Join, SendStop, SendText, NoInput, Drained, Quit, Type,
                  serverVars
    <2>2. /\ \A d \in Clients : d # c => cpc'[d] = cpc[d]
          /\ cpc[c] \in Inside => cpc'[c] \in Inside
          /\ cpc[c] \in {"quit", "done"} => cpc'[c] \in {"quit", "done"}
      <3>1. CASE Connect(c)
        BY <1>1, <3>1 DEF Connect, At, Inside
      <3>2. CASE ChooseName(c)
        BY <1>1, <3>2 DEF ChooseName, At, Inside
      <3>3. CASE Join(c) \/ SendStop(c) \/ SendText(c) \/ NoInput(c)
        BY <1>1, <3>3 DEF Join, SendStop, SendText, NoInput, At, Inside
      <3>4. CASE Drained(c) \/ Quit(c) \/ Type(c)
        BY <1>1, <3>4 DEF Drained, Quit, Type, At, Inside
      <3> QED  BY <1>2, <3>1, <3>2, <3>3, <3>4
    <2> QED  BY <1>0, <2>1, <2>2, StopKeptByClient
  <1>3. CASE Receive(c) \/ ReceiveStop(c)
    <2>1. queue[c] \in Queues /\ queue \in [Clients -> Queues]
      BY <1>0 DEF QueueTypes
    <2>2. UNCHANGED <<spc, clients, next>> /\ cpc[c] = "drain"
      BY <1>3 DEF Receive, ReceiveStop, At, serverVars
    <2>3. ASSUME Receive(c) PROVE StopInv'
      <3>1. /\ Receives(queue[c], 1) /\ queue' = [queue EXCEPT ![c] = Take(queue[c], 1)]
            /\ \A d \in Clients : cpc'[d] = cpc[d]
        BY <1>1, <2>3 DEF Receive, At
      <3>2. Take(queue[c], 1)[2] = queue[c][2] /\ Take(queue[c], 1)[3] = queue[c][3]
        BY <2>1, <3>1, TakeQueue
      <3>3. \A d \in Clients : queue'[d][2] = queue[d][2] /\ queue'[d][3] = queue[d][3]
        BY <2>1, <3>1, <3>2
      <3>4. \A d \in Clients : (Told(d) => Told(d)') /\ (Untold(d) => Untold(d)')
        BY <3>1, <3>3 DEF Told, Untold
      <3> QED  BY <1>0, <2>2, <3>3, <3>4, StopKept
    <2>4. ASSUME ReceiveStop(c) PROVE StopInv'
      <3>1. /\ Receives(queue[c], 3) /\ queue' = [queue EXCEPT ![c] = Take(queue[c], 3)]
            /\ cpc'[c] = "quit" /\ \A d \in Clients : d # c => cpc'[d] = cpc[d]
        BY <1>1, <2>4 DEF ReceiveStop, At
      <3>2. Take(queue[c], 3)[2] = queue[c][2] /\ queue[c][3] # <<>>
        BY <2>1, <3>1, TakeQueue
      <3>3. /\ \A d \in Clients : queue'[d][2] = queue[d][2]
            /\ \A d \in Clients : d # c => queue'[d] = queue[d]
        BY <2>1, <3>1, <3>2
      <3>4. Told(c)' /\ ~Untold(c)
        BY <3>1, <3>2 DEF Told, Untold
      <3>5. \A d \in Clients : d # c => (Told(d) => Told(d)') /\ (Untold(d) => Untold(d)')
        BY <3>1, <3>3 DEF Told, Untold
      <3>6. \A d \in Clients : (Told(d) => Told(d)') /\ (Untold(d) => Untold(d)')
        BY <3>4, <3>5
      <3> QED  BY <1>0, <2>2, <3>3, <3>6, StopKept
    <2> QED  BY <1>3, <2>3, <2>4
  <1> QED  BY <1>2, <1>3 DEF ClientStep

LEMMA StopInvariance == Spec => []StopInv
  <1>1. Init => StopInv
    BY DEF Init, StopInv, EmptyQueue
  <1>2. ChatInv /\ StopInv /\ [Next]_vars => StopInv'
    <2>1. ASSUME ChatInv, StopInv, UNCHANGED Kept PROVE StopInv'
      <3>1. Types
        BY <2>1 DEF ChatInv
      <3>2. UNCHANGED <<spc, clients, next, queue, cpc>>
        BY <2>1 DEF Kept, serverVars
      <3>3. \A c \in Clients : (Told(c) => Told(c)') /\ (Untold(c) => Untold(c)')
        BY <3>2 DEF Told, Untold
      <3> QED  BY <2>1, <3>1, <3>2, <3>3, StopKept
    <2> QED  BY <2>1, StopServer, StopClient, DeathKeepsTheRest DEF Next
  <1> QED  BY <1>1, <1>2, Invariance, PTL DEF Spec

(* The client whose full queue holds the server up is in its loop, or died *)
(* there, and if it lives reads that queue next unless it must send to the *)
(* server first: no client that quits leaves the server waiting for it,    *)
(* whatever the lengths of the queues (send_updates, chat_client).         *)
THEOREM NobodyLeavesTheServerWaiting == Spec => []NotHeldUpByLeaver
  <1>1. ChatInv /\ StopInv => NotHeldUpByLeaver
    <2> SUFFICES ASSUME ChatInv, StopInv, NEW c \in Clients, ServerStuckOn(c)
                 PROVE  cpc[c] \in Inside /\ (ClientStuck(c) \/ MayGoOn(c))
      BY DEF NotHeldUpByLeaver, Inside
    <2>0. QueueTypes /\ Types /\ NobodyStopped /\ MembersDistinct
      BY DEF ChatInv
    <2>1. /\ spc \in {"send", "stopping"} /\ next \in 1..Len(clients)
          /\ clients[next] = c /\ Full(queue[c])
      BY <2>0 DEF ServerStuckOn, Types
    <2>2. c \in Registered
      BY <2>1 DEF Registered
    <2>3. cpc[c] \in Inside
      <3>1. CASE spc = "send"
        BY <2>0, <2>2, <3>1 DEF NobodyStopped, MembersDistinct, Inside
      <3>2. CASE spc = "stopping"
        <4>1. next >= next
          BY <2>0 DEF Types
        <4> QED  BY <2>1, <3>2, <4>1 DEF StopInv, Untold
      <3> QED  BY <2>1, <3>1, <3>2
    <2>4. CASE cpc[c] = "top"
      BY <2>3, <2>4 DEF ClientStuck, MayGoOn
    <2>5. CASE cpc[c] = "drain"
      <3>1. queue[c][1] \in Seq(Messages) /\ queue[c][3] \in Seq(Messages) /\ queue[c][2] = <<>>
        BY <2>0 DEF QueueTypes, Queues, StopInv
      <3>2. Len(queue[c][1]) + Len(queue[c][2]) + Len(queue[c][3]) >= QueueMax
        BY <2>1 DEF Full, Size
      <3>3. queue[c][1] # <<>> \/ queue[c][3] # <<>>
        <4> SUFFICES ASSUME queue[c][1] = <<>>, queue[c][3] = <<>> PROVE FALSE
          OBVIOUS
        <4>1. Len(queue[c][1]) = 0 /\ Len(queue[c][2]) = 0 /\ Len(queue[c][3]) = 0
          BY <3>1
        <4> QED  BY <3>2, <4>1, QueuesHoldOne
      <3>4. Receives(queue[c], 1) \/ Receives(queue[c], 3)
        <4>1. CASE queue[c][3] # <<>>
          BY <4>1 DEF Receives
        <4>2. CASE queue[c][3] = <<>>
          <5>1. \A r \in 2..3 : r = 2 \/ r = 3
            OBVIOUS
          <5> QED  BY <3>1, <3>3, <4>2, <5>1 DEF Receives
        <4> QED  BY <4>1, <4>2
      <3> QED  BY <2>3, <2>5, <3>4 DEF MayGoOn
    <2> QED  BY <2>3, <2>4, <2>5 DEF Inside
  <1> QED  BY <1>1, Invariance, StopInvariance, PTL

(* What the server stored since a client joined and the client has not     *)
(* printed is in its queue, or is the message being sent on: nothing is    *)
(* lost on the way, whoever is blocked (send_updates).                     *)
THEOREM NothingLackedIsLost == Spec => [](\A c \in Clients : LackedIsOnItsWay(c))
  <1>1. ChatInv => \A c \in Clients : LackedIsOnItsWay(c)
    <2> SUFFICES ASSUME ChatInv, NEW c \in Clients, Lagging(c), queue[c][1] = <<>>
                 PROVE  Due(c)
      BY DEF LackedIsOnItsWay, Due
    <2>1. QueueTypes /\ Types /\ Delivered
      BY DEF ChatInv
    <2>2. c \in Registered
      BY <2>1 DEF Lagging, Types
    <2>3. ~Due(c) => joined[c] + Len(shown[c]) + Len(queue[c][1]) = Len(log)
      BY <2>1, <2>2 DEF Delivered
    <2>4. /\ joined[c] \in Nat /\ Len(shown[c]) \in Nat /\ Len(log) \in Nat
          /\ Len(queue[c][1]) = 0 /\ joined[c] + Len(shown[c]) < Len(log)
      BY <2>1, <2>2, Counts DEF Lagging
    <2> QED  BY <2>3, <2>4
  <1> QED  BY <1>1, Invariance, PTL

(* A server that has stopped has told every client it ever registered,     *)
(* also those that joined last or died meanwhile (chat_server, the branch  *)
(* for priority 3).                                                        *)
THEOREM StopIsForEverybody == Spec => [](\A c \in Clients : StopIsOnItsWay(c))
  <1>1. ChatInv /\ StopInv => \A c \in Clients : StopIsOnItsWay(c)
    <2>1. ASSUME ChatInv PROVE DOMAIN joined = Registered
      BY <2>1 DEF ChatInv, Types
    <2> QED  BY <2>1 DEF StopInv, StopIsOnItsWay, Told, Inside
  <1> QED  BY <1>1, Invariance, StopInvariance, PTL
=============================================================================
