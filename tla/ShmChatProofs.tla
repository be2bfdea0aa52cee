--------------------------- MODULE ShmChatProofs ---------------------------
(* Type correctness of the shared-memory chat and the law of its           *)
(* semaphore, for any number of clients and any CLIENT_MAX.                *)
EXTENDS ShmChat, FiniteSetTheorems, TLAPS

(* Where a step of one process leads, the labels stay of the right kind.   *)
LEMMA GotoType ==
    ASSUME TypeOK, NEW p \in Proc, NEW from, NEW to, Goto(p, from, to),
           p = Server => to \in ServerLabel,
           p \in Clients => to \in ClientLabel
    PROVE  /\ pc' \in [Proc -> ServerLabel \cup ClientLabel]
           /\ pc'[Server] \in ServerLabel
           /\ \A c \in Clients : pc'[c] \in ClientLabel
  <1>1. to \in ServerLabel \cup ClientLabel
    BY DEF Proc
  <1>2. pc' = [pc EXCEPT ![p] = to] /\ pc \in [Proc -> ServerLabel \cup ClientLabel]
    BY DEF Goto, TypeOK
  <1>3. \A q \in Proc : pc'[q] = IF q = p THEN to ELSE pc[q]
    BY <1>2
  <1>4. pc[Server] \in ServerLabel /\ \A c \in Clients : pc[c] \in ClientLabel
    BY DEF TypeOK
  <1> QED
    BY <1>1, <1>2, <1>3, <1>4 DEF Proc

(* Whatever a reader of msg_buf meets during a copy is a message.          *)
LEMMA MixedType ==
    ASSUME TypeOK, NEW m \in Message, NEW S \in SUBSET Copying
    PROVE  MixedWith(m, S) \subseteq Message
  <1>1. \A q \in Copying : Writing(q) \in Message
    BY DEF Copying, Writing, TypeOK, Message
  <1>2. \A a, b \in Message : Mixture(a, b) \subseteq Message
    BY DEF Mixture, Message
  <1> QED
    BY <1>1, <1>2 DEF MixedWith

(* A slot is a byte of the array, or a byte of the message behind it.      *)
LEMMA SetStatusType ==
    ASSUME TypeOK, NEW i \in Nat, SetStatus(i)
    PROVE  /\ client_status' \in [0..(CLIENT_MAX - 1) -> 0..1]
           /\ msg_buf' \in Message
  <1>1. CASE i < CLIENT_MAX
    <2>1. client_status' = [client_status EXCEPT ![i] = 1] /\ msg_buf' = msg_buf
      BY <1>1 DEF SetStatus
    <2>2. client_status \in [0..(CLIENT_MAX - 1) -> 0..1] /\ msg_buf \in Message
      BY DEF TypeOK
    <2>3. 1 \in 0..1
      OBVIOUS
    <2> QED
      BY <2>1, <2>2, <2>3, Zenon
  <1>2. CASE ~(i < CLIENT_MAX)
    <2>1. /\ UNCHANGED client_status
          /\ msg_buf' = CASE i = CLIENT_MAX -> "text"
                          [] i > CLIENT_MAX /\ msg_buf = "new" -> "stop"
                          [] OTHER -> msg_buf
      BY <1>2 DEF SetStatus
    <2> QED
      BY <2>1 DEF TypeOK, Message
  <1> QED
    BY <1>1, <1>2

(* Every step of the server keeps the types.                               *)
LEMMA ServerTypes ==
    ASSUME TypeOK, ServerStep
    PROVE  TypeOK'
  <1> USE DEF TypeOK, vars, shm, local, history
  <1>1. CASE ServerWait
    <2>1. /\ pc' \in [Proc -> ServerLabel \cup ClientLabel]
          /\ pc'[Server] \in ServerLabel
          /\ \A c \in Clients : pc'[c] \in ClientLabel /\ pc'[c] = pc[c]
      BY <1>1, GotoType, ServerIsNoClient DEF ServerWait, SemWait, SemPost, Goto, Proc,
       ServerLabel
    <2> QED
      BY <1>1, <2>1, ClientMaxPositive DEF ServerWait, Goto, SemWait, SemPost, Proc
  <1>2. CASE ServerCheckStatus
    <2>1. /\ pc' \in [Proc -> ServerLabel \cup ClientLabel]
          /\ pc'[Server] \in ServerLabel
          /\ \A c \in Clients : pc'[c] \in ClientLabel /\ pc'[c] = pc[c]
      BY <1>2, GotoType, ServerIsNoClient DEF ServerCheckStatus, SemWait, SemPost, Goto,
       Proc, ServerLabel
    <2> QED
      BY <1>2, <2>1, ClientMaxPositive DEF ServerCheckStatus, Goto, SemWait, SemPost, Proc
  <1>3. CASE ServerCheckNew
    <2>1. /\ pc' \in [Proc -> ServerLabel \cup ClientLabel]
          /\ pc'[Server] \in ServerLabel
          /\ \A c \in Clients : pc'[c] \in ClientLabel /\ pc'[c] = pc[c]
      BY <1>3, GotoType, ServerIsNoClient DEF ServerCheckNew, SemWait, SemPost, Goto,
       Proc, ServerLabel
    <2> QED
      BY <1>3, <2>1, ClientMaxPositive DEF ServerCheckNew, Goto, SemWait, SemPost, Proc
  <1>4. CASE ServerRead
    <2>1. /\ pc' \in [Proc -> ServerLabel \cup ClientLabel]
          /\ pc'[Server] \in ServerLabel
          /\ \A c \in Clients : pc'[c] \in ClientLabel /\ pc'[c] = pc[c]
      BY <1>4, GotoType, ServerIsNoClient DEF ServerRead, SemWait, SemPost, Goto, Proc,
       ServerLabel
    <2> QED
      BY <1>4, <2>1, ClientMaxPositive DEF ServerRead, Goto, SemWait, SemPost, Proc
  <1>5. CASE ServerRegister
    <2>1. /\ pc' \in [Proc -> ServerLabel \cup ClientLabel]
          /\ pc'[Server] \in ServerLabel
          /\ \A c \in Clients : pc'[c] \in ClientLabel /\ pc'[c] = pc[c]
      BY <1>5, GotoType, ServerIsNoClient DEF ServerRegister, SemWait, SemPost, Goto,
       Proc, ServerLabel
    <2> QED
      BY <1>5, <2>1, ClientMaxPositive DEF ServerRegister, Goto, SemWait, SemPost, Proc
  <1>6. CASE ServerMark
    <2>1. /\ pc' \in [Proc -> ServerLabel \cup ClientLabel]
          /\ pc'[Server] \in ServerLabel
          /\ \A c \in Clients : pc'[c] \in ClientLabel /\ pc'[c] = pc[c]
      BY <1>6, GotoType, ServerIsNoClient DEF ServerMark, SemWait, SemPost, Goto, Proc,
       ServerLabel
    <2>2. client_status' \in [0..(CLIENT_MAX - 1) -> 0..1] /\ msg_buf' \in Message
      BY <1>6, SetStatusType DEF ServerMark
    <2> QED
      BY <1>6, <2>1, <2>2 DEF ServerMark, Goto
  <1>7. CASE ServerLoad
    <2>1. /\ pc' \in [Proc -> ServerLabel \cup ClientLabel]
          /\ pc'[Server] \in ServerLabel
          /\ \A c \in Clients : pc'[c] \in ClientLabel /\ pc'[c] = pc[c]
      BY <1>7, GotoType, ServerIsNoClient DEF ServerLoad, SemWait, SemPost, Goto, Proc,
       ServerLabel
    <2> QED
      BY <1>7, <2>1, ClientMaxPositive DEF ServerLoad, Goto, SemWait, SemPost, Proc
  <1>8. CASE ServerStore
    <2>1. /\ pc' \in [Proc -> ServerLabel \cup ClientLabel]
          /\ pc'[Server] \in ServerLabel
          /\ \A c \in Clients : pc'[c] \in ClientLabel /\ pc'[c] = pc[c]
      BY <1>8, GotoType, ServerIsNoClient DEF ServerStore, SemWait, SemPost, Goto, Proc,
       ServerLabel
    <2> QED
      BY <1>8, <2>1, ClientMaxPositive DEF ServerStore, Goto, SemWait, SemPost, Proc
  <1>9. CASE ServerCompare
    <2>1. /\ pc' \in [Proc -> ServerLabel \cup ClientLabel]
          /\ pc'[Server] \in ServerLabel
          /\ \A c \in Clients : pc'[c] \in ClientLabel /\ pc'[c] = pc[c]
      BY <1>9, GotoType, ServerIsNoClient DEF ServerCompare, SemWait, SemPost, Goto,
       Proc, ServerLabel
    <2> QED
      BY <1>9, <2>1, ClientMaxPositive DEF ServerCompare, Goto, SemWait, SemPost, Proc
  <1>10. CASE ServerClearNew
    <2>1. /\ pc' \in [Proc -> ServerLabel \cup ClientLabel]
          /\ pc'[Server] \in ServerLabel
          /\ \A c \in Clients : pc'[c] \in ClientLabel /\ pc'[c] = pc[c]
      BY <1>10, GotoType, ServerIsNoClient DEF ServerClearNew, SemWait, SemPost, Goto,
       Proc, ServerLabel
    <2> QED
      BY <1>10, <2>1, ClientMaxPositive DEF ServerClearNew, Goto, SemWait, SemPost, Proc
  <1>11. CASE ServerClearStatus
    <2>1. /\ pc' \in [Proc -> ServerLabel \cup ClientLabel]
          /\ pc'[Server] \in ServerLabel
          /\ \A c \in Clients : pc'[c] \in ClientLabel /\ pc'[c] = pc[c]
      BY <1>11, GotoType, ServerIsNoClient DEF ServerClearStatus, SemWait, SemPost, Goto,
       Proc, ServerLabel
    <2> QED
      BY <1>11, <2>1, ClientMaxPositive DEF ServerClearStatus, Goto, SemWait, SemPost, Proc
  <1>12. CASE ServerClearRecvd
    <2>1. /\ pc' \in [Proc -> ServerLabel \cup ClientLabel]
          /\ pc'[Server] \in ServerLabel
          /\ \A c \in Clients : pc'[c] \in ClientLabel /\ pc'[c] = pc[c]
      BY <1>12, GotoType, ServerIsNoClient DEF ServerClearRecvd, SemWait, SemPost, Goto,
       Proc, ServerLabel
    <2> QED
      BY <1>12, <2>1, ClientMaxPositive DEF ServerClearRecvd, Goto, SemWait, SemPost, Proc
  <1>13. CASE ServerPost
    <2>1. /\ pc' \in [Proc -> ServerLabel \cup ClientLabel]
          /\ pc'[Server] \in ServerLabel
          /\ \A c \in Clients : pc'[c] \in ClientLabel /\ pc'[c] = pc[c]
      BY <1>13, GotoType, ServerIsNoClient DEF ServerPost, SemWait, SemPost, Goto, Proc,
       ServerLabel
    <2> QED
      BY <1>13, <2>1, ClientMaxPositive DEF ServerPost, Goto, SemWait, SemPost, Proc
  <1> QED
    BY <1>1, <1>2, <1>3, <1>4, <1>5, <1>6, <1>7, <1>8, <1>9, <1>10, <1>11, <1>12,
       <1>13 DEF ServerStep

(* Every step of a client keeps the types.                                 *)
LEMMA ClientTypes ==
    ASSUME TypeOK, NEW c \in Clients, ClientStep(c) \/ Type(c) \/ Die(c)
    PROVE  TypeOK'
  <1> USE DEF TypeOK, vars, shm, local, history
  <1>1. CASE Attach(c)
    <2>1. /\ pc' \in [Proc -> ServerLabel \cup ClientLabel]
          /\ pc'[Server] \in ServerLabel
          /\ \A d \in Clients : pc'[d] \in ClientLabel /\ (d # c => pc'[d] = pc[d])
      BY <1>1, GotoType, ServerIsNoClient DEF Attach, SemWait, SemPost, Goto, Proc,
       ClientLabel
    <2> QED
      BY <1>1, <2>1, ClientMaxPositive DEF Attach, Goto, SemWait, SemPost, Proc
  <1>2. CASE JoinWait(c)
    <2>1. /\ pc' \in [Proc -> ServerLabel \cup ClientLabel]
          /\ pc'[Server] \in ServerLabel
          /\ \A d \in Clients : pc'[d] \in ClientLabel /\ (d # c => pc'[d] = pc[d])
      BY <1>2, GotoType, ServerIsNoClient DEF JoinWait, SemWait, SemPost, Goto, Proc,
       ClientLabel
    <2> QED
      BY <1>2, <2>1, ClientMaxPositive DEF JoinWait, Goto, SemWait, SemPost, Proc
  <1>3. CASE JoinCheck(c)
    <2>1. /\ pc' \in [Proc -> ServerLabel \cup ClientLabel]
          /\ pc'[Server] \in ServerLabel
          /\ \A d \in Clients : pc'[d] \in ClientLabel /\ (d # c => pc'[d] = pc[d])
      BY <1>3, GotoType, ServerIsNoClient DEF JoinCheck, SemWait, SemPost, Goto, Proc,
       ClientLabel
    <2> QED
      BY <1>3, <2>1, ClientMaxPositive DEF JoinCheck, Goto, SemWait, SemPost, Proc
  <1>4. CASE JoinNew(c)
    <2>1. /\ pc' \in [Proc -> ServerLabel \cup ClientLabel]
          /\ pc'[Server] \in ServerLabel
          /\ \A d \in Clients : pc'[d] \in ClientLabel /\ (d # c => pc'[d] = pc[d])
      BY <1>4, GotoType, ServerIsNoClient DEF JoinNew, SemWait, SemPost, Goto, Proc,
       ClientLabel
    <2> QED
      BY <1>4, <2>1, ClientMaxPositive DEF JoinNew, Announce, Goto, SemWait, SemPost, Proc
  <1>5. CASE JoinCopy(c)
    <2>1. /\ pc' \in [Proc -> ServerLabel \cup ClientLabel]
          /\ pc'[Server] \in ServerLabel
          /\ \A d \in Clients : pc'[d] \in ClientLabel /\ (d # c => pc'[d] = pc[d])
      BY <1>5, GotoType, ServerIsNoClient DEF JoinCopy, SemWait, SemPost, Goto, Proc,
       ClientLabel
    <2>2. msg_buf' \in Message
      BY <1>5, MixedType DEF JoinCopy, Message
    <2> QED
      BY <1>5, <2>1, <2>2, ClientMaxPositive DEF JoinCopy, Goto, SemWait, SemPost, Proc
  <1>6. CASE JoinId(c)
    <2>1. /\ pc' \in [Proc -> ServerLabel \cup ClientLabel]
          /\ pc'[Server] \in ServerLabel
          /\ \A d \in Clients : pc'[d] \in ClientLabel /\ (d # c => pc'[d] = pc[d])
      BY <1>6, GotoType, ServerIsNoClient DEF JoinId, SemWait, SemPost, Goto, Proc,
       ClientLabel
    <2> QED
      BY <1>6, <2>1, ClientMaxPositive DEF JoinId, Goto, SemWait, SemPost, Proc
  <1>7. CASE JoinPost(c)
    <2>1. /\ pc' \in [Proc -> ServerLabel \cup ClientLabel]
          /\ pc'[Server] \in ServerLabel
          /\ \A d \in Clients : pc'[d] \in ClientLabel /\ (d # c => pc'[d] = pc[d])
      BY <1>7, GotoType, ServerIsNoClient DEF JoinPost, SemWait, SemPost, Goto, Proc,
       ClientLabel
    <2> QED
      BY <1>7, <2>1, ClientMaxPositive DEF JoinPost, Goto, SemWait, SemPost, Proc
  <1>8. CASE JoinPost2(c)
    <2>1. /\ pc' \in [Proc -> ServerLabel \cup ClientLabel]
          /\ pc'[Server] \in ServerLabel
          /\ \A d \in Clients : pc'[d] \in ClientLabel /\ (d # c => pc'[d] = pc[d])
      BY <1>8, GotoType, ServerIsNoClient DEF JoinPost2, SemWait, SemPost, Goto, Proc,
       ClientLabel
    <2> QED
      BY <1>8, <2>1, ClientMaxPositive DEF JoinPost2, Goto, SemWait, SemPost, Proc
  <1>9. CASE ClientWait(c)
    <2>1. /\ pc' \in [Proc -> ServerLabel \cup ClientLabel]
          /\ pc'[Server] \in ServerLabel
          /\ \A d \in Clients : pc'[d] \in ClientLabel /\ (d # c => pc'[d] = pc[d])
      BY <1>9, GotoType, ServerIsNoClient DEF ClientWait, SemWait, SemPost, Goto, Proc,
       ClientLabel
    <2> QED
      BY <1>9, <2>1, ClientMaxPositive DEF ClientWait, Goto, SemWait, SemPost, Proc
  <1>10. CASE ClientInput(c)
    <2>1. /\ pc' \in [Proc -> ServerLabel \cup ClientLabel]
          /\ pc'[Server] \in ServerLabel
          /\ \A d \in Clients : pc'[d] \in ClientLabel /\ (d # c => pc'[d] = pc[d])
      BY <1>10, GotoType, ServerIsNoClient DEF ClientInput, SemWait, SemPost, Goto, Proc,
       ClientLabel
    <2> QED
      BY <1>10, <2>1, ClientMaxPositive DEF ClientInput, Goto, SemWait, SemPost, Proc
  <1>11. CASE ClientCopy(c)
    <2>1. /\ pc' \in [Proc -> ServerLabel \cup ClientLabel]
          /\ pc'[Server] \in ServerLabel
          /\ \A d \in Clients : pc'[d] \in ClientLabel /\ (d # c => pc'[d] = pc[d])
      BY <1>11, GotoType, ServerIsNoClient DEF ClientCopy, SemWait, SemPost, Goto, Proc,
       ClientLabel
    <2>3. input[c] \in Message
      BY <1>11 DEF ClientCopy, Goto
    <2>2. msg_buf' \in Message
      BY <1>11, <2>3, MixedType DEF ClientCopy
    <2> QED
      BY <1>11, <2>1, <2>2, ClientMaxPositive DEF ClientCopy, Goto, SemWait, SemPost, Proc
  <1>12. CASE ClientPublish(c)
    <2>1. /\ pc' \in [Proc -> ServerLabel \cup ClientLabel]
          /\ pc'[Server] \in ServerLabel
          /\ \A d \in Clients : pc'[d] \in ClientLabel /\ (d # c => pc'[d] = pc[d])
      BY <1>12, GotoType, ServerIsNoClient DEF ClientPublish, SemWait, SemPost, Goto,
       Proc, ClientLabel
    <2> QED
      BY <1>12, <2>1, ClientMaxPositive DEF ClientPublish, Announce, Goto, SemWait, SemPost, Proc
  <1>13. CASE ClientCheckStatus(c)
    <2>1. /\ pc' \in [Proc -> ServerLabel \cup ClientLabel]
          /\ pc'[Server] \in ServerLabel
          /\ \A d \in Clients : pc'[d] \in ClientLabel /\ (d # c => pc'[d] = pc[d])
      BY <1>13, GotoType, ServerIsNoClient DEF ClientCheckStatus, SemWait, SemPost, Goto,
       Proc, ClientLabel
    <2> QED
      BY <1>13, <2>1, ClientMaxPositive DEF ClientCheckStatus, Goto, SemWait, SemPost, Proc
  <1>14. CASE ClientCheckNew(c)
    <2>1. /\ pc' \in [Proc -> ServerLabel \cup ClientLabel]
          /\ pc'[Server] \in ServerLabel
          /\ \A d \in Clients : pc'[d] \in ClientLabel /\ (d # c => pc'[d] = pc[d])
      BY <1>14, GotoType, ServerIsNoClient DEF ClientCheckNew, SemWait, SemPost, Goto,
       Proc, ClientLabel
    <2> QED
      BY <1>14, <2>1, ClientMaxPositive DEF ClientCheckNew, Goto, SemWait, SemPost, Proc
  <1>15. CASE ClientRead(c)
    <2>1. /\ pc' \in [Proc -> ServerLabel \cup ClientLabel]
          /\ pc'[Server] \in ServerLabel
          /\ \A d \in Clients : pc'[d] \in ClientLabel /\ (d # c => pc'[d] = pc[d])
      BY <1>15, GotoType, ServerIsNoClient DEF ClientRead, SemWait, SemPost, Goto, Proc,
       ClientLabel
    <2>2. receive_buf' \in [Clients -> Message]
      BY <1>15, MixedType DEF ClientRead
    <2> QED
      BY <1>15, <2>1, <2>2, ClientMaxPositive DEF ClientRead, Goto, SemWait, SemPost, Proc
  <1>16. CASE ClientMark(c)
    <2>1. /\ pc' \in [Proc -> ServerLabel \cup ClientLabel]
          /\ pc'[Server] \in ServerLabel
          /\ \A d \in Clients : pc'[d] \in ClientLabel /\ (d # c => pc'[d] = pc[d])
      BY <1>16, GotoType, ServerIsNoClient DEF ClientMark, SemWait, SemPost, Goto, Proc,
       ClientLabel
    <2>2. client_status' \in [0..(CLIENT_MAX - 1) -> 0..1] /\ msg_buf' \in Message
      BY <1>16, SetStatusType DEF ClientMark, Proc
    <2> QED
      BY <1>16, <2>1, <2>2, ClientMaxPositive DEF ClientMark, Goto, SemWait, SemPost, Proc
  <1>17. CASE ClientLoad(c)
    <2>1. /\ pc' \in [Proc -> ServerLabel \cup ClientLabel]
          /\ pc'[Server] \in ServerLabel
          /\ \A d \in Clients : pc'[d] \in ClientLabel /\ (d # c => pc'[d] = pc[d])
      BY <1>17, GotoType, ServerIsNoClient DEF ClientLoad, SemWait, SemPost, Goto, Proc,
       ClientLabel
    <2> QED
      BY <1>17, <2>1, ClientMaxPositive DEF ClientLoad, Goto, SemWait, SemPost, Proc
  <1>18. CASE ClientStore(c)
    <2>1. /\ pc' \in [Proc -> ServerLabel \cup ClientLabel]
          /\ pc'[Server] \in ServerLabel
          /\ \A d \in Clients : pc'[d] \in ClientLabel /\ (d # c => pc'[d] = pc[d])
      BY <1>18, GotoType, ServerIsNoClient DEF ClientStore, SemWait, SemPost, Goto, Proc,
       ClientLabel
    <2> QED
      BY <1>18, <2>1, ClientMaxPositive DEF ClientStore, Message, Goto, SemWait, SemPost, Proc
  <1>19. CASE ClientPost(c)
    <2>1. /\ pc' \in [Proc -> ServerLabel \cup ClientLabel]
          /\ pc'[Server] \in ServerLabel
          /\ \A d \in Clients : pc'[d] \in ClientLabel /\ (d # c => pc'[d] = pc[d])
      BY <1>19, GotoType, ServerIsNoClient DEF ClientPost, SemWait, SemPost, Goto, Proc,
       ClientLabel
    <2> QED
      BY <1>19, <2>1, ClientMaxPositive DEF ClientPost, Goto, SemWait, SemPost, Proc
  <1>20. CASE Type(c)
    BY <1>20, LinesAreMessages DEF Type, Reading
  <1>21. CASE Die(c)
    <2>1. Mixture(msg_buf, "new") \subseteq Message
      BY DEF Mixture, Message
    <2>2. msg_buf' \in Message
      BY <1>21, <2>1 DEF Die
    <2> QED
      BY <1>21, <2>2 DEF Die
  <1> QED
    BY <1>1, <1>2, <1>3, <1>4, <1>5, <1>6, <1>7, <1>8, <1>9, <1>10, <1>11, <1>12, <1>13,
       <1>14, <1>15, <1>16, <1>17, <1>18, <1>19, <1>20, <1>21 DEF ClientStep

(* The values every variable may hold, for every number of clients.        *)
THEOREM TypeCorrect == Spec => []TypeOK
  <1>1. Init => TypeOK
    BY ClientMaxPositive, ServerIsNoClient
       DEF Init, Start, TypeOK, Proc, Message, ServerLabel, ClientLabel
  <1>2. TypeOK /\ [Next]_vars => TypeOK'
    <2>1. CASE UNCHANGED vars
      BY <2>1 DEF vars, shm, local, history, TypeOK
    <2> QED
      BY <2>1, ServerTypes, ClientTypes DEF Next
  <1> QED
    BY <1>1, <1>2, PTL DEF Spec

-----------------------------------------------------------------------------
(* The sets the semaphore's law counts are finite.                         *)
LEMMA FiniteSides ==
    /\ IsFiniteSet(Guests) /\ Cardinality(Guests) \in Nat
    /\ IsFiniteSet(Lobby)  /\ Cardinality(Lobby) \in Nat
  <1>1. IsFiniteSet(Proc)
    BY ClientsFinite, FS_AddElement DEF Proc
  <1>2. Guests \subseteq Proc /\ Lobby \subseteq Proc
    BY DEF Guests, Lobby, Proc
  <1> QED
    BY <1>1, <1>2, FS_Subset, FS_CardinalityType

(* One process moving to another label adds itself to the lobby, leaves    *)
(* it, or does neither.                                                    *)
LEMMA LobbyCount ==
    ASSUME TypeOK, NEW p \in Proc, NEW from, NEW to, Goto(p, from, to)
    PROVE  Cardinality(Lobby') = Cardinality(Lobby)
               + (IF to = "wait" THEN 1 ELSE 0) - (IF from = "wait" THEN 1 ELSE 0)
  <1>1. pc[p] = from /\ pc' = [pc EXCEPT ![p] = to] /\ DOMAIN pc = Proc
    BY DEF Goto, TypeOK
  <1>2. Lobby' = IF to = "wait" THEN Lobby \cup {p} ELSE Lobby \ {p}
    BY <1>1 DEF Lobby
  <1>3. p \in Lobby <=> from = "wait"
    BY <1>1 DEF Lobby
  <1>4. Cardinality(Lobby \cup {p}) = IF p \in Lobby THEN Cardinality(Lobby) ELSE Cardinality(Lobby) + 1
    BY FiniteSides, FS_AddElement
  <1>5. Cardinality(Lobby \ {p}) = IF p \in Lobby THEN Cardinality(Lobby) - 1 ELSE Cardinality(Lobby)
    BY FiniteSides, FS_RemoveElement
  <1> QED
    BY <1>2, <1>3, <1>4, <1>5, FiniteSides

(* The same for the joiners inside; the server is never one of them.       *)
LEMMA GuestCount ==
    ASSUME TypeOK, NEW p \in Proc, NEW from, NEW to, Goto(p, from, to),
           p = Server => to \in ServerLabel
    PROVE  Cardinality(Guests') = Cardinality(Guests)
               + (IF to \in GuestLabel THEN 1 ELSE 0)
               - (IF from \in GuestLabel THEN 1 ELSE 0)
  <1>1. pc[p] = from /\ pc' = [pc EXCEPT ![p] = to] /\ DOMAIN pc = Proc
    BY DEF Goto, TypeOK
  <1>2. p = Server => from \notin GuestLabel /\ to \notin GuestLabel
    BY <1>1 DEF TypeOK, ServerLabel, GuestLabel
  <1>3. Guests' = IF to \in GuestLabel THEN Guests \cup {p} ELSE Guests \ {p}
    BY <1>1, <1>2, ServerIsNoClient DEF Guests, Proc
  <1>4. p \in Guests <=> from \in GuestLabel
    BY <1>1, <1>2, ServerIsNoClient DEF Guests, Proc
  <1>5. Cardinality(Guests \cup {p}) = IF p \in Guests THEN Cardinality(Guests) ELSE Cardinality(Guests) + 1
    BY FiniteSides, FS_AddElement
  <1>6. Cardinality(Guests \ {p}) = IF p \in Guests THEN Cardinality(Guests) - 1 ELSE Cardinality(Guests)
    BY FiniteSides, FS_RemoveElement
  <1> QED
    BY <1>3, <1>4, <1>5, <1>6, FiniteSides

(* A step that moves one process and changes the semaphore by as much as   *)
(* the lobby grows and the joiners inside shrink keeps the law.            *)
LEMMA MoveKeepsLaw ==
    ASSUME TypeOK, SemAccounting, NEW p \in Proc, NEW from, NEW to, Goto(p, from, to),
           p = Server => to \in ServerLabel,
           sem' = sem + (IF to = "wait" THEN 1 ELSE 0) - (IF from = "wait" THEN 1 ELSE 0)
                      - (IF to \in GuestLabel THEN 1 ELSE 0)
                      + (IF from \in GuestLabel THEN 1 ELSE 0)
    PROVE  SemAccounting'
  <1>1. sem \in Nat
    BY DEF TypeOK
  <1> QED
    BY <1>1, LobbyCount, GuestCount, FiniteSides DEF SemAccounting

(* Every step of the server keeps the law.                                 *)
LEMMA ServerLaw ==
    ASSUME TypeOK, SemAccounting, ServerStep
    PROVE  SemAccounting'
  <1> USE DEF vars, shm, local, history
  <1>0. sem \in Nat
    BY DEF TypeOK
  <1>1. CASE ServerWait
    BY <1>0, <1>1, MoveKeepsLaw DEF ServerWait, SemWait, SemPost, Proc, ServerLabel,
       GuestLabel
  <1>2. CASE ServerCheckStatus
    BY <1>0, <1>2, MoveKeepsLaw DEF ServerCheckStatus, SemWait, SemPost, Proc,
       ServerLabel, GuestLabel
  <1>3. CASE ServerCheckNew
    BY <1>0, <1>3, MoveKeepsLaw DEF ServerCheckNew, SemWait, SemPost, Proc, ServerLabel,
       GuestLabel
  <1>4. CASE ServerRead
    <2>1. PICK to \in {"register", "stopped", "mark"} :
              Goto(Server, "read", to) /\ sem' = sem
      BY <1>4 DEF ServerRead
    <2> QED
      BY <1>0, <2>1, MoveKeepsLaw DEF Proc, ServerLabel, GuestLabel
  <1>5. CASE ServerRegister
    BY <1>0, <1>5, MoveKeepsLaw DEF ServerRegister, SemWait, SemPost, Proc, ServerLabel,
       GuestLabel
  <1>6. CASE ServerMark
    BY <1>0, <1>6, MoveKeepsLaw DEF ServerMark, SemWait, SemPost, Proc, ServerLabel,
       GuestLabel
  <1>7. CASE ServerLoad
    BY <1>0, <1>7, MoveKeepsLaw DEF ServerLoad, SemWait, SemPost, Proc, ServerLabel,
       GuestLabel
  <1>8. CASE ServerStore
    BY <1>0, <1>8, MoveKeepsLaw DEF ServerStore, SemWait, SemPost, Proc, ServerLabel,
       GuestLabel
  <1>9. CASE ServerCompare
    BY <1>0, <1>9, MoveKeepsLaw DEF ServerCompare, SemWait, SemPost, Proc, ServerLabel,
       GuestLabel
  <1>10. CASE ServerClearNew
    BY <1>0, <1>10, MoveKeepsLaw DEF ServerClearNew, SemWait, SemPost, Proc, ServerLabel,
       GuestLabel
  <1>11. CASE ServerClearStatus
    BY <1>0, <1>11, MoveKeepsLaw DEF ServerClearStatus, SemWait, SemPost, Proc,
       ServerLabel, GuestLabel
  <1>12. CASE ServerClearRecvd
    BY <1>0, <1>12, MoveKeepsLaw DEF ServerClearRecvd, SemWait, SemPost, Proc,
       ServerLabel, GuestLabel
  <1>13. CASE ServerPost
    BY <1>0, <1>13, MoveKeepsLaw DEF ServerPost, SemWait, SemPost, Proc, ServerLabel,
       GuestLabel
  <1> QED
    BY <1>1, <1>2, <1>3, <1>4, <1>5, <1>6, <1>7, <1>8, <1>9, <1>10, <1>11, <1>12,
       <1>13 DEF ServerStep

(* Every step of a client keeps the law; typing does not touch it, and a   *)
(* death leaves the client counted where it was.                           *)
LEMMA ClientLaw ==
    ASSUME TypeOK, SemAccounting, NEW c \in Clients, ClientStep(c) \/ Type(c) \/ Die(c)
    PROVE  SemAccounting'
  <1> USE DEF vars, shm, local, history
  <1>0. sem \in Nat
    BY DEF TypeOK
  <1>1. CASE Attach(c)
    BY <1>0, <1>1, MoveKeepsLaw, ServerIsNoClient DEF Attach, SemWait, SemPost, Proc,
       GuestLabel
  <1>2. CASE JoinWait(c)
    BY <1>0, <1>2, MoveKeepsLaw, ServerIsNoClient DEF JoinWait, SemWait, SemPost, Proc,
       GuestLabel
  <1>3. CASE JoinCheck(c)
    BY <1>0, <1>3, MoveKeepsLaw, ServerIsNoClient DEF JoinCheck, SemWait, SemPost, Proc,
       GuestLabel
  <1>4. CASE JoinNew(c)
    BY <1>0, <1>4, MoveKeepsLaw, ServerIsNoClient DEF JoinNew, SemWait, SemPost, Proc,
       GuestLabel
  <1>5. CASE JoinCopy(c)
    BY <1>0, <1>5, MoveKeepsLaw, ServerIsNoClient DEF JoinCopy, SemWait, SemPost, Proc,
       GuestLabel
  <1>6. CASE JoinId(c)
    BY <1>0, <1>6, MoveKeepsLaw, ServerIsNoClient DEF JoinId, SemWait, SemPost, Proc,
       GuestLabel
  <1>7. CASE JoinPost(c)
    BY <1>0, <1>7, MoveKeepsLaw, ServerIsNoClient DEF JoinPost, SemWait, SemPost, Proc,
       GuestLabel
  <1>8. CASE JoinPost2(c)
    BY <1>0, <1>8, MoveKeepsLaw, ServerIsNoClient DEF JoinPost2, SemWait, SemPost, Proc,
       GuestLabel
  <1>9. CASE ClientWait(c)
    BY <1>0, <1>9, MoveKeepsLaw, ServerIsNoClient DEF ClientWait, SemWait, SemPost, Proc,
       GuestLabel
  <1>10. CASE ClientInput(c)
    BY <1>0, <1>10, MoveKeepsLaw, ServerIsNoClient DEF ClientInput, SemWait, SemPost,
       Proc, GuestLabel
  <1>11. CASE ClientCopy(c)
    BY <1>0, <1>11, MoveKeepsLaw, ServerIsNoClient DEF ClientCopy, SemWait, SemPost,
       Proc, GuestLabel
  <1>12. CASE ClientPublish(c)
    BY <1>0, <1>12, MoveKeepsLaw, ServerIsNoClient DEF ClientPublish, SemWait, SemPost,
       Proc, GuestLabel
  <1>13. CASE ClientCheckStatus(c)
    BY <1>0, <1>13, MoveKeepsLaw, ServerIsNoClient DEF ClientCheckStatus, SemWait,
       SemPost, Proc, GuestLabel
  <1>14. CASE ClientCheckNew(c)
    BY <1>0, <1>14, MoveKeepsLaw, ServerIsNoClient DEF ClientCheckNew, SemWait, SemPost,
       Proc, GuestLabel
  <1>15. CASE ClientRead(c)
    BY <1>0, <1>15, MoveKeepsLaw, ServerIsNoClient DEF ClientRead, SemWait, SemPost,
       Proc, GuestLabel
  <1>16. CASE ClientMark(c)
    BY <1>0, <1>16, MoveKeepsLaw, ServerIsNoClient DEF ClientMark, SemWait, SemPost,
       Proc, GuestLabel
  <1>17. CASE ClientLoad(c)
    BY <1>0, <1>17, MoveKeepsLaw, ServerIsNoClient DEF ClientLoad, SemWait, SemPost,
       Proc, GuestLabel
  <1>18. CASE ClientStore(c)
    BY <1>0, <1>18, MoveKeepsLaw, ServerIsNoClient DEF ClientStore, SemWait, SemPost,
       Proc, GuestLabel
  <1>19. CASE ClientPost(c)
    BY <1>0, <1>19, MoveKeepsLaw, ServerIsNoClient DEF ClientPost, SemWait, SemPost,
       Proc, GuestLabel
  <1>20. CASE Type(c)
    BY <1>20 DEF Type, SemAccounting, Guests, Lobby
  <1>21. CASE Die(c)
    BY <1>21 DEF Die, SemAccounting, Guests, Lobby
  <1> QED
    BY <1>1, <1>2, <1>3, <1>4, <1>5, <1>6, <1>7, <1>8, <1>9, <1>10, <1>11, <1>12, <1>13,
       <1>14, <1>15, <1>16, <1>17, <1>18, <1>19, <1>20, <1>21 DEF ClientStep

(* The semaphore counts the participants waiting outside, less the joiners *)
(* inside, whatever the number of clients and of messages.                 *)
THEOREM SemaphoreLaw == Spec => []SemAccounting
  <1>1. Init => SemAccounting
    <2> SUFFICES ASSUME Init PROVE SemAccounting
      OBVIOUS
    <2>1. Lobby = {Server} /\ Guests = {} /\ sem = 1
      BY ServerIsNoClient DEF Init, Start, Lobby, Guests, GuestLabel, Proc
    <2>2. Cardinality({Server}) = 1
      BY FS_Singleton
    <2>3. Cardinality({}) = 0
      BY FS_EmptySet
    <2> QED
      BY <2>1, <2>2, <2>3 DEF SemAccounting
  <1>2. TypeOK /\ SemAccounting /\ [Next]_vars => SemAccounting'
    <2>1. CASE UNCHANGED vars
      BY <2>1 DEF vars, SemAccounting, Lobby, Guests
    <2> QED
      BY <2>1, ServerLaw, ClientLaw DEF Next
  <1> QED
    BY <1>1, <1>2, TypeCorrect, PTL DEF Spec

(* With no join in progress there is a unit for every participant outside  *)
(* but for one per death inside a join, whoever left with the semaphore    *)
(* taken, and wherever else clients died.                                  *)
THEOREM ParticipantsNeverExcluded == Spec => []NeverExcluded
  <1>1. TypeOK /\ SemAccounting => NeverExcluded
    <2> SUFFICES ASSUME TypeOK, SemAccounting, Guests \subseteq dead
                 PROVE  Cardinality(Lobby \ dead) <= sem + Cardinality(Guests \cap dead)
      BY DEF NeverExcluded
    <2>1. Guests \cap dead = Guests
      OBVIOUS
    <2>2. Lobby \ dead \subseteq Lobby
      OBVIOUS
    <2>3. Cardinality(Lobby \ dead) <= Cardinality(Lobby)
      BY <2>2, FiniteSides, FS_Subset
    <2> QED
      BY <2>1, <2>3 DEF SemAccounting
  <1> QED
    BY <1>1, TypeCorrect, SemaphoreLaw, PTL

(* However many clients there are, the chat comes to a halt only for as    *)
(* many participants as clients died inside their joins: without such a    *)
(* death nobody waits for nobody, whoever left with the semaphore taken.   *)
THEOREM NobodyWaitsForNobody == Spec => []HaltedOnlyByDeaths
  <1>1. TypeOK /\ SemAccounting => HaltedOnlyByDeaths
    <2> SUFFICES ASSUME TypeOK, SemAccounting, Halted
                 PROVE  Cardinality(Lobby) = Cardinality(Guests \cap dead)
      BY DEF HaltedOnlyByDeaths, HaltedByDeaths
    <2>1. Guests \subseteq dead
      <3> SUFFICES ASSUME NEW c \in Guests, c \notin dead PROVE FALSE
        OBVIOUS
      <3>1. c \in Proc \ dead /\ pc[c] \in GuestLabel
        BY DEF Guests, Proc
      <3>2. pc[c] \in {"attach", "failed", "joinWait", "wait", "stopped", "exited"}
        BY <3>1 DEF Halted
      <3> QED
        BY <3>1, <3>2 DEF GuestLabel
    <2>2. Guests \cap dead = Guests
      BY <2>1
    <2>3. sem = 0
      BY DEF Halted
    <2>4. Cardinality(Guests) = Cardinality(Lobby)
      BY <2>3, FiniteSides DEF SemAccounting
    <2> QED
      BY <2>2, <2>4
  <1> QED
    BY <1>1, TypeCorrect, SemaphoreLaw, PTL

(* Up to the first double post the semaphore is a lock: of the server and  *)
(* the first joiners at most one is inside.                                *)
THEOREM LockBeforeFirstJoin == Spec => []LockUntilFirstJoin
  <1>1. TypeOK /\ SemAccounting => LockUntilFirstJoin
    <2> SUFFICES ASSUME TypeOK, SemAccounting,
                        \A c \in Clients : pc[c] \in {"attach", "failed", "joinWait"}
                                           \/ c \in Guests
                 PROVE  Cardinality(Inside) <= 1
      BY DEF LockUntilFirstJoin
    <2>1. Lobby \subseteq {Server}
      BY DEF Lobby, Guests, GuestLabel, Proc
    <2>2. Inside \subseteq Guests \cup {Server}
      BY DEF Inside, Proc
    <2>3. sem \in Nat
      BY DEF TypeOK
    <2>4. CASE Server \in Lobby
      <3>0. Lobby = {Server}
        BY <2>1, <2>4
      <3>1. Cardinality(Lobby) = 1
        BY <3>0, FS_Singleton
      <3>2. Inside \subseteq Guests
        BY <2>2, <2>4 DEF Inside, Lobby
      <3>3. Cardinality(Inside) <= Cardinality(Guests)
        BY <3>2, FiniteSides, FS_Subset
      <3>4. Cardinality(Guests) <= 1
        BY <2>3, <3>1, FiniteSides DEF SemAccounting
      <3>5. Cardinality(Inside) \in Nat
        BY <3>2, FiniteSides, FS_Subset, FS_CardinalityType
      <3> QED
        BY <3>3, <3>4, <3>5, FiniteSides
    <2>5. CASE Server \notin Lobby
      <3>1. Lobby = {}
        BY <2>1, <2>5
      <3>2. Cardinality(Lobby) = 0
        BY <3>1, FS_EmptySet
      <3>3. Cardinality(Guests) = 0
        BY <2>3, <3>2, FiniteSides DEF SemAccounting
      <3>4. Inside \subseteq {Server}
        BY <2>2, <3>3, FiniteSides, FS_EmptySet
      <3>5. IsFiniteSet({Server}) /\ Cardinality({Server}) = 1
        BY FS_Singleton
      <3> QED
        BY <3>4, <3>5, FS_Subset
    <2> QED
      BY <2>4, <2>5
  <1> QED
    BY <1>1, TypeCorrect, SemaphoreLaw, PTL

-----------------------------------------------------------------------------
(* What the server has counted at each point of its loop.  Before it looks *)
(* at message_new, and whenever its slot is clear, a message under way is  *)
(* one it has not counted yet; from the look to the count there is one.    *)
CountInv ==
    /\ client_count - 1 <= announced
    /\ pc[Server] \in {"read", "register"} => client_count <= announced
    /\ (\/ pc[Server] \in {"fresh", "clearStatus"}
        \/ client_status[0] = 0 /\ pc[Server] \notin {"mark", "exited"})
       => client_count - 1 + message_new <= announced

(* A step that raises message_new as often as it announces, and does not   *)
(* clear the server's slot, keeps the count.                               *)
LEMMA OthersKeepCount ==
    ASSUME TypeOK, CountInv, TypeOK',
           announced' - message_new' = announced - message_new,
           announced' >= announced,
           client_status'[0] = 0 => client_status[0] = 0,
           pc'[Server] = pc[Server], client_count' = client_count
    PROVE  CountInv'
  <1>1. /\ client_count \in Nat /\ announced \in Nat /\ announced' \in Nat
        /\ message_new \in 0..1 /\ message_new' \in 0..1
    BY DEF TypeOK
  <1> QED
    BY <1>1 DEF CountInv

(* No client clears the server's slot.                                     *)
LEMMA SlotStaysSet ==
    ASSUME TypeOK, NEW i \in Nat, SetStatus(i)
    PROVE  client_status'[0] = 0 => client_status[0] = 0
  <1>1. client_status \in [0..(CLIENT_MAX - 1) -> 0..1]
    BY DEF TypeOK
  <1>2. CASE i < CLIENT_MAX
    <2>1. client_status' = [client_status EXCEPT ![i] = 1]
      BY <1>2 DEF SetStatus
    <2> QED
      BY <1>1, <2>1, ClientMaxPositive
  <1>3. CASE ~(i < CLIENT_MAX)
    BY <1>3 DEF SetStatus
  <1> QED
    BY <1>2, <1>3

LEMMA ClientCounts ==
    ASSUME TypeOK, CountInv, NEW c \in Clients, ClientStep(c) \/ Type(c) \/ Die(c)
    PROVE  CountInv'
  <1> USE DEF vars, shm, local, history
  <1>1. TypeOK'
    BY ClientTypes
  <1>2. c # Server /\ DOMAIN pc = Proc /\ Server \in Proc /\ c \in Proc
    BY ServerIsNoClient DEF TypeOK, Proc
  <1>3. announced \in Nat /\ message_new \in 0..1 /\ client_id[c] \in Nat
    BY <1>2 DEF TypeOK
  <1>4. pc'[Server] = pc[Server] /\ client_count' = client_count
    BY <1>2
       DEF ClientStep, Goto, SemWait, SemPost, Attach, JoinWait, JoinCheck, JoinNew,
           JoinCopy, JoinId, JoinPost, JoinPost2, ClientWait, ClientInput, ClientCopy,
           ClientPublish, ClientCheckStatus, ClientCheckNew, ClientRead, ClientMark,
           ClientLoad, ClientStore, ClientPost, Type, Die
  <1>5. \/ UNCHANGED <<announced, message_new>>
        \/ announced' = announced + 1 - message_new /\ message_new' = 1
    BY DEF ClientStep, SemWait, SemPost, Attach, JoinWait, JoinCheck, JoinNew,
           JoinCopy, JoinId, JoinPost, JoinPost2, ClientWait, ClientInput, ClientCopy,
           ClientPublish, ClientCheckStatus, ClientCheckNew, ClientRead, ClientMark,
           ClientLoad, ClientStore, ClientPost, Type, Die, Announce
  <1>6. UNCHANGED client_status \/ SetStatus(client_id[c])
    BY DEF ClientStep, SemWait, SemPost, Attach, JoinWait, JoinCheck, JoinNew,
           JoinCopy, JoinId, JoinPost, JoinPost2, ClientWait, ClientInput, ClientCopy,
           ClientPublish, ClientCheckStatus, ClientCheckNew, ClientRead, ClientMark,
           ClientLoad, ClientStore, ClientPost, Type, Die
  <1>7. client_status'[0] = 0 => client_status[0] = 0
    BY <1>3, <1>6, SlotStaysSet
  <1>8. announced' - message_new' = announced - message_new /\ announced' >= announced
    BY <1>3, <1>5
  <1> QED
    BY <1>1, <1>4, <1>7, <1>8, OthersKeepCount

LEMMA ServerCounts ==
    ASSUME TypeOK, CountInv, ServerStep
    PROVE  CountInv'
  <1> USE DEF vars, shm, local, history
  <1>1. TypeOK'
    BY ServerTypes
  <1>2. Server \in Proc /\ DOMAIN pc = Proc /\ Clients \subseteq Proc
    BY DEF TypeOK, Proc
  <1>4. announced' = announced /\ announced \in Int
    BY DEF TypeOK, ServerStep, SemWait, SemPost, ServerWait, ServerCheckStatus, ServerCheckNew,
           ServerRead, ServerRegister, ServerMark, ServerLoad, ServerStore, ServerCompare,
           ServerClearNew, ServerClearStatus, ServerClearRecvd, ServerPost
  <1>6. client_status \in [0..(CLIENT_MAX - 1) -> 0..1] /\ 0 \in 0..(CLIENT_MAX - 1)
    BY ClientMaxPositive DEF TypeOK
  <1> USE DEF TypeOK, CountInv
  <1>7. CASE ServerWait
    BY <1>1, <1>2, <1>4, <1>6, <1>7 DEF ServerWait, Goto, SemWait
  <1>8. CASE ServerCheckStatus
    BY <1>1, <1>2, <1>4, <1>6, <1>8, ClientMaxPositive DEF ServerCheckStatus, Goto, StatusIsZero
  <1>9. CASE ServerCheckNew
    BY <1>1, <1>2, <1>4, <1>6, <1>9 DEF ServerCheckNew, Goto
  <1>10. CASE ServerRead
    BY <1>1, <1>2, <1>4, <1>6, <1>10 DEF ServerRead, Goto
  <1>11. CASE ServerRegister
    BY <1>1, <1>2, <1>4, <1>6, <1>11 DEF ServerRegister, Goto
  <1>12. CASE ServerMark
    BY <1>1, <1>2, <1>4, <1>6, <1>12, ClientMaxPositive DEF ServerMark, Goto, SetStatus
  <1>13. CASE ServerLoad
    BY <1>1, <1>2, <1>4, <1>6, <1>13 DEF ServerLoad, Goto
  <1>14. CASE ServerStore
    BY <1>1, <1>2, <1>4, <1>6, <1>14 DEF ServerStore, Goto
  <1>15. CASE ServerCompare
    BY <1>1, <1>2, <1>4, <1>6, <1>15 DEF ServerCompare, Goto
  <1>16. CASE ServerClearNew
    BY <1>1, <1>2, <1>4, <1>6, <1>16 DEF ServerClearNew, Goto
  <1>17. CASE ServerClearStatus
    BY <1>1, <1>2, <1>4, <1>6, <1>17 DEF ServerClearStatus, Goto
  <1>18. CASE ServerClearRecvd
    BY <1>1, <1>2, <1>4, <1>6, <1>18 DEF ServerClearRecvd, Goto
  <1>19. CASE ServerPost
    BY <1>1, <1>2, <1>4, <1>6, <1>19 DEF ServerPost, Goto, SemPost
  <1> QED
    BY <1>7, <1>8, <1>9, <1>10, <1>11, <1>12, <1>13, <1>14, <1>15, <1>16, <1>17, <1>18, <1>19 DEF ServerStep

(* Whatever the clients' races do to the copies and the counters, the      *)
(* server counts no more clients than message_new rose.                    *)
THEOREM MessagesCountedOnce == Spec => []CountedOncePerMessage
  <1>1. Init => CountInv
    <2> SUFFICES ASSUME Init PROVE CountInv
      OBVIOUS
    <2> QED
      BY DEF Init, Start, CountInv, Proc
  <1>2. TypeOK /\ CountInv /\ [Next]_vars => CountInv'
    <2>1. CASE UNCHANGED vars
      BY <2>1 DEF vars, shm, local, history, CountInv
    <2> QED
      BY <2>1, ServerCounts, ClientCounts DEF Next
  <1>3. TypeOK /\ CountInv => CountedOncePerMessage
    BY DEF CountInv, CountedOncePerMessage, TypeOK
  <1> QED
    BY <1>1, <1>2, <1>3, TypeCorrect, PTL DEF Spec
=============================================================================
