------------------------- MODULE MessageRingProofs -------------------------
(* The ring of the message-queue chat server, for every size of the ring.  *)
EXTENDS MessageRing, TLAPS

(* The iterator steps to the next slot and from the last slot to the first.*)
LEMMA SucSteps ==
    ASSUME NEW i \in Slots
    PROVE  Suc(i) = IF i = BufSize - 1 THEN 0 ELSE i + 1
  <1>1. CASE i = BufSize - 1
    BY <1>1, RingHasRoom DEF Suc, Slots
  <1>2. CASE i # BufSize - 1
    BY <1>2, RingHasRoom DEF Suc, Slots
  <1> QED
    BY <1>1, <1>2

(* A set of one slot has that slot first.                                  *)
LEMMA FirstOfOne ==
    ASSUME NEW i \in Int PROVE First({i}) = i
  BY DEF First

(* The slot add_message wrote last.                                        *)
Youngest == IF message_buf_iter = 0 THEN BufSize - 1 ELSE message_buf_iter - 1

(* After a message is added send_updates starts at exactly that message.   *)
LEMMA StartsAtYoungest ==
    ASSUME RingTypes, Ring, call = "send"
    PROVE  UpdateStart(message_buf, message_buf_iter, last_update_message_id) = Youngest
  <1> DEFINE it == message_buf_iter
             last == last_update_message_id
             old == Holding(message_buf, last, it, BufSize)
             young == Holding(message_buf, last, 0, it)
  <1>0. /\ it \in Slots /\ message_count \in Nat /\ message_count > 0 /\ last = message_count - 2
        /\ message_buf \in [Slots -> [text : Texts \cup {NULL}, id : Nat]]
        /\ BufSize \in Nat \ {0}
    BY RingHasRoom DEF RingTypes, Ring
  <1>1. CASE message_count < BufSize
    BY <1>0, <1>1 DEF UpdateStart, Youngest, Ring, Slots
  <1>2. CASE message_count >= BufSize
    <2>1. message_buf[it].text # NULL
      BY <1>0, <1>2 DEF Ring, Slots
    <2>2. CASE BufSize = 1
      <3>1. it = 0 /\ old = {} /\ young = {}
        BY <1>0, <1>2, <2>2 DEF Ring, Slots, Holding
      <3> QED
        BY <2>1, <2>2, <3>1 DEF UpdateStart, Youngest
    <2>3. CASE BufSize > 1 /\ it = 0
      <3>0. \A i \in Slots : message_buf[i].id = message_count - BufSize + i
        BY <1>0, <1>2, <2>3 DEF Ring, Slots
      <3>1. old = {BufSize - 2}
        <4>1. \A i \in Slots : message_buf[i].id = last <=> i = BufSize - 2
          <5>1. TAKE i \in Slots
          <5>2. i \in Int /\ message_count \in Int /\ BufSize \in Int
            BY <1>0 DEF Slots
          <5>3. message_count - BufSize + i = message_count - 2 <=> i = BufSize - 2
            BY <5>2
          <5> QED
            BY <1>0, <3>0, <5>3
        <4>2. old = {i \in Slots : message_buf[i].id = last} /\ BufSize - 2 \in Slots
          BY <1>0, <2>3 DEF Holding, Slots
        <4> QED
          BY <4>1, <4>2
      <3>2. Suc(First(old)) = BufSize - 1
        <4>1. First(old) = BufSize - 2 /\ BufSize - 2 \in Slots
          BY <1>0, <2>3, <3>1, FirstOfOne DEF Slots
        <4>2. Suc(BufSize - 2) = IF BufSize - 2 = BufSize - 1 THEN 0 ELSE BufSize - 2 + 1
          BY <4>1, SucSteps
        <4> QED
          BY <1>0, <4>1, <4>2
      <3> QED
        BY <2>1, <2>3, <3>1, <3>2 DEF UpdateStart, Youngest
    <2>4. CASE BufSize > 1 /\ it = 1
      <3>1. old = {BufSize - 1}
        BY <1>0, <1>2, <2>4 DEF Ring, Slots, Holding
      <3>2. Suc(First(old)) = 0
        BY <1>0, <2>4, <3>1, FirstOfOne, SucSteps DEF Slots
      <3> QED
        BY <2>1, <2>4, <3>1, <3>2 DEF UpdateStart, Youngest
    <2>5. CASE BufSize > 1 /\ it > 1
      <3>1. old = {}
        BY <1>0, <1>2, <2>5 DEF Ring, Slots, Holding
      <3>2. young = {it - 2}
        BY <1>0, <1>2, <2>5 DEF Ring, Slots, Holding
      <3>3. Suc(First(young)) = it - 1
        <4>1. First(young) = it - 2 /\ it - 2 \in Slots
          BY <1>0, <2>5, <3>2, FirstOfOne DEF Slots
        <4>2. Suc(it - 2) = IF it - 2 = BufSize - 1 THEN 0 ELSE it - 2 + 1
          BY <4>1, SucSteps
        <4> QED
          BY <1>0, <4>1, <4>2 DEF Slots
      <3> QED
        BY <2>1, <2>5, <3>1, <3>2, <3>3 DEF UpdateStart, Youngest
    <2> QED
      BY <1>0, <2>2, <2>3, <2>4, <2>5 DEF Slots
  <1> QED
    BY <1>0, <1>1, <1>2

(* So it sends one message, the one just added.                            *)
LEMMA SendsYoungest ==
    ASSUME RingTypes, Ring, call = "send"
    PROVE  Updates(message_buf, message_buf_iter, Youngest) = <<message_buf[Youngest]>>
  <1>1. message_buf_iter \in Slots /\ BufSize \in Nat \ {0}
    BY RingHasRoom DEF RingTypes
  <1>2. Youngest \in Slots /\ UpdateCount(Youngest, message_buf_iter) = 1
    BY <1>1 DEF Youngest, UpdateCount, Slots
  <1> QED
    BY <1>1, <1>2 DEF Updates, Slots

(* What is stored and not yet sent is the youngest message of the ring.    *)
Unsent == IF call = "add" THEN sent = stored
                        ELSE stored = Append(sent, message_buf[Youngest].text)

(* The ring's law, the types and what is unsent are kept by every step.    *)
LEMMA RingInvariance == RingSpec => [](RingTypes /\ Ring /\ Unsent)
  <1>1. RingInit => RingTypes /\ Ring /\ Unsent
    BY RingHasRoom, NullIsNoText DEF RingInit, RingTypes, Ring, Unsent, Slots
  <1>2. RingTypes /\ Ring /\ Unsent /\ [RingNext]_ring_vars => (RingTypes /\ Ring /\ Unsent)'
    <2> SUFFICES ASSUME RingTypes, Ring, Unsent, [RingNext]_ring_vars
                 PROVE  RingTypes' /\ Ring' /\ Unsent'
      OBVIOUS
    <2>1. ASSUME NEW text \in Texts, AddMessage(text)
          PROVE  RingTypes' /\ Ring' /\ Unsent'
      <3>1. message_buf_iter' = IF message_buf_iter = BufSize - 1 THEN 0
                                                                 ELSE message_buf_iter + 1
        BY <2>1, SucSteps DEF AddMessage, RingTypes
      <3>2. RingTypes'
        <4>1. message_buf_iter' \in Slots
          BY <3>1, RingHasRoom DEF RingTypes, Slots
        <4>2. [text |-> text, id |-> message_count] \in [text : Texts \cup {NULL}, id : Nat]
          BY DEF RingTypes
        <4>3. message_buf' \in [Slots -> [text : Texts \cup {NULL}, id : Nat]]
          BY <2>1, <4>2 DEF AddMessage, RingTypes
        <4> QED
          BY <2>1, <4>1, <4>3 DEF AddMessage, RingTypes
      <3>3. Ring'
        <4> DEFINE it == message_buf_iter
                   it1 == message_buf_iter'
        <4>1. /\ it \in Slots /\ message_count \in Nat /\ BufSize \in Nat \ {0}
              /\ message_count' = message_count + 1 /\ call = "add" /\ call' = "send"
              /\ last_update_message_id' = last_update_message_id
          BY <2>1, RingHasRoom DEF AddMessage, RingTypes
        <4>2. \A i \in Slots : message_buf'[i] =
                 IF i = it THEN [text |-> text, id |-> message_count] ELSE message_buf[i]
          BY <2>1, <4>1 DEF AddMessage, RingTypes
        <4>3. message_count' < BufSize => it1 = message_count'
          BY <3>1, <4>1 DEF Ring
        <4>4. ASSUME NEW i \in Slots
              PROVE  /\ i < it1 => message_buf'[i].id = message_count' - it1 + i
                     /\ i >= it1 /\ message_count' >= BufSize =>
                           message_buf'[i].id = message_count' - BufSize - it1 + i
          <5>1. CASE i = it
            BY <3>1, <4>1, <4>2, <5>1 DEF Slots, Ring
          <5>2. CASE i # it
            BY <3>1, <4>1, <4>2, <5>2 DEF Slots, Ring
          <5> QED
            BY <5>1, <5>2
        <4>5. ASSUME NEW i \in Slots
              PROVE  message_buf'[i].text = NULL <=> message_count' <= i
          <5>1. CASE i = it
            BY <2>1, <4>1, <4>2, <5>1, NullIsNoText DEF Slots, Ring
          <5>2. CASE i # it
            BY <4>1, <4>2, <5>2 DEF Slots, Ring
          <5> QED
            BY <5>1, <5>2
        <4> QED
          BY <4>1, <4>3, <4>4, <4>5 DEF Ring
      <3>4. Unsent'
        BY <2>1, <3>1, RingHasRoom DEF AddMessage, RingTypes, Unsent, Youngest, Slots
      <3> QED
        BY <3>2, <3>3, <3>4
    <2>2. CASE SendUpdates
      <3> DEFINE young == message_buf[Youngest]
      <3>1. Youngest \in Slots
        BY RingHasRoom DEF RingTypes, Youngest, Slots
      <3>2. /\ sent' = sent \o [k \in DOMAIN <<young>> |-> <<young>>[k].text]
            /\ last_update_message_id' = <<young>>[Len(<<young>>)].id
        BY <2>2, StartsAtYoungest, SendsYoungest DEF SendUpdates
      <3>3. [k \in DOMAIN <<young>> |-> <<young>>[k].text] = <<young.text>>
        OBVIOUS
      <3>4. sent' = Append(sent, young.text) /\ last_update_message_id' = young.id
        BY <3>2, <3>3 DEF RingTypes
      <3>5. young.id = message_count - 1
        BY <2>2, RingHasRoom, SMTT(30) DEF RingTypes, Ring, Youngest, Slots, SendUpdates
      <3>6. RingTypes'
        BY <2>2, <3>1, <3>4, SMTT(30) DEF RingTypes, SendUpdates
      <3>7. Ring'
        BY <2>2, <3>4, <3>5 DEF RingTypes, Ring, SendUpdates
      <3>8. Unsent'
        BY <2>2, <3>4 DEF Unsent, SendUpdates
      <3> QED
        BY <3>6, <3>7, <3>8
    <2>3. CASE UNCHANGED ring_vars
      BY <2>3 DEF ring_vars, RingTypes, Ring, Unsent, Youngest
    <2> QED
      BY <2>1, <2>2, <2>3 DEF RingNext
  <1> QED
    BY <1>1, <1>2, PTL DEF RingSpec

(* Ids run through the ring without a gap, for every size of the ring.     *)
THEOREM RingLaw == RingSpec => []Ring
  BY RingInvariance, PTL

(* The server sends every message on exactly once and in order, for every  *)
(* size of the ring and any number of messages.                            *)
THEOREM SendsAsStored == RingSpec => []SentAsStored
  <1>1. Unsent => SentAsStored
    BY DEF Unsent, SentAsStored
  <1> QED
    BY <1>1, RingInvariance, PTL
=============================================================================
