---------------------------- MODULE MessageRing ----------------------------
(***************************************************************************)
(* The ring of recent messages of the message-queue chat server: where     *)
(* add_message puts a message and which messages send_updates sends on.    *)
(***************************************************************************)
EXTENDS Integers, Sequences

CONSTANTS
    BufSize,      \* message_buf_size (10)
    Texts, NULL,  \* texts of messages; NULL marks a slot never written
    MaxMessages   \* bound on the messages of a run

ASSUME RingHasRoom == BufSize \in Nat \ {0}
ASSUME NullIsNoText == NULL \notin Texts
ASSUME MaxMessagesNat == MaxMessages \in Nat

Slots == 0..(BufSize - 1)

VARIABLES
    message_buf,             \* the ring: slots with text and id
    message_buf_iter,        \* the slot to write next
    message_count,
    last_update_message_id,
    call,                      \* add_message or send_updates is next
    stored,                  \* history: all texts added
    sent                     \* history: all texts sent on

ring_vars == <<message_buf, message_buf_iter, message_count, last_update_message_id,
          call, stored, sent>>

-----------------------------------------------------------------------------
Suc(i) == (i + 1) % BufSize

(* Slots of [lo, hi) that hold the message sent last.                      *)
Holding(buf, last, lo, hi) == {i \in lo..(hi - 1) : buf[i].id = last}
First(S) == CHOOSE i \in S : \A j \in S : i <= j

(* Mutant: a full ring is always sent from slot 0.                         *)
UpdateStartFromZero(buf, iter, last) ==
    IF buf[iter].text = NULL THEN last + 1 ELSE 0

(* First slot to send: behind the message sent last, looked for from the   *)
(* oldest slot on; slot 0 if it has been overwritten.                      *)
UpdateStart(buf, iter, last) ==
    IF buf[iter].text = NULL THEN last + 1
    ELSE LET old == Holding(buf, last, iter, BufSize)
             young == Holding(buf, last, 0, iter)
         IN  IF old # {} THEN Suc(First(old))
             ELSE IF young # {} THEN Suc(First(young))
             ELSE 0

UpdateCount(start, iter) ==
    IF start < iter THEN iter - start
    ELSE IF start > iter THEN BufSize - start + iter
    ELSE BufSize

(* The messages to send: [start, iter), or around the end of the ring.     *)
Updates(buf, iter, start) ==
    [k \in 1..UpdateCount(start, iter) |->
        IF start + k - 1 < BufSize THEN buf[start + k - 1] ELSE buf[start + k - 1 - BufSize]]

-----------------------------------------------------------------------------
AddMessage(text) ==
    /\ call = "add" /\ message_count < MaxMessages
    /\ message_buf' = [message_buf EXCEPT ![message_buf_iter] =
                          [text |-> text, id |-> message_count]]
    /\ message_buf_iter' = Suc(message_buf_iter)
    /\ message_count' = message_count + 1
    /\ stored' = Append(stored, text)
    /\ call' = "send"
    /\ UNCHANGED <<last_update_message_id, sent>>

(* Mutant: the id of the last update is not kept.                          *)
SendUpdatesForgets ==
    /\ call = "send"
    /\ LET start == UpdateStart(message_buf, message_buf_iter, last_update_message_id)
           updates == Updates(message_buf, message_buf_iter, start)
       IN  sent' = sent \o [k \in DOMAIN updates |-> updates[k].text]
    /\ call' = "add"
    /\ UNCHANGED <<message_buf, message_buf_iter, message_count, last_update_message_id, stored>>

SendUpdates ==
    /\ call = "send"
    /\ LET start == UpdateStart(message_buf, message_buf_iter, last_update_message_id)
           updates == Updates(message_buf, message_buf_iter, start)
       IN  /\ sent' = sent \o [k \in DOMAIN updates |-> updates[k].text]
           /\ last_update_message_id' = updates[Len(updates)].id
    /\ call' = "add"
    /\ UNCHANGED <<message_buf, message_buf_iter, message_count, stored>>

RingInit ==
    /\ message_buf = [i \in Slots |-> [text |-> NULL, id |-> 0]]
    /\ message_buf_iter = 0
    /\ message_count = 0
    /\ last_update_message_id = -1
    /\ call = "add"
    /\ stored = <<>>
    /\ sent = <<>>

RingNext == SendUpdates \/ \E text \in Texts : AddMessage(text)

RingSpec == RingInit /\ [][RingNext]_ring_vars

-----------------------------------------------------------------------------
(* Types; message_buf_iter never leaves the ring.                          *)
RingTypes ==
    /\ message_buf \in [Slots -> [text : Texts \cup {NULL}, id : Nat]]
    /\ message_buf_iter \in Slots
    /\ message_count \in Nat
    /\ last_update_message_id \in Int
    /\ call \in {"add", "send"}
    /\ stored \in Seq(Texts)
    /\ sent \in Seq(Texts \cup {NULL})

(* Ids run through the ring without a gap, the youngest in the slot before *)
(* the iterator; until the ring is full the rest was never written.        *)
Ring ==
    /\ \A i \in Slots :
          /\ i < message_buf_iter => message_buf[i].id = message_count - message_buf_iter + i
          /\ i >= message_buf_iter /\ message_count >= BufSize =>
                message_buf[i].id = message_count - BufSize - message_buf_iter + i
          /\ message_buf[i].text = NULL <=> message_count <= i
    /\ message_count < BufSize => message_buf_iter = message_count
    /\ last_update_message_id = IF call = "add" THEN message_count - 1 ELSE message_count - 2
    /\ call = "send" => message_count > 0

(* Every message is sent on exactly once, in the order stored, right after *)
(* it was stored, however often the ring has wrapped.                      *)
SentAsStored == call = "add" => sent = stored
=============================================================================
