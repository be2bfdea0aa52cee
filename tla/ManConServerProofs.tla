------------------------- MODULE ManConServerProofs -------------------------
(* The pool server's arrays and its replies, for any number of threads.    *)
EXTENDS ManConServer, FiniteSetTheorems, SequenceTheorems, TLAPS

(* The pool has a size.                                                    *)
LEMMA PoolIsNat == PoolSize \in Nat
  BY PoolFinite, FS_CardinalityType DEF PoolSize

(* A worker past the poll has its flag set until it clears it itself.      *)
Busy == \A t \in Threads : wpc[t] # "poll" => thread_working_flag[t] = 1

Inv == TypeOK /\ CountsAddUp /\ Busy

(* Handing over, scanning and copying back keep the counts.                *)
LEMMA InvHolds == Spec => []Inv
  <1> USE DEF Inv, threadInfo, arrays, locals
  <1>1. Init => Inv
    <2> SUFFICES ASSUME Init PROVE Inv
      OBVIOUS
    <2>1. free_threads \in Seq(Threads) /\ Len(free_threads) = PoolSize
      BY PoolIsNat DEF Init
    <2> QED
      BY <2>1, PoolIsNat DEF Init, TypeOK, CountsAddUp, Busy, Indices
  <1>2. Inv /\ [Next]_vars => Inv'
    <2> SUFFICES ASSUME Inv, [Next]_vars PROVE Inv'
      OBVIOUS
    <2> USE PoolIsNat DEF TypeOK, CountsAddUp, Busy
    <2>0. /\ Len(free_threads) \in Nat /\ Len(temp) \in Nat
          /\ occupied_threads_count \in Nat /\ i \in Nat /\ PoolSize \in Nat
      OBVIOUS
    <2>1. ASSUME NEW t \in Threads, WorkerStep(t) PROVE Inv'
      <3>1. CASE Begin(t)
        BY <3>1 DEF Begin
      <3>2. CASE Work(t)
        BY <3>2 DEF Work
      <3>3. CASE Send(t)
        BY <3>3 DEF Send
      <3>4. CASE Clear(t)
        BY <3>4 DEF Clear
      <3> QED
        BY <2>1, <3>1, <3>2, <3>3, <3>4 DEF WorkerStep
    <2>2. CASE Receive
      <3>1. /\ order' = order /\ client_addr' = client_addr /\ received' = received + 1
            /\ buf' = received' /\ temp' = <<>> /\ i' = 0
            /\ UNCHANGED <<thread_working_flag, wpc, occupied_threads, occupied_threads_count,
                           accepted, replies>>
        BY <2>2 DEF Receive
      <3>2. received' \in Nat /\ buf' \in Nat
        BY <3>1
      <3>3. CASE free_threads # <<>>
        <4>0. Len(free_threads) \in Nat /\ Len(free_threads) > 0
          BY <3>3
        <4>1. /\ free_threads' = SubSeq(free_threads, 1, Len(free_threads) - 1)
              /\ thread' = free_threads[Len(free_threads)] /\ pc = "recvfrom" /\ pc' = "order"
          BY <2>2, <3>3 DEF Receive
        <4>2. /\ free_threads' \in Seq(Threads) /\ Len(free_threads') = Len(free_threads) - 1
              /\ thread' \in Threads
          <5>1. \A k \in 1..Len(free_threads) : free_threads[k] \in Threads
            OBVIOUS
          <5> DEFINE n == Len(free_threads) - 1
          <5>2. n \in Int /\ 1 \in Int /\ n >= 0 /\ \A k \in 1..n : free_threads[k] \in Threads
            BY <4>0, <5>1
          <5>3. /\ SubSeq(free_threads, 1, n) \in Seq(Threads)
                /\ Len(SubSeq(free_threads, 1, n)) = IF 1 <= n THEN n - 1 + 1 ELSE 0
            <6> HIDE DEF n, TypeOK, CountsAddUp, Busy
            <6> QED
              BY <5>2, SubSeqProperties
          <5>4. Len(SubSeq(free_threads, 1, n)) = n
            <6> HIDE DEF n, TypeOK, CountsAddUp, Busy
            <6> QED
              BY <5>2, <5>3
          <5>5. Len(free_threads) \in 1..Len(free_threads)
            BY <4>0
          <5>6. free_threads[Len(free_threads)] \in Threads
            BY <5>1, <5>5
          <5> HIDE DEF TypeOK, CountsAddUp, Busy
          <5> QED
            BY <4>1, <5>3, <5>4, <5>6
        <4>3. pc = "recvfrom" /\ pc' = "order" /\ Len(free_threads') \in Int
          BY <4>0, <4>1, <4>2
        <4>7. TypeOK'
          BY <3>1, <3>2, <4>2, <4>3
        <4>8. CountsAddUp'
          BY <3>1, <3>2, <4>0, <4>2, <4>3
        <4>9. Busy'
          BY <3>1, <3>2, <4>0, <4>2, <4>3
        <4> QED
          BY <4>7, <4>8, <4>9
      <3>4. CASE free_threads = <<>>
        <4>1. /\ free_threads' = free_threads /\ thread' = thread
              /\ pc = "recvfrom" /\ pc' = "scan"
          BY <2>2, <3>4 DEF Receive
        <4>7. TypeOK'
          BY <3>1, <3>2, <4>1
        <4>8. CountsAddUp'
          BY <3>1, <3>2, <4>1
        <4>9. Busy'
          BY <3>1, <3>2, <4>1
        <4> QED
          BY <4>7, <4>8, <4>9
      <3> QED
        BY <3>3, <3>4
    <2>3. CASE ReceiveEnd
      BY <2>3 DEF ReceiveEnd
    <2>4. CASE CopyOrder
      BY <2>4 DEF CopyOrder
    <2>5. CASE CopyAddr
      BY <2>5 DEF CopyAddr
    <2>6. CASE SetFlag
      <3>1. thread \in Threads /\ occupied_threads_count \in Indices
        BY <2>6 DEF SetFlag, Indices
      <3>2. /\ thread_working_flag' \in [Threads -> 0..1]
            /\ thread_working_flag'[thread] = 1
            /\ \A t \in Threads \ {thread} : thread_working_flag'[t] = thread_working_flag[t]
            /\ occupied_threads' \in [Indices -> Threads \cup {NULL, Junk}]
        BY <2>6, <3>1 DEF SetFlag
      <3>3. /\ pc = "flag" /\ pc' = "scan" /\ occupied_threads_count' = occupied_threads_count + 1
            /\ accepted' = accepted + 1
            /\ UNCHANGED <<order, client_addr, wpc, free_threads, buf, thread, i, temp,
                           received, replies>>
        BY <2>6 DEF SetFlag
      <3>4. i = 0 /\ temp = <<>> /\ Len(temp) = 0
        BY <3>3
      <3>5. TypeOK'
        BY <3>1, <3>2, <3>3
      <3>6. CountsAddUp'
        BY <3>1, <3>3, <3>4
      <3>7. Busy'
        BY <3>1, <3>2, <3>3
      <3> QED
        BY <3>5, <3>6, <3>7
    <2>7. CASE Scan
      <3>1. /\ pc = "scan" /\ i < occupied_threads_count /\ i' = i + 1
            /\ UNCHANGED <<order, client_addr, thread_working_flag, wpc, occupied_threads,
                           occupied_threads_count, buf, thread, received, accepted, replies>>
        BY <2>7 DEF Scan
      <3>2. CASE occupied_threads[i] \notin Threads
        BY <2>7, <3>1, <3>2 DEF Scan
      <3>3. CASE occupied_threads[i] \in Threads /\ thread_working_flag[occupied_threads[i]] = 0
        <4>1. /\ free_threads' = Append(free_threads, occupied_threads[i])
              /\ temp' = temp /\ pc' = pc
          BY <2>7, <3>3 DEF Scan
        <4>2. free_threads' \in Seq(Threads) /\ Len(free_threads') = Len(free_threads) + 1
          BY <3>3, <4>1
        <4>7. TypeOK'
          BY <3>1, <4>1, <4>2
        <4>8. CountsAddUp'
          <5>1. /\ i <= occupied_threads_count
                /\ Len(free_threads) + Len(temp) + (occupied_threads_count - i) = PoolSize
            BY <3>1
          <5>2. /\ pc' = "scan" /\ i' = i + 1 /\ occupied_threads_count' = occupied_threads_count
                /\ i < occupied_threads_count
            BY <3>1, <4>1
          <5>3. i' <= occupied_threads_count'
            BY <2>0, <5>2
          <5>4. Len(free_threads') + Len(temp') + (occupied_threads_count' - i') = PoolSize
            <6>1. Len(free_threads') = Len(free_threads) + 1 /\ Len(temp') = Len(temp)
              BY <4>1, <4>2
            <6> HIDE DEF TypeOK, CountsAddUp, Busy
            <6> QED
              BY <2>0, <5>1, <5>2, <6>1
          <5> QED
            BY <5>2, <5>3, <5>4
        <4>9. Busy'
          BY <3>1, <4>1, <4>2
        <4> QED
          BY <4>7, <4>8, <4>9
      <3>4. CASE occupied_threads[i] \in Threads /\ thread_working_flag[occupied_threads[i]] # 0
        <4>1. temp' = Append(temp, occupied_threads[i]) /\ free_threads' = free_threads /\ pc' = pc
          BY <2>7, <3>4 DEF Scan
        <4>2. temp' \in Seq(Threads) /\ Len(temp') = Len(temp) + 1
          BY <3>4, <4>1
        <4>3. /\ free_threads' = free_threads /\ pc' = pc /\ Len(temp) \in Nat
              /\ Len(free_threads) \in Nat
          BY <4>1
        <4>7. TypeOK'
          BY <3>1, <4>2, <4>3
        <4>8. CountsAddUp'
          <5>1. /\ i <= occupied_threads_count
                /\ Len(free_threads) + Len(temp) + (occupied_threads_count - i) = PoolSize
            BY <3>1
          <5>2. /\ pc' = "scan" /\ i' = i + 1 /\ occupied_threads_count' = occupied_threads_count
                /\ i < occupied_threads_count
            BY <3>1, <4>1
          <5>3. i' <= occupied_threads_count'
            BY <2>0, <5>2
          <5>4. Len(free_threads') + Len(temp') + (occupied_threads_count' - i') = PoolSize
            <6>1. Len(free_threads') = Len(free_threads) /\ Len(temp') = Len(temp) + 1
              BY <4>1, <4>2, <4>3
            <6> HIDE DEF TypeOK, CountsAddUp, Busy
            <6> QED
              BY <2>0, <5>1, <5>2, <6>1
          <5> QED
            BY <5>2, <5>3, <5>4
        <4>9. Busy'
          BY <3>1, <4>2, <4>3
        <4> QED
          BY <4>7, <4>8, <4>9
      <3> QED
        BY <3>2, <3>3, <3>4
    <2>8. CASE CopyBack
      <3>1. occupied_threads' \in [Indices -> Threads \cup {NULL, Junk}]
        BY <2>8 DEF CopyBack
      <3>2. /\ pc = "scan" /\ pc' = "recvfrom" /\ i >= occupied_threads_count
            /\ occupied_threads_count' = Len(temp)
            /\ UNCHANGED <<order, client_addr, thread_working_flag, wpc, free_threads, buf,
                           thread, i, temp, received, accepted, replies>>
        BY <2>8 DEF CopyBack
      <3>3. /\ Len(temp) \in Nat /\ Len(free_threads) \in Nat
            /\ Len(free_threads) + Len(temp) = PoolSize
        <4>1. /\ i <= occupied_threads_count
              /\ Len(free_threads) + Len(temp) + (occupied_threads_count - i) = PoolSize
          BY <3>2
        <4> HIDE DEF TypeOK, CountsAddUp, Busy
        <4> QED
          BY <2>0, <3>2, <4>1
      <3>4. TypeOK'
        BY <3>1, <3>2, <3>3
      <3>5. CountsAddUp' /\ Busy'
        BY <3>2, <3>3
      <3> QED
        BY <3>4, <3>5
    <2>9. CASE UNCHANGED vars
      BY <2>9 DEF vars
    <2> QED
      BY <2>1, <2>2, <2>3, <2>4, <2>5, <2>6, <2>7, <2>8, <2>9 DEF Next, MainStep
  <1> QED
    BY <1>1, <1>2, PTL DEF Spec

(* The locals and the arrays of the server keep their types.               *)
THEOREM TypeCorrect == Spec => []TypeOK
  BY InvHolds, PTL DEF Inv

(* In any pool the arrays of free and of occupied threads never run over,  *)
(* whatever memcpy leaves in the second.                                   *)
THEOREM PoolCounts == Spec => []CountsAddUp
  BY InvHolds, PTL DEF Inv

-----------------------------------------------------------------------------
(* The threads that owe a reply are a finite set.                          *)
LEMMA UnansweredFinite ==
  /\ IsFiniteSet(Unanswered) /\ Cardinality(Unanswered) \in Nat
  /\ IsFiniteSet(Unanswered') /\ Cardinality(Unanswered') \in Nat
  <1>1. Unanswered \subseteq Threads /\ Unanswered' \subseteq Threads
    BY DEF Unanswered
  <1> QED
    BY <1>1, PoolFinite, FS_Subset, FS_CardinalityType

(* No step makes a reply without using up a request.                       *)
LEMMA RepliesStep ==
  ASSUME Inv, RepliesAsked, [Next]_vars
  PROVE  RepliesAsked'
  <1> USE DEF threadInfo, arrays, locals
  <1>0. /\ thread_working_flag \in [Threads -> 0..1] /\ Len(replies) \in Nat /\ accepted \in Nat
        /\ wpc \in [Threads -> {"poll", "work", "send", "clear"}]
    BY DEF Inv, TypeOK
  <1>1. ASSUME UNCHANGED <<replies, accepted>>, Unanswered' = Unanswered
        PROVE  RepliesAsked'
    BY <1>1 DEF RepliesAsked
  <1>2. ASSUME NEW t \in Threads, WorkerStep(t) PROVE RepliesAsked'
    <2>1. CASE Begin(t)
      BY <1>0, <1>1, <2>1 DEF Begin, Unanswered
    <2>2. CASE Work(t)
      BY <1>0, <1>1, <2>2 DEF Work, Unanswered
    <2>3. CASE Send(t)
      <3>1. t \in Unanswered
        BY <2>3 DEF Send, Unanswered, Inv, Busy
      <3>2. Unanswered' = Unanswered \ {t}
        BY <1>0, <2>3 DEF Send, Unanswered
      <3>3. Cardinality(Unanswered') = Cardinality(Unanswered) - 1
        BY <3>1, <3>2, UnansweredFinite, FS_RemoveElement
      <3>4. Len(replies') = Len(replies) + 1 /\ accepted' = accepted
        BY <2>3 DEF Send, Inv, TypeOK
      <3> QED
        BY <1>0, <3>3, <3>4, UnansweredFinite DEF RepliesAsked
    <2>4. CASE Clear(t)
      BY <1>0, <1>1, <2>4 DEF Clear, Unanswered
    <2> QED
      BY <1>2, <2>1, <2>2, <2>3, <2>4 DEF WorkerStep
  <1>3. CASE SetFlag
    <2>1. thread \in Threads
      BY <1>3 DEF SetFlag, Inv, TypeOK
    <2>2. Unanswered' \subseteq Unanswered \cup {thread}
      BY <1>0, <1>3, <2>1 DEF SetFlag, Unanswered
    <2>3. /\ IsFiniteSet(Unanswered \cup {thread})
          /\ Cardinality(Unanswered \cup {thread}) <= Cardinality(Unanswered) + 1
          /\ Cardinality(Unanswered \cup {thread}) \in Nat
      <3>1. \/ Cardinality(Unanswered \cup {thread}) = Cardinality(Unanswered)
            \/ Cardinality(Unanswered \cup {thread}) = Cardinality(Unanswered) + 1
        BY UnansweredFinite, FS_AddElement
      <3> QED
        BY <3>1, UnansweredFinite, FS_AddElement
    <2>4. Cardinality(Unanswered') <= Cardinality(Unanswered \cup {thread})
      BY <2>2, <2>3, FS_Subset
    <2>5. replies' = replies /\ accepted' = accepted + 1
      BY <1>3 DEF SetFlag
    <2> QED
      BY <1>0, <2>3, <2>4, <2>5, UnansweredFinite DEF RepliesAsked
  <1>4. CASE Receive \/ ReceiveEnd \/ CopyOrder \/ CopyAddr \/ Scan \/ CopyBack \/ UNCHANGED vars
    <2>1. UNCHANGED <<replies, accepted, thread_working_flag, wpc>>
      BY <1>4 DEF Receive, ReceiveEnd, CopyOrder, CopyAddr, Scan, CopyBack, vars
    <2> QED
      BY <1>1, <2>1 DEF Unanswered
  <1> QED
    BY <1>2, <1>3, <1>4 DEF Next, MainStep

(* Whatever requests reach one thread and however the flag is raced for,   *)
(* the pool never sends more replies than requests it handed out.          *)
THEOREM RepliesNeverOutrun == Spec => []RepliesAsked
  <1>1. Init => RepliesAsked
    <2> SUFFICES ASSUME Init PROVE RepliesAsked
      OBVIOUS
    <2>1. Unanswered = {} /\ Len(replies) = 0 /\ accepted = 0
      BY DEF Init, Unanswered
    <2> QED
      BY <2>1, FS_EmptySet DEF RepliesAsked
  <1> QED
    BY <1>1, InvHolds, RepliesStep, PTL DEF Spec
=============================================================================
