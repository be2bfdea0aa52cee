------------------------ MODULE ThreadCreatingProofs ------------------------
(* The list of threads, for any limit on the number of threads.            *)
EXTENDS ThreadCreating, TLAPS

Inv == TypeOK /\ ListSound /\ ThreadsKeepInfo

(* The nodes are numbers, which no mark for a missing pointer is.          *)
LEMMA NodesAreNumbers ==
  /\ Nodes \subseteq Nat /\ NULL \notin Nodes /\ Junk \notin Nodes
  BY MaxRequestsNat, PointersDiffer DEF Nodes

(* Accepting a request appends a node to the list.                         *)
LEMMA AcceptStep == ASSUME Inv, Accept PROVE Inv'
  <1> DEFINE new == received + 1
             last == thread_list_last
  <1>1. /\ received \in Nat /\ new \in Nodes /\ new = received' /\ new \notin live
        /\ live \subseteq Nodes /\ \A n \in live : n < new
    BY MaxRequestsNat DEF Accept, Inv, TypeOK, Nodes
  <1>2. /\ thread_list_last' = new /\ iterator' = new /\ live' = live \cup {new}
        /\ prev_node' = [prev_node EXCEPT ![new] = last]
        /\ tpc' = [tpc EXCEPT ![new] = "work"]
        /\ thread_cur' = thread_cur + 1 /\ pc' = "scan" /\ replies' = replies
    BY <1>1 DEF Accept, ListAdd
  <1>3. last # NULL => last \in live /\ next_node[last] \in {NULL, Junk}
    BY DEF Inv, ListSound
  <1>4. /\ next_node' \in [Nodes -> Nodes \cup {NULL, Junk}]
        /\ next_node'[new] \in {NULL, Junk}
        /\ last # NULL => next_node'[last] = new
        /\ \A n \in Nodes : n # new /\ n # last => next_node'[n] = next_node[n]
    <2>1. CASE last = NULL
      BY <1>1, <2>1 DEF Accept, ListAdd, Inv, TypeOK
    <2>2. CASE last # NULL
      BY <1>1, <1>3, <2>2 DEF Accept, ListAdd, Inv, TypeOK
    <2> QED
      BY <2>1, <2>2
  <1>5. TypeOK'
    BY <1>1, <1>2, <1>3, <1>4, MaxRequestsNat, ThreadMaxNat
    DEF Accept, Inv, TypeOK, Nodes
  <1>6. ListSound'
    <2>1. /\ prev_node'[new] = last
          /\ \A n \in live : prev_node'[n] = prev_node[n] /\ n # new
      BY <1>1, <1>2 DEF Inv, TypeOK
    <2>2. ASSUME NEW n \in live, prev_node[n] # NULL
          PROVE  /\ prev_node[n] \in live /\ prev_node[n] # last
                 /\ next_node'[prev_node[n]] = n /\ prev_node[n] < n
      <3>1. prev_node[n] \in live /\ next_node[prev_node[n]] = n /\ prev_node[n] < n
        BY <2>2 DEF Inv, ListSound
      <3>2. prev_node[n] # new /\ prev_node[n] \in Nodes /\ n \in Nodes
        BY <1>1, <3>1
      <3>3. prev_node[n] # last
        BY <1>3, <2>2, <3>1, <3>2, NodesAreNumbers
      <3> QED
        BY <1>4, <3>1, <3>2, <3>3
    <2>3. ASSUME NEW n \in live, next_node'[n] \notin {NULL, Junk}, n # last
          PROVE  next_node'[n] \in live /\ prev_node'[next_node'[n]] = n
      BY <1>1, <1>4, <2>1, <2>3 DEF Inv, ListSound
    <2> QED
      <3>1. /\ thread_list_last' # NULL => /\ thread_list_last' \in live'
                                            /\ next_node'[thread_list_last'] \in {NULL, Junk}
            /\ iterator' # NULL => iterator' \in live'
        BY <1>2, <1>4
      <3>2. ASSUME NEW n \in live', prev_node'[n] # NULL
            PROVE  prev_node'[n] \in live' /\ next_node'[prev_node'[n]] = n /\ prev_node'[n] < n
        <4>1. CASE n = new
          <5>1. prev_node'[n] = last /\ last # NULL
            BY <2>1, <3>2, <4>1
          <5>2. last \in live /\ next_node'[last] = new /\ last < new
            BY <1>1, <1>3, <1>4, <5>1
          <5> QED
            BY <1>2, <4>1, <5>1, <5>2
        <4>2. CASE n # new
          BY <1>2, <2>1, <2>2, <3>2, <4>2
        <4> QED
          BY <4>1, <4>2
      <3>3. ASSUME NEW n \in live', next_node'[n] \notin {NULL, Junk}
            PROVE  next_node'[n] \in live' /\ prev_node'[next_node'[n]] = n
        <4>1. n # new
          BY <1>4, <3>3
        <4>2. CASE n = last
          BY <1>1, <1>2, <1>3, <1>4, <2>1, <3>3, <4>1, <4>2, NodesAreNumbers
        <4>3. CASE n # last
          BY <1>2, <2>3, <3>3, <4>1, <4>3
        <4> QED
          BY <4>2, <4>3
      <3> QED
        BY <3>1, <3>2, <3>3 DEF ListSound
  <1>7. ThreadsKeepInfo'
    <2>1. new \notin replies /\ tpc'[new] = "work"
      BY <1>1, <1>2 DEF Inv, TypeOK
    <2>2. \A n \in Nodes : n # new => tpc'[n] = tpc[n] /\ (n \in live' <=> n \in live)
      BY <1>1, <1>2 DEF Inv, TypeOK
    <2> QED
      BY <1>1, <1>2, <2>1, <2>2 DEF Inv, ThreadsKeepInfo
  <1> QED
    BY <1>5, <1>6, <1>7 DEF Inv

(* Deleting a node joins its neighbours and moves the ends of the list.    *)
LEMMA DeleteStep == ASSUME Inv, JoinAndDelete PROVE Inv'
  <1> DEFINE it == iterator
             prev == prev_node[it]
             next == next_node[it]
             last == thread_list_last
  <1>1. /\ it \in live /\ live \subseteq Nodes /\ received' = received
        /\ live' = live \ {it} /\ tpc[it] = "returned" /\ next # Junk
        /\ tpc' = [tpc EXCEPT ![it] = "joined"]
        /\ UNCHANGED <<thread_cur, pc, received, replies>>
    BY MaxRequestsNat DEF JoinAndDelete, ListDelete, Inv, TypeOK, ListSound, Nodes
  <1>2. prev # NULL => prev \in live /\ next_node[prev] = it /\ prev < it
    BY <1>1 DEF Inv, ListSound
  <1>3. next # NULL => next \in live /\ prev_node[next] = it /\ it < next
    <2> SUFFICES ASSUME next # NULL PROVE next \in live /\ prev_node[next] = it /\ it < next
      OBVIOUS
    <2>1. next \in live /\ prev_node[next] = it
      BY <1>1 DEF Inv, ListSound
    <2>2. it # NULL
      BY <1>1, NodesAreNumbers
    <2> HIDE DEF next, it
    <2> QED
      BY <2>1, <2>2 DEF Inv, ListSound
  <1>4. /\ next_node' \in [Nodes -> Nodes \cup {NULL, Junk}]
        /\ prev # NULL => next_node'[prev] = next
        /\ \A n \in Nodes : n # prev => next_node'[n] = next_node[n]
    BY <1>1, <1>2 DEF JoinAndDelete, ListDelete, Inv, TypeOK
  <1>5. /\ prev_node' \in [Nodes -> Nodes \cup {NULL, Junk}]
        /\ next # NULL => prev_node'[next] = prev
        /\ \A n \in Nodes : n # next => prev_node'[n] = prev_node[n]
    <2>1. prev \in Nodes \cup {NULL, Junk} /\ prev_node \in [Nodes -> Nodes \cup {NULL, Junk}]
      BY <1>1 DEF Inv, TypeOK
    <2>2. prev_node' = IF next = NULL THEN prev_node ELSE [prev_node EXCEPT ![next] = prev]
      BY DEF JoinAndDelete, ListDelete
    <2>3. next # NULL => next \in Nodes
      BY <1>1, <1>3
    <2> HIDE DEF prev, next
    <2> QED
      BY <2>1, <2>2, <2>3
  <1>6. /\ thread_list_last' = IF prev = NULL \/ next_node'[prev] = NULL THEN prev ELSE last
        /\ iterator' = IF prev = NULL THEN NULL ELSE prev_node'[prev]
    BY DEF JoinAndDelete
  <1>7. it \in Nat /\ (prev # NULL => prev \in Nat) /\ (next # NULL => next \in Nat)
    BY <1>1, <1>2, <1>3, NodesAreNumbers
  <1>8. prev # NULL => /\ prev \in live' /\ prev # next /\ prev_node'[prev] = prev_node[prev]
    BY <1>1, <1>2, <1>3, <1>5, <1>7, NodesAreNumbers
  <1>9. next # NULL => next \in live'
    BY <1>1, <1>3, <1>7
  <1>10. iterator' # NULL => iterator' \in live'
    <2> SUFFICES ASSUME iterator' # NULL PROVE iterator' \in live'
      OBVIOUS
    <2>1. prev # NULL /\ iterator' = prev_node[prev]
      BY <1>6, <1>8
    <2>2. /\ prev_node[prev] \in live /\ prev_node[prev] < prev /\ prev < it
      BY <1>1, <1>2, <1>6, <1>8, <2>1 DEF Inv, ListSound
    <2> QED
      BY <1>1, <1>7, <2>1, <2>2, NodesAreNumbers
  <1>11. thread_list_last' # NULL =>
            thread_list_last' \in live' /\ next_node'[thread_list_last'] \in {NULL, Junk}
    <2>1. CASE prev = NULL \/ next = NULL
      BY <1>4, <1>6, <1>8, <2>1
    <2>2. CASE prev # NULL /\ next # NULL
      <3>1. thread_list_last' = last
        BY <1>4, <1>6, <2>2
      <3> SUFFICES ASSUME last # NULL PROVE last \in live' /\ next_node'[last] \in {NULL, Junk}
        BY <3>1
      <3>2. last \in live /\ next_node[last] \in {NULL, Junk}
        BY DEF Inv, ListSound
      <3>3. last # it
        BY <1>1, <2>2, <3>2
      <3>4. last # prev
        BY <1>1, <1>2, <2>2, <3>2, NodesAreNumbers
      <3> QED
        BY <1>1, <1>4, <3>2, <3>3, <3>4
    <2> QED
      BY <2>1, <2>2
  <1>12. ASSUME NEW n \in live', prev_node'[n] # NULL
         PROVE  /\ prev_node'[n] \in live' /\ next_node'[prev_node'[n]] = n
                /\ prev_node'[n] < n
    <2>1. CASE n = next
      BY <1>1, <1>2, <1>3, <1>4, <1>5, <1>7, <1>8, <1>12, <2>1, NodesAreNumbers
    <2>2. CASE n # next
      <3>1. n \in live /\ n # it /\ prev_node'[n] = prev_node[n]
        BY <1>1, <1>5, <2>2
      <3>2. prev_node[n] \in live /\ next_node[prev_node[n]] = n /\ prev_node[n] < n
        BY <1>12, <3>1 DEF Inv, ListSound
      <3>3. prev_node[n] # it
        BY <2>2, <3>2
      <3>4. prev_node[n] # prev
        BY <1>2, <1>12, <3>1, <3>2
      <3> QED
        BY <1>1, <1>4, <3>1, <3>2, <3>3, <3>4
    <2> QED
      BY <2>1, <2>2
  <1>13. ASSUME NEW n \in live', next_node'[n] \notin {NULL, Junk}
         PROVE  next_node'[n] \in live' /\ prev_node'[next_node'[n]] = n
    <2>1. CASE n = prev
      BY <1>1, <1>2, <1>4, <1>5, <1>9, <1>13, <2>1, NodesAreNumbers
    <2>2. CASE n # prev
      <3>1. n \in live /\ n # it /\ next_node'[n] = next_node[n]
        BY <1>1, <1>4, <2>2
      <3>2. next_node[n] \in live /\ prev_node[next_node[n]] = n
        BY <1>13, <3>1 DEF Inv, ListSound
      <3>3. next_node[n] # it
        BY <2>2, <3>2
      <3>4. next_node[n] # next
        BY <1>3, <1>13, <3>1, <3>2
      <3> QED
        BY <1>1, <1>5, <3>1, <3>2, <3>3, <3>4
    <2> QED
      BY <2>1, <2>2
  <1>14. ListSound'
    BY <1>10, <1>11, <1>12, <1>13 DEF ListSound
  <1>15. TypeOK'
    BY <1>1, <1>4, <1>5, <1>10, <1>11 DEF Inv, TypeOK
  <1>16. ThreadsKeepInfo'
    BY <1>1 DEF Inv, TypeOK, ThreadsKeepInfo
  <1> QED
    BY <1>14, <1>15, <1>16 DEF Inv

(* The list and the threads stay sound under every step.                   *)
LEMMA Invariance == Spec => []Inv
  <1>1. Init => Inv
    BY NodesAreNumbers, MaxRequestsNat, ThreadMaxNat
    DEF Init, Inv, TypeOK, ListSound, ThreadsKeepInfo
  <1>2. Inv /\ [Next]_vars => Inv'
    <2> SUFFICES ASSUME Inv, [Next]_vars PROVE Inv'
      OBVIOUS
    <2> USE DEF list
    <2>1. ASSUME NEW n \in Nodes, ThreadStep(n) PROVE Inv'
      <3>1. CASE Work(n)
        BY <3>1 DEF Work, Inv, TypeOK, ListSound, ThreadsKeepInfo
      <3>2. CASE Send(n)
        <4>1. n \in 1..received /\ n \in live
          BY <3>2 DEF Send, Inv, TypeOK, ThreadsKeepInfo
        <4>2. TypeOK' /\ ListSound'
          BY <3>2, <4>1 DEF Send, Inv, TypeOK, ListSound
        <4>3. ThreadsKeepInfo'
          BY <3>2, <4>1 DEF Send, Inv, TypeOK, ThreadsKeepInfo
        <4> QED
          BY <4>2, <4>3 DEF Inv
      <3> QED
        BY <2>1, <3>1, <3>2 DEF ThreadStep
    <2>2. CASE Accept
      BY <2>2, AcceptStep
    <2>3. CASE Ignore
      BY <2>3, MaxRequestsNat DEF Ignore, Inv, TypeOK, ListSound, ThreadsKeepInfo
    <2>4. CASE End
      BY <2>4 DEF End, Inv, TypeOK, ListSound, ThreadsKeepInfo
    <2>5. CASE Running
      <3>1. prev_node[iterator] # NULL => prev_node[iterator] \in live
        BY <2>5 DEF Running, Inv, ListSound
      <3>2. live \subseteq Nodes
        BY MaxRequestsNat DEF Inv, TypeOK, Nodes
      <3> QED
        BY <2>5, <3>1, <3>2 DEF Running, Inv, TypeOK, ListSound, ThreadsKeepInfo
    <2>6. CASE JoinUndefined
      BY <2>6 DEF JoinUndefined, Inv, TypeOK, ListSound, ThreadsKeepInfo
    <2>7. CASE JoinAndDelete
      BY <2>7, DeleteStep
    <2>8. CASE ScanEnd
      BY <2>8 DEF ScanEnd, Inv, TypeOK, ListSound, ThreadsKeepInfo
    <2>9. CASE UNCHANGED vars
      BY <2>9 DEF vars, Inv, TypeOK, ListSound, ThreadsKeepInfo
    <2> QED
      BY <2>1, <2>2, <2>3, <2>4, <2>5, <2>6, <2>7, <2>8, <2>9 DEF Next, MainStep
  <1> QED
    BY <1>1, <1>2, PTL DEF Spec

(* However the threads finish while the list is scanned, its links and the *)
(* main thread's pointers into it lead to no freed node.                   *)
THEOREM ListStaysSound == Spec => []ListSound
  BY Invariance, PTL DEF Inv

(* A thread's data is freed only after the thread replied and was joined.  *)
THEOREM InfoOutlivesThread == Spec => []ThreadsKeepInfo
  BY Invariance, PTL DEF Inv
=============================================================================
