------------------------- MODULE InputRoutineProofs -------------------------
(* The two threads of a chat client, for any number of lines.              *)
EXTENDS InputRoutine, TLAPS

(* What holds of the buffer, the flag and the mutex between any two steps. *)
LEMMA Invariance == InputSpec => [](InputTypes /\ Inv)
  <1>1. InputInit => InputTypes /\ Inv
    BY DEF InputInit, InputTypes, Inv, Typing, Torn
  <1>2. InputTypes /\ Inv /\ [InputNext]_input_vars => (InputTypes /\ Inv)'
    <2> SUFFICES ASSUME InputTypes, Inv, [InputNext]_input_vars
                 PROVE  InputTypes' /\ Inv'
      OBVIOUS
    <2> USE DEF InputTypes, Inv, Typing
    <2>1. CASE Lock
      BY <2>1 DEF Lock
    <2>2. CASE FgetsBegins
      BY <2>2 DEF FgetsBegins, Torn
    <2>3. CASE FgetsEnds
      BY <2>3 DEF FgetsEnds
    <2>4. CASE NoNewline
      BY <2>4 DEF NoNewline
    <2>5. CASE ClearFlag
      <3>1. 1..count \subseteq 1..(count + 1)
        OBVIOUS
      <3>2. taken \in Seq(1..(count + 1))
        BY <3>1
      <3> QED
        BY <2>5, <3>2 DEF ClearFlag
    <2>6. CASE Unlock
      BY <2>6 DEF Unlock
    <2>7. CASE Poll
      BY <2>7 DEF Poll
    <2>8. CASE Enter
      BY <2>8 DEF Enter
    <2>9. CASE TestFlag
      BY <2>9 DEF TestFlag
    <2>10. CASE TryLock
      BY <2>10 DEF TryLock
    <2>11. CASE Copy
      BY <2>11 DEF Copy
    <2>12. CASE SetFlag
      BY <2>12 DEF SetFlag
    <2>13. CASE Release
      BY <2>13 DEF Release
    <2>14. CASE Turn
      BY <2>14 DEF Turn
    <2>15. CASE Leave
      BY <2>15 DEF Leave
    <2>16. CASE Exit
      BY <2>16 DEF Exit
    <2>17. CASE UNCHANGED input_vars
      BY <2>17 DEF input_vars
    <2> QED
      BY <2>1, <2>2, <2>3, <2>4, <2>5, <2>6, <2>7, <2>8, <2>9,
         <2>10, <2>11, <2>12, <2>13, <2>14, <2>15, <2>16, <2>17
         DEF InputNext, TypingStep, MainStep
  <1> QED
    BY <1>1, <1>2, PTL DEF InputSpec

(* The main thread never copies a line that is still being typed.          *)
THEOREM CopiesWholeLines == InputSpec => []NeverTorn
  <1>1. InputTypes /\ Inv => NeverTorn
    BY DEF InputTypes, Inv, NeverTorn
  <1> QED
    BY <1>1, Invariance, PTL

(* Neither thread keeps the mutex while it waits for the other to set or   *)
(* to clear the flag (input_routine, and the loops that try the mutex).    *)
THEOREM NobodyPollsLocked == InputSpec => []PollsUnlocked
  <1>1. InputTypes /\ Inv => PollsUnlocked
    BY DEF InputTypes, Inv, PollsUnlocked, Polls, Typing
  <1> QED
    BY <1>1, Invariance, PTL

(* With or without the mutex, the typing and the main thread hand lines    *)
(* over one by one: each is taken once, whole and in order.                *)
THEOREM ImplementsHandover == InputSpec => HandoverSpec
  <1> USE DEF Place!Next, Place!vars, Place!PutLine, Place!TakeLine
  <1>1. InputInit => Place!Init
    BY DEF InputInit, Place!Init
  <1>2. InputTypes /\ Inv /\ [InputNext]_input_vars => [Place!Next]_(Place!vars)
    <2> SUFFICES ASSUME InputTypes, Inv, [InputNext]_input_vars
                 PROVE  [Place!Next]_(Place!vars)
      OBVIOUS
    <2> USE NothingIsNoLine DEF InputTypes, Inv
    <2>1. CASE Lock
      BY <2>1 DEF Lock
    <2>2. CASE FgetsBegins
      BY <2>2 DEF FgetsBegins
    <2>3. CASE FgetsEnds
      BY <2>3 DEF FgetsEnds
    <2>4. CASE NoNewline
      BY <2>4 DEF NoNewline
    <2>5. CASE ClearFlag
      BY <2>5 DEF ClearFlag
    <2>6. CASE Unlock
      BY <2>6 DEF Unlock
    <2>7. CASE Poll
      BY <2>7 DEF Poll
    <2>8. CASE Enter
      BY <2>8 DEF Enter
    <2>9. CASE TestFlag
      BY <2>9 DEF TestFlag
    <2>10. CASE TryLock
      BY <2>10 DEF TryLock
    <2>11. CASE Copy
      BY <2>11 DEF Copy
    <2>12. CASE SetFlag
      BY <2>12 DEF SetFlag
    <2>13. CASE Release
      BY <2>13 DEF Release
    <2>14. CASE Turn
      BY <2>14 DEF Turn
    <2>15. CASE Leave
      BY <2>15 DEF Leave
    <2>16. CASE Exit
      BY <2>16 DEF Exit
    <2>17. CASE UNCHANGED input_vars
      BY <2>17 DEF input_vars
    <2> QED
      BY <2>1, <2>2, <2>3, <2>4, <2>5, <2>6, <2>7, <2>8, <2>9,
         <2>10, <2>11, <2>12, <2>13, <2>14, <2>15, <2>16, <2>17
         DEF InputNext, TypingStep, MainStep
  <1> QED
    BY <1>1, <1>2, Invariance, PTL DEF InputSpec, HandoverSpec, Place!Spec
=============================================================================
