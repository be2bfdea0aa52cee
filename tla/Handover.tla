------------------------------ MODULE Handover ------------------------------
(***************************************************************************)
(* A place for one line between the user who types and the program that    *)
(* takes: every line is taken once, as typed, in the order typed.          *)
(***************************************************************************)
EXTENDS Naturals, Sequences

CONSTANT Nothing

VARIABLES
    slot,    \* the line in the place, or Nothing
    count,   \* number of lines put so far; the k-th line is k
    taken    \* the lines taken, in order

vars == <<slot, count, taken>>

Init == slot = Nothing /\ count = 0 /\ taken = <<>>

PutLine ==
    /\ slot = Nothing
    /\ count' = count + 1
    /\ slot' = count'
    /\ UNCHANGED taken

TakeLine ==
    /\ slot # Nothing
    /\ taken' = Append(taken, slot)
    /\ slot' = Nothing
    /\ UNCHANGED count

Next == PutLine \/ TakeLine

Spec == Init /\ [][Next]_vars
=============================================================================
