-------------------------------- MODULE Matrix --------------------------------
(***************************************************************************)
(* The matrix tests of main.c over spiral_matrix/source: a square matrix   *)
(* is filled in a spiral, printed, filled again below its other diagonal   *)
(* and printed; and one with negative numbers is printed.                  *)
(***************************************************************************)
EXTENDS Integers, Sequences, FiniteSetsExt, TLC

CONSTANTS
    MaxSize,        \* bound on the size of the square matrix (5 in the code)
    Negatives       \* the array of test_print_with_negatievs

VARIABLES
    matrix_size,
    parray,         \* row after row, from 0
    walk,           \* the variables of fill_spiral_matrix
    stage           \* "start", "spiral", "filled", "diagonal" or "printed"

vars == <<matrix_size, parray, walk, stage>>

-----------------------------------------------------------------------------
(* malloc leaves the matrix unwritten; 0 stands for that.                  *)
test_1 ==
    /\ stage = "start"
    /\ matrix_size' \in 1..MaxSize
    /\ parray' = [i \in 0..(matrix_size' * matrix_size' - 1) |-> 0]
    /\ walk' = [right |-> matrix_size', left |-> -1, down |-> matrix_size', up |-> 0,
                x |-> 0, y |-> 0, state |-> 0, count |-> 0]
    /\ stage' = "spiral"

test_print_with_negatievs ==
    /\ stage = "start"
    /\ parray' = [i \in 0..(Len(Negatives) - 1) |-> Negatives[i + 1]]
    /\ stage' = "printed"
    /\ UNCHANGED <<matrix_size, walk>>

(* The next n cells, from column x and row y in steps of dx and dy, get    *)
(* the next n numbers; a cell outside the matrix would be lost.            *)
Write(n, dx, dy) ==
    LET cell(k) == (walk.y + k * dy) * matrix_size + walk.x + k * dx IN
    /\ parray' = [i \in DOMAIN parray |->
           IF \E k \in 0..(n - 1) : cell(k) = i
           THEN walk.count + 1 + (CHOOSE k \in 0..(n - 1) : cell(k) = i) ELSE parray[i]]
    /\ UNCHANGED <<matrix_size, stage>>

Turning(state) == stage = "spiral" /\ walk.state = state /\ walk.count < matrix_size * matrix_size

(* Each turn of the spiral: a loop that runs past its last cell, the step  *)
(* back from there, and the step into the next row or column.              *)
GoRight ==
    LET n == walk.right - walk.x IN
    /\ Turning(0)
    /\ Write(n, 1, 0)
    /\ walk' = [walk EXCEPT !.x = @ + n - 1, !.y = @ + 1, !.right = @ - 1, !.state = 1,
                            !.count = @ + n]

GoDown ==
    LET n == walk.down - walk.y IN
    /\ Turning(1)
    /\ Write(n, 0, 1)
    /\ walk' = [walk EXCEPT !.y = @ + n - 1, !.x = @ - 1, !.down = @ - 1, !.state = 2,
                            !.count = @ + n]

GoLeft ==
    LET n == walk.x - walk.left IN
    /\ Turning(2)
    /\ Write(n, -1, 0)
    /\ walk' = [walk EXCEPT !.x = @ - n + 1, !.y = @ - 1, !.left = @ + 1, !.state = 3,
                            !.count = @ + n]

GoUp ==
    LET n == walk.y - walk.up IN
    /\ Turning(3)
    /\ Write(n, 0, -1)
    /\ walk' = [walk EXCEPT !.y = @ - n + 1, !.x = @ + 1, !.up = @ + 1, !.state = 0,
                            !.count = @ + n]

SpiralFilled ==
    /\ stage = "spiral" /\ walk.count >= matrix_size * matrix_size
    /\ stage' = "filled"
    /\ UNCHANGED <<matrix_size, parray, walk>>

(* memset and fill_diagonal_matrix.                                        *)
fill_diagonal_matrix ==
    /\ stage = "filled"
    /\ parray' = [c \in DOMAIN parray |->
           IF \E i \in 0..(matrix_size - 1) :
                \E j \in (matrix_size - 1 - i)..(matrix_size - 1) : c = i * matrix_size + j
           THEN 1 ELSE 0]
    /\ stage' = "printed"
    /\ UNCHANGED <<matrix_size, walk>>

-----------------------------------------------------------------------------
(* print_matrix.c.  log10 of an int is exact where its floor changes.      *)
Abs(a) == IF a < 0 THEN -a ELSE a
FloorLog10(m) == Max({k \in 0..9 : 10^k <= m})

(* Mutant: the minus sign is not counted.                                  *)
number_length_unsigned(a) == IF a = 0 THEN 1 ELSE FloorLog10(Abs(a)) + 1

number_length(a) ==
    IF a = 0 THEN 1 ELSE FloorLog10(Abs(a)) + IF a < 0 THEN 2 ELSE 1
max_element_length == Max({1} \cup {number_length(parray[i]) : i \in DOMAIN parray})

-----------------------------------------------------------------------------
Init ==
    /\ matrix_size = 0
    /\ parray = <<>>
    /\ walk = [right |-> 0, left |-> 0, down |-> 0, up |-> 0, x |-> 0, y |-> 0,
               state |-> 0, count |-> 0]
    /\ stage = "start"

Next ==
    \/ test_1 \/ test_print_with_negatievs
    \/ GoRight \/ GoDown \/ GoLeft \/ GoUp \/ SpiralFilled \/ fill_diagonal_matrix

Spec == Init /\ [][Next]_vars

-----------------------------------------------------------------------------
(* A spiral: every number is in just one cell, 1 in the corner, and each   *)
(* next number is straight ahead, or to the right where ahead is the edge  *)
(* or a cell numbered before.                                              *)
At(v) == CHOOSE i \in DOMAIN parray : parray[i] = v
Row(v) == At(v) \div matrix_size
Col(v) == At(v) % matrix_size
Heading(v) == IF v = 1 THEN <<0, 1>> ELSE <<Row(v) - Row(v - 1), Col(v) - Col(v - 1)>>
Ahead(v) == <<Row(v) + Heading(v)[1], Col(v) + Heading(v)[2]>>
Free(v, cell) ==
    /\ cell \in (0..(matrix_size - 1)) \X (0..(matrix_size - 1))
    /\ parray[cell[1] * matrix_size + cell[2]] > v
IsSpiral ==
    /\ {parray[i] : i \in DOMAIN parray} = 1..(matrix_size * matrix_size)
    /\ At(1) = 0
    /\ \A v \in 1..(matrix_size * matrix_size - 1) :
           <<Row(v + 1), Col(v + 1)>> =
               IF Free(v, Ahead(v)) THEN Ahead(v)
               ELSE <<Row(v) + Heading(v)[2], Col(v) - Heading(v)[1]>>

(* The four turns, whose limits move in while they go round, fill the      *)
(* matrix in a spiral, for every size.                                     *)
FillsSpiral == stage = "filled" => IsSpiral

(* No number prints longer than the width found for its column: the count  *)
(* of blanks behind it, which has no sign, is never below one.             *)
PrintsAligned ==
    \A i \in DOMAIN parray : Len(ToString(parray[i])) <= max_element_length
=============================================================================
