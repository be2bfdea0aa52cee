-------------------------------- MODULE Bytes --------------------------------
(***************************************************************************)
(* The byte functions (modifying_bytes/source/modifying_bits.c) and the    *)
(* tests of main.c that call them: a word of four bytes, of Base values    *)
(* each (256 in the code).                                                 *)
(***************************************************************************)
EXTENDS Integers, Sequences

CONSTANT Base
Byte == 0..(Base - 1)
Places == 0..3

(* What a shift by n bytes, 8 * n bits, multiplies with.                   *)
Shifted(n) == <<1, Base, Base * Base, Base * Base * Base, Base * Base * Base * Base>>[n + 1]
Width == Shifted(4)

VARIABLE word
vars == <<word>>

-----------------------------------------------------------------------------
(* value >> (byte_number * 8) & 0xFF                                       *)
get_byte_shift(value, byte_number) == (value \div Shifted(byte_number)) % Base

(* The bytes as they lie in memory, least significant first.               *)
InMemory(value) == [i \in Places |-> (value % Shifted(i + 1)) \div Shifted(i)]
get_byte_pointer(value, byte_number) == InMemory(value)[byte_number]

(* Mutant: the eraser is not shifted.                                      *)
ErasedLowest(value, byte_number) == (value \div Base) * Base

(* value & (0xFFFFFF00 << 8n): the eraser has zeros in all lower places.   *)
Erased(value, byte_number) ==
    LET cut == Shifted(byte_number + 1) IN (value \div cut) * cut

edit_byte_shift(value, new_byte_value, byte_number) ==
    (Erased(value, byte_number) + new_byte_value * Shifted(byte_number)) % Width

(* edit_byte_pointer returns the value as it is and is left out.           *)

Init == word = 0

(* test_byte_edit and the getter tests take constants for word; any may be *)
(* taken here.                                                             *)
Edit ==
    \E b \in Byte, n \in Places : word' = edit_byte_shift(word, b, n)

Next == Edit

Spec == Init /\ [][Next]_vars

-----------------------------------------------------------------------------
(* Both getters read the same byte.  An edited byte is the new one and the *)
(* bytes above it are kept; those below become 0, which the tests do not   *)
(* show: they print the edited byte only.                                  *)
BytesSound ==
    \A n \in Places :
        /\ get_byte_shift(word, n) = get_byte_pointer(word, n)
        /\ \A b \in Byte :
              LET edited == edit_byte_shift(word, b, n) IN
              \A m \in Places :
                  get_byte_shift(edited, m) = IF m = n THEN b
                                              ELSE IF m > n THEN get_byte_shift(word, m) ELSE 0
=============================================================================
