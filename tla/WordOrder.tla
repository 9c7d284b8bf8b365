----------------------------- MODULE WordOrder -----------------------------
(***************************************************************************)
(* Values of several registers: how the simulator lays their bytes out and *)
(* how the decoder puts them together again.  A register is its high byte  *)
(* and its low byte.  What number or text the bytes mean is left out, for  *)
(* nothing depends on it.                                                  *)
(***************************************************************************)
EXTENDS Integers, Sequences

CONSTANT Null  \* the byte zero

Order == {"ABCD", "CDAB", "BADC", "DCBA"}
SwapsWords(order) == order \in {"CDAB", "DCBA"}
SwapsBytes(order) == order \in {"BADC", "DCBA"}

(* Slip: word swap and byte swap mistaken for each other. *)
ApplyOtherOrder(raw, order) ==
  CASE order = "ABCD" -> <<<<raw[1], raw[2]>>, <<raw[3], raw[4]>>>>
    [] order = "CDAB" -> <<<<raw[2], raw[1]>>, <<raw[4], raw[3]>>>>
    [] order = "BADC" -> <<<<raw[3], raw[4]>>, <<raw[1], raw[2]>>>>
    [] order = "DCBA" -> <<<<raw[4], raw[3]>>, <<raw[2], raw[1]>>>>

(* The simulator's _apply_word_order() for four bytes. *)
ApplyWordOrder(raw, order) ==
  CASE order = "ABCD" -> <<<<raw[1], raw[2]>>, <<raw[3], raw[4]>>>>
    [] order = "CDAB" -> <<<<raw[3], raw[4]>>, <<raw[1], raw[2]>>>>
    [] order = "BADC" -> <<<<raw[2], raw[1]>>, <<raw[4], raw[3]>>>>
    [] order = "DCBA" -> <<<<raw[4], raw[3]>>, <<raw[2], raw[1]>>>>

(* _ordered_bytes_32(), the decoder's table. *)
OrderedBytes32(registers, order) ==
  LET a == registers[1][1]  b == registers[1][2]
      c == registers[2][1]  d == registers[2][2]
  IN  CASE order = "ABCD" -> <<a, b, c, d>>
        [] order = "CDAB" -> <<c, d, a, b>>
        [] order = "BADC" -> <<b, a, d, c>>
        [] order = "DCBA" -> <<d, c, b, a>>

(* The loop of _ordered_bytes_64() and of to_ascii_string(), for any       *)
(* number of registers.                                                    *)
OrderedBytes(registers, order) ==
  LET n == Len(registers)
  IN  [k \in 1 .. 2 * n |->
         LET word == (k + 1) \div 2
             from == IF SwapsWords(order) THEN n + 1 - word ELSE word
             high == (k % 2 = 1) # SwapsBytes(order)
         IN  registers[from][IF high THEN 1 ELSE 2]]

-----------------------------------------------------------------------------
(* _encode_value() of an int16, and to_int16(). *)
EncodeShort(number) == number % 65536
ToInt16(register) == IF register < 32768 THEN register ELSE register - 65536

(* The bytes a string takes in the map: what "length" says, or an even     *)
(* number just large enough.                                               *)
TextSize(text, length) == IF length > 0 THEN length ELSE Len(text) + (Len(text) % 2)

Padded(text, size) == [i \in 1 .. size |-> IF i <= Len(text) THEN text[i] ELSE Null]

(* _encode_value() of a string: the word order of the entry is not looked  *)
(* at, and the last character of an odd size becomes the low byte.         *)
EncodeText(text, length) ==
  LET size == TextSize(text, length)
      bytes == Padded(text, size)
  IN  [r \in 1 .. (size + 1) \div 2 |->
         IF 2 * r <= size THEN <<bytes[2 * r - 1], bytes[2 * r]>> ELSE <<Null, bytes[size]>>]

(* rstrip("\x00"). *)
Trim(bytes) ==
  LET n == CHOOSE m \in 0 .. Len(bytes) :
             /\ m > 0 => bytes[m] # Null
             /\ \A i \in m + 1 .. Len(bytes) : bytes[i] = Null
  IN  SubSeq(bytes, 1, n)

(* to_ascii_string(). *)
DecodeText(registers, order) == Trim(OrderedBytes(registers, order))
=============================================================================
