------------------------------ MODULE Modicon ------------------------------
(***************************************************************************)
(* The four object types and Modicon addresses: 40001 is holding register  *)
(* 0, and from the 10000th point of a type on there are six digits.        *)
(***************************************************************************)
EXTENDS Integers

ObjectType == {"Coil", "DiscreteInput", "InputRegister", "HoldingRegister"}

(* Addresses and registers are 16 bits wide; addresses count from 0. *)
Top == 65535
Word == 0 .. Top
Point == [type : ObjectType, address : Word]

Prefix(type) ==
  CASE type = "Coil" -> 0
    [] type = "DiscreteInput" -> 1
    [] type = "InputRegister" -> 3
    [] type = "HoldingRegister" -> 4

(* Slip: six digits from 9999 on. *)
ToModiconEarly(p) ==
  LET oneBased == p.address + 1
      six == oneBased >= 9999
  IN  [digits |-> IF six THEN 6 ELSE 5,
       number |-> Prefix(p.type) * (IF six THEN 100000 ELSE 10000) + p.address]

(* to_modicon_string(): a number, and how many digits it is printed with,  *)
(* zeros in front.                                                         *)
ToModicon(p) ==
  LET oneBased == p.address + 1
      six == oneBased > 9999
  IN  [digits |-> IF six THEN 6 ELSE 5,
       number |-> Prefix(p.type) * (IF six THEN 100000 ELSE 10000) + oneBased]

(* _PREFIX_TO_TYPE, as the set of types that have a prefix. *)
TypesWith(prefix) == {t \in ObjectType : Prefix(t) = prefix}

(* The answer for a number that from_modicon() refuses. *)
NoPoint == [type |-> "none", address |-> 0]

(* from_modicon(): how many digits were typed it cannot see. *)
FromModicon(n) ==
  LET base == IF n >= 100000 THEN 100000 ELSE 10000
      address == (n % base) - 1
      types == TypesWith(n \div base)
  IN  IF n > 0 /\ address \in Word /\ types # {}
      THEN [type |-> CHOOSE t \in types : TRUE, address |-> address]
      ELSE NoPoint

(* parse(): int() drops the zeros in front. *)
Parse(text) == FromModicon(text.number)
=============================================================================
