----------------------------- MODULE ValueMirror -----------------------------
(***************************************************************************)
(* What the scanning side of the driver promises to its readers: what the  *)
(* table of latest values shows for an address is what the device has held *)
(* at that address at some moment, and as time goes on the moment only     *)
(* moves forward.  The table may lag behind; nothing in it is invented,    *)
(* shifted to a neighbouring address or to another bank, or put back to an *)
(* older value by an answer that was on its way for long.  Scanner.tla is  *)
(* shown to implement this.                                                *)
(***************************************************************************)
EXTENDS Naturals, Sequences

CONSTANTS Bank,      \* (unit id, object type) pairs
          Address,   \* register or coil addresses
          Value,     \* what a register or coil may hold
          NoValue    \* nothing known yet

VARIABLES past,      \* what the device has held, one state after the other
          copy,      \* what the table shows
          since      \* where in past that is from, 0 for what is not known yet

mirrorVars == <<past, copy, since>>

Held == [Bank -> [Address -> Value]]

MirrorInit ==
  /\ \E source \in Held : past = <<source>>
  /\ copy = [b \in Bank |-> [a \in Address |-> NoValue]]
  /\ since = [b \in Bank |-> [a \in Address |-> 0]]

(* The device changes by itself; nobody asks the mirror. *)
DeviceMoves ==
  /\ \E source \in Held : past' = Append(past, source)
  /\ UNCHANGED <<copy, since>>

(* Some addresses of one bank are brought forward to what the device held  *)
(* at moment i, in one go; none of them shows anything later.              *)
Copy ==
  /\ \E b \in Bank, S \in SUBSET Address, i \in DOMAIN past :
       /\ \A a \in S : since[b][a] <= i
       /\ copy' = [copy EXCEPT ![b] = [a \in Address |-> IF a \in S THEN past[i][b][a] ELSE @[a]]]
       /\ since' = [since EXCEPT ![b] = [a \in Address |-> IF a \in S THEN i ELSE @[a]]]
  /\ UNCHANGED past

MirrorNext == DeviceMoves \/ Copy

MirrorSpec == MirrorInit /\ [][MirrorNext]_mirrorVars
=============================================================================
