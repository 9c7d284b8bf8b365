------------------------------ MODULE MCScanner ------------------------------
(***************************************************************************)
(* Small instances of Scanner for TLC.                                     *)
(***************************************************************************)
EXTENDS Scanner

CONSTANTS r1, r2, r3,   \* the scan ranges
          b1, b2        \* two banks, e.g. the same object type on two units

Sub(b, s, n, k) == [bank |-> b, start |-> s, count |-> n, batch |-> k]

(* Two ranges of one bank that overlap and share its dead addresses. *)
Overlapping == [r \in Ranges |-> IF r = r1 THEN Sub(b1, 0, 3, 3) ELSE Sub(b1, 1, 4, 2)]

(* One address read by both ranges. *)
OneShared == [r \in Ranges |-> Sub(b1, 0, 1, 1)]

(* Two ranges share an address of one unit; a third reads, on another,     *)
(* the address that is not shared.                                         *)
TwoUnits ==
  [r \in Ranges |-> CASE r = r1 -> Sub(b1, 0, 2, 2)
                      [] r = r2 -> Sub(b1, 1, 1, 1)
                      [] r = r3 -> Sub(b2, 0, 1, 1)]

(* Where the device answers, from when on, and where it only fails. *)
HolesInOverlap == [b \in Bank |-> {0, 2, 3, 4}]
LateInOverlap  == [b \in Bank |-> {0, 2, 4}]
BrokenAtTheEnd == [b \in Bank |-> {4}]
HolesPerUnit   == [b \in Bank |-> IF b = b1 THEN {0, 1} ELSE {0}]
LatePerUnit    == [b \in Bank |-> IF b = b1 THEN {1} ELSE {0}]
NoHoles        == [b \in Bank |-> Address]
NoneBroken     == [b \in Bank |-> {}]

(* Values are only ever compared with others of the same address, so it    *)
(* makes no difference which of the two an address starts with.            *)
AllZero == {[b \in Bank |-> [a \in Address |-> 0]]}
=============================================================================
