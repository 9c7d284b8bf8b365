----------------------------- MODULE MCDiscovery -----------------------------
(***************************************************************************)
(* Small instances of Discovery for TLC.                                   *)
(***************************************************************************)
EXTENDS Discovery

CONSTANTS hr, co     \* two object types

TwoTypes == <<hr, co>>
OneType  == <<hr>>

(* Unit 2 does not exist, but is configured. *)
OneAndTwo == <<1, 2>>
OnlyOne   == <<1>>

(* Holes alone, in a row, at the end of a batch and of the range. *)
Holes == [u \in Unit |-> [t \in {hr, co} |->
            IF t = hr THEN {0, 1, 3, 4, 6} ELSE {2, 3, 4, 5, 6, 7}]]

Everything == [u \in Unit |-> [t \in {hr, co} |-> 0 .. Top]]
=============================================================================
