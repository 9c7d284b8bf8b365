------------------------------ MODULE MCHistory ------------------------------
(***************************************************************************)
(* The small instances of Scanner, with the record of the past.            *)
(***************************************************************************)
EXTENDS MCScanner, ScannerHistory
=============================================================================
