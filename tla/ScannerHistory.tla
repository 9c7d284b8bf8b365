--------------------------- MODULE ScannerHistory ---------------------------
(***************************************************************************)
(* The polling engine together with a record of the past: which states the *)
(* device went through and which of them each value of the table is from.  *)
(* The record only watches, it keeps no step of Scanner from happening.    *)
(***************************************************************************)
EXTENDS Scanner

VARIABLES
  past,    \* what the device has held, newest last
  asOf,    \* per range: where in past the answer on its way is from, or 0
  since    \* per address: where in past the value in the table is from, or 0

historyVars == <<vars, past, asOf, since>>

HistoryInit ==
  /\ Init
  /\ past = <<dev>>
  /\ asOf = [r \in Ranges |-> 0]
  /\ since = [b \in Bank |-> [a \in Address |-> 0]]

(* Whose answer came or went in this step. *)
Concerned == CHOOSE r \in Ranges : reply'[r] # reply[r]

Recorded ==
  /\ past' = IF dev' = dev THEN past ELSE Append(past, dev')
  /\ asOf' = [r \in Ranges |->
                CASE reply'[r] = NoReply -> 0
                  [] reply'[r] # NoReply /\ reply[r] = NoReply -> Len(past)
                  [] OTHER -> asOf[r]]
  /\ since' = [b \in Bank |-> [a \in Address |->
                 IF latest'[b][a] = latest[b][a] THEN since[b][a] ELSE asOf[Concerned]]]

HistoryNext == Next /\ Recorded

HistorySpec == HistoryInit /\ [][HistoryNext]_historyVars

(* What the table shows of an address is what the device held there at     *)
(* some moment, and no answer puts an older value in the place of a newer  *)
(* one, although the device goes on while an answer is on its way and      *)
(* ranges that overlap write to the same entries (_read_and_emit, the live *)
(* sink's emit).                                                           *)
Mirror == INSTANCE ValueMirror WITH copy <- latest
MirrorsDevice == Mirror!MirrorSpec
=============================================================================
