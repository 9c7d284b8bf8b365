---------------------------- MODULE MCSimulator ----------------------------
(***************************************************************************)
(* A small instance of Simulator for TLC: two maps, noise of all sorts.    *)
(***************************************************************************)
EXTENDS Simulator

(* A map with a gap, a heartbeat that starts at 2 and a register named     *)
(* twice (2 and "2"); coils and discrete inputs are left out.              *)
Sparse ==
  [coils |-> <<>>, discrete |-> <<>>,
   holding |-> <<Fixed(0, <<1, 2>>), Live(1, "heartbeat", 2, 0, 0)>>,
   inputs |-> <<Live(2, "heartbeat", 0, 0, 0), Live(2, "random", 0, 0, 1)>>]

(* One whose second rule is upside down, with a heartbeat on either side.  *)
Faulty ==
  [coils |-> <<Fixed(1, <<1>>)>>, discrete |-> <<>>,
   holding |-> <<Live(0, "heartbeat", 0, 0, 0), Live(2, "random", 1, 2, 1)>>,
   inputs |-> <<Live(1, "heartbeat", 0, 0, 0)>>]

MCMaps == {Sparse, Faulty}

Delay(min, max) == [key |-> "delay", min |-> min, max |-> max, rate |-> "never"]
Error(rate) == [key |-> "error", min |-> 0, max |-> 0, rate |-> rate]

(* None; a delay put right and errors; a delay upside down; and what       *)
(* parse_spec() refuses.                                                   *)
MCNoise ==
  {<<>>, <<Delay(2, 1), Delay(1, 1), Error("sometimes")>>, <<Delay(2, 1)>>,
   <<Error("beyond")>>, <<[Delay(1, 1) EXCEPT !.key = "gaps"]>>}

MCValue == {2}
=============================================================================
