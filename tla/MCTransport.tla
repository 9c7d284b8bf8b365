---------------------------- MODULE MCTransport ----------------------------
(***************************************************************************)
(* Small instances of Transport for TLC.                                   *)
(***************************************************************************)
EXTENDS Transport

CONSTANTS s1, s2, w1,            \* scanning tasks and a write request
          c1, c2, c3, c4, c5     \* client objects: one more than can be in use

(* As the example configuration has them but with writes on, reconnecting  *)
(* without limit; and with writes off, one attempt to reconnect.           *)
MCOptions ==
  {[allow_writes |-> TRUE, max_attempts |-> -1],
   [allow_writes |-> FALSE, max_attempts |-> 1]}
=============================================================================
