---------------------------- MODULE MCLiveStream ----------------------------
(***************************************************************************)
(* Small instances of LiveStream for TLC.                                  *)
(***************************************************************************)
EXTENDS LiveStream

CONSTANTS k1, k2, t1, t2, u1, u2, u3
=============================================================================
