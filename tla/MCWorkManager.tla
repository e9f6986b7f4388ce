---------------------------- MODULE MCWorkManager ----------------------------
(***************************************************************************)
(* A small instance of WorkManager.                                         *)
(***************************************************************************)
EXTENDS WorkManager, TLC

CONSTANTS k1, k2, w1, w2, c1, c2, a1, a2

\* Two calls, the second with a work that was done before.
TwoCalls == <<<<k1, k2>>, <<k1>>>>
=============================================================================
