----------------------------- MODULE MCBasicTxn -----------------------------
(* Instances of BasicTxn.                                                  *)
EXTENDS BasicTxn

CONSTANTS k1, k2, b1, t1, t2
=============================================================================
