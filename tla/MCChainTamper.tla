--------------------------- MODULE MCChainTamper ----------------------------
(* Hand edits of short logs.                                                  *)
EXTENDS ChainTamper
=============================================================================
