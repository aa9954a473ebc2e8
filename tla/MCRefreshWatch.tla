--------------------------- MODULE MCRefreshWatch ---------------------------
(* RefreshWatch with a few logs.                                              *)
EXTENDS RefreshWatch
=============================================================================
