---------------------------- MODULE MCSessionLog ----------------------------
(* SessionLog for a creator and a few attaching commands.                     *)
EXTENDS SessionLog
=============================================================================
