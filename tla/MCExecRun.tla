------------------------------ MODULE MCExecRun -----------------------------
(* ExecRun with small instances.                                              *)
EXTENDS ExecRun
=============================================================================
