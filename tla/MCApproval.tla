----------------------------- MODULE MCApproval -----------------------------
(* Approval with small instances.                                             *)
EXTENDS Approval
=============================================================================
