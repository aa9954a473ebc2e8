----------------------------- MODULE MCLockfile -----------------------------
(* Lockfile with a few processes.                                             *)
EXTENDS Lockfile
=============================================================================
