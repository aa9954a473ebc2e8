--------------------------- MODULE MCSessionImport --------------------------
(* SessionImport with small instances.                                        *)
EXTENDS SessionImport
=============================================================================
