----------------------------- MODULE MCTaskStore ----------------------------
(* TaskStore with small instances.                                            *)
EXTENDS TaskStore, TLC

CONSTANTS old, new

(* What processes do to a task there is and to one that is created.           *)
AllCommands ==
    {"status", "reconcile", "refresh", "delete", "archive", "list"} \X {old}
    \cup {"create", "attach", "edit"} \X {new}
Symmetry == Permutations(Procs)
=============================================================================
