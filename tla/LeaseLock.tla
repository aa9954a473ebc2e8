----------------------------- MODULE LeaseLock ------------------------------
(* What the lockfile gives its callers, without the file: a lease.  At most   *)
(* one process holds it, but a holder can be displaced without being told,    *)
(* and a displaced holder's release takes the lease from whoever has it by    *)
(* then.                                                                      *)
CONSTANT Procs

VARIABLES
    held,   \* the holder of the lease, if any
    lost    \* former holders that still believe they hold it

lease == <<held, lost>>

Init == held = {} /\ lost = {}

Acquire(p) ==
    /\ held = {}
    /\ p \notin lost
    /\ held' = {p}
    /\ UNCHANGED lost

(* The holder releases, or dies.                                              *)
Drop(p) ==
    /\ p \in held
    /\ held' = {}
    /\ UNCHANGED lost

(* A former holder releases, displacing the present one, or dies.             *)
DropLost(p) ==
    /\ p \in lost
    /\ \/ held' = {} /\ lost' = (lost \cup held) \ {p}
       \/ lost' = lost \ {p} /\ UNCHANGED held

(* A reclaimer removes the lock under the holder.                             *)
Displace ==
    /\ held # {}
    /\ held' = {}
    /\ lost' = lost \cup held

Next ==
    \/ \E p \in Procs : Acquire(p) \/ Drop(p) \/ DropLost(p)
    \/ Displace

Spec == Init /\ [][Next]_lease
=============================================================================
