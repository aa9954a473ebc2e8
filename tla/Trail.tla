------------------------------- MODULE Trail --------------------------------
(* What a session's provenance promises its readers: a sequence of events     *)
(* that only ever grows at its end until it is sealed, and never changes      *)
(* again.  A session that failed to come into being leaves nothing.           *)
EXTENDS Naturals, Sequences

VARIABLES
    trail,   \* the events
    sealed   \* is the session over?

Init == trail = <<>> /\ sealed = FALSE

Extends(long, short) ==
    Len(short) <= Len(long) /\ \A i \in 1 .. Len(short) : long[i] = short[i]

Record ==
    /\ ~sealed
    /\ Extends(trail', trail)
    /\ UNCHANGED sealed

Seal ==
    /\ ~sealed
    /\ sealed' = TRUE
    /\ UNCHANGED trail

Discard ==
    /\ ~sealed
    /\ trail' = <<>>
    /\ UNCHANGED sealed

Next == Record \/ Seal \/ Discard

Spec == Init /\ [][Next]_<<trail, sealed>>
=============================================================================
