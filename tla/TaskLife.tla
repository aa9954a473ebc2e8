------------------------------ MODULE TaskLife ------------------------------
(* What becomes of a task, without the files, the index and the events it is  *)
(* kept in: it is created in some status, moves on from there, and is archived *)
(* or deleted for good.                                                       *)
CONSTANT Tasks

VARIABLE life   \* what has become of each task

Statuses == {"planned", "in_progress", "done", "cancelled"}

Finished == {"done", "cancelled"}

Init == life \in [Tasks -> {"none", "planned"}]

Becomes(t, next) == life' = [life EXCEPT ![t] = next]

Create(t) ==
    /\ life[t] = "none"
    /\ \E s \in Statuses : Becomes(t, s)

(* On to work or to an end, never back.                                       *)
Move(t) ==
    /\ life[t] \in Statuses \ Finished
    /\ \E s \in Finished \cup {"in_progress"} : Becomes(t, s)

Archive(t) == life[t] \in Statuses /\ Becomes(t, "archived")

Delete(t) == life[t] \in Statuses /\ Becomes(t, "deleted")

Next == \E t \in Tasks : Create(t) \/ Move(t) \/ Archive(t) \/ Delete(t)

Spec == Init /\ [][Next]_life
=============================================================================
