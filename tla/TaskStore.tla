----------------------------- MODULE TaskStore -----------------------------
(* The task files, their archive, the index that caches which there are, and  *)
(* the events that record what became of a task.  `basou task` commands run   *)
(* at the same time; users edit task files by hand and sessions are removed.  *)
(* Every read and write of a file is a step of its own; writing an ad-hoc     *)
(* session or appending to a session's log is one (module SessionLog), and a  *)
(* lock is the fail-fast mutex lockfile.ts promises (module Lockfile).        *)
EXTENDS Naturals, Sequences, FiniteSets

CONSTANTS
    Procs,        \* the processes, one command after the other
    Tasks,        \* the tasks
    Existing,     \* those there are to begin with
    Commands,     \* what the processes may do: pairs of an operation and a task
    Targets,      \* the statuses a task is created with or moved to
    Free,         \* a lock is not held
    MaxCommands,  \* bound on the commands
    MaxTroubles   \* bound on crashes, failures, edits by hand, removed or
                  \* damaged sessions and lost indexes

Operations == {"create", "attach", "status", "edit", "reconcile", "refresh",
               "delete", "archive", "list"}
Creates == {"create", "attach"}
Moves == Creates \cup {"status"}
Statuses == {"planned", "in_progress", "done", "cancelled"}

ASSUME LocksDistinct == Free \notin Procs
ASSUME ExistingAreTasks == Existing \subseteq Tasks /\ IsFiniteSet(Tasks)
ASSUME CommandsKnown ==
    /\ Commands \subseteq Operations \X Tasks
    /\ \A c \in Commands : c[1] \in Creates => c[2] \notin Existing
ASSUME TargetsKnown == Targets \subseteq Statuses
ASSUME BoundsNat == MaxCommands \in Nat /\ MaxTroubles \in Nat

(* Mutant: a finished task can be taken up again.                             *)
AllowedTransitionsAny == {edge \in Statuses \X Statuses : edge[1] # edge[2]}

AllowedTransitions ==
    {<<"planned", "in_progress">>, <<"planned", "done">>, <<"planned", "cancelled">>,
     <<"in_progress", "done">>, <<"in_progress", "cancelled">>}

Terminal == {"done", "cancelled"}

(* Sessions are numbered.  The first, which has no task yet, and those that   *)
(* created the existing tasks still run, so that commands may attach to them. *)
NoSession == 0
Unlinked == 1
RunningSessions == 1 .. Cardinality(Existing) + 1

(* A task file: where it is, what it says, how often its text has changed.    *)
File == [place : {"none", "live", "archive"}, status : Statuses,
         created : Nat, linked : SUBSET Nat, text : Nat]
NoFile == [place |-> "none", status |-> "planned", created |-> NoSession,
           linked |-> {}, text |-> 0]

(* The index: no row, or the status it holds of a task.                       *)
Absent == "absent"
Rows == [Tasks -> Statuses \cup {Absent}]
NoRows == [t \in Tasks |-> Absent]
Listed(rows) == {t \in Tasks : rows[t] # Absent}

(* An event that says what became of a task.                                  *)
Lives == Statuses \cup {"none", "archived", "deleted"}
Event == [from : Lives, to : Lives, ses : Nat]

VARIABLES
    files,    \* the task files
    index,    \* tasks/index.json
    trail,    \* the events of each task, in the order they were recorded
    dirs,     \* the sessions there are whose session.yaml can be read
    damaged,  \* those whose session.yaml is missing or malformed
    pins,     \* the task_id of each session that has one: pairs of the two
    minted,   \* the number of the newest session
    locks,    \* the task locks
    pc,       \* what each command does next
    cmd,      \* the command of each process
    mem,      \* what it has read
    landed,   \* history: the events whose change of the file was made
    told,     \* history: the sessions a task file was made to link to
    begun,    \* the commands so far
    troubles  \* what MaxTroubles bounds, so far

store == <<files, index, trail, dirs, damaged, pins, minted, locks, landed, told>>
bounds == <<begun, troubles>>
vars == <<store, pc, cmd, mem, bounds>>

NoCommand == [op |-> "none", task |-> Free, to |-> "planned"]
NoMem == [doc |-> NoFile, found |-> {}, ses |-> NoSession, events |-> {}, late |-> FALSE,
          valid |-> FALSE, rows |-> NoRows, left |-> {}, seen |-> {},
          created |-> FALSE, blind |-> FALSE, none |-> FALSE,
          present |-> {}, kept |-> {}]

Live == {t \in Tasks : files[t].place = "live"}
Archived == {t \in Tasks : files[t].place = "archive"}

Over == {"done", "failed", "dead"}
Inside == {"read", "look", "record", "probe", "write", "move", "index", "save",
           "release", "throw"}
PCs == {"idle", "lock", "link", "second", "replay", "ids", "dir", "scan",
        "rebuild", "archived", "answer"} \cup Inside \cup Over

Goto(p, label) == pc' = [pc EXCEPT ![p] = label]

(* A command that ends forgets what it was and what it has read.              *)
End(p, label) ==
    /\ Goto(p, label)
    /\ cmd' = [cmd EXCEPT ![p] = NoCommand]
    /\ mem' = [mem EXCEPT ![p] = NoMem]

Op(p) == cmd[p].op
Task(p) == cmd[p].task

(* A crash, a failure, or what people do to the files.                        *)
Trouble == troubles < MaxTroubles /\ troubles' = troubles + 1 /\ UNCHANGED begun

-----------------------------------------------------------------------------
(* A session for each task there is; all of them may be removed by now.       *)
Numbering == CHOOSE f \in [Existing -> RunningSessions \ {Unlinked}] :
                \A t, u \in Existing : f[t] = f[u] => t = u

Init ==
    /\ files = [t \in Tasks |->
                  IF t \in Existing
                  THEN [place |-> "live", status |-> "planned",
                        created |-> Numbering[t], linked |-> {Numbering[t]}, text |-> 0]
                  ELSE NoFile]
    /\ index = [valid |-> TRUE,
                rows |-> [t \in Tasks |-> IF t \in Existing THEN "planned" ELSE Absent]]
    /\ trail = [t \in Tasks |->
                  IF t \in Existing
                  THEN <<[from |-> "none", to |-> "planned", ses |-> Numbering[t]]>>
                  ELSE <<>>]
    /\ dirs \in {RunningSessions, {Unlinked}} /\ damaged = {}
    /\ pins = {<<Numbering[t], t>> : t \in Existing}
    /\ minted = Cardinality(Existing) + 1
    /\ locks = [t \in Tasks |-> Free]
    /\ pc = [p \in Procs |-> "idle"]
    /\ cmd = [p \in Procs |-> NoCommand]
    /\ mem = [p \in Procs |-> NoMem]
    /\ landed = [t \in Tasks |-> IF t \in Existing THEN {1} ELSE {}]
    /\ told = RunningSessions \ {Unlinked}
    /\ begun = 0
    /\ troubles = 0

-----------------------------------------------------------------------------
(* A command starts; a new task has an id nobody else has.                    *)
Begin(op) ==
    CASE op = "create" -> "record"
      [] op = "attach" -> "lock"
      [] op = "list" -> "replay"
      [] OTHER -> "lock"

Start(p) ==
    /\ pc[p] \in {"idle", "done", "failed"}
    /\ begun < MaxCommands /\ begun' = begun + 1
    /\ \E c \in Commands : \E to \in IF c[1] \in Moves THEN Targets ELSE {"planned"} :
        /\ c[1] \in Creates => /\ trail[c[2]] = <<>>
                               /\ \A q \in Procs : ~(Op(q) \in Creates /\ Task(q) = c[2])
        /\ cmd' = [cmd EXCEPT ![p] = [op |-> c[1], task |-> c[2], to |-> to]]
        /\ Goto(p, Begin(c[1]))
    /\ UNCHANGED <<store, mem, troubles>>

-----------------------------------------------------------------------------
(* The locks: of the task, or of the session attached to.  One that another   *)
(* process holds fails the command.                                           *)

(* Mutant: a held lock is taken.                                              *)
AvailableAlways(t) == TRUE

(* The lock of a process that is gone is free for the taking.                 *)
Available(t) == locks[t] = Free \/ pc[locks[t]] = "dead"

(* createTaskAttach and updateTaskStatusAttach hold the session's lock from   *)
(* the read of its session.yaml to the end.                                   *)
SessionHeld(p, s) ==
    \E q \in Procs \ {p} :
        /\ mem[q].ses = s /\ s \in RunningSessions
        /\ pc[q] \in {"link", "second"} \cup Inside

Lock(p) ==
    /\ pc[p] = "lock" /\ Op(p) # "attach"
    /\ IF Available(Task(p))
       THEN /\ locks' = [locks EXCEPT ![Task(p)] = p]
            /\ Goto(p, "read")
            /\ UNCHANGED <<cmd, mem>>
       ELSE End(p, "failed") /\ UNCHANGED locks
    /\ UNCHANGED <<files, index, trail, dirs, damaged, pins, minted, landed, told, bounds>>

Release(p) ==
    /\ pc[p] \in {"release", "throw"}
    /\ locks' = [t \in Tasks |-> IF locks[t] = p THEN Free ELSE locks[t]]
    /\ End(p, IF pc[p] = "release" THEN "done" ELSE "failed")
    /\ UNCHANGED <<files, index, trail, dirs, damaged, pins, minted, landed, told, bounds>>

-----------------------------------------------------------------------------
(* What a command reads first.                                                *)

AfterRead(p) ==
    CASE Op(p) = "status" ->
            IF <<files[Task(p)].status, cmd[p].to>> \in AllowedTransitions
            THEN "record" ELSE "throw"
      [] Op(p) = "edit" -> "write"
      [] Op(p) \in {"reconcile", "refresh"} -> "look"
      [] OTHER -> "record"

(* task.md is read, and the transition checked, before anything is written.   *)
Read(p) ==
    /\ pc[p] = "read"
    /\ IF files[Task(p)].place = "live"
       THEN /\ mem' = [mem EXCEPT ![p].doc = files[Task(p)]]
            /\ Goto(p, AfterRead(p))
       ELSE Goto(p, "throw") /\ UNCHANGED mem
    /\ UNCHANGED <<store, cmd, bounds>>

(* detectBrokenRefs: the sessions task.md names that are not there; that one  *)
(* is damaged does not matter.                                                *)
Broken(doc) == (doc.linked \cup {doc.created}) \ (dirs \cup damaged)

PinnedTo(t) == {s \in dirs : <<s, t>> \in pins}

(* Mutant: only the sessions linked already are looked at.                    *)
FinalLinkedKnown(t, doc) == (PinnedTo(t) \cap doc.linked) \cup {doc.created}

(* detectLinkageDelta: those whose session.yaml names the task, and the one   *)
(* that created it.  A damaged session is skipped, and a link to it dropped.  *)
FinalLinked(t, doc) == PinnedTo(t) \cup {doc.created}

(* What a refresh, once through, leaves the task linked to.                   *)
Refreshed(p) == IF Op(p) = "refresh" THEN PinnedTo(Task(p)) ELSE {}

(* With --write; a task that is clean is left alone.                          *)
Look(p) ==
    /\ pc[p] = "look"
    /\ LET doc == mem[p].doc
           found == IF Op(p) = "reconcile" THEN Broken(doc)
                    ELSE FinalLinked(Task(p), doc)
           clean == found = IF Op(p) = "reconcile" THEN {} ELSE doc.linked
       IN
       IF clean
       THEN Goto(p, "release") /\ told' = told \cup Refreshed(p) /\ UNCHANGED mem
       ELSE /\ mem' = [mem EXCEPT ![p].found = found]
            /\ Goto(p, "record")
            /\ UNCHANGED told
    /\ UNCHANGED <<files, index, trail, dirs, damaged, pins, minted, locks, landed, cmd, bounds>>

-----------------------------------------------------------------------------
(* The event is recorded before the file is changed.                          *)

To(from, to, s) == [from |-> from, to |-> to, ses |-> s]

(* task_created names no status: a reader takes it for the first one, unless  *)
(* a task that is created done or cancelled is told to have been planned.     *)
CreatedEvent(p, s) ==
    To("none", IF cmd[p].to \in Terminal THEN "planned" ELSE cmd[p].to, s)

(* What is recorded of the task; nothing new becomes of one whose references  *)
(* are repaired.                                                              *)
Recorded(p, s) ==
    LET now == mem[p].doc.status IN
    CASE Op(p) = "create" ->
            <<CreatedEvent(p, s)>>
            \o (IF cmd[p].to \in Terminal THEN <<To("planned", cmd[p].to, s)>> ELSE <<>>)
      [] Op(p) = "attach" -> <<CreatedEvent(p, s)>>
      [] Op(p) = "status" -> <<To(now, cmd[p].to, s)>>
      [] Op(p) = "delete" -> <<To(now, "deleted", s)>>
      [] Op(p) = "archive" -> <<To(now, "archived", s)>>
      [] OTHER -> <<>>

(* The session of the command and the numbers of its events.                  *)
Remember(p, s) ==
    mem' = [mem EXCEPT ![p].ses = s,
                       ![p].events = DOMAIN trail'[Task(p)] \ DOMAIN trail[Task(p)]]

AfterRecord(p) ==
    CASE Op(p) \in {"reconcile", "refresh"} -> "probe"
      [] Op(p) = "delete" -> "move"
      [] Op(p) = "attach" -> "link"
      [] OTHER -> "write"

(* An ad-hoc session, pinned to the task unless that is to be deleted.  The   *)
(* session may fail to be finalized once its events are in its log.           *)
Mint(p) ==
    /\ minted' = minted + 1
    /\ dirs' = dirs \cup {minted'}
    /\ pins' = IF Op(p) = "delete" THEN pins ELSE pins \cup {<<minted', Task(p)>>}
    /\ trail' = [trail EXCEPT ![Task(p)] = @ \o Recorded(p, minted')]

Record(p) ==
    /\ pc[p] = "record"
    /\ Mint(p)
    /\ Remember(p, minted')
    /\ Goto(p, AfterRecord(p))
    /\ UNCHANGED <<files, index, damaged, locks, landed, told, cmd, bounds>>

(* updateTaskStatusAttach: the running session must be the task's own.        *)
RecordAttached(p) ==
    /\ pc[p] = "record" /\ Op(p) = "status"
    /\ \E s \in RunningSessions \cap dirs :
        IF <<s, Task(p)>> \in pins /\ ~SessionHeld(p, s)
        THEN /\ trail' = [trail EXCEPT ![Task(p)] = @ \o Recorded(p, s)]
             /\ Remember(p, s)
             /\ Goto(p, AfterRecord(p))
        ELSE Goto(p, "throw") /\ UNCHANGED <<trail, mem>>
    /\ UNCHANGED <<files, index, dirs, damaged, pins, minted, locks, landed, told, cmd, bounds>>

(* createTaskAttach: the running session must have no task yet.               *)
Attach(p) ==
    /\ pc[p] = "lock" /\ Op(p) = "attach"
    /\ IF /\ Unlinked \in dirs /\ ~SessionHeld(p, Unlinked)
          /\ \A t \in Tasks : <<Unlinked, t>> \notin pins
       THEN /\ trail' = [trail EXCEPT ![Task(p)] = @ \o Recorded(p, Unlinked)]
            /\ Remember(p, Unlinked)
            /\ Goto(p, AfterRecord(p))
            /\ UNCHANGED cmd
       ELSE End(p, "failed") /\ UNCHANGED trail
    /\ UNCHANGED <<files, index, dirs, damaged, pins, minted, locks, landed, told, bounds>>

Link(p) ==
    /\ pc[p] = "link"
    /\ IF Unlinked \in dirs
       THEN /\ pins' = pins \cup {<<Unlinked, Task(p)>>}
            /\ Goto(p, IF cmd[p].to \in Terminal THEN "second" ELSE "write")
       ELSE Goto(p, "throw") /\ UNCHANGED pins
    /\ UNCHANGED <<files, index, trail, dirs, damaged, minted, locks, landed, told, cmd, mem, bounds>>

(* The implicit transition of a task that is created done or cancelled.       *)
Second(p) ==
    /\ pc[p] = "second"
    /\ IF Unlinked \in dirs
       THEN /\ trail' = [trail EXCEPT ![Task(p)] =
                           Append(@, To("planned", cmd[p].to, Unlinked))]
            /\ mem' = [mem EXCEPT ![p].events = @ \cup {Len(trail'[Task(p)])}]
            /\ Goto(p, "write")
       ELSE Goto(p, "throw") /\ UNCHANGED <<trail, mem>>
    /\ UNCHANGED <<files, index, dirs, damaged, pins, minted, locks, landed, told, cmd, bounds>>

(* The session or its log cannot be written; or all is written but the last   *)
(* session.yaml (FailedToFinalizeError), and the event stays.                 *)
RecordFails(p) ==
    /\ \/ pc[p] = "record" /\ Mint(p)
       \/ pc[p] \in {"record", "link", "second"} /\ UNCHANGED <<minted, dirs, pins, trail>>
    /\ Trouble
    /\ Goto(p, "throw")
    /\ UNCHANGED <<files, index, damaged, locks, landed, told, cmd, mem>>

-----------------------------------------------------------------------------
(* The file is changed.                                                       *)

(* Mutant: nobody looks whether the file was edited meanwhile.                *)
ProbeNothing(p) ==
    /\ pc[p] = "probe"
    /\ Goto(p, "write")
    /\ UNCHANGED <<store, cmd, mem, bounds>>

(* reconcile and refresh compare the file with the bytes they read.           *)
Probe(p) ==
    /\ pc[p] = "probe"
    /\ Goto(p, IF files[Task(p)] = mem[p].doc THEN "write" ELSE "throw")
    /\ UNCHANGED <<store, cmd, mem, bounds>>

NewLinks(p) ==
    LET m == mem[p] IN
    CASE Op(p) = "edit" -> m.doc.linked
      [] Op(p) = "reconcile" -> (m.doc.linked \ m.found) \cup {m.ses}
      [] Op(p) = "refresh" -> m.found \cup {m.ses}
      [] OTHER -> m.doc.linked \cup {m.ses}

(* From what was read: whatever the file says by now is overwritten.          *)
NewFile(p) ==
    LET m == mem[p] IN
    [place |-> "live",
     status |-> IF Op(p) \in Moves THEN cmd[p].to ELSE m.doc.status,
     created |-> IF \/ Op(p) \in Creates
                    \/ Op(p) = "reconcile" /\ m.doc.created \in m.found
                 THEN m.ses ELSE m.doc.created,
     linked |-> NewLinks(p),
     text |-> IF Op(p) = "edit" THEN m.doc.text + 1 ELSE m.doc.text]

(* The events of a command land with the change they tell of.                 *)
Land(p) == landed' = [landed EXCEPT ![Task(p)] = @ \cup mem[p].events]

Write(p) ==
    /\ pc[p] = "write"
    /\ files' = [files EXCEPT ![Task(p)] = NewFile(p)]
    /\ told' = told \cup {mem[p].ses} \cup Refreshed(p)
    /\ IF Op(p) = "archive"
       THEN Goto(p, "move") /\ UNCHANGED landed
       ELSE Goto(p, "index") /\ Land(p)
    /\ UNCHANGED <<index, trail, dirs, damaged, pins, minted, locks, cmd, mem, bounds>>

(* Whoever lists the tasks meanwhile does not have to show what goes.         *)
Move(p) ==
    /\ pc[p] = "move"
    /\ files' = [files EXCEPT ![Task(p)] =
                   IF Op(p) = "archive" THEN [@ EXCEPT !.place = "archive"] ELSE NoFile]
    /\ Land(p)
    /\ mem' = [q \in Procs |->
                 [mem[q] EXCEPT !.present = @ \ {Task(p)},
                                !.kept = IF Op(p) = "delete" THEN @ \ {Task(p)} ELSE @]]
    /\ Goto(p, "index")
    /\ UNCHANGED <<index, trail, dirs, damaged, pins, minted, locks, told, cmd, bounds>>

(* The file cannot be written, renamed or unlinked.                           *)
WriteFails(p) ==
    /\ pc[p] \in {"write", "move"}
    /\ Trouble
    /\ Goto(p, "throw")
    /\ UNCHANGED <<store, cmd, mem>>

-----------------------------------------------------------------------------
(* safeUpdateTaskIndex: read, change one row, write.                          *)

(* An index that is missing or invalid is started anew.                       *)
ReadIndex(p) ==
    /\ pc[p] = "index"
    /\ mem' = [mem EXCEPT ![p].rows = IF index.valid THEN index.rows ELSE NoRows]
    /\ Goto(p, "save")
    /\ UNCHANGED <<store, cmd, bounds>>

SaveIndex(p) ==
    /\ pc[p] = "save"
    /\ index' = [valid |-> TRUE,
                 rows |-> [mem[p].rows EXCEPT
                             ![Task(p)] = IF Op(p) \in {"delete", "archive"} THEN Absent
                                          ELSE NewFile(p).status]]
    /\ Goto(p, "release")
    /\ UNCHANGED <<files, trail, dirs, damaged, pins, minted, locks, landed, told, cmd, mem, bounds>>

(* The index cannot be written: a warning, here and in a rebuild.             *)
SaveFails(p) ==
    /\ pc[p] \in {"save", "rebuild"}
    /\ Trouble
    /\ Goto(p, IF pc[p] = "save" THEN "release" ELSE "answer")
    /\ UNCHANGED <<store, cmd, mem>>

-----------------------------------------------------------------------------
(* A listing: the events are replayed, then the tasks are enumerated.         *)
Replay(p) ==
    /\ pc[p] = "replay"
    /\ mem' = [mem EXCEPT
                 ![p].created = \E t \in Tasks : \E i \in DOMAIN trail[t] :
                                   trail[t][i].from = "none" /\ trail[t][i].ses \in dirs,
                 ![p].present = Live,
                 ![p].kept = Live \cup Archived]
    /\ Goto(p, "ids")
    /\ UNCHANGED <<store, cmd, bounds>>

ReadIds(p) ==
    /\ pc[p] = "ids"
    /\ mem' = [mem EXCEPT ![p].valid = index.valid, ![p].seen = Listed(index.rows)]
    /\ Goto(p, "dir")
    /\ UNCHANGED <<store, cmd, bounds>>

(* Nothing listed and nothing replayed: the archive is looked at.             *)
AfterListing(p, ids) == IF ids = {} /\ ~mem[p].created THEN "archived" ELSE "answer"

(* Mutant: the index is the answer where there is one.                        *)
ReadDirectoryTrusting(p) ==
    /\ pc[p] = "dir"
    /\ LET onDisk == IF mem[p].valid THEN mem[p].seen ELSE Live IN
        /\ mem' = [mem EXCEPT ![p].seen = onDisk, ![p].left = onDisk]
        /\ Goto(p, IF mem[p].valid \/ onDisk = {} THEN AfterListing(p, onDisk) ELSE "scan")
    /\ UNCHANGED <<store, cmd, bounds>>

(* enumerateTaskIds: the index is the answer where it has the ids on disk.    *)
ReadDirectory(p) ==
    /\ pc[p] = "dir"
    /\ LET onDisk == Live
           agrees == mem[p].valid /\ mem[p].seen = onDisk
       IN
        /\ mem' = [mem EXCEPT ![p].seen = onDisk, ![p].left = onDisk, ![p].rows = NoRows]
        /\ Goto(p, IF agrees \/ onDisk = {} THEN AfterListing(p, onDisk) ELSE "scan")
    /\ UNCHANGED <<store, cmd, bounds>>

(* The directory cannot be listed: the index has to do.                       *)
DirectoryFails(p) ==
    /\ pc[p] = "dir"
    /\ Trouble
    /\ IF mem[p].valid
       THEN /\ mem' = [mem EXCEPT ![p].blind = TRUE]
            /\ Goto(p, AfterListing(p, mem[p].seen))
            /\ UNCHANGED cmd
       ELSE End(p, "failed")
    /\ UNCHANGED store

(* The files are read for a new index, which a file that is gone prevents.    *)
Scan(p) ==
    /\ pc[p] = "scan"
    /\ \E t \in mem[p].left :
        /\ mem' = [mem EXCEPT
                     ![p].left = @ \ {t},
                     ![p].rows[t] = IF t \in Live THEN files[t].status ELSE Absent]
        /\ Goto(p, IF mem[p].left # {t} THEN "scan"
                   ELSE IF Listed(mem'[p].rows) = mem[p].seen THEN "rebuild"
                   ELSE "answer")
    /\ UNCHANGED <<store, cmd, bounds>>

(* Without any lock.                                                          *)
Rebuild(p) ==
    /\ pc[p] = "rebuild"
    /\ index' = [valid |-> TRUE, rows |-> mem[p].rows]
    /\ Goto(p, "answer")
    /\ UNCHANGED <<files, trail, dirs, damaged, pins, minted, locks, landed, told, cmd, mem, bounds>>

(* Mutant: only the tasks that are not archived count.                        *)
ListArchiveNever(p) ==
    /\ pc[p] = "archived"
    /\ mem' = [mem EXCEPT ![p].none = TRUE]
    /\ Goto(p, "answer")
    /\ UNCHANGED <<store, cmd, bounds>>

(* anyTaskEverRecorded: "no tasks recorded", when there is no trace of one.   *)
ListArchive(p) ==
    /\ pc[p] = "archived"
    /\ mem' = [mem EXCEPT ![p].none = (Archived = {})]
    /\ Goto(p, "answer")
    /\ UNCHANGED <<store, cmd, bounds>>

Answer(p) ==
    /\ pc[p] = "answer"
    /\ End(p, "done")
    /\ UNCHANGED <<store, bounds>>

-----------------------------------------------------------------------------
(* Everybody else.                                                            *)

(* A task file is edited by hand: its title or its text.                      *)
EditByHand(t) ==
    /\ t \in Live
    /\ Trouble
    /\ files' = [files EXCEPT ![t].text = @ + 1]
    /\ mem' = [p \in Procs |->
                 IF pc[p] = "write" /\ Task(p) = t THEN [mem[p] EXCEPT !.late = TRUE]
                 ELSE mem[p]]
    /\ UNCHANGED <<index, trail, dirs, damaged, pins, minted, locks, landed, told, pc, cmd>>

RemoveSession(s) ==
    /\ s \in dirs \cup damaged
    /\ Trouble
    /\ dirs' = dirs \ {s} /\ damaged' = damaged \ {s}
    /\ UNCHANGED <<files, index, trail, pins, minted, locks, landed, told, pc, cmd, mem>>

(* A session.yaml is lost or spoilt for good; the one createTaskAttach is to  *)
(* write to is left alone.                                                    *)
DamageSession(s) ==
    /\ s \in dirs \ {Unlinked}
    /\ Trouble
    /\ dirs' = dirs \ {s} /\ damaged' = damaged \cup {s}
    /\ UNCHANGED <<files, index, trail, pins, minted, locks, landed, told, pc, cmd, mem>>

(* The index is lost, or of another version.                                  *)
LoseIndex ==
    /\ index.valid
    /\ Trouble
    /\ index' = [valid |-> FALSE, rows |-> NoRows]
    /\ UNCHANGED <<files, trail, dirs, damaged, pins, minted, locks, landed, told, pc, cmd, mem>>

Running(p) == pc[p] \notin Over \cup {"idle"}

Crash(p) ==
    /\ Running(p)
    /\ Trouble
    /\ End(p, "dead")
    /\ UNCHANGED store

-----------------------------------------------------------------------------
Change(p) ==
    \/ Lock(p) \/ Read(p) \/ Look(p) \/ Record(p) \/ RecordAttached(p)
    \/ Attach(p) \/ Link(p) \/ Second(p) \/ Probe(p) \/ Write(p) \/ Move(p)
    \/ ReadIndex(p) \/ SaveIndex(p) \/ Release(p)

List(p) ==
    \/ Replay(p) \/ ReadIds(p) \/ ReadDirectory(p) \/ Scan(p) \/ Rebuild(p)
    \/ ListArchive(p) \/ Answer(p)

Step(p) == Change(p) \/ List(p)

Fails(p) ==
    RecordFails(p) \/ WriteFails(p) \/ SaveFails(p) \/ DirectoryFails(p) \/ Crash(p)

Next ==
    \/ \E p \in Procs : Start(p) \/ Step(p) \/ Fails(p)
    \/ \E t \in Tasks : EditByHand(t)
    \/ \E s \in dirs \cup damaged : RemoveSession(s) \/ DamageSession(s)
    \/ LoseIndex

Spec == Init /\ [][Next]_vars

-----------------------------------------------------------------------------
Mem == [doc : File, found : SUBSET Nat, ses : Nat, events : SUBSET Nat,
        late : BOOLEAN,
        valid : BOOLEAN, rows : Rows, left : SUBSET Tasks, seen : SUBSET Tasks,
        created : BOOLEAN, blind : BOOLEAN, none : BOOLEAN,
        present : SUBSET Tasks, kept : SUBSET Tasks]
Command == [op : Operations, task : Tasks, to : Statuses]

TypeOK ==
    /\ files \in [Tasks -> File]
    /\ index \in [valid : BOOLEAN, rows : Rows]
    /\ trail \in [Tasks -> Seq(Event)]
    /\ dirs \subseteq Nat /\ damaged \subseteq Nat
    /\ pins \subseteq Nat \X Tasks
    /\ minted \in Nat
    /\ locks \in [Tasks -> Procs \cup {Free}]
    /\ pc \in [Procs -> PCs]
    /\ cmd \in [Procs -> Command \cup {NoCommand}]
    /\ mem \in [Procs -> Mem]
    /\ landed \in [Tasks -> SUBSET Nat] /\ told \subseteq Nat
    /\ begun \in 0 .. MaxCommands /\ troubles \in 0 .. MaxTroubles

(* A listing shows every task whose file is there from its first to its last  *)
(* read, whatever the index says, unless the directory cannot be read.        *)
NeverHidden ==
    \A p \in Procs :
        pc[p] \in {"rebuild", "archived", "answer"} /\ ~mem[p].blind
        => mem[p].present \subseteq mem[p].seen

(* "No tasks recorded" is never said while a task file is there, be it in the *)
(* archive or on its way to it.                                               *)
NoFalseNone ==
    \A p \in Procs : mem[p].none /\ ~mem[p].blind => mem[p].kept = {}

(* The last event whose change was made, and what the events so far tell.     *)
Latest(t, seen) == IF seen = {} THEN "none"
                   ELSE trail[t][CHOOSE i \in seen : \A j \in seen : j <= i].to

Becomes(from, to) ==
    \/ from = "none" /\ to \in {"planned", "in_progress"}
    \/ <<from, to>> \in AllowedTransitions
    \/ from \in Statuses /\ to \in {"archived", "deleted"}

FileLife(t) ==
    CASE files[t].place = "live" -> {files[t].status}
      [] files[t].place = "archive" -> {"archived"}
      [] files[t].place = "none" -> {"none", "deleted"}

(* The events whose changes were made tell one legal life of the task, each   *)
(* from where the one before left it, and the file is where they end.         *)
TrailTells ==
    \A t \in Tasks :
        /\ \A i \in landed[t] :
            /\ trail[t][i].from = Latest(t, {j \in landed[t] : j < i})
            /\ Becomes(trail[t][i].from, trail[t][i].to)
        /\ Latest(t, landed[t]) \in FileLife(t)

(* A finished task stays as it finished, and one that is archived or deleted  *)
(* does not come back.                                                        *)
Finality ==
    [][\A t \in Tasks :
        /\ files[t].place = "live" /\ files'[t].status # files[t].status
           => \/ files'[t] = NoFile
              \/ files[t].status \notin Terminal /\ files'[t].status # "planned"
        /\ files[t].place = "archive" => files'[t] = files[t]
        /\ \A i \in landed[t] : trail[t][i].to = "deleted" => files'[t] = NoFile]_vars

(* reconcile and refresh overwrite no edit made before they looked again.     *)
HandEditsKept ==
    [][\A p \in Procs :
        pc[p] = "write" /\ pc'[p] = "index" /\ Op(p) \in {"reconcile", "refresh"}
        => files'[Task(p)].text = files[Task(p)].text \/ mem[p].late]_vars

(* A session whose command changed the file, and every one there is once a    *)
(* refresh did, is linked to from the task it is pinned to, as long as its    *)
(* session.yaml can be read.                                                  *)
LinksComplete ==
    \A t \in Tasks : files[t].place # "none" =>
        \A s \in PinnedTo(t) \cap told : s \in files[t].linked

(* What has become of a task, to whoever looks: what the file shows, and of   *)
(* one that is not there whether it was deleted.                              *)
LifeOf(t) ==
    CASE files[t].place = "live" -> files[t].status
      [] files[t].place = "archive" -> "archived"
      [] files[t].place = "none" -> Latest(t, landed[t])

Lifecycle == INSTANCE TaskLife WITH life <- [t \in Tasks |-> LifeOf(t)]

(* The store takes every task through a legal life and no other, one task at  *)
(* a time, whatever commands run at once, fail or die (assertTransitionAllowed*)
(* and who may call it when).                                                 *)
ImplementsLife == Lifecycle!Spec
=============================================================================
