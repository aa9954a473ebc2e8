----------------------------- MODULE SessionLog -----------------------------
(* One session directory: events.jsonl, session.yaml and the session lock.    *)
(* The process that creates the session records it (basou exec, basou run, or *)
(* an ad-hoc session of a one-shot command); other commands attach to it      *)
(* while it is live; verify reads both files without the lock.  Every read    *)
(* and write of a file is a step of its own.  The lock is the fail-fast mutex *)
(* lockfile.ts promises, a dead holder's lock being free for the taking; what *)
(* the lockfile itself does is module Lockfile.                               *)
EXTENDS Naturals, Sequences, FiniteSets

CONSTANTS
    Creator,      \* the process that creates and records the session
    CreatorJobs,  \* its first job: "create" (exec, run) and/or "adhoc"
    Notes,        \* processes that attach one event
    Tasks,        \* processes that attach a new task
    Snapshots,    \* may the creator record git snapshots (--no-snapshot)?
    Verifying,    \* is the session verified meanwhile?
    Free,         \* the lock is not held
    NoTask,       \* session.yaml has no task_id
    MaxFaults     \* bound on crashes and failed writes in a behaviour

Attachers == Notes \cup Tasks
Procs == Attachers \cup {Creator}

ASSUME ProcessesDistinct ==
    /\ Creator \notin Attachers /\ Notes \cap Tasks = {}
    /\ Free \notin Procs /\ NoTask \notin Tasks
ASSUME CreatorJobsKnown == CreatorJobs \subseteq {"create", "adhoc"}
ASSUME OptionsBoolean == Snapshots \in BOOLEAN /\ Verifying \in BOOLEAN
ASSUME MaxFaultsNat == MaxFaults \in Nat

(* Hashes: a line's bytes contain a fresh ULID, so its id stands for its hash.*)
NoHash == 0
NoAnchor == [head |-> NoHash, count |-> 0]
Genesis(sid) == 1
LineHash(l) == l.id

Sid == "ses"
Chain == INSTANCE ChainLog

Statuses == {"initialized", "running", "completed", "failed", "interrupted"}
FinalStatuses == {"completed", "failed", "interrupted"}
LiveStatuses == {"initialized", "running"}

(* The fields of session.yaml the commands here write; absent: no file.       *)
NoYaml == [status |-> "absent", task |-> NoTask, integrity |-> NoAnchor]
Yaml == [status : Statuses, task : Tasks \cup {NoTask},
         integrity : [head : Nat, count : Nat]]

(* Mutant: the session is created running.                                    *)
CreatedRunning == [status |-> "running", task |-> NoTask, integrity |-> NoAnchor]

Created == [status |-> "initialized", task |-> NoTask, integrity |-> NoAnchor]

VARIABLES
    lines,    \* the complete lines of events.jsonl
    frag,     \* what follows the last newline
    yaml,     \* session.yaml
    lock,     \* the session lock: a process, or Free
    pc,       \* the file operation each process does next
    job,      \* the locked section each process is in or comes to next
    doc,      \* the session.yaml each process read
    tail,     \* the ChainTailState each process inspected
    final,    \* the final status of the child's run
    nextId,   \* the next fresh event id
    faults,   \* crashes and failed writes so far
    seen,     \* the log verify has read
    look,     \* where verify is: its attempt and what it reads next
    verdict   \* what verify reported

files == <<lines, frag, yaml>>
verify == <<seen, look, verdict>>
vars == <<files, lock, pc, job, doc, tail, final, nextId, faults, verify>>

Jobs == {"create", "adhoc", "session_started", "snapshot_before", "to_running",
         "running", "child", "command_executed", "snapshot_after",
         "file_changed", "to_final", "session_ended", "finalize", "note_added",
         "task_created", "task_status_changed", "throw"}

(* A line of the log; the event an ad-hoc session is created for is "target". *)
Line == [id : Nat, text : Jobs \cup {"target"}, prev : Nat]

(* Inside a section the lock is held.                                         *)
Inside == {"read", "inspect", "append", "bulk", "yaml", "release"}
Over == {"done", "aborted", "dead"}

Appends == {"session_started", "snapshot_before", "to_running",
            "command_executed", "snapshot_after", "file_changed", "to_final",
            "session_ended"}
Attaches == {"note_added", "task_created", "task_status_changed"}

TypeOK ==
    /\ lines \in Seq(Line)
    /\ frag \in {"none", "chained", "plain"}
    /\ yaml \in Yaml \cup {NoYaml}
    /\ lock \in Procs \cup {Free}
    /\ pc \in [Procs -> {"out"} \cup Inside \cup Over]
    /\ job \in [Procs -> Jobs]
    /\ doc \in [Procs -> Yaml \cup {NoYaml}]
    /\ tail \in [Procs -> [head : Nat, count : Nat]]
    /\ final \in FinalStatuses
    /\ nextId \in Nat
    /\ faults \in 0 .. MaxFaults

Init ==
    /\ lines = <<>>
    /\ frag = "none"
    /\ yaml = NoYaml
    /\ lock = Free
    /\ pc = [p \in Procs |-> "out"]
    /\ \E first \in CreatorJobs :
        job = [p \in Procs |-> IF p = Creator THEN first
                               ELSE IF p \in Notes THEN "note_added"
                               ELSE "task_created"]
    /\ doc = [p \in Procs |-> NoYaml]
    /\ tail = [p \in Procs |-> NoAnchor]
    /\ final = "completed"
    /\ nextId = 2
    /\ faults = 0
    /\ seen = [lines |-> <<>>, frag |-> "none"]
    /\ look = [attempt |-> 1, next |-> "events"]
    /\ verdict = Chain!Plain("none")

Goto(p, label) == pc' = [pc EXCEPT ![p] = label]

-----------------------------------------------------------------------------
(* The session lock.                                                          *)

(* The first file operation of a section.                                     *)
FirstStep(j) ==
    CASE j \in Appends -> "inspect"
      [] j \in {"create", "adhoc"} -> "yaml"
      [] OTHER -> "read"

(* A command resolves the session it attaches to from the sessions on disk.   *)
Wants(p) == pc[p] = "out" /\ job[p] # "child" /\ (p = Creator \/ yaml # NoYaml)

Dead == {p \in Procs : pc[p] = "dead"}

(* Mutant: a held lock is taken.                                              *)
AvailableAlways == TRUE

Available == lock \in Dead \cup {Free}

Lock(p) ==
    /\ Wants(p)
    /\ Available
    /\ lock' = p
    /\ Goto(p, FirstStep(job[p]))
    /\ UNCHANGED <<files, job, doc, tail, final, nextId, faults, verify>>

(* "Lock is held by another process": nobody retries, the command fails.      *)
LockHeld(p) ==
    /\ Wants(p)
    /\ ~Available
    /\ Goto(p, "aborted")
    /\ UNCHANGED <<files, lock, job, doc, tail, final, nextId, faults, verify>>

(* What the creator does after a section: a git snapshot is skipped when it   *)
(* is off or fails, and a spawn failure has no second one.                    *)
Optional(j) == IF Snapshots THEN {j} ELSE {}

NextJobs(j) ==
    CASE j = "create" -> {"session_started"}
      [] j = "session_started" -> Optional("snapshot_before") \cup {"to_running"}
      [] j = "snapshot_before" -> {"to_running"}
      [] j = "to_running" -> {"running"}
      [] j = "running" -> {"child"}
      [] j = "command_executed" -> Optional("snapshot_after") \cup {"to_final"}
      [] j = "snapshot_after" -> {"file_changed", "to_final"}
      [] j = "file_changed" -> {"to_final"}
      [] j = "to_final" -> {"session_ended"}
      [] j = "session_ended" -> {"finalize"}
      [] OTHER -> {}

(* Mutant: an error path leaves without releasing.                            *)
ReleaseOnSuccess(p) ==
    /\ pc[p] = "release"
    /\ lock' = IF job[p] = "throw" THEN lock ELSE Free
    /\ IF NextJobs(job[p]) = {}
       THEN /\ Goto(p, IF job[p] = "throw" THEN "aborted" ELSE "done")
            /\ UNCHANGED job
       ELSE /\ Goto(p, "out")
            /\ \E j \in NextJobs(job[p]) : job' = [job EXCEPT ![p] = j]
    /\ doc' = [doc EXCEPT ![p] = NoYaml]
    /\ tail' = [tail EXCEPT ![p] = NoAnchor]
    /\ UNCHANGED <<files, final, nextId, faults, verify>>

(* The finally block releases; then the next section, the end or the error.   *)
Release(p) ==
    /\ pc[p] = "release"
    /\ lock' = Free
    /\ IF NextJobs(job[p]) = {}
       THEN /\ Goto(p, IF job[p] = "throw" THEN "aborted" ELSE "done")
            /\ UNCHANGED job
       ELSE /\ Goto(p, "out")
            /\ \E j \in NextJobs(job[p]) : job' = [job EXCEPT ![p] = j]
    /\ doc' = [doc EXCEPT ![p] = NoYaml]
    /\ tail' = [tail EXCEPT ![p] = NoAnchor]
    /\ UNCHANGED <<files, final, nextId, faults, verify>>

(* The section fails: release, then report the error.                         *)
Throw(p) ==
    /\ Goto(p, "release")
    /\ job' = [job EXCEPT ![p] = "throw"]

(* The child of exec and run ends, is interrupted, or cannot be spawned       *)
(* (finalizeSessionAsFailed); the lock is not held meanwhile.                 *)
ChildEnds ==
    /\ pc[Creator] = "out"
    /\ job[Creator] = "child"
    /\ final' \in FinalStatuses
    /\ job' = [job EXCEPT ![Creator] = "command_executed"]
    /\ UNCHANGED <<files, lock, pc, doc, tail, nextId, faults, verify>>

-----------------------------------------------------------------------------
(* The file operations of a section.                                          *)

(* Mutant: a session at rest is attached to.                                  *)
AttachableAnyStatus(j, d) == j = "task_created" => d.task = NoTask

(* May this document be attached to?  A task needs a session without one.     *)
Attachable(j, d) ==
    /\ d.status \in LiveStatuses
    /\ j = "task_created" => d.task = NoTask

(* readSessionYaml, and the checks the attaching commands make on it.         *)
ReadYaml(p) ==
    /\ pc[p] = "read"
    /\ doc' = [doc EXCEPT ![p] = yaml]
    /\ IF yaml = NoYaml \/ (job[p] \in Attaches /\ ~Attachable(job[p], yaml))
       THEN Throw(p)
       ELSE /\ Goto(p, IF job[p] = "running" THEN "yaml" ELSE "inspect")
            /\ UNCHANGED job
    /\ UNCHANGED <<files, lock, tail, final, nextId, faults, verify>>

(* Mutant: a torn tail is not looked for.                                     *)
InspectTailBlind(p) ==
    /\ pc[p] = "inspect"
    /\ tail' = [tail EXCEPT ![p] = Chain!Anchor(lines, Sid)]
    /\ Goto(p, IF job[p] = "finalize" THEN "yaml" ELSE "append")
    /\ UNCHANGED <<files, lock, job, doc, final, nextId, faults, verify>>

(* inspectChainTail: a torn tail throws.                                      *)
InspectTail(p) ==
    /\ pc[p] = "inspect"
    /\ IF frag # "none"
       THEN Throw(p) /\ UNCHANGED tail
       ELSE /\ tail' = [tail EXCEPT ![p] = Chain!Anchor(lines, Sid)]
            /\ Goto(p, IF job[p] = "finalize" THEN "yaml" ELSE "append")
            /\ UNCHANGED job
    /\ UNCHANGED <<files, lock, doc, final, nextId, faults, verify>>

(* The append of appendChainedEventLocked.                                    *)
AppendLine(p) ==
    /\ pc[p] = "append"
    /\ lines' = Append(lines, [id |-> nextId, text |-> job[p], prev |-> tail[p].head])
    /\ nextId' = nextId + 1
    /\ Goto(p, IF job[p] = "task_created" THEN "yaml" ELSE "release")
    /\ UNCHANGED <<frag, yaml, lock, job, doc, tail, final, faults, verify>>

(* Mutant: the creator finalizes the document it created.                     *)
MutatedFromCreated(p) ==
    CASE job[p] = "running" -> [doc[p] EXCEPT !.status = "running"]
      [] job[p] = "finalize" ->
            [Created EXCEPT !.status = final, !.integrity = tail[p]]
      [] OTHER -> [doc[p] EXCEPT !.task = p]

(* What a command makes of the session.yaml it read.                          *)
Mutated(p) ==
    CASE job[p] = "running" -> [doc[p] EXCEPT !.status = "running"]
      [] job[p] = "finalize" ->
            [doc[p] EXCEPT !.status = final,
                           !.integrity = IF tail[p].count > 0 THEN tail[p]
                                         ELSE doc[p].integrity]
      [] OTHER -> [doc[p] EXCEPT !.task = p]

(* The whole document is overwritten (tmp and rename).                        *)
OverwriteYaml(p) ==
    /\ pc[p] = "yaml"
    /\ job[p] \in {"running", "finalize", "task_created"}
    /\ yaml' = Mutated(p)
    /\ \/ Goto(p, "release") /\ UNCHANGED job
       \/ (* a task created in a terminal status appends a second event *)
          /\ job[p] = "task_created"
          /\ job' = [job EXCEPT ![p] = "task_status_changed"]
          /\ Goto(p, "read")
    /\ UNCHANGED <<lines, frag, lock, doc, tail, final, nextId, faults, verify>>

(* The first session.yaml of exec, run and an ad-hoc session.                 *)
CreateYaml(p) ==
    /\ pc[p] = "yaml"
    /\ job[p] = "create" \/ (job[p] = "adhoc" /\ yaml = NoYaml)
    /\ yaml' = Created
    /\ Goto(p, IF job[p] = "adhoc" THEN "bulk" ELSE "release")
    /\ UNCHANGED <<lines, frag, lock, job, doc, tail, final, nextId, faults, verify>>

(* writeEventsBulk of an ad-hoc session: the whole chained log in one rename. *)
AdHocEvents == <<"session_started", "to_running", "target", "to_final", "session_ended">>

BulkLines(texts) ==
    [i \in 1 .. Len(texts) |->
        [id |-> nextId + i - 1, text |-> texts[i],
         prev |-> IF i = 1 THEN Genesis(Sid) ELSE nextId + i - 2]]

WriteBulk(p) ==
    /\ pc[p] = "bulk"
    /\ lines' = BulkLines(AdHocEvents)
    /\ frag' = "none"
    /\ nextId' = nextId + Len(AdHocEvents)
    /\ tail' = [tail EXCEPT ![p] = Chain!Anchor(lines', Sid)]
    /\ Goto(p, "yaml")
    /\ UNCHANGED <<yaml, lock, job, doc, final, faults, verify>>

(* The ad-hoc session's second session.yaml: completed, with its anchor.      *)
CompleteAdHoc(p) ==
    /\ pc[p] = "yaml"
    /\ job[p] = "adhoc"
    /\ yaml # NoYaml
    /\ yaml' = [status |-> "completed", task |-> NoTask, integrity |-> tail[p]]
    /\ Goto(p, "release")
    /\ UNCHANGED <<lines, frag, lock, job, doc, tail, final, nextId, faults, verify>>

-----------------------------------------------------------------------------
(* Faults.                                                                    *)
Fault == faults < MaxFaults /\ faults' = faults + 1

(* An append cut short leaves some of the line, without its newline.          *)
Torn(p) ==
    /\ frag' \in IF pc[p] = "append" THEN {"none", "chained", "plain"} ELSE {frag}
    /\ UNCHANGED lines

(* The process dies; its lock stays behind for the next acquire to clear.     *)
Crash(p) ==
    /\ pc[p] \notin Over
    /\ Fault
    /\ Torn(p)
    /\ Goto(p, "dead")
    /\ doc' = [doc EXCEPT ![p] = NoYaml]
    /\ tail' = [tail EXCEPT ![p] = NoAnchor]
    /\ UNCHANGED <<yaml, lock, job, final, nextId, verify>>

(* An append or an overwrite fails (disk full); the section throws.           *)
WriteFails(p) ==
    /\ \/ pc[p] = "append"
       \/ pc[p] = "yaml" /\ job[p] \in {"running", "finalize", "task_created"}
       \/ pc[p] = "yaml" /\ job[p] = "adhoc" /\ yaml # NoYaml
    /\ Fault
    /\ Torn(p)
    /\ Throw(p)
    /\ UNCHANGED <<yaml, lock, doc, tail, final, nextId, verify>>

(* A first write of a session fails: its directory is removed.                *)
CreationFails(p) ==
    /\ \/ pc[p] = "bulk"
       \/ pc[p] = "yaml" /\ yaml = NoYaml /\ job[p] \in {"create", "adhoc"}
    /\ Fault
    /\ lines' = <<>>
    /\ frag' = "none"
    /\ yaml' = NoYaml
    /\ Throw(p)
    /\ UNCHANGED <<lock, doc, tail, final, nextId, verify>>

-----------------------------------------------------------------------------
(* verifyEventsChain, lock-free: the events, then session.yaml.               *)
VerifyReadsEvents ==
    /\ Verifying
    /\ look.next = "events"
    /\ seen' = [lines |-> lines, frag |-> frag]
    /\ look' = [look EXCEPT !.next = "yaml"]
    /\ UNCHANGED <<files, lock, pc, job, doc, tail, final, nextId, faults, verdict>>

AnchorState ==
    [kind |-> IF yaml = NoYaml THEN "absent" ELSE "present", newer |-> FALSE,
     status |-> yaml.status, integrity |-> yaml.integrity]

SeenLog ==
    [lines |-> [i \in DOMAIN seen.lines |->
                    [id |-> seen.lines[i].id, text |-> seen.lines[i].text,
                     sid |-> Sid, prev |-> seen.lines[i].prev]],
     frag |-> seen.frag]

(* Mutant: a mismatching anchor is not looked at again.                       *)
VerifyReadsYamlOnce ==
    /\ look.next = "yaml"
    /\ verdict' = Chain!VerifyOnce(SeenLog, AnchorState, Sid)
    /\ look' = [look EXCEPT !.next = "done"]
    /\ seen' = [lines |-> <<>>, frag |-> "none"]
    /\ UNCHANGED <<files, lock, pc, job, doc, tail, final, nextId, faults>>

(* A mismatching anchor is looked at once more.                               *)
VerifyReadsYaml ==
    /\ look.next = "yaml"
    /\ LET judged == Chain!VerifyOnce(SeenLog, AnchorState, Sid) IN
       IF judged.reason = "anchor_mismatch" /\ look.attempt = 1
       THEN look' = [attempt |-> 2, next |-> "events"] /\ UNCHANGED verdict
       ELSE look' = [look EXCEPT !.next = "done"] /\ verdict' = judged
    /\ seen' = [lines |-> <<>>, frag |-> "none"]
    /\ UNCHANGED <<files, lock, pc, job, doc, tail, final, nextId, faults>>

-----------------------------------------------------------------------------
Step(p) ==
    \/ Lock(p) \/ LockHeld(p) \/ Release(p)
    \/ ReadYaml(p) \/ InspectTail(p) \/ AppendLine(p) \/ OverwriteYaml(p)
    \/ CreateYaml(p) \/ WriteBulk(p) \/ CompleteAdHoc(p)

Verify == VerifyReadsEvents \/ VerifyReadsYaml

Next ==
    \/ \E p \in Procs : Step(p) \/ Crash(p) \/ WriteFails(p) \/ CreationFails(p)
    \/ ChildEnds
    \/ Verify

Spec == Init /\ [][Next]_vars

(* The commands run on; the child ends in the end.                            *)
FairSpec ==
    /\ Spec
    /\ \A p \in Procs : WF_vars(Step(p))
    /\ WF_vars(ChildEnds)

-----------------------------------------------------------------------------
Sealed == yaml.status \in FinalStatuses

Recorded(text) == \E i \in DOMAIN lines : lines[i].text = text

(* However the sections of creator and attachers interleave and whoever dies  *)
(* in them, each line carries the hash of the line before it.                 *)
ChainIntact == Chain!Linked(lines, Sid)

(* A session at rest has its anchor, and the anchor is of the log as it is:   *)
(* no event came after the finalize, none before it is missing from it.       *)
AnchorMatchesLog ==
    Sealed => yaml.integrity = Chain!Anchor(lines, Sid) /\ frag = "none"

(* session.yaml is never ahead of the log: a status it shows is recorded.     *)
YamlNeverAhead ==
    /\ yaml.status = "running" => Recorded("to_running")
    /\ Sealed => Recorded("to_final") /\ Recorded("session_ended")

(* The status writes of the creator keep the task an attacher set.            *)
TaskLinkKept == [][yaml.task # NoTask => yaml'.task = yaml.task]_vars

(* The session implements its abstract trail.                                 *)
AbstractTrail == INSTANCE Trail WITH trail <- lines, sealed <- Sealed

ImplementsTrail == AbstractTrail!Spec

(* verify calls a session nobody touched by hand tampered only if it read no  *)
(* event at all before the session was finalized.                             *)
FalseAlarmNeedsEmptyLog ==
    verdict.status = "tampered" => verdict.reason = "anchor_without_chain"

(* Every command ends, and no living process is left holding the lock.        *)
CommandsEnd ==
    <>[](/\ \A p \in Procs : pc[p] \in Over \/ (p # Creator /\ yaml = NoYaml)
         /\ Available)

(* verify.ts and docs/spec/schemas.md: tampered is "a real break".            *)
TamperedIsReal == verdict.status # "tampered"

-----------------------------------------------------------------------------
(* The inductive invariant behind the safety properties.                      *)

(* Every file operation of a section is done by the lock's holder.            *)
InsideHoldsLock == \A p \in Procs : pc[p] \in Inside => lock = p

(* Each process is in a section of its own, at a step that section has.       *)
JobsFit ==
    /\ job[Creator] \notin Attaches
    /\ \A p \in Notes : job[p] \in {"note_added", "throw"}
    /\ \A p \in Tasks : job[p] \in {"task_created", "task_status_changed", "throw"}

Overwrites == {"running", "finalize"} \cup Attaches

StepsFit ==
    \A p \in Procs :
        /\ pc[p] = "out" => job[p] # "throw"
        /\ pc[p] = "read" => job[p] \in Overwrites
        /\ pc[p] = "inspect" => job[p] \in Appends \cup Attaches \cup {"finalize"}
        /\ pc[p] = "append" => job[p] \in Appends \cup Attaches
        /\ pc[p] = "bulk" => job[p] = "adhoc"
        /\ pc[p] = "yaml" =>
              job[p] \in {"create", "adhoc", "running", "finalize", "task_created"}

(* What a process inspected or read is what is on disk, until it is used.     *)
TailUsed(p) ==
    \/ pc[p] = "append"
    \/ pc[p] = "yaml" /\ job[p] = "finalize"
    \/ pc[p] = "yaml" /\ job[p] = "adhoc" /\ yaml # NoYaml

TailFresh ==
    \A p \in Procs : TailUsed(p) =>
        tail[p] = Chain!Anchor(lines, Sid) /\ frag = "none"

DocUsed(p) ==
    /\ pc[p] \in {"inspect", "append", "yaml"}
    /\ job[p] \in Overwrites

DocFresh ==
    \A p \in Procs : DocUsed(p) =>
        /\ doc[p] = yaml /\ yaml # NoYaml
        /\ job[p] \in Attaches => Attachable(job[p], yaml)

(* The creator's jobs before and after session.yaml first exists.             *)
Creation ==
    /\ job[Creator] \in {"create", "adhoc"} /\ pc[Creator] = "out" => yaml = NoYaml
    /\ job[Creator] = "create" /\ pc[Creator] = "yaml" => yaml = NoYaml
    /\ job[Creator] = "create" /\ pc[Creator] = "release" => yaml # NoYaml
    /\ pc[Creator] = "bulk" => yaml = Created /\ lines = <<>>
    /\ job[Creator] = "adhoc" /\ pc[Creator] = "yaml" /\ yaml # NoYaml => yaml = Created
    /\ yaml = NoYaml => lines = <<>> /\ frag = "none"

(* From then on it finds session.yaml, and from its first event on a log.     *)
Recording ==
    /\ job[Creator] \notin {"create", "adhoc", "throw"} => yaml # NoYaml
    /\ \/ job[Creator] \in {"create", "adhoc", "throw"}
       \/ job[Creator] = "session_started" /\ pc[Creator] # "release"
       \/ lines # <<>>

(* Only the creator seals the session, and it has nothing left to do then.    *)
SealedIsLast ==
    Sealed =>
        \/ pc[Creator] \in Over
        \/ pc[Creator] = "release" /\ NextJobs(job[Creator]) = {}

IInv ==
    /\ InsideHoldsLock
    /\ JobsFit
    /\ StepsFit
    /\ TailFresh
    /\ DocFresh
    /\ Creation
    /\ Recording
    /\ SealedIsLast
    /\ ChainIntact
    /\ AnchorMatchesLog
=============================================================================
