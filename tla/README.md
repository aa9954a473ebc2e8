# basou, specified

A TLA+ development kept beside [basou](../src/README.md), a command-line tool
that records the provenance of AI and human work on a repository: sessions,
their events, tasks, decisions and approvals, as plain files under `.basou/`.
There is no server and no database. Several short-lived processes read and
write the same files, any of them can die between two file operations, and
what a reader is told must still be right. That is what is modelled here.

Source paths below are relative to `src/packages/`; `core` is `core/src` and
`cli` is `cli/src`.

## The system

| Part | State it keeps | Operations | What makes it correct |
|---|---|---|---|
| Locks (`core/storage/lockfile.ts`, `atomic.ts`) | one file per `<scope>_<id>.lock` under `.basou/locks` | `acquireLock` (link, probe, unlink a stale one, retry once), `release` | who can be inside at once, and when a holder is displaced; a stranded lock goes away; nobody waits |
| Hash chain (`core/events/chain.ts`, `event-writer.ts`) | `prev_hash` in each line of a session's `events.jsonl` | chain a batch, chain one line | each line covers the one before it |
| Chained append (`core/events/chained-append.ts`) | `events.jsonl` | inspect the tail, append one line, under the session lock | no fork of the chain, no append onto a torn line |
| Verify (`core/events/verify.ts`) | none | read the log, then `session.yaml`, without a lock; judge; look again at an anchor mismatch | an edit is detected, an unedited session is not called tampered |
| Session recording (`core/storage/sessions.ts`, `ad-hoc-session.ts`, `cli/commands/exec.ts`, `run.ts`) | `session.yaml` (status, task, integrity anchor) | create, move to running, finalize, one-shot (ad-hoc) sessions, attach an event or a task | the anchor is of the log; the yaml is never ahead of the log; nothing an attacher wrote is lost |
| Session import (`core/storage/session-import.ts`, `cli/commands/import.ts`) | a whole session directory | import, `--force`, re-import in place, re-chain | ids survive, a source stays one session, a death leaves something verify or the next import understands |
| Tasks (`core/storage/tasks.ts`, `task-index.ts`, `cli/commands/task.ts`) | `tasks/<id>.md`, `tasks/archive`, `tasks/index.json` | create, attach, status, edit, reconcile, refresh-linkage, delete, archive, list | the file follows the log, a finished task stays finished; the index, a cache, never hides a task |
| Approvals (`core/approval`, `cli/commands/approval.ts`) | `approvals/pending` and `approvals/resolved` | resolve, expire | one decision per approval, also after a death |
| Child process runner (`core/runtime`) with exec and run | a child, two timers, a listener, the signal handlers | run, time out, abort, exit | the child does not outlive the run; files, log and exit code tell one outcome |
| Refresh watcher (`cli/commands/refresh-watch.ts`) | two scans, a flag | poll, import, regenerate | a change of the source logs ends up imported and rendered |
| Renderers, statistics, board, review gaps | none | read the stores, print | pure functions of the files |
| Project lifecycle (`core/project`, `cli/commands/project.ts`, `core/storage/markdown-store.ts`) | the manifest; the canonical instruction files with their generated regions; links in every repository and in the workspace view | sync, preset, symlinks, workspace (derive), prune, retrofit, archive, teardown | what people wrote is kept, other repositories' files are left alone, derive can be repeated until all is wired |
| Hooks, channels, view server, SDK | user configuration files; none | one atomic replace each; read-only | see `PROJECT.json` |

The parts meet in the files. A command that records (exec, run, a one-shot
command) creates a session directory and appends to its log; other commands
attach to it while it is live, under the session lock; verify and all the
renderers read without any lock. Tasks and approvals point at sessions and have
their events in session logs. Nothing calls back and nothing is sent: what
makes this hard is the interleaving of file operations of several processes,
and death between any two of them. The hazards, each at its line with the
properties aimed at it, are in `PROJECT.json`.

## Modules

| Module | Models | Checked by | Proofs |
|---|---|---|---|
| `Lockfile` | `acquireLock`/`release` call by call, for one path | `MCLockfile` | `LockfileProofs` |
| `LeaseLock` | what the lockfile gives its callers: a lease | refinement from `Lockfile` | `LockfileProofs` |
| `ChainLog` | chain, tail state, and `judgeChain` as operators | through the next two | through the next two |
| `ChainTamper` | a recorded session whose files are edited by hand | `MCChainTamper` | `ReaderProofs` |
| `SessionLog` | one session directory: recording, attaching, verifying, dying | `MCSessionLog` | `SessionLogProofs` |
| `Trail` | what a session promises its readers | refinement from `SessionLog` | `SessionLogProofs` |
| `Approval` | one approval: its two files, its event, and who races for it | `MCApproval` | `ApprovalProofs` |
| `RefreshWatch` | `basou refresh --watch` and the logs it watches | `MCRefreshWatch` | `ReaderProofs` |
| `SessionImport` | the sessions imported from one growing source: import, `--force`, re-import in place, rechain | `MCSessionImport` | `SessionImportProofs` |
| `TaskStore` | task files, archive, index, the events of tasks, and who works on them | `MCTaskStore` | `TaskStoreProofs` |
| `TaskLife` | what the task store promises: the life of a task | refinement from `TaskStore` | `TaskStoreProofs` |
| `ExecRun` | the two processes of `exec` and `run`: event loop and child | `MCExecRun` | `ExecRunProofs` |
| `ProjectWiring` | manifest, canonicals, links and view of a project, and the commands that wire them | `MCProjectWiring` | `ProjectWiringProofs` |

### Lockfile

A variable `file` is the directory entry, `pc` where each process is in
`acquireLock`. `CreateLinks`, `CreateNoDirectory` and `CreateExists` are the
three outcomes of the first `atomicCreate`; `MakeDirectory` and `CreateNew` the
ENOENT branch; `ReadLock` and `ProbeHolder` are `isStaleLock`, which reads the
file and later asks about the pid it read; `UnlinkStale` and `Retry` the rest.
`CreateFails` is any other error. The body keeps the pid and whether it is over
an hour old. A process may die anywhere (`Crash`), and a pid may come back to
life as another process (`Respawn`), which is why the age limit exists.

`displaced` and `current` are history variables. A holder is displaced when
somebody else's unlink removed its lockfile; a process is current when the
directory entry has not changed since it last looked.

What the runs and proofs say:

- The lock is **not** a mutex (run `lockfile_mutex`, a finding). A lock that is
  released between the failed create and the read is unreadable, unreadable
  counts as stale, and the unlink that follows removes whatever is there by
  then - with no death and no old lock. Two concurrent reclaims of one stale
  lock end the same way.
- What it is, is a lease: `ImplementsLease`, `UndisplacedExclusion`. Two holders
  nobody has displaced are one process, and displacement has exactly two causes
  (`DisplacedOnlyBlindlyOrByAge`): an hour-old lock, or an unlink by a process
  whose knowledge of the path is out of date.
- A stranded lock is cleared under the fairness below.

### ChainLog and ChainTamper

`ChainLog` is a module of operators over a log and what verify reads of
`session.yaml`. It is instantiated twice: `ChainTamper` gives hashes as the
tuple of what they cover (so they are injective and an editor can recompute
them), `SessionLog` gives the line's fresh id. `ChainTamper` starts from every
chained log of up to three lines over two texts, live or at rest, and applies
up to two edits: change, drop or copy a line, swap in another session's log,
strip the chain, recompute the hashes from a line on, tear the tail, edit
`session.yaml`. The run shows that an edit of `events.jsonl` alone is always
detected for a session at rest, also when hashes are recomputed; that
`session.yaml` alone cannot pass a chained log off as an unchained one; how much
is checked of a live session; and that the line number reported is the first
line that differs or the one after it. The proofs say the same of logs of any
length over any texts and of any number of edits.

A line can have several faults and an anchor several things wrong with it: what
is reported is the first the walk comes to, so `LineFault`, `JudgeAnchor` and the
rest are chains of IFs in the order of the code. `TextsParse` says that what a
line says is neither blank nor malformed, which is what the two names are for.
The module names its specification `TamperSpec`, as its proofs share a module
with those of `RefreshWatch`: both are about reading logs somebody else writes.

### SessionLog

One session directory and the processes around it. A process is in a *section*
(`job`), for which it holds the session lock, at a file operation (`pc`). `doc`
and `tail` are what it read of `session.yaml` and of the log and will use later
in the section. `NextJobs` is the order in which exec and run go through their
sections, with the lock released and other processes free to come in between
each two of them; the child process runs with no lock held (`ChildEnds`).
Attaching commands (`note_added`, `task_created`) read `session.yaml`, check
that it may be attached to, inspect the tail, append, and for a task overwrite
`session.yaml` with the task's id. Ad-hoc sessions write the yaml, the whole log
in one rename, and the completed yaml, in one section. `LockHeld` is the
fail-fast lock: nobody waits. `Crash` may cut an append short; `WriteFails` is a
full disk; `CreationFails` removes the directory of a session that could not be
created. verify's two reads are steps of their own.

The lock of this module is a mutex that a dead holder does not keep. That is
what the callers assume; module `Lockfile` says under which conditions they get
it.

Simplifications: a task attach reads `session.yaml` once, under the lock (the
code also reads it before, to fail early); one `file_changed` event stands for
any number; the task file, written after the session lock is released, belongs
to the task store; entries of the store that are symlinks, and logs without any
`prev_hash` from older versions, are left to `ChainTamper`.

`Trail` is what a session promises: events are only ever added at the end until
the session is sealed, and never after.

### Approval

One approval and the processes around it. `List` is `enumerateApprovals`, the
two directories in either order; `Inspect` to `Unlink` are the steps D-3 to D-11
of `doRunApprovalResolve`: the files are looked at and the time is taken without
the lock, the log and the session's status are read and the event appended under
it, the resolved file is created and the pending one removed after it. `Link`
never overwrites. `LoadResolved`, `LoadPending` and `ReadEvents` are
`approval show`. `Finalize` is the session's creator, whole, since it runs under
the lock. `blind` is a history variable: the resolvers that could not read
`session.yaml` and went on, as the code says they do.

Whoever races, fails or dies, at most one resolution is recorded, in time, and
the files never contradict it; approve and reject never both succeed; the "at
the same time" error of `linkYamlFile` is never reached while the lock holds
(`NoCollision`, proved only).
A death between event and resolved file leaves the request under pending for
good, with every retry refused: the decision stands in the log, and nothing in
the code completes the files (`DecisionLands` says when they are completed). What
a reader may miss: `loadApproval` looks under resolved and then under
pending, the order in which an approval that moves the other way is on neither.

A pending file is placed by a producer outside the code; it is there from the
start. The log is reduced to the resolution events of this approval: torn lines
and the chain are `SessionLog`'s. `approval list` reads what show reads.

### RefreshWatch

`Scan` and `ScanEnds` are one poll: the logs are stat'ed one at a time, the
result compared with the last poll (quiescence) and with the last import. A log
is a version number; a write that keeps size and modification time the same is
therefore not in the model, and the code cannot see it. `Import` takes one log
at a time and may find a log newer than the scan did; `Settle` takes the scan
from before the import for the imported one. An import may also look at a grown
log and store nothing without throwing (`Refuse`: a broken chain, a source that
cannot be read, shrank or was not appended to, a duplicate, nothing to derive);
the log counts as imported all the same, until it grows again. `looked` is the
version an import last looked at. `RegenerateHandoff` and
`RegenerateDecisions` write the two files. `CycleFails` may strike anywhere in a
cycle and drops what the cycle held in local variables. Logs grow at any time,
and logs of other repositories change too.

Nothing a poll saw is passed over without an import having looked at it
(`NothingMissed`), and in the end every log has been looked at and all that was
stored of it is in the generated files (`EverythingShown`); generated files
behind the store are owed a regeneration, unless an import failed halfway
(`StaleIsOwed`); and they are not rewritten idly. The exception is a finding: the
count of changed sessions is lost with the cycle that throws. Logs that never
stop changing starve the import: the run's liveness is for logs that come to
rest.

### SessionImport

One source (the log another tool keeps of one of its sessions), which grows and
may be rewritten, and all sessions ever imported from it. `Load` to `Derive` are
`basou import` without a lock: the store is listed, each `session.yaml` read
(`Scan`), the source classified (`Reason` is `classifyReimport`), then read and
turned into events (`Derive`; `Own` is the part of it that is not a copy of an
older transcript). A new session is `MakeDirectory`, `WriteBulk`, `LinkYaml`, and
`Cleanup` when one of them fails; `Remove` is `--force`. An import in place and
a rechain go on under the session lock: `Judge` is verify (the chain judged as in
`ChainLog`, here on an abstract log), `Merge` re-keys the fresh derivation onto
the prior ids (`Rekeyed`, `Refused`) and keeps what people recorded, `WriteEvents`
and `WriteYaml` are the two renames, `Restore` puts the log back when the second
fails.

A log is the set of its events. An event is an id and what it says: kind, time,
and which of those with this kind and time it is - what the first-in-first-out
matching of the code goes by. An id is the write that minted it and what for.
`ghost` is history: logs edited by hand or cut between their renames, imports
that overlapped, a source that was rewritten.

Ids survive any number of re-imports and are never given twice (`IdsKept`,
`IdsUnique`). A session reads as tampered exactly when somebody edited it or a
death fell between the two renames, and no command ever chains such a log anew
(`VerdictsTrue`). One source is one session and what was copied from an older
transcript stays out - unless two imports overlap: the store is read without a
lock, and an import that read an older `session.yaml` can bring copies back or
make a second session. Nothing repairs a session left without `session.yaml`:
the next import does not see it and makes another one, although
`docs/spec/schemas.md:986` tells the reader to re-import.

### TaskStore

The files under `tasks/`, the index, and per task the events that tell what
became of it (`trail`). A command is a line of steps: `Lock`, `Read`, for repairs
`Look`, then `Record` (an ad-hoc session with its event), `RecordAttached` or
`Attach`/`Link`/`Second` (an event in the log of a running session), for repairs
`Probe` (the file is read once more and compared), then `Write`, `Move` (into the
archive, or away), `ReadIndex` and `SaveIndex`. A creation takes no task lock, as
in the code. `list` takes none either: `Replay`, `ReadIds`, `ReadDirectory`,
`Scan`, `Rebuild`, `ListArchive`, `Answer`. What people do comes at any time: an
edit of the file, a session removed, its `session.yaml` lost or spoilt for good
(`damaged`: a refresh skips such a session and drops the link to it,
`core/storage/tasks.ts:2040`; a reconcile does not count it as broken), an index
lost. Not modelled is a `session.yaml` that is no regular file, whose link a
refresh keeps. A `task_created` event carries the status the file was created
with, which the code's event does not: it stands for what a reader takes the
event for. Writing an ad-hoc session is one step; its inside is `SessionLog`'s.

History variables: `landed` are the events whose change of the file was made,
`told` the sessions a file was made to link to; `late`, `blind`, `present` and
`kept` say what a reader could have known.

The events whose changes landed tell one legal life of each task and end where
the file is (`TrailTells`); a finished task stays as it finished, an archived or
deleted one does not come back (`Finality`); a repair overwrites no edit made
before its second look (`HandEditsKept`) - `status` and `edit` have no second
look and do overwrite. The index is read, changed and rewritten with only the
task's own lock held and loses rows to a concurrent writer; no listing ever
hides a task for it (`NeverHidden`), as the ids are compared with the directory.
Links are complete (`LinksComplete`) for the sessions whose `session.yaml` can be
read.

`TaskLife` is what this comes to: every task is created once, moves on, and is
archived or deleted for good, each in one step. What a task is taken for
(`LifeOf`) is what its file shows, and once the file is gone what the last landed
event says; of all that a command writes, one write changes it
(`ImplementsLife`). This refinement is proved; TLC agreed on the instance of the
run `tasks` (1,454,825 distinct states), but it is not among the properties of
that run.

### ExecRun

The parent is one event loop, `phase` what it awaits; the child has the states
the system gives it. `Create`, `StartRunning` and `Launch` come before the child
(`PreSpawnEnds` is what `run codex` does between installing its hooks and the
spawn), `TriggerKill`, `TimeoutFires`, `KillTimerFires`, `Settle` and
`ErrorEvent` are the runner, `RecordExecuted` to `Finalize` the tail of a run
that settled or (`finalizeSessionAsFailed`) failed. `Signal`, `Killed`,
`Uncaught` and `WriteFails` strike anywhere. A child may ignore SIGINT and
SIGTERM (`deaf`) or be one basou may not signal (`guarded`, EPERM).

How a child ended and what basou is told of it are two things (`ending`,
`result`, between them `Reported`): a child ended by a signal Node has no name
for (`Unnamed`: `SIGEMT`, a real-time signal) is reported as exit 0 without a
signal. basou then records exit 0, exits with 0 and calls the session completed
unless the run was interrupted, as `docs/spec/schemas.md:404` and
`docs/spec/compatibility.md:129` say it will; so `OneOutcome` states this
exception, and it is no finding. Every other ending is recorded as it was.

Short of SIGKILL, basou does not end with its child running (`ChildNotLeft`);
an aborted or timed-out child is gone in the end (`Escalates`); `session.yaml`,
`command_executed` and the exit code tell one outcome, the child's own but for
that exception (`OneOutcome`). A run
interrupted in the window before its spawn is finalized as failed, not as
interrupted (`cli/commands/run.ts:389`), while `docs/spec/terminal-and-import.md:16`
speaks of interrupted; the model has it so.

### ProjectWiring

The repositories the manifest declares and those that are there; for each place
(repository or view) its `AGENTS.md` and, as one, its two spokes (`CLAUDE.md`,
copilot instructions); per name a canonical under `agents/` in the anchor and an
entry of the view. What matters of a file is what it is (`ours`, `foreign`, a
file, nothing), whose generated region it has, and which texts of the user's.
`derive` is `Sync`, `Preset`, `PresetView` with `ReadCanon`/`WriteCanon` for each
canonical, `Seed`, `Symlinks`, `SymlinksView` with `MakeLink`, `Workspace` with
`MakeEntry`. `Prune`, `Retrofit` (copy, unlink, relink), `SeedView`, `Archive`
and `Teardown` (links, then the region: open, truncate, write the rest) are the
others. No lock is taken anywhere; the user edits, moves and declares meanwhile.

What the user wrote is lost only in two windows no check closes, between a look
and the write it leads to and between truncating a canonical and writing it back
(`ProseKept`); entries and regions of other declared repositories are left alone
(`OthersKept`); a derive that nothing disturbed wires all that nothing is in the
way of, whatever an earlier command left undone (`DeriveHeals`) - a retrofit that
ended between its unlink and its link included, which
`cli/commands/project.ts:5003` leaves to symlinks and derive.

What the model showed and no property states, as nothing promises otherwise:

- Collisions of names among links, presets and entries count reachable
  repositories only, so of two with one name the one that is there is wired,
  although `core/project/symlinks.ts:122` says "neither is auto-wired". For the
  view's own name every declared repository counts, and teardown asks for every
  declared repository, but not for the view: tearing down a repository named like
  the view strips the view's region. `symlinks` links a repository named like
  the view to the view's canonical.
- Teardown of a `self` repository that was archived before removes its committed
  spokes, as it is declared `self` no more.
- The manifest is read and written whole, without a lock: the later writer wins.
- A canonical emptied by a death inside teardown has no markers, and presets
  pass it over from then on (`derive` links to it as it is); a retrofit that
  failed at its unlink, not after it, is not made up for by symlinks, which find
  a file in the way.

Abstractions: a plan is gathered in one step (each change is checked again when
it is made, as in the code); the two spokes are one; a repository is reachable
when its path resolves and has a `.git`; every hub can be rendered and a region
is in sync when it is its own, so a change of the roster never makes the block
of the view out of date (only its own rendering does); a file replaced by one of
the same content between teardown's look and its truncation cannot be told from
the one it looked at; the order of the roster is fixed; the `.gitignore`
lines and `new`, `adopt` and `rename`, which write a manifest only, are left out.

## Runs

| Run | Question | Bounds, and why they are enough |
|---|---|---|
| `lockfile` | when is exclusion lost; is it a lease; is a stranded lock cleared | 3 processes: a displaced holder, its displacer and the next holder; 2 faults: a death and what follows it |
| `lockfile_mutex` | finding: it is not a mutex | 2 processes, no faults: the shortest violation |
| `tamper` | what verify detects, and where it says the break is | logs of up to 3 lines (first, inner, last), 2 edits (one to hide the other) |
| `session` | log, anchor, yaml, task link and verify under interleaving and death; do commands end | a creator of either kind and two tasks (two, to compete for the link), verify beside them, 1 fault; notes and snapshots only add sections of the same shape and are in the proofs |
| `session_alarm` | finding: verify cries tampered | one ad-hoc session, no faults |
| `approval` | is one decision recorded, in time, and mirrored; does a recorded one land | one approve, one reject, one show; 3 instants: before, at and after the expiry; 2 faults: a death and the failure of who comes next |
| `watch` | is a change missed or forgotten; is everything shown in the end | a log of each adapter with 2 writes (one before, one during an import) and one of another project with 1; 1 failed cycle |
| `watch_lost` | finding: a regeneration is forgotten | one log of each adapter, 1 write each, 1 failed cycle |
| `import` | do ids, sessions and verdicts survive any number of imports; is the source imported in the end | one importer that starts over without end and one command of any kind beside it; 4 histories (none, unchained, without a size, with copies); a source of up to 3 records (a copy, its own first, one more), 3 sessions (one more than two overlapping imports make), 1 fault |
| `tasks` | do file, trail, index and links agree under interleaving, hand edits and death | 2 processes, an existing and a new task, 3 commands (two that race and one that sees the result), 1 trouble; a target status of each kind, open and finished |
| `exec` | does the child outlive basou; do the records tell one outcome; does a timeout end it | each command; 3 signals (abort, second, one in the tail), 2 faults |
| `wiring` | is text lost, another's file touched, wiring left undone | 2 processes, two hubs of one name (they collide, or one is away) and a `self` repository named like the view; one hub and the view unwired at first; 2 commands, 1 trouble |

Type invariants are proved where there is a proof module (theorem
`InvariantHolds` or `TypesHold`) and are not run again beside it. Deadlock is
checked for the lockfile, which never stops. Commands end, sources stop growing
and bounds are reached everywhere else, so there it is not.

Process sets that are only ever used through membership are symmetric
(`tasks`, `wiring`); symmetry is not used where a run checks liveness.

## Fairness

`Lockfile!Fairness`: an attempt in flight goes on and a holder reaches its
`finally` - a process that runs, runs - and the clock advances. `RetrySpec` adds
that the user keeps issuing commands: recovery of a stranded lock is the work of
the next acquire, there is no daemon, and without a next command nothing happens.
`SessionLog!FairSpec`: the processes keep running and the child ends in the end
(exec waits for it without limit). `Approval!FairSpec`: a command that runs goes
on. `RefreshWatch!FairSpec`: the watcher's loop goes on, its sleep ends.
`SessionImport!FairSpec`: a command that runs goes on and the importer is run
again, by the user or by `refresh`. `ExecRun!FairSpec`: the event loop turns, and
a timer that stays armed fires; the child need not end by itself. `TaskStore` and
`ProjectWiring` claim no liveness and have none. Death, failures, users and the
tools that write logs are never fair.

## What is proved

The eight `...Proofs` modules are checked by TLAPS for all values of the
constants: any number of processes, attachers, tasks, approvers, viewers, logs,
repositories, importers, sources, lines, edits, signals and faults. Every
invariant a run checks is a theorem; liveness is not (below).

- *Lockfile.* `IInv` = types, only live processes are busy, an undisplaced
  holder's lockfile is the one at the path, and what a current process read is
  still there. The last part is what makes it inductive: an unlink by a process
  that is still current can only hit an old body or one whose owner does not
  hold the lock. From it: `ExclusionHolds`, `DisplacementCause`, and
  `LockfileImplementsLease` step by step.
- *SessionLog.* `ChainIntact` and `AnchorMatchesLog` are not inductive. What
  carries them: whoever is inside a section holds the lock
  (`InsideHoldsLock`), so what it inspected or read is still what is on disk
  when it uses it (`TailFresh`, `DocFresh`); each process is at a step its
  section has (`JobsFit`, `StepsFit`); the order of creation (`Creation`,
  `Recording`); and once the session is sealed the creator is through
  (`SealedIsLast`). `InductiveStep` has a step per action and under it one per
  conjunct. From it: `ChainHolds`, `AnchorHolds`, `TaskLinkHolds`, and
  `SessionImplementsTrail`. `NeverAhead` needs besides what each section has
  recorded by the time it writes the yaml (`JobsRecorded`).
  `FalseAlarmOnlyOnEmptyLog` is about two reads with any number of steps between
  them: `SeenFits` says what the log that was read has to do with what is there
  by the second read (it links up; it is empty, or the log is not; it is the log
  of a sealed session on the second look), and `Judged` goes through everything
  `judgeChain` may make of it with the yaml of that moment.
- *ChainTamper.* `Edited` is inductive: the file not edited is as recorded, the
  log is one of lines whatever was done to it, and one edit of it is one of the
  seven (`Reaches`). What it comes to is about chains. A hash tells the line it is
  of (`HashTells`) and no two places of a chain, its end included, go by one hash
  (`HashesDiffer`): otherwise take the first that shares its hash with a later
  one; the lines before the two are the same line, so an earlier place shares
  too. So a line that is clean and as recorded vouches for the one before it
  (`LineBefore`), a gap or a copy shows (`GapShows`, `CopyShows`), and a clean log
  of as many lines with the recorded head is the recorded log (`HeadTells`: look
  at the last line that differs). The arguments by a first or a last line are
  `LeastNumber` and `GreatestNumber`, from the well-foundedness of `<`; the
  recursive hashes of `ChainEvents` and `Rehashed` are the choice of a function
  that `UptoAll` shows to exist. From it: `TamperTypesHold`, `TamperDetected`,
  `TamperLocalised`.
- *Approval.* Past the fence the log is empty, the time in time and the session
  live or unread (`Fenced`, `StatusFenced`), because the lock is held from the
  fence to the append (`HoldsLock`); so the append makes the log of one
  resolution, the resolver's own (`Recorded`), which no one else can have
  (`by`), and the file it creates is that resolution (`Mirrored`). From it:
  `DecidedOnce`, `FilesAgree`, `OneSucceeds`, `DecidedWhileOpen`,
  `ShownWithItsEvent`.
- *RefreshWatch.* Versions only grow along scan, import and log (`Ordered`), and
  what counts as imported an import has looked at (`AnsweredLooked`, `Baseline`):
  the baseline is the scan from before the import, never newer than what the
  import looked at. Staleness is carried by `Owed` and `OwedIsStale`. From it:
  `NothingIsMissed`, `StaleFilesAreOwed`, `NoIdleRewrite`.
- *SessionImport.* The invariant is `Fits`, in groups. What a command holds fits
  where it is, and a session in the making is its maker's alone (`CommandsFit`,
  `MakersAlone`, `SessionsFit`). Ids: those of a session, in its log and in the
  hands of whoever rewrites it, are older than the next mint, one each, and in no
  other session (`IdsFit`, `AllTidy`). Verdicts: a session nobody is between two
  renames of is clean if it bears no mark and broken if it does (`StoreFits`), a
  mark being an edit by hand or a death between the renames; a rewrite is of an
  unmarked session whose log is still the one it judged (`RewritesFit`), as it
  holds the lock; and no anchor was ever taken of a forged event (`ForgedApart`),
  so none can come to match it. One session: as long as no two imports overlapped
  there is one readable session, and the import that runs will see it (`Alone`).
  What is let go: a merge keeps each event it had or has the reason
  (`MergeKeeps`, with `SourceFits`, `StartsFit`), and with no overlap a session
  that starts after the copies holds none (`NoneCopied`, with `PriorsFit`,
  `TimesFit`). From it: `TypesHold`, `NoTwoOfOneId`, `VerdictsHold`,
  `OneSessionEach`, `IdsHold`, `CopiesHold`.
- *ExecRun.* `ChildNotLeft` needs to know where a child can be: none before the
  spawn (`NothingYet`), one that is there or an error that is due while the
  parent waits with its hooks installed (`Waited`), none in a tail but one that
  may not be killed (`Settled`, which also says that basou
  holds what `Reported` makes of the child's ending; `ReportedIn`). `OneOutcome` needs the order of the records
  (`Recorded`). From it: `TypesHold`, `NoChildLeft`, `OutcomeIsOne`.
- *TaskStore.* Each command is at a step its operation has (`Labels`) and holds
  its task's lock while inside (`Exclusion`); hence the file between read and
  write is live and in the status that was read (`Standing`), and with the
  single creation of a task (`Fresh`), the events a command still has to land
  (`Pending`) and those that landed (`Traced`) a deleted task is never written
  again. `Untouched` carries the second look of the repairs, `Listing` what a
  listing owes: whatever it has to show is on disk until it is read. A lemma
  (`Elsewhere`) says what a step of one process leaves true for the others; it
  needs only that the step stays with the task whose lock its process holds.
  From it: `TypesHold`, `ListingsComplete`, `NoneIsTrue`, `FinalityHolds`,
  `HandEditsSurvive`. `TrailHolds` adds what a command owes the trail between its
  event and its write (`Telling`): its events come after all that landed, and tell
  in one step, or in two when a task is finished as it is created, how the task
  gets from what was read to what will be written. `LinksHold` adds that sessions
  are numbered as they are made (`Counted`), that each has one task (`PinnedOnce`),
  that at most one command has a session and no link yet (`LinkedAlone`), and what
  a command holds of links and sessions at each step (`Linking`).
  `TaskStoreImplementsLife` rests on the invariant of `TrailHolds`: what a task is
  taken for is what its trail tells (`ShownIsTold`), which only a landing changes
  (`ShownStays`), from what the command read to what it makes (`ShownGoesOn`).
- *ProjectWiring.* No lock protects a plan, so what a command knows at a step is
  what it planned from (`Fits`): it renders only what nobody it saw shares the
  name of, and removes only what no declared repository needs. A text in a
  canonical, in the hands of a teardown, or counted as lost is safe, and no step
  makes it unsafe (`SafeStays`); the one step that destroys a text elsewhere,
  retrofit's unlink, is reached only after the copy of it was safe (`Copied`).
  Links hold no text, and a block belongs to a place of its canonical's name
  (`Plain`). From it: `TypesHold`, `ProseHolds`, `OthersHold`. `DeriveWires` adds,
  for a derive that nothing disturbed so far, that what it planned from is still
  what there is (`Current`) and that whatever an earlier stage had to do for a
  place is done or still on its list (`Rendering`, `Linking`, `Entering`); a step
  of another process that leaves it undisturbed changes no file (`OthersAlone`).

The proofs assume what the modules assume of their constants (distinct process
sets, booleans, natural bounds, known commands, a finite set of tasks, texts that
parse) and nothing else. That hashes do not collide is not assumed but modelled: a
hash is the tuple of what it covers, or the fresh id of its line.

Only model-checked is liveness: `StrandedLockCleared`, `CommandsEnd`,
`DecisionLands`, `EverythingShown`, `AbortEnds`, `Escalates`, `CaughtUp`. It rests
on fairness and so on ENABLED, which the provers at hand do not handle. The three
findings are counterexamples of runs.

The inductive invariants were model-checked before they were proved, the later
ones (`Fits`, `Telling`, `Linking`, `Healing`, `Edited`) with the constants of the
run beside them.

## Findings

1. `lockfile_mutex` - the lock is not exclusive, see above. `core/storage/lockfile.ts:137`.
2. `session_alarm` - verify reports `tampered` (`anchor_without_chain`) for a
   session nobody edited: it looks again at `anchor_mismatch` only.
   `core/events/verify.ts:263`.
3. `watch_lost` - an import that fails halfway forgets that it changed
   sessions, and the generated files stay stale. `cli/commands/refresh-watch.ts:203`.

Four hazards of `PROJECT.json` have no property, as the code promises nothing
that could be stated: an attach that holds the session lock when exec or run
wants it aborts the recording (`core/events/chained-append.ts:171`; `CommandsEnd`
says only that the lock is released); a link that fails after `task_created`
leaves the event without its link, and a retry may record a second task
(`core/storage/tasks.ts:1094`; `TrailTells` and `LinksComplete` are about events
whose change of the file was made); `approval show` reports an approval as not
found while it is being resolved (`core/approval/approval-store.ts:93`); and of
two commands that write the manifest the later undoes the earlier
(`core/storage/manifest.ts:85`). All four are in the models.

What else the models have without a run of its own is said above under
`SessionImport`, `ExecRun` and `ProjectWiring`.

## Not modelled

Every part is listed in `PROJECT.json` with its reason. In short: the renderers,
statistics, board, review gaps and schema validation compute from files they
only read, and would be restated rather than checked; the adapters' parsers of
other tools' logs are in `SessionImport` by what they yield; hooks, channels and
protocol change one user-owned file each by an atomic replace; the view server
is read-only but for one guarded refresh.

## Plan

1. More of the system: matching of the board's globs and the pairing of review
   gaps as operators against reference definitions; the view server's refresh
   guard; `project new`, `adopt` and `rename`, which write a manifest only.
2. Proofs: for the fields of `session.yaml` and the manifest that several
   commands write whole, what a lock around them would give (the lost updates
   under `ProjectWiring` and `TaskStore` are in the models as they are).
3. A finer `SessionLog`: the second read of `session.yaml` before a task attach,
   and entries of the store that are symlinks.
