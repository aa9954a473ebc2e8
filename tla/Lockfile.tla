------------------------------ MODULE Lockfile ------------------------------
(* The advisory lock of packages/core/src/storage/lockfile.ts for one         *)
(* <scope>_<id>.lock path.  Processes contend for the path with link(2),      *)
(* probe the lockfile they find, unlink it when it looks stale and retry      *)
(* once.  Every file-system call is a step of its own, so two attempts        *)
(* interleave between any two of them.                                        *)
EXTENDS Naturals, FiniteSets

CONSTANTS
    Procs,       \* process ids
    NoFile,      \* the lock path has no directory entry
    HoursPass,   \* can a lock be left standing for over an hour?
    MaxFaults    \* bound on deaths and failed creates in a behaviour

ASSUME ProcsFinite == IsFiniteSet(Procs)
ASSUME NoFileIsNoBody == NoFile \notin [pid : Procs, old : BOOLEAN]
ASSUME HoursPassBoolean == HoursPass \in BOOLEAN
ASSUME MaxFaultsNat == MaxFaults \in Nat

VARIABLES
    file,       \* the lockfile: NoFile or its body
    dir,        \* does .basou/locks exist?
    alive,      \* the pids process.kill(pid, 0) finds
    pc,         \* where each process is in acquireLock
    body,       \* the lockfile body each process read (NoFile: unreadable)
    displaced,  \* ghost: holders whose lockfile somebody else removed
    current,    \* ghost: processes whose last look at the path still holds
    faults      \* deaths and failed creates so far

vars == <<file, dir, alive, pc, body, displaced, current, faults>>

(* A LockFileBody: the holder's pid, and whether acquired_at is more than     *)
(* STALE_LOCK_MAX_AGE_MS in the past.                                         *)
Body == [pid : Procs, old : BOOLEAN]

(* idle: not in acquireLock; create: at the first atomicCreate; mkdir and     *)
(* createNew: the ENOENT branch; read, probe: inside isStaleLock; unlink,     *)
(* retry: the stale branch; held: the caller has the LockHandle.              *)
PCs == {"idle", "create", "mkdir", "createNew", "read", "probe", "unlink",
        "retry", "held"}

TypeOK ==
    /\ file \in Body \cup {NoFile}
    /\ dir \in BOOLEAN
    /\ alive \in SUBSET Procs
    /\ pc \in [Procs -> PCs]
    /\ body \in [Procs -> Body \cup {NoFile}]
    /\ displaced \in SUBSET Procs
    /\ current \in SUBSET Procs
    /\ faults \in 0 .. MaxFaults

(* A workspace created before locks/ existed starts without the directory.    *)
Init ==
    /\ file = NoFile
    /\ dir \in BOOLEAN
    /\ alive = Procs
    /\ pc = [p \in Procs |-> "idle"]
    /\ body = [p \in Procs |-> NoFile]
    /\ displaced = {}
    /\ current = {}
    /\ faults = 0

Goto(p, label) == pc' = [pc EXCEPT ![p] = label]

(* Mutant: rename(2) in place of link(2) replaces the lockfile it finds.      *)
LinkReplacing(p) ==
    /\ dir
    /\ file' = [pid |-> p, old |-> FALSE]
    /\ current' = {p}
    /\ Goto(p, "held")

(* atomicCreate succeeded: link(2) put this process's body at the path.       *)
Link(p) ==
    /\ file = NoFile
    /\ dir
    /\ file' = [pid |-> p, old |-> FALSE]
    /\ current' = {p}
    /\ Goto(p, "held")

(* unlink(lockPath).catch(): whatever is at the path goes, whoever made it.   *)
Unlink(p) ==
    /\ file' = NoFile
    /\ current' = {}
    /\ displaced' =
        (displaced \ {p}) \cup
        {q \in Procs \ {p} : file # NoFile /\ file.pid = q /\ pc[q] = "held"}

-----------------------------------------------------------------------------
(* acquireLock is called; a new attempt of a live, idle process.              *)
Start(p) ==
    /\ p \in alive
    /\ pc[p] = "idle"
    /\ Goto(p, "create")
    /\ UNCHANGED <<file, dir, alive, body, displaced, current, faults>>

(* The first atomicCreate: linked, ENOENT or EEXIST.                          *)
CreateLinks(p) ==
    /\ pc[p] = "create"
    /\ Link(p)
    /\ UNCHANGED <<dir, alive, body, displaced, faults>>

CreateNoDirectory(p) ==
    /\ pc[p] = "create"
    /\ ~dir
    /\ Goto(p, "mkdir")
    /\ UNCHANGED <<file, dir, alive, body, displaced, current, faults>>

CreateExists(p) ==
    /\ pc[p] = "create"
    /\ file # NoFile
    /\ Goto(p, "read")
    /\ UNCHANGED <<file, dir, alive, body, displaced, current, faults>>

(* mkdir(dirname(lockPath), { recursive: true }).                             *)
MakeDirectory(p) ==
    /\ pc[p] = "mkdir"
    /\ dir' = TRUE
    /\ Goto(p, "createNew")
    /\ UNCHANGED <<file, alive, body, displaced, current, faults>>

(* The create after mkdir: linked, or "Failed to acquire lock".               *)
CreateNew(p) ==
    /\ pc[p] = "createNew"
    /\ \/ Link(p)
       \/ file # NoFile /\ Goto(p, "idle") /\ UNCHANGED <<file, current>>
    /\ UNCHANGED <<dir, alive, body, displaced, faults>>

(* Any other failure of a create or of mkdir (EACCES, a full disk): "Failed   *)
(* to acquire lock", or at the retry "Lock is held by another process".       *)
CreateFails(p) ==
    /\ pc[p] \in {"create", "mkdir", "createNew", "retry"}
    /\ faults < MaxFaults
    /\ faults' = faults + 1
    /\ Goto(p, "idle")
    /\ UNCHANGED <<file, dir, alive, body, displaced, current>>

(* isStaleLock reads the file; a file that has gone is unreadable, and so     *)
(* counts as stale.                                                           *)
ReadLock(p) ==
    /\ pc[p] = "read"
    /\ body' = [body EXCEPT ![p] = file]
    /\ current' = current \cup {p}
    /\ Goto(p, IF file = NoFile THEN "unlink" ELSE "probe")
    /\ UNCHANGED <<file, dir, alive, displaced, faults>>

(* Mutant: the probe's answer is ignored.                                     *)
StaleAlways(b) == TRUE

(* Mutant: no age limit, so a reused pid keeps a stranded lock.               *)
StaleByPidOnly(b) == b.pid \notin alive

(* Age and pid of the body read: over an hour old, or ESRCH, is stale.        *)
Stale(b) == b.old \/ b.pid \notin alive

(* Stale: go and unlink.  Not stale: "Lock is held by another process".       *)
ProbeHolder(p) ==
    /\ pc[p] = "probe"
    /\ Goto(p, IF Stale(body[p]) THEN "unlink" ELSE "idle")
    /\ body' = [body EXCEPT ![p] = NoFile]
    /\ UNCHANGED <<file, dir, alive, displaced, current, faults>>

UnlinkStale(p) ==
    /\ pc[p] = "unlink"
    /\ Unlink(p)
    /\ Goto(p, "retry")
    /\ UNCHANGED <<dir, alive, body, faults>>

(* Mutant: EEXIST at the retry is taken for success.                          *)
RetryBlind(p) ==
    /\ pc[p] = "retry"
    /\ \/ Link(p)
       \/ file # NoFile /\ Goto(p, "held") /\ UNCHANGED <<file, current>>
    /\ UNCHANGED <<dir, alive, body, displaced, faults>>

(* The single retry: linked, or EEXIST reported as "held".                    *)
Retry(p) ==
    /\ pc[p] = "retry"
    /\ \/ Link(p)
       \/ file # NoFile /\ Goto(p, "idle") /\ UNCHANGED <<file, current>>
    /\ UNCHANGED <<dir, alive, body, displaced, faults>>

(* release(): unlink without looking at whose lockfile it is.                 *)
Release(p) ==
    /\ pc[p] = "held"
    /\ Unlink(p)
    /\ Goto(p, "idle")
    /\ UNCHANGED <<dir, alive, body, faults>>

(* A process dies (SIGKILL, process.exit) anywhere; its lockfile stays.       *)
Crash(p) ==
    /\ p \in alive
    /\ faults < MaxFaults
    /\ faults' = faults + 1
    /\ alive' = alive \ {p}
    /\ displaced' = displaced \ {p}
    /\ current' = current \ {p}
    /\ Goto(p, "idle")
    /\ body' = [body EXCEPT ![p] = NoFile]
    /\ UNCHANGED <<file, dir>>

(* The pid is in use again: a later command, or an unrelated process.         *)
Respawn(p) ==
    /\ p \notin alive
    /\ alive' = alive \cup {p}
    /\ UNCHANGED <<file, dir, pc, body, displaced, current, faults>>

(* STALE_LOCK_MAX_AGE_MS go by: every body written so far is old.             *)
HourPasses ==
    /\ HoursPass
    /\ file # NoFile \/ \E p \in Procs : pc[p] = "probe"
    /\ file' = IF file = NoFile THEN file ELSE [file EXCEPT !.old = TRUE]
    /\ body' = [p \in Procs |-> IF body[p] = NoFile THEN NoFile
                                ELSE [body[p] EXCEPT !.old = TRUE]]
    /\ UNCHANGED <<dir, alive, pc, displaced, current, faults>>

-----------------------------------------------------------------------------
(* One step of an acquire attempt in flight.                                  *)
Acquire(p) ==
    \/ CreateLinks(p) \/ CreateNoDirectory(p) \/ CreateExists(p)
    \/ MakeDirectory(p) \/ CreateNew(p)
    \/ ReadLock(p) \/ ProbeHolder(p) \/ UnlinkStale(p) \/ Retry(p)

Next ==
    \/ \E p \in Procs :
        \/ Start(p) \/ Acquire(p) \/ CreateFails(p) \/ Release(p)
        \/ Crash(p) \/ Respawn(p)
    \/ HourPasses

Spec == Init /\ [][Next]_vars

(* A process in acquireLock keeps running and a holder gets to its finally    *)
(* block; the clock advances.                                                 *)
Fairness ==
    /\ \A p \in Procs : WF_vars(Acquire(p)) /\ WF_vars(Release(p))
    /\ WF_vars(HourPasses)

FairSpec == Spec /\ Fairness

(* In addition the user keeps running commands that want the lock: recovery   *)
(* from a stranded lockfile is the work of the next acquire.                  *)
RetrySpec ==
    FairSpec /\ \A p \in Procs : WF_vars(Start(p)) /\ WF_vars(Respawn(p))

-----------------------------------------------------------------------------
Holders == {p \in Procs : pc[p] = "held"}

(* What acquireLock promises its callers: one holder at a time.               *)
MutualExclusion == \A p, q \in Holders : p = q

(* Exclusion is lost only through an unlink of a live holder's lockfile: two  *)
(* holders nobody has displaced are one process.                              *)
UndisplacedExclusion == \A p, q \in Holders \ displaced : p = q

(* A holder is displaced only by an hour-old lock, or by an unlink from a     *)
(* process that no longer knows what is at the path: the entry changed since  *)
(* it looked.                                                                 *)
DisplacedOnlyBlindlyOrByAge ==
    [][\A p \in Procs : p \in displaced' \ displaced =>
        \/ file.old
        \/ \E q \in Procs \ {p} : pc[q] \in {"unlink", "held"} /\ q \notin current]_vars

(* A lockfile left by a dead process is cleared by those who keep trying,     *)
(* even when its pid is reused by a process that is not a holder.             *)
StrandedLockCleared ==
    \A p \in Procs :
        (file # NoFile /\ file.pid = p /\ pc[p] # "held") ~>
            (file = NoFile \/ file.pid # p \/ pc[p] = "held")

-----------------------------------------------------------------------------
(* The inductive invariant behind the safety properties.                      *)

(* Only a live process is inside acquireLock or holds the lock.               *)
BusyAlive == \A p \in Procs : pc[p] # "idle" => p \in alive

DisplacedHold == displaced \subseteq Holders

(* A holder nobody has displaced still has its own lockfile at the path.      *)
LockfileNamesHolder ==
    \A p \in Holders \ displaced : file # NoFile /\ file.pid = p

(* A process that still knows what is at the path is right about it: it read  *)
(* this very body; or found it old or not a holder's; or wrote it.            *)
CurrentKnows ==
    \A q \in current :
        /\ pc[q] = "probe" => file # NoFile /\ body[q] = file
        /\ pc[q] = "unlink" /\ file # NoFile =>
               file.old \/ pc[file.pid] # "held"
        /\ pc[q] = "held" => file # NoFile /\ file.pid = q

IInv ==
    /\ TypeOK
    /\ BusyAlive
    /\ DisplacedHold
    /\ LockfileNamesHolder
    /\ CurrentKnows

(* The lockfile implements the lease: the holders nobody displaced have it,   *)
(* the displaced ones have lost it.                                           *)
Lease == INSTANCE LeaseLock WITH held <- Holders \ displaced, lost <- displaced

ImplementsLease == Lease!Spec
=============================================================================
