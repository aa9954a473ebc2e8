---------------------------- MODULE RefreshWatch ----------------------------
(* basou refresh --watch (packages/cli/src/commands/refresh-watch.ts): poll   *)
(* the logs other tools write, import when they have changed and are quiet,   *)
(* regenerate handoff.md and decisions.md when an import changed something.   *)
(* The logs go on growing between any two steps of a cycle.  A log is its     *)
(* version: 0 before it exists, then the number of writes to it.              *)
EXTENDS Naturals

CONSTANTS
    Claude, Codex,   \* the logs of this workspace, by the adapter that reads them
    Foreign,         \* logs of other workspaces below the same directories
    MaxWrites,       \* bound on the writes to one log of the project
    MaxForeign,      \* bound on the writes to one log of another project
    MaxFaults        \* bound on failures in a behaviour

Own == Claude \cup Codex
Logs == Own \cup Foreign

ASSUME LogsDistinct == Claude \cap Codex = {} /\ Own \cap Foreign = {}
ASSUME BoundsNat == MaxWrites \in Nat /\ MaxForeign \in Nat /\ MaxFaults \in Nat

VARIABLES
    logs,          \* the source logs
    imported,      \* what of this workspace's logs the session store holds
    looked,        \* what the last import of each log found there
    handoff,       \* what of the store handoff.md shows
    decisions,     \* what of the store decisions.md shows
    phase,         \* what the watcher is doing
    todo,          \* the logs left to do in this phase
    starting,      \* is this the initial catch-up?
    current,       \* the scan being made or just made
    lastScan,      \* the scan of the previous poll
    importedScan,  \* the scan the last import answered
    changed,       \* has this cycle imported anything?
    pendingRegen,  \* an import succeeded, its regeneration has not yet
    aborted,       \* Ctrl-C
    faults,        \* failures so far
    lost           \* ghost: a failed import phase had already imported

scans == <<current, lastScan, importedScan>>
shown == <<handoff, decisions>>
vars == <<logs, imported, looked, shown, phase, todo, starting, scans, changed,
          pendingRegen, aborted, faults, lost>>

Phases == {"scan", "claude", "codex", "handoff", "decisions", "sleep", "stopped", "failed"}
Ended == phase \in {"stopped", "failed"}

TypeOK ==
    /\ logs \in [Logs -> Nat]
    /\ imported \in [Own -> Nat] /\ looked \in [Own -> Nat]
    /\ handoff \in [Own -> Nat] /\ decisions \in [Own -> Nat]
    /\ phase \in Phases
    /\ todo \in SUBSET Logs
    /\ current \in [Logs -> Nat] /\ lastScan \in [Logs -> Nat]
    /\ importedScan \in [Logs -> Nat]
    /\ starting \in BOOLEAN /\ changed \in BOOLEAN /\ pendingRegen \in BOOLEAN
    /\ aborted \in BOOLEAN /\ lost \in BOOLEAN
    /\ faults \in Nat

(* The store and both files may already reflect an earlier state of the logs. *)
Init ==
    /\ logs \in [Logs -> 0 .. 1]
    /\ imported \in [Own -> 0 .. 1] /\ \A l \in Own : imported[l] <= logs[l]
    /\ looked = imported /\ handoff = imported /\ decisions = imported
    /\ phase = "scan" /\ todo = Logs /\ starting = TRUE
    /\ current = [l \in Logs |-> 0]
    /\ lastScan = current /\ importedScan = current
    /\ changed = FALSE /\ pendingRegen = FALSE /\ lost = FALSE
    /\ aborted = FALSE /\ faults = 0

(* Entering a phase: every log is scanned, an adapter's existing logs are its *)
(* candidates.                                                                *)
Enter(p) ==
    /\ phase' = p
    /\ todo' = CASE p = "scan" -> Logs
                 [] p = "claude" -> {l \in Claude : logs[l] > 0}
                 [] p = "codex" -> {l \in Codex : logs[l] > 0}
                 [] OTHER -> {}

-----------------------------------------------------------------------------
(* scanSourceLogs stats one file after the other.                             *)
Scan(l) ==
    /\ phase = "scan"
    /\ l \in todo
    /\ current' = [current EXCEPT ![l] = logs[l]]
    /\ todo' = todo \ {l}
    /\ UNCHANGED <<logs, imported, looked, shown, phase, starting, lastScan, importedScan,
                   changed, pendingRegen, aborted, faults, lost>>

(* Quiet since the previous poll, and changed since the last import.          *)
Due == current = lastScan /\ current # importedScan

(* The first scan is the baseline.                                            *)
ScanEnds ==
    /\ phase = "scan"
    /\ todo = {}
    /\ lastScan' = current
    /\ importedScan' = IF starting THEN current ELSE importedScan
    /\ changed' = FALSE
    /\ Enter(IF starting \/ Due THEN "claude" ELSE "sleep")
    /\ UNCHANGED <<logs, imported, looked, shown, starting, current, pendingRegen, aborted,
                   faults, lost>>

(* A candidate is read as it is by now, and imported if it grew.              *)
Import(l) ==
    /\ phase \in {"claude", "codex"}
    /\ l \in todo
    /\ imported' = [imported EXCEPT ![l] = logs[l]]
    /\ looked' = [looked EXCEPT ![l] = logs[l]]
    /\ changed' = (changed \/ logs[l] # imported[l])
    /\ todo' = todo \ {l}
    /\ UNCHANGED <<logs, shown, phase, starting, scans, pendingRegen, aborted, faults, lost>>

(* Or it is left alone, with a word to the user: the log does not continue    *)
(* what was imported of it, that session does not verify, or nothing can be   *)
(* derived from it.  The cycle goes on as if it were imported.                *)
Refuse(l) ==
    /\ phase \in {"claude", "codex"}
    /\ l \in todo
    /\ logs[l] # imported[l]
    /\ looked' = [looked EXCEPT ![l] = logs[l]]
    /\ todo' = todo \ {l}
    /\ UNCHANGED <<logs, imported, shown, phase, starting, scans, changed,
                   pendingRegen, aborted, faults, lost>>

ClaudeImported ==
    /\ phase = "claude"
    /\ todo = {}
    /\ Enter("codex")
    /\ UNCHANGED <<logs, imported, looked, shown, starting, scans, changed, pendingRegen,
                   aborted, faults, lost>>

(* Mutant: the logs are scanned again after the import.                       *)
SettleRescan == importedScan' = logs /\ lastScan' = logs /\ UNCHANGED current

(* The cycle's scan has been answered.                                        *)
Settle == importedScan' = current /\ lastScan' = current /\ UNCHANGED current

(* Mutant: a regeneration that failed is not made up for.                     *)
OwesChanged == changed /\ ~starting

(* Is a regeneration owed once the imports are through?                       *)
Owes == pendingRegen \/ (changed /\ ~starting)

Regen(owed) == starting \/ owed

(* The initial catch-up always regenerates, a later cycle when an import      *)
(* changed something or a regeneration is still owed.                         *)
Imported ==
    /\ phase = "codex"
    /\ todo = {}
    /\ pendingRegen' = Owes
    /\ IF Regen(Owes)
       THEN Enter("handoff") /\ UNCHANGED scans
       ELSE Enter("sleep") /\ Settle
    /\ UNCHANGED <<logs, imported, looked, shown, starting, changed, aborted, faults, lost>>

RegenerateHandoff ==
    /\ phase = "handoff"
    /\ handoff' = imported
    /\ Enter("decisions")
    /\ UNCHANGED <<logs, imported, looked, decisions, starting, scans, changed, pendingRegen,
                   aborted, faults, lost>>

RegenerateDecisions ==
    /\ phase = "decisions"
    /\ decisions' = imported
    /\ pendingRegen' = FALSE
    /\ IF starting
       THEN UNCHANGED scans /\ Enter(IF aborted THEN "stopped" ELSE "sleep")
       ELSE Settle /\ Enter("sleep")
    /\ starting' = FALSE
    /\ UNCHANGED <<logs, imported, looked, handoff, changed, aborted, faults, lost>>

(* Mutant: the signal is not looked at after the sleep.                       *)
WakeDeaf ==
    /\ phase = "sleep"
    /\ Enter("scan")
    /\ UNCHANGED <<logs, imported, looked, shown, starting, scans, changed, pendingRegen,
                   aborted, faults, lost>>

(* The timer fires, or the signal cuts the sleep short.                       *)
Wake ==
    /\ phase = "sleep"
    /\ Enter(IF aborted THEN "stopped" ELSE "scan")
    /\ UNCHANGED <<logs, imported, looked, shown, starting, scans, changed, pendingRegen,
                   aborted, faults, lost>>

(* A failure is fatal at the start; later the cycle is skipped as it stands.  *)
CycleFails ==
    /\ phase \in {"scan", "claude", "codex", "handoff", "decisions"}
    /\ faults < MaxFaults
    /\ faults' = faults + 1
    /\ Enter(IF starting THEN "failed" ELSE "sleep")
    /\ lost' = (lost \/ (phase \in {"claude", "codex"} /\ changed))
    /\ UNCHANGED <<logs, imported, looked, shown, starting, scans, changed, pendingRegen, aborted>>

(* Another tool writes its log; the user stops the watcher.                   *)
LogGrows(l) ==
    /\ logs[l] < IF l \in Foreign THEN MaxForeign ELSE MaxWrites
    /\ logs' = [logs EXCEPT ![l] = @ + 1]
    /\ UNCHANGED <<imported, looked, shown, phase, todo, starting, scans, changed,
                   pendingRegen, aborted, faults, lost>>

Abort ==
    /\ ~aborted
    /\ aborted' = TRUE
    /\ UNCHANGED <<logs, imported, looked, shown, phase, todo, starting, scans, changed,
                   pendingRegen, faults, lost>>

-----------------------------------------------------------------------------
Watch ==
    \/ \E l \in Logs : Scan(l) \/ Import(l) \/ Refuse(l)
    \/ ScanEnds \/ ClaudeImported \/ Imported
    \/ RegenerateHandoff \/ RegenerateDecisions \/ Wake

Next == Watch \/ CycleFails \/ Abort \/ \E l \in Logs : LogGrows(l)

Spec == Init /\ [][Next]_vars

(* The watcher runs on and its timer fires.                                   *)
FairSpec == Spec /\ WF_vars(Watch)

-----------------------------------------------------------------------------
(* The scan the watcher takes for done is no newer than what an import has    *)
(* looked at, to store it or to say that it does not, whatever was written    *)
(* while it scanned and imported: otherwise a change would be considered done *)
(* and never be looked at.                                                    *)
NothingMissed ==
    ~starting => \A l \in Own : importedScan[l] <= looked[l]

(* Between cycles, files behind the store are owed a regeneration, unless an  *)
(* import phase failed after it had imported something.                       *)
StaleIsOwed ==
    phase = "sleep" /\ (handoff # imported \/ decisions # imported) =>
        pendingRegen \/ lost

(* After the initial catch-up files are rewritten only when the store has     *)
(* something they do not show: activity elsewhere never touches them.         *)
RewrittenOnlyWhenStale ==
    [][~starting /\ (phase = "handoff" \/ phase = "decisions")
        /\ phase' # phase /\ faults' = faults => decisions # imported]_vars

(* Once the logs are quiet an import has looked at all that is in the logs of *)
(* this workspace, failures and writes during an import notwithstanding, and  *)
(* what is in the store is shown, unless an import phase failed halfway.      *)
EverythingShown ==
    <>[](\/ Ended
         \/ /\ \A l \in Own : looked[l] = logs[l]
            /\ lost \/ (handoff = imported /\ decisions = imported))

(* A stopped watcher finishes its cycle and ends.                             *)
AbortEnds == aborted ~> Ended

(* refresh-watch.ts: any import that changed something must trigger a         *)
(* regeneration, so that it does not leave the derived markdown stale.        *)
ImportTriggersRegeneration ==
    <>[](Ended \/ (handoff = imported /\ decisions = imported))

-----------------------------------------------------------------------------
(* The inductive invariant behind the safety properties.                      *)

(* Nothing gets ahead of what it is made from.                                *)
Ordered ==
    /\ \A l \in Logs : current[l] <= logs[l]
    /\ \A l \in Own :
        /\ imported[l] <= looked[l] /\ looked[l] <= logs[l]
        /\ handoff[l] <= imported[l] /\ decisions[l] <= imported[l]

(* The logs of the scan being answered that have been looked at by now.       *)
Answered ==
    CASE phase = "claude" -> Claude \ todo
      [] phase = "codex" -> Claude \cup (Codex \ todo)
      [] phase \in {"handoff", "decisions"} -> Own
      [] OTHER -> {}

AnsweredLooked ==
    /\ phase = "claude" => todo \subseteq Claude
    /\ phase = "codex" => todo \subseteq Codex
    /\ \A l \in Answered : current[l] <= looked[l]

(* The baseline stands until the catch-up is over.                            *)
Baseline ==
    /\ starting => ~pendingRegen /\ phase # "sleep"
    /\ starting /\ phase \notin {"scan", "failed"} => importedScan = current

Stale == handoff # imported \/ decisions # imported

(* Files behind the store are owed, or this cycle knows they are, or lost.    *)
Owed ==
    /\ ~starting /\ Stale =>
           pendingRegen \/ lost \/ (phase \in {"claude", "codex"} /\ changed)
    /\ ~starting /\ phase \in {"handoff", "decisions"} => pendingRegen
    /\ phase = "decisions" => handoff = imported

(* What is owed is really behind.                                             *)
OwedIsStale ==
    /\ pendingRegen => decisions # imported
    /\ phase \in {"claude", "codex"} /\ changed => decisions # imported

IInv ==
    /\ TypeOK
    /\ Ordered
    /\ AnsweredLooked
    /\ NothingMissed
    /\ Baseline
    /\ Owed
    /\ OwedIsStale
=============================================================================
