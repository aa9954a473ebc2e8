------------------------------- MODULE ExecRun ------------------------------
(* `basou exec` and `basou run`: a child is spawned, waited for, interrupted  *)
(* or timed out, and the session that records it is finished.  The parent is  *)
(* one event loop: an action is what it does between two awaits, or what the  *)
(* operating system does to the two processes.  The files of the session are  *)
(* module SessionLog; here a write succeeds or fails as a whole.              *)
EXTENDS Naturals

CONSTANTS
    Commands,     \* which of the commands below are run
    MaxSignals,   \* bound on the signals sent to the parent
    MaxFaults     \* bound on failed writes and on what kills the parent

(* basou exec and basou run claude-code, exec with --timeout, and basou run   *)
(* codex, which does something of its own before the spawn.                   *)
AllCommands == {"exec", "exec_timeout", "run_codex"}

ASSUME CommandsKnown == Commands \subseteq AllCommands
ASSUME BoundsNat == MaxSignals \in Nat /\ MaxFaults \in Nat

None == "none"
Handled == {"SIGINT", "SIGTERM"}
Named == Handled \cup {"SIGKILL", "SIGSEGV"}
(* A signal Node has no name for, as SIGEMT and the real-time signals are.    *)
Unnamed == "unnamed"
Signals == Named \cup {Unnamed}
Codes == {0, 1}
NoCode == 255

(* How the child ended: a code, or else the signal that ended it.             *)
NotEnded == [code |-> NoCode, signal |-> None]
Exited(code) == [code |-> code, signal |-> None]
EndedBy(sig) == [code |-> NoCode, signal |-> sig]
Endings == {Exited(c) : c \in Codes} \cup {EndedBy(s) : s \in Signals}

(* The code and the signal that close hands to the runner: Node reports a     *)
(* child ended by a signal it has no name for as one that exited with 0.      *)
Reported(e) == IF e.signal = Unnamed THEN Exited(0) ELSE e

VARIABLES
    command,   \* the command
    phase,     \* what the parent awaits
    exit,      \* what the parent exited with
    child,     \* the child as the system has it: none, alive, zombie, gone
    ending,    \* how it ended, as the system knows it
    deaf,      \* does it survive SIGINT and SIGTERM?
    guarded,   \* may the parent not send it signals (EPERM)?
    spawned,   \* what became of the spawn
    hooks,     \* the handlers of SIGINT, SIGTERM and exit are installed
    received,  \* signalReceived
    listener,  \* the runner listens to the abort
    timeout,   \* the timeout timer is armed
    killing,   \* triggerKill has run
    killTimer, \* the timer of the second, harder signal is armed
    result,    \* the exit_code and signal the runner resolves with
    yaml,      \* the status in session.yaml
    executed,  \* what command_executed recorded
    ended,     \* session_ended is recorded
    signals,   \* the signals sent so far
    faults,    \* what MaxFaults bounds, so far
    how        \* history: what stopped the parent

process == <<command, phase, exit, hooks, received>>
kid == <<child, ending, deaf, guarded, spawned>>
runner == <<listener, timeout, killing, killTimer, result>>
record == <<yaml, executed, ended>>
bounds == <<signals, faults>>
vars == <<process, kid, runner, record, bounds, how>>

Recording == {"create", "start", "launch"}
Tail == {"executed", "final", "ended", "finalize"}
FailingTail == {"failed_executed", "failed_final", "failed_ended", "failed_finalize"}
Phases == Recording \cup {"prespawn", "waiting", "over"} \cup Tail \cup FailingTail
FinalStatuses == {"completed", "failed", "interrupted"}

NotExecuted == [written |-> FALSE, code |-> NoCode, signal |-> None, received |-> None]

Init ==
    /\ command \in Commands
    /\ phase = "create" /\ exit = NoCode
    /\ child = "none" /\ ending = NotEnded /\ spawned = "not_yet"
    /\ deaf \in BOOLEAN /\ guarded \in BOOLEAN
    /\ hooks = FALSE /\ received = None
    /\ listener = FALSE /\ timeout = FALSE /\ killing = FALSE /\ killTimer = FALSE
    /\ result = NotEnded
    /\ yaml = "absent" /\ executed = NotExecuted /\ ended = FALSE
    /\ signals = 0 /\ faults = 0
    /\ how = "running"

Fault == faults < MaxFaults /\ faults' = faults + 1
Alive == phase # "over"

-----------------------------------------------------------------------------
(* The child and its signals.                                                 *)

Ends(how_) == child' = "zombie" /\ ending' = how_

(* A signal to a child that is a zombie, or was never there, does nothing.    *)
Deliver(sig) ==
    IF child = "alive" /\ ~(deaf /\ sig \in Handled)
    THEN \/ Ends(EndedBy(sig))
         \/ sig \in Handled /\ \E c \in Codes : Ends(Exited(c))
    ELSE UNCHANGED <<child, ending>>

(* The child ends by itself.                                                  *)
ChildEnds ==
    /\ child = "alive"
    /\ \E e \in {Exited(c) : c \in Codes} \cup {EndedBy(s) : s \in {"SIGSEGV", "SIGKILL", Unnamed}} :
        Ends(e)
    /\ UNCHANGED <<process, deaf, guarded, spawned, runner, record, bounds, how>>

-----------------------------------------------------------------------------
(* Before the child.                                                          *)

(* session.yaml, and session_started.                                         *)
Create ==
    /\ phase = "create"
    /\ yaml' = "initialized"
    /\ phase' = "start"
    /\ UNCHANGED <<command, exit, hooks, received, kid, runner, executed, ended, bounds, how>>

(* The change to running is recorded.                                         *)
StartRunning ==
    /\ phase = "start"
    /\ yaml' = "running"
    /\ phase' = "launch"
    /\ UNCHANGED <<command, exit, hooks, received, kid, runner, executed, ended, bounds, how>>

(* The child is there and the runner waits for it; or its error comes as an   *)
(* event; or the spawn throws.                                                *)
Spawn ==
    \/ /\ spawned' \in {"child", "error_due"}
       /\ child' = IF spawned' = "child" THEN "alive" ELSE child
       /\ phase' = "waiting"
       /\ listener' = TRUE /\ timeout' = (command = "exec_timeout")
    \/ /\ spawned' = "threw"
       /\ phase' = "failed_executed"
       /\ UNCHANGED <<child, listener, timeout>>

(* The hooks are installed; exec spawns at once.                              *)
Launch ==
    /\ phase = "launch"
    /\ hooks' = TRUE
    /\ IF command = "run_codex"
       THEN phase' = "prespawn" /\ UNCHANGED <<child, spawned, listener, timeout>>
       ELSE Spawn
    /\ UNCHANGED <<command, exit, received, ending, deaf, guarded, killing, killTimer, result, record, bounds, how>>

(* run refuses to spawn what was aborted meanwhile.                           *)
PreSpawnEnds ==
    /\ phase = "prespawn"
    /\ IF received # None
       THEN /\ spawned' = "refused"
            /\ phase' = "failed_executed"
            /\ UNCHANGED <<child, listener, timeout>>
       ELSE Spawn
    /\ UNCHANGED <<command, exit, hooks, received, ending, deaf, guarded, killing, killTimer, result, record, bounds, how>>

-----------------------------------------------------------------------------
(* The runner.                                                                *)

(* Mutant: no timer for a second, harder signal.                              *)
TriggerKillOnce(timer) ==
    /\ killing' = TRUE
    /\ timeout' = timer
    /\ IF killing THEN UNCHANGED <<child, ending>> ELSE Deliver("SIGTERM")
    /\ UNCHANGED <<phase, listener, killTimer>>

(* SIGTERM, and a timer for SIGKILL.  Where the signal may not be sent, the   *)
(* child's error event settles the run at once, and the timer is armed after  *)
(* the runner has cleaned up.  exitCode stays null for a child a signal ended.*)
TriggerKill(timer) ==
    /\ killing' = TRUE
    /\ \/ /\ killing
          /\ timeout' = timer
          /\ UNCHANGED <<child, ending, phase, listener, killTimer>>
       \/ /\ ~killing /\ ~(guarded /\ child = "alive")
          /\ Deliver("SIGTERM")
          /\ killTimer' = TRUE /\ timeout' = timer
          /\ UNCHANGED <<phase, listener>>
       \/ /\ ~killing /\ guarded /\ child = "alive"
          /\ listener' = FALSE /\ timeout' = FALSE /\ killTimer' = TRUE
          /\ phase' = "failed_executed"
          /\ UNCHANGED <<child, ending>>

TimeoutFires ==
    /\ timeout /\ Alive
    /\ TriggerKill(FALSE)
    /\ UNCHANGED <<command, exit, hooks, received, deaf, guarded, spawned, result, record, bounds, how>>

(* The child may be gone by then.                                             *)
KillTimerFires ==
    /\ killTimer /\ ~(guarded /\ child = "alive") /\ Alive
    /\ killTimer' = FALSE
    /\ Deliver("SIGKILL")
    /\ UNCHANGED <<process, deaf, guarded, spawned, listener, timeout, killing, result, record, bounds, how>>

(* Mutant: the hooks stay until the session is finished.                      *)
SettleHooked ==
    /\ phase = "waiting" /\ child = "zombie"
    /\ child' = "gone" /\ result' = Reported(ending)
    /\ listener' = FALSE /\ timeout' = FALSE /\ killTimer' = FALSE
    /\ phase' = "executed"
    /\ UNCHANGED <<command, exit, hooks, received, ending, deaf, guarded, spawned, killing, record, bounds, how>>

(* exit and close are one turn of the loop, as the child has no pipes: the    *)
(* runner cleans up and resolves, the hooks are removed.                      *)
Settle ==
    /\ phase = "waiting" /\ child = "zombie"
    /\ child' = "gone" /\ result' = Reported(ending)
    /\ listener' = FALSE /\ timeout' = FALSE /\ killTimer' = FALSE
    /\ hooks' = FALSE
    /\ phase' = "executed"
    /\ UNCHANGED <<command, exit, received, ending, deaf, guarded, spawned, killing, record, bounds, how>>

(* The error event of a spawn that failed.                                    *)
ErrorEvent ==
    /\ phase = "waiting" /\ spawned = "error_due"
    /\ listener' = FALSE /\ timeout' = FALSE /\ killTimer' = FALSE
    /\ phase' = "failed_executed"
    /\ UNCHANGED <<command, exit, hooks, received, kid, killing, result, record, bounds, how>>

-----------------------------------------------------------------------------
(* After the child.                                                           *)

Number(sig) ==
    CASE sig = "SIGINT" -> 2 [] sig = "SIGKILL" -> 9 [] sig = "SIGSEGV" -> 11
      [] sig = "SIGTERM" -> 15

(* decideFinalStatus                                                          *)
FinalStatus(e, sig) ==
    CASE sig \in Handled \/ e.signal \in Handled \cup {"SIGKILL"} -> "interrupted"
      [] sig \notin Handled /\ e.code = 0 -> "completed"
      [] OTHER -> "failed"

ExitCode ==
    IF result.code # NoCode THEN result.code
    ELSE 128 + Number(IF received # None THEN received ELSE result.signal)

Executed(e) == [written |-> TRUE, code |-> e.code, signal |-> e.signal, received |-> received]

Finish(code) == phase' = "over" /\ exit' = code /\ how' = "finished"

(* command_executed, the change of status, session_ended, session.yaml: of    *)
(* the runner's result, or (finalizeSessionAsFailed) of a run that failed.    *)
RecordExecuted ==
    /\ phase \in {"executed", "failed_executed"}
    /\ executed' = Executed(IF phase = "executed" THEN result ELSE NotEnded)
    /\ phase' = IF phase = "executed" THEN "final" ELSE "failed_final"
    /\ UNCHANGED <<command, exit, hooks, received, kid, runner, yaml, ended, bounds, how>>

RecordFinalStatus ==
    /\ phase \in {"final", "failed_final"}
    /\ phase' = IF phase = "final" THEN "ended" ELSE "failed_ended"
    /\ UNCHANGED <<command, exit, hooks, received, kid, runner, record, bounds, how>>

RecordEnded ==
    /\ phase \in {"ended", "failed_ended"}
    /\ ended' = TRUE
    /\ phase' = IF phase = "ended" THEN "finalize" ELSE "failed_finalize"
    /\ UNCHANGED <<command, exit, hooks, received, kid, runner, yaml, executed, bounds, how>>

Finalize ==
    /\ phase \in {"finalize", "failed_finalize"}
    /\ yaml' = IF phase = "finalize" THEN FinalStatus(result, received) ELSE "failed"
    /\ Finish(IF phase = "finalize" THEN ExitCode ELSE 1)
    /\ hooks' = FALSE
    /\ UNCHANGED <<command, received, kid, runner, executed, ended, bounds>>

-----------------------------------------------------------------------------
(* What may happen to the parent.                                             *)

Stop(code, why) == phase' = "over" /\ exit' = code /\ how' = why /\ hooks' = FALSE

(* The first signal aborts the run; without the hooks a signal is the end.    *)
(* finalizeSessionAsFailed has taken what was received when the run failed.   *)
Signal(sig) ==
    /\ Alive /\ sig \in Handled
    /\ signals < MaxSignals /\ signals' = signals + 1
    /\ IF hooks
       THEN /\ received' = IF received = None /\ phase \notin FailingTail THEN sig ELSE received
            /\ IF received = None /\ listener THEN TriggerKill(timeout)
               ELSE UNCHANGED <<phase, child, ending, listener, timeout, killing, killTimer>>
            /\ UNCHANGED <<exit, hooks, how>>
       ELSE /\ Stop(128 + Number(sig), "signal")
            /\ UNCHANGED <<received, child, ending, listener, timeout, killing, killTimer>>
    /\ UNCHANGED <<command, deaf, guarded, spawned, result, record, faults>>

(* A write fails: the error leaves basou with 1.                              *)
WriteFails ==
    /\ phase \in (Recording \ {"launch"}) \cup Tail \cup FailingTail
    /\ Fault
    /\ Stop(1, "write_failed")
    /\ UNCHANGED <<command, received, kid, runner, record, signals>>

(* SIGKILL, or a signal basou does not handle.                                *)
Killed ==
    /\ Alive
    /\ Fault
    /\ Stop(NoCode, "killed")
    /\ UNCHANGED <<command, received, kid, runner, record, signals>>

(* Mutant: nothing is done on exit.                                           *)
ExitHookNone == UNCHANGED <<child, ending>>

(* activeChild is the child of a run that has not settled.                    *)
ExitHook ==
    IF hooks /\ ~guarded THEN Deliver("SIGKILL") ELSE UNCHANGED <<child, ending>>

(* An exception nobody catches ends the process, its exit hooks run; the late *)
(* timer of a child that may not be killed throws one.                        *)
Uncaught ==
    /\ Alive
    /\ \/ Fault
       \/ killTimer /\ guarded /\ child = "alive" /\ UNCHANGED faults
    /\ Stop(1, "uncaught")
    /\ ExitHook
    /\ UNCHANGED <<command, received, deaf, guarded, spawned, runner, record, signals>>

-----------------------------------------------------------------------------
Loop ==
    \/ Create \/ StartRunning \/ Launch \/ PreSpawnEnds
    \/ Settle \/ ErrorEvent
    \/ RecordExecuted \/ RecordFinalStatus \/ RecordEnded \/ Finalize

Next ==
    \/ Loop \/ TimeoutFires \/ KillTimerFires \/ ChildEnds
    \/ \E sig \in Handled : Signal(sig)
    \/ WriteFails \/ Killed \/ Uncaught

Spec == Init /\ [][Next]_vars

(* The loop turns, and a timer that stays armed fires.                        *)
FairSpec == Spec /\ WF_vars(Loop) /\ WF_vars(KillTimerFires)

-----------------------------------------------------------------------------
TypeOK ==
    /\ command \in Commands
    /\ phase \in Phases /\ exit \in 0 .. 255
    /\ child \in {"none", "alive", "zombie", "gone"}
    /\ ending \in Endings \cup {NotEnded}
    /\ deaf \in BOOLEAN /\ guarded \in BOOLEAN
    /\ spawned \in {"not_yet", "child", "error_due", "threw", "refused"}
    /\ hooks \in BOOLEAN /\ received \in Handled \cup {None}
    /\ listener \in BOOLEAN /\ timeout \in BOOLEAN
    /\ killing \in BOOLEAN /\ killTimer \in BOOLEAN
    /\ result \in (Endings \ {EndedBy(Unnamed)}) \cup {NotEnded}
    /\ yaml \in {"absent", "initialized", "running"} \cup FinalStatuses
    /\ executed \in [written : BOOLEAN, code : Codes \cup {NoCode},
                     signal : Named \cup {None}, received : Handled \cup {None}]
    /\ ended \in BOOLEAN
    /\ signals \in 0 .. MaxSignals /\ faults \in 0 .. MaxFaults
    /\ how \in {"running", "finished", "signal", "write_failed", "killed", "uncaught"}

(* basou never ends with its child running, unless basou is killed by a       *)
(* signal it cannot handle or the child is one it may not kill.               *)
ChildNotLeft ==
    phase = "over" /\ how # "killed" /\ ~guarded => child # "alive"

(* Interrupted or out of time, the child is gone in the end, whatever it does *)
(* with SIGINT and SIGTERM.                                                   *)
Escalates ==
    (killing /\ ~guarded) ~> (child # "alive" \/ how = "killed")

(* What session.yaml says of a finished session is what a reader of its log   *)
(* makes of command_executed: no signal comes between the two.                *)
RecordAgrees ==
    yaml \in FinalStatuses =>
        /\ executed.written /\ ended
        /\ IF executed.code = NoCode /\ executed.signal = None THEN yaml = "failed"
           ELSE yaml = FinalStatus([code |-> executed.code, signal |-> executed.signal],
                                   executed.received)

(* Exit codes pass through, a signal with a name exits above 128, and a run   *)
(* the user interrupted while its child ran, or that did not exit with 0, is  *)
(* not called completed.  The exception is a child ended by a signal Node has *)
(* no name for: nothing tells it from one that exited with 0, so basou exits  *)
(* with 0 and calls it completed, unless the user interrupted it.             *)
OutcomeTold ==
    how = "finished" /\ spawned = "child" /\ child = "gone" =>
        /\ ending.code # NoCode => exit = ending.code
        /\ ending.signal \in Named => exit > 128
        /\ ending = EndedBy(Unnamed) => exit = 0
        /\ yaml = "completed" <=> received = None /\ ending \in {Exited(0), EndedBy(Unnamed)}

(* session.yaml, the log and the exit code tell one outcome: the child's, as  *)
(* far as Node reports it.                                                    *)
OneOutcome == RecordAgrees /\ OutcomeTold

=============================================================================
