--------------------------- MODULE ExecRunProofs ----------------------------
(* What ExecRun's runs check of a child and its record, for every set of      *)
(* commands and every bound on signals and faults.                            *)
EXTENDS ExecRun, TLAPS

(* A child has ended exactly when its end is known to the system.             *)
EndKnown ==
    IF child \in {"none", "alive"} THEN ending = NotEnded ELSE ending \in Endings

(* Until the spawn there is no child and nothing to kill.                     *)
NothingYet ==
    phase \in Recording \cup {"prespawn"} =>
        child = "none" /\ spawned = "not_yet" /\ ~timeout /\ ~killTimer /\ ~listener

(* The parent waits with its hooks installed, for a child that is there or an *)
(* error that is due; it waits for nothing else.                              *)
Waited ==
    /\ phase \in {"prespawn", "waiting"} => hooks
    /\ phase = "waiting" =>
        /\ \/ spawned = "child" /\ child \in {"alive", "zombie"}
           \/ spawned = "error_due" /\ child = "none"
    /\ listener => phase \in {"waiting", "over"}
    /\ timeout => phase \in {"waiting", "over"}

(* A run that settled has reaped its child, knows what Node reports of its    *)
(* end and has removed its hooks; a run that failed has no child, or one it   *)
(* may not kill.                                                              *)
Settled ==
    /\ phase \in Tail => result = Reported(ending)
    /\ phase \in Tail => child = "gone" /\ ~hooks /\ ~killTimer /\ spawned = "child"
    /\ phase \in FailingTail => child # "gone"
    /\ phase \in FailingTail /\ child # "none" => guarded

(* What has been recorded so far, and a final status only at the end.         *)
Recorded ==
    /\ phase \in {"final", "ended", "finalize"} => executed = Executed(result)
    /\ phase \in {"failed_final", "failed_ended", "failed_finalize"} =>
        executed.written /\ executed.code = NoCode /\ executed.signal = None
    /\ phase \in {"finalize", "failed_finalize"} => ended
    /\ yaml \in FinalStatuses => phase = "over"
    /\ how = "running" <=> phase # "over"

Story ==
    /\ EndKnown /\ NothingYet /\ Waited /\ Settled /\ Recorded
    /\ ChildNotLeft /\ RecordAgrees /\ OutcomeTold

IInv == TypeOK /\ Story

-----------------------------------------------------------------------------
(* A signal leaves a child that is not running alone, and otherwise ends it   *)
(* or not; SIGKILL ends every child.                                          *)
LEMMA Delivered ==
    ASSUME EndKnown, NEW sig \in Signals, Deliver(sig)
    PROVE  /\ EndKnown' /\ ending' \in Endings \cup {NotEnded}
           /\ child # "alive" => UNCHANGED <<child, ending>>
           /\ child = "alive" => child' \in {"alive", "zombie"}
           /\ child = "alive" /\ sig = "SIGKILL" => child' = "zombie"
<1> USE DEF EndKnown, Deliver, Ends, Endings, EndedBy, Exited
<1>1. CASE child = "alive" /\ ~(deaf /\ sig \in Handled)
  BY <1>1 DEF Codes, NotEnded
<1>2. CASE ~(child = "alive" /\ ~(deaf /\ sig \in Handled))
  BY <1>2 DEF Handled
<1> QED BY <1>1, <1>2


(* The flags, apart from the rest of the types.                               *)
Flags ==
    /\ deaf \in BOOLEAN /\ guarded \in BOOLEAN /\ hooks \in BOOLEAN
    /\ listener \in BOOLEAN /\ timeout \in BOOLEAN
    /\ killing \in BOOLEAN /\ killTimer \in BOOLEAN /\ ended \in BOOLEAN

Kinds ==
    /\ command \in Commands
    /\ phase \in Phases /\ exit \in 0 .. 255
    /\ child \in {"none", "alive", "zombie", "gone"}
    /\ ending \in Endings \cup {NotEnded}
    /\ result \in (Endings \ {EndedBy(Unnamed)}) \cup {NotEnded}
    /\ spawned \in {"not_yet", "child", "error_due", "threw", "refused"}
    /\ received \in Handled \cup {None}
    /\ yaml \in {"absent", "initialized", "running"} \cup FinalStatuses
    /\ signals \in 0 .. MaxSignals /\ faults \in 0 .. MaxFaults
    /\ how \in {"running", "finished", "signal", "write_failed", "killed", "uncaught"}

Told ==
    executed \in [written : BOOLEAN, code : Codes \cup {NoCode},
                  signal : Named \cup {None}, received : Handled \cup {None}]

(* Together they are the type invariant.                                      *)
LEMMA Types == TypeOK <=> Flags /\ Kinds /\ Told
BY Zenon DEF TypeOK, Flags, Kinds, Told

(* What is reported of an end is a code or a signal with a name: of the end   *)
(* itself, or, of a signal without a name, that the child exited with 0.      *)
LEMMA ReportedIn ==
    ASSUME NEW e \in Endings
    PROVE  /\ Reported(e) \in Endings \ {EndedBy(Unnamed)}
           /\ e # EndedBy(Unnamed) => Reported(e) = e
           /\ e = EndedBy(Unnamed) => Reported(e) = Exited(0)
           /\ Reported(e) = Exited(0) <=> e \in {Exited(0), EndedBy(Unnamed)}
BY DEF Reported, Endings, Exited, EndedBy, Signals, Named, Unnamed, Handled, Codes,
    NoCode, None

(* The exit code is the reported one, or 128 and the number of a signal.      *)
LEMMA ExitCodeIn ==
    ASSUME Kinds, result \in Endings \ {EndedBy(Unnamed)}
    PROVE  /\ ExitCode \in 0 .. 255
           /\ result.code # NoCode => ExitCode = result.code
           /\ result.code = NoCode => ExitCode > 128
BY DEF Kinds, ExitCode, Number, Endings, Exited, EndedBy, Signals, Named, Unnamed,
    Handled, Codes, NoCode, None

(* A final status, and when it is completed.                                  *)
LEMMA FinalStatusIn ==
    ASSUME NEW e \in Endings \cup {NotEnded}, NEW sig
    PROVE  /\ FinalStatus(e, sig) \in FinalStatuses
           /\ FinalStatus(e, sig) = "completed" <=>
                sig \notin Handled /\ e.signal \notin Handled \cup {"SIGKILL"} /\
                e.code = 0
BY DEF FinalStatus, FinalStatuses, Endings, NotEnded, Exited, EndedBy, Signals,
    Named, Unnamed, Handled, Codes, NoCode, None

(* The invariant holds at the start.                                          *)
LEMMA InitInv == Init => IInv
<1> SUFFICES ASSUME Init PROVE IInv
  OBVIOUS
<1>1. Flags
  BY Zenon DEF Init, Flags
<1>2. Kinds
  BY CommandsKnown, BoundsNat DEF Init, Kinds, Phases, Recording, FinalStatuses,
      NotEnded, NoCode, None
<1>3. FALSE \in BOOLEAN
  OBVIOUS
<1>4. Told
  BY <1>3 DEF Init, Told, NotExecuted, Codes, NoCode, Named, Handled, None
<1>5. EndKnown /\ NothingYet /\ Waited
  BY DEF Init, EndKnown, NothingYet, Waited, Recording
<1>6. Settled /\ Recorded /\ ChildNotLeft /\ RecordAgrees /\ OutcomeTold
  BY DEF Init, Settled, Recorded, ChildNotLeft, RecordAgrees, OutcomeTold,
      Tail, FailingTail, FinalStatuses
<1> QED
  BY <1>1, <1>2, <1>4, <1>5, <1>6, Types DEF IInv, Story

(* Every step keeps the flags.                                                *)
LEMMA FlagsKept == Flags /\ Next => Flags'
<1> SUFFICES ASSUME Flags, Next PROVE Flags'
  OBVIOUS
<1> USE DEF Flags, process, kid, runner, record, bounds
<1>1. CASE Create
  BY Zenon, <1>1 DEF Create
<1>2. CASE StartRunning
  BY Zenon, <1>2 DEF StartRunning
<1>3. CASE Launch
  BY Zenon, <1>3 DEF Launch, Spawn
<1>4. CASE PreSpawnEnds
  BY Zenon, <1>4 DEF PreSpawnEnds, Spawn
<1>5. CASE Settle
  BY Zenon, <1>5 DEF Settle
<1>6. CASE ErrorEvent
  BY Zenon, <1>6 DEF ErrorEvent
<1>7. CASE RecordExecuted
  BY Zenon, <1>7 DEF RecordExecuted
<1>8. CASE RecordFinalStatus
  BY Zenon, <1>8 DEF RecordFinalStatus
<1>9. CASE RecordEnded
  BY Zenon, <1>9 DEF RecordEnded
<1>10. CASE Finalize
  BY Zenon, <1>10 DEF Finalize, Finish
<1>11. CASE TimeoutFires
  BY Zenon, <1>11 DEF TimeoutFires, TriggerKill
<1>12. CASE KillTimerFires
  BY Zenon, <1>12 DEF KillTimerFires
<1>13. CASE ChildEnds
  BY Zenon, <1>13 DEF ChildEnds, Ends
<1>14. CASE WriteFails
  BY Zenon, <1>14 DEF WriteFails, Stop, Fault
<1>15. CASE Killed
  BY Zenon, <1>15 DEF Killed, Stop, Fault
<1>16. CASE Uncaught
  BY Zenon, <1>16 DEF Uncaught, Stop, Fault, ExitHook
<1>17. ASSUME NEW sig \in Handled, Signal(sig) PROVE Flags'
  BY Zenon, <1>17 DEF Signal, TriggerKill, Stop
<1> QED
  BY <1>1, <1>2, <1>3, <1>4, <1>5, <1>6, <1>7, <1>8, <1>9, <1>10, <1>11, <1>12,
      <1>13, <1>14, <1>15, <1>16, <1>17 DEF Next, Loop

(* Every step keeps the other types.                                          *)
LEMMA KindsKept ==
    ASSUME Kinds, Told, EndKnown, Settled, Next
    PROVE  Kinds' /\ Told'
<1> USE BoundsNat DEF Kinds, Told, process, kid, runner, record, bounds, Alive,
    Handled, Signals, Named, Unnamed,
    None, NoCode, Codes, Phases, Recording, Tail, FailingTail, FinalStatuses
<1>a. child = "zombie" => ending \in Endings
  BY DEF EndKnown
<1>b. phase = "finalize" => result \in Endings \ {EndedBy(Unnamed)}
  BY ReportedIn DEF Settled, EndKnown
<1>1. CASE Create
  BY <1>1 DEF Create
<1>2. CASE StartRunning
  BY <1>2 DEF StartRunning
<1>3. CASE Launch
  BY <1>3 DEF Launch, Spawn
<1>4. CASE PreSpawnEnds
  BY <1>4 DEF PreSpawnEnds, Spawn
<1>5. CASE Settle
  BY <1>5, <1>a, ReportedIn DEF Settle
<1>6. CASE ErrorEvent
  BY <1>6 DEF ErrorEvent
<1>7. CASE RecordExecuted
  <2>1. TRUE \in BOOLEAN
    OBVIOUS
  <2> QED
    BY <1>7, <2>1 DEF RecordExecuted, Executed, Endings, Exited, EndedBy, NotEnded
<1>8. CASE RecordFinalStatus
  BY <1>8 DEF RecordFinalStatus
<1>9. CASE RecordEnded
  BY <1>9 DEF RecordEnded
<1>10. CASE Finalize
  BY <1>10, <1>b, ExitCodeIn, FinalStatusIn DEF Finalize, Finish
<1>11. CASE TimeoutFires
  BY <1>11, Delivered, <1>b DEF TimeoutFires, TriggerKill
<1>12. CASE KillTimerFires
  BY <1>12, Delivered, <1>b DEF KillTimerFires
<1>13. CASE ChildEnds
  BY <1>13 DEF ChildEnds, Ends, Endings
<1>14. CASE WriteFails
  BY <1>14 DEF WriteFails, Stop, Fault
<1>15. CASE Killed
  BY <1>15 DEF Killed, Stop, Fault
<1>16. CASE Uncaught
  BY <1>16, Delivered, <1>b DEF Uncaught, Stop, Fault, ExitHook
<1>17. ASSUME NEW sig \in Handled, Signal(sig) PROVE (Kinds' /\ Told')
  BY <1>17, Delivered, <1>b DEF Signal, TriggerKill, Stop, Number
<1> QED
  BY <1>1, <1>2, <1>3, <1>4, <1>5, <1>6, <1>7, <1>8, <1>9, <1>10, <1>11, <1>12,
      <1>13, <1>14, <1>15, <1>16, <1>17 DEF Next, Loop

(* Every step keeps the story of the run.                                     *)
LEMMA StoryKept ==
    ASSUME IInv, Next
    PROVE  Story'
<1>a. TypeOK /\ Story
  BY DEF IInv
<1>b. Kinds
  BY <1>a, Types
<1> USE <1>a DEF Story, EndKnown, NothingYet, Waited, Settled, Recorded,
    ChildNotLeft, RecordAgrees,
    OutcomeTold, TypeOK, Alive, process, kid, runner, record, bounds, Handled, Signals,
    Named, None,
    NoCode, Codes, Phases, Recording, Tail, FailingTail, FinalStatuses
<1>1. CASE Create
  BY <1>1 DEF Create
<1>2. CASE StartRunning
  BY <1>2 DEF StartRunning
<1>3. CASE Launch
  BY <1>3 DEF Launch, Spawn
<1>4. CASE PreSpawnEnds
  BY <1>4 DEF PreSpawnEnds, Spawn
<1>5. CASE Settle
  BY <1>5 DEF Settle
<1>6. CASE ErrorEvent
  BY <1>6 DEF ErrorEvent
<1>7. CASE RecordExecuted
  BY <1>7 DEF RecordExecuted, Executed, NotEnded
<1>8. CASE RecordFinalStatus
  BY <1>8 DEF RecordFinalStatus, Executed
<1>9. CASE RecordEnded
  BY <1>9 DEF RecordEnded, Executed
<1>10. CASE Finalize
  <2>1. (EndKnown /\ NothingYet /\ Waited)'
    BY <1>10 DEF Finalize, Finish, EndKnown, NothingYet, Waited, Settled
  <2>2. (Settled /\ Recorded)'
    BY <1>10 DEF Finalize, Finish, EndKnown, NothingYet, Waited, Settled, Recorded,
        Executed, NotEnded
  <2>3. ChildNotLeft'
    BY <1>10 DEF Finalize, Finish, Waited, NothingYet, Settled, Recorded, ChildNotLeft
  <2>4. RecordAgrees'
    <3>1. CASE phase = "finalize"
      <4>1. result \in Endings
        BY <3>1, ReportedIn DEF Settled, EndKnown
      <4>2. [code |-> executed.code, signal |-> executed.signal] = result
        BY <3>1, <4>1 DEF Recorded, Executed, Endings, Exited, EndedBy
      <4>3. ~(executed.code = NoCode /\ executed.signal = None)
        BY <3>1, <4>1 DEF Recorded, Executed, Endings, Exited, EndedBy, Unnamed
      <4>4. executed.written /\ ended /\ executed.received = received
        BY <3>1 DEF Recorded, Executed
      <4> QED
        BY <1>10, <3>1, <4>2, <4>3, <4>4 DEF Finalize, RecordAgrees
    <3>2. CASE phase = "failed_finalize"
      BY <1>10, <3>2 DEF Finalize, Finish, Recorded, RecordAgrees
    <3> QED
      BY <1>10, <3>1, <3>2 DEF Finalize
  <2>5. OutcomeTold'
    <3>1. CASE phase = "finalize"
      <4>1. ending \in Endings /\ result = Reported(ending)
        BY <3>1 DEF Settled, EndKnown
      <4>2. result \in Endings \ {EndedBy(Unnamed)}
        BY <4>1, ReportedIn
      <4>3. /\ ending.code # NoCode => result.code = ending.code
            /\ ending.signal \in Named => result.code = NoCode
            /\ ending = EndedBy(Unnamed) => result.code = 0
        BY <4>1 DEF Reported, Endings, Exited, EndedBy, Unnamed
      <4>4. /\ ending.code # NoCode => ExitCode = ending.code
            /\ ending.signal \in Named => ExitCode > 128
            /\ ending = EndedBy(Unnamed) => ExitCode = 0
        BY <1>b, <4>2, <4>3, ExitCodeIn
      <4>5. FinalStatus(result, received) = "completed" <=>
              received = None /\ ending \in {Exited(0), EndedBy(Unnamed)}
        <5>1. FinalStatus(result, received) = "completed" <=>
                received \notin Handled /\
                result.signal \notin Handled \cup {"SIGKILL"} /\ result.code = 0
          BY <4>2, FinalStatusIn
        <5>2. result.code = 0 <=> result = Exited(0)
          BY <4>2 DEF Endings, Exited, EndedBy
        <5>3. result = Exited(0) => result.signal \notin Handled \cup {"SIGKILL"}
          BY DEF Exited
        <5>4. received \notin Handled <=> received = None
          BY <1>b DEF Kinds
        <5> QED
          BY <4>1, <5>1, <5>2, <5>3, <5>4, ReportedIn
      <4> QED
        BY <1>10, <3>1, <4>4, <4>5 DEF Finalize, Finish, OutcomeTold
    <3>2. CASE phase = "failed_finalize"
      BY <1>10, <3>2 DEF Finalize, Finish, Settled, OutcomeTold
    <3> QED
      BY <1>10, <3>1, <3>2 DEF Finalize
  <2> QED
    BY <2>1, <2>2, <2>3, <2>4, <2>5
<1>11. CASE TimeoutFires
  BY <1>11, Delivered DEF TimeoutFires, TriggerKill
<1>12. CASE KillTimerFires
  BY <1>12, Delivered DEF KillTimerFires
<1>13. CASE ChildEnds
  BY <1>13 DEF ChildEnds, Ends, Endings, Exited, EndedBy
<1>14. CASE WriteFails
  BY <1>14 DEF WriteFails, Stop, Fault
<1>15. CASE Killed
  BY <1>15 DEF Killed, Stop, Fault
<1>16. CASE Uncaught
  BY <1>16, Delivered DEF Uncaught, Stop, Fault, ExitHook
<1>17. ASSUME NEW sig \in Handled, Signal(sig) PROVE Story'
  BY <1>17, Delivered DEF Signal, TriggerKill, Stop, Number
<1> QED
  BY <1>1, <1>2, <1>3, <1>4, <1>5, <1>6, <1>7, <1>8, <1>9, <1>10, <1>11, <1>12,
      <1>13, <1>14, <1>15, <1>16, <1>17 DEF Next, Loop

(* The invariant holds in every state of every behaviour.                      *)
LEMMA Invariance == Spec => []IInv
<1>1. IInv /\ Next => IInv'
  <2> SUFFICES ASSUME IInv, Next PROVE IInv'
    OBVIOUS
  <2>1. Flags /\ Kinds /\ Told
    BY Types DEF IInv
  <2>2. Flags' /\ Kinds' /\ Told'
    BY <2>1, FlagsKept, KindsKept DEF IInv, Story
  <2>3. TypeOK'
    BY Zenon, <2>2 DEF TypeOK, Flags, Kinds, Told
  <2> QED
    BY <2>3, StoryKept DEF IInv
<1>2. IInv /\ UNCHANGED vars => IInv'
  BY DEF IInv, TypeOK, Story, EndKnown, NothingYet, Waited, Settled, Recorded,
      ChildNotLeft,
      RecordAgrees, OutcomeTold, Executed, vars, process, kid, runner, record, bounds
<1> QED
  BY <1>1, <1>2, InitInv, PTL DEF Spec

-----------------------------------------------------------------------------
(* Every variable keeps its type.                                             *)
THEOREM TypesHold == Spec => []TypeOK
BY Invariance, PTL DEF IInv

(* However a run ends, short of a signal basou cannot handle or a child it may *)
(* not kill, the child it started is not left running: the hooks of            *)
(* createAbortHandling are in place whenever a child is there.                 *)
THEOREM NoChildLeft == Spec => []ChildNotLeft
BY Invariance, PTL DEF IInv, Story

(* session.yaml, command_executed and the exit code of a finished run tell one *)
(* outcome: the child's own, save that the end of a child by a signal Node has *)
(* no name for is told as an exit with 0.                                      *)
THEOREM OutcomeIsOne == Spec => []OneOutcome
<1>1. IInv => OneOutcome
  BY DEF IInv, Story, OneOutcome
<1> QED
  BY <1>1, Invariance, PTL
=============================================================================
