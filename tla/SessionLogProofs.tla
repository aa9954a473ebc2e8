-------------------------- MODULE SessionLogProofs --------------------------
(* The proofs about one session: its types, the inductive invariant IInv and  *)
(* what follows from it, for any number of attaching processes, any bound on  *)
(* faults and any options.                                                    *)
EXTENDS SessionLog, TLAPS

(* What verify compares an anchor with is an anchor.                          *)
LEMMA AnchorTyped ==
  ASSUME NEW s \in Seq(Line)
  PROVE  Chain!Anchor(s, Sid) \in [head : Nat, count : Nat]
<1>1. Chain!HeadHash(s, Sid) \in Nat
  <2>1. CASE Len(s) = 0
    BY <2>1 DEF Chain!HeadHash, Chain!Expected, Genesis
  <2>2. CASE Len(s) # 0
    <3>1. s[Len(s)] \in Line
      BY <2>2
    <3>. QED BY <2>2, <3>1 DEF Chain!HeadHash, Chain!Expected, LineHash, Line
  <2>. QED BY <2>1, <2>2
<1>. QED BY <1>1 DEF Chain!Anchor

(* The five lines of an ad-hoc session are lines of a log.                    *)
LEMMA BulkTyped ==
  ASSUME nextId \in Nat
  PROVE  /\ BulkLines(AdHocEvents) \in Seq(Line)
         /\ Len(AdHocEvents) = 5
         /\ BulkLines(AdHocEvents) # <<>>
<1>1. Len(AdHocEvents) = 5
  BY DEF AdHocEvents
<1>2. \A i \in 1 .. 5 : AdHocEvents[i] \in Jobs \cup {"target"}
  BY DEF AdHocEvents, Jobs
<1>. HIDE DEF AdHocEvents
<1>3. \A i \in 1 .. 5 :
        [id |-> nextId + i - 1, text |-> AdHocEvents[i],
         prev |-> IF i = 1 THEN Genesis(Sid) ELSE nextId + i - 2] \in Line
  BY <1>2 DEF Line, Genesis
<1>4. BulkLines(AdHocEvents) \in Seq(Line) /\ Len(BulkLines(AdHocEvents)) = 5
  BY <1>1, <1>3 DEF BulkLines
<1>. HIDE DEF BulkLines
<1>5. \A s \in Seq(Line) : Len(s) = 5 => s # <<>>
  OBVIOUS
<1>. QED BY <1>1, <1>4, <1>5

(* A process about to write is not writing to a session that is over, and     *)
(* what it appends to exists.                                                 *)
LEMMA WritersFindItLive ==
  ASSUME TypeOK, IInv, NEW p \in Procs, pc[p] \in {"append", "bulk", "yaml"}
  PROVE  /\ ~Sealed
         /\ pc[p] = "append" => yaml # NoYaml
         /\ p # Creator => job[p] \in Attaches
         /\ pc[p] = "bulk" \/ job[p] \in {"create", "adhoc", "running", "finalize"}
              => p = Creator
<1>. USE DEF IInv, Procs, Attachers, Attaches
<1>1. p # Creator => job[p] \in Attaches
  BY DEF JobsFit, StepsFit, Appends
<1>2. pc[p] = "bulk" \/ job[p] \in {"create", "adhoc", "running", "finalize"} => p = Creator
  BY <1>1 DEF StepsFit
<1>3. CASE p = Creator
  <2>1. ~Sealed
    BY <1>3 DEF SealedIsLast, Over
  <2>2. pc[p] = "append" => yaml # NoYaml
    BY <1>3 DEF StepsFit, Appends, Recording
  <2>. QED BY <1>1, <1>2, <2>1, <2>2
<1>4. CASE p # Creator
  <2>1. DocUsed(p)
    BY <1>1, <1>2, <1>4 DEF DocUsed, Overwrites
  <2>2. yaml # NoYaml /\ yaml.status \in LiveStatuses
    BY <1>1, <1>4, <2>1 DEF DocFresh, Attachable
  <2>. QED BY <1>1, <1>2, <2>2 DEF Sealed, FinalStatuses, LiveStatuses
<1>. QED BY <1>3, <1>4

(* The creator's next job comes after its first: it is no job of an attacher, *)
(* no first job, and a session that failed or is over has none.               *)
LEMMA NextJobsFit ==
  ASSUME NEW j \in Jobs, NEW k \in NextJobs(j)
  PROVE  /\ k \in Appends \cup {"running", "child", "finalize"}
         /\ j \notin {"adhoc", "throw", "finalize"} \cup Attaches
         /\ k = "session_started" <=> j = "create"
BY DEF NextJobs, Optional, Appends, Attaches

(* A line that carries the head hash keeps the log linked.                    *)
LEMMA AppendKeepsChain ==
  ASSUME NEW s \in Seq(Line), NEW l \in Line,
         \A i \in DOMAIN s : s[i].prev = Chain!Expected(s, i, Sid),
         l.prev = Chain!HeadHash(s, Sid)
  PROVE  Chain!Linked(Append(s, l), Sid)
<1>. DEFINE r == Append(s, l)
<1>1. Len(r) = Len(s) + 1 /\ DOMAIN r = 1 .. Len(s) + 1 /\ DOMAIN s = 1 .. Len(s)
  OBVIOUS
<1>2. \A i \in 1 .. Len(s) : r[i] = s[i]
  OBVIOUS
<1>3. r[Len(s) + 1] = l
  OBVIOUS
<1>. HIDE DEF r
<1>4. \A i \in 1 .. Len(s) + 1 : Chain!Expected(r, i, Sid) = Chain!Expected(s, i, Sid)
  BY <1>2 DEF Chain!Expected, LineHash, Genesis
<1>5. ASSUME NEW i \in 1 .. Len(s) + 1
      PROVE  r[i].prev = Chain!Expected(r, i, Sid)
  <2>1. CASE i = Len(s) + 1
    BY <1>3, <1>4, <2>1 DEF Chain!HeadHash
  <2>2. CASE i # Len(s) + 1
    <3>1. i \in DOMAIN s
      BY <1>1, <2>2
    <3>. QED BY <1>1, <1>2, <1>4, <3>1
  <2>. QED BY <2>1, <2>2
<1>. QED BY <1>1, <1>5 DEF Chain!Linked, r

(* The log an ad-hoc session writes at once is linked.                        *)
LEMMA BulkLinked ==
  ASSUME nextId \in Nat
  PROVE  Chain!Linked(BulkLines(AdHocEvents), Sid)
<1>1. Len(AdHocEvents) = 5
  BY DEF AdHocEvents
<1>. QED BY <1>1 DEF BulkLines, Chain!Linked, Chain!Expected, LineHash

(* Every step keeps the types; the document an overwrite writes is one that   *)
(* was read (DocFresh), and its task_id is a task's (JobsFit).                *)
LEMMA TypeInvariant == TypeOK /\ IInv /\ [Next]_vars => TypeOK'
<1>. SUFFICES ASSUME TypeOK, IInv, [Next]_vars PROVE TypeOK'
  OBVIOUS
<1>. USE MaxFaultsNat DEF TypeOK, Inside, Over, Goto, Procs, Attachers, files, verify
<1>1. ASSUME NEW p \in Procs, Lock(p) PROVE TypeOK'
  BY <1>1 DEF Lock, Wants, FirstStep
<1>2. ASSUME NEW p \in Procs, LockHeld(p) PROVE TypeOK'
  BY <1>2 DEF LockHeld, Wants
<1>3. ASSUME NEW p \in Procs, Release(p) PROVE TypeOK'
  BY <1>3 DEF Release, NextJobs, Optional, Jobs, NoAnchor, NoHash
<1>4. ASSUME NEW p \in Procs, ReadYaml(p) PROVE TypeOK'
  BY <1>4 DEF ReadYaml, Throw, Jobs
<1>5. ASSUME NEW p \in Procs, InspectTail(p) PROVE TypeOK'
  <2>1. Chain!Anchor(lines, Sid) \in [head : Nat, count : Nat]
    BY AnchorTyped
  <2>. QED BY <1>5, <2>1 DEF InspectTail, Throw, Jobs
<1>6. ASSUME NEW p \in Procs, AppendLine(p) PROVE TypeOK'
  <2>1. [id |-> nextId, text |-> job[p], prev |-> tail[p].head] \in Line
    BY DEF Line, Jobs
  <2>2. lines' \in Seq(Line)
    BY <1>6, <2>1 DEF AppendLine
  <2>. QED BY <1>6, <2>2 DEF AppendLine
<1>7. ASSUME NEW p \in Procs, OverwriteYaml(p) PROVE TypeOK'
  <2>1. doc[p] \in Yaml
    BY <1>7 DEF OverwriteYaml, IInv, DocFresh, DocUsed, Overwrites, Attaches
  <2>2. job[p] = "task_created" => p \in Tasks
    BY DEF IInv, JobsFit, Attaches
  <2>3. Mutated(p) \in Yaml
    <3>1. \A a \in [head : Nat, count : Nat], s \in Statuses :
             [doc[p] EXCEPT !.status = s, !.integrity = a] \in Yaml
      BY <2>1 DEF Yaml
    <3>2. [doc[p] EXCEPT !.status = "running"] \in Yaml
      BY <2>1 DEF Yaml, Statuses
    <3>3. job[p] = "task_created" => [doc[p] EXCEPT !.task = p] \in Yaml
      BY <2>1, <2>2 DEF Yaml
    <3>4. /\ (IF tail[p].count > 0 THEN tail[p] ELSE doc[p].integrity)
               \in [head : Nat, count : Nat]
          /\ final \in Statuses
      BY <2>1 DEF Yaml, Statuses, FinalStatuses
    <3>. QED BY <1>7, <3>1, <3>2, <3>3, <3>4 DEF OverwriteYaml, Mutated
  <2>. QED BY <1>7, <2>3 DEF OverwriteYaml, Jobs
<1>8. ASSUME NEW p \in Procs, CreateYaml(p) PROVE TypeOK'
  BY <1>8 DEF CreateYaml, Created, Yaml, Statuses, NoAnchor, NoHash
<1>9. ASSUME NEW p \in Procs, WriteBulk(p) PROVE TypeOK'
  <2>1. lines' \in Seq(Line) /\ nextId' \in Nat
    BY <1>9, BulkTyped DEF WriteBulk
  <2>2. Chain!Anchor(lines', Sid) \in [head : Nat, count : Nat]
    BY <2>1, AnchorTyped
  <2>. QED BY <1>9, <2>1, <2>2 DEF WriteBulk
<1>10. ASSUME NEW p \in Procs, CompleteAdHoc(p) PROVE TypeOK'
  BY <1>10 DEF CompleteAdHoc, Yaml, Statuses
<1>11. ASSUME NEW p \in Procs, Crash(p) PROVE TypeOK'
  BY <1>11 DEF Crash, Torn, Fault, NoAnchor, NoHash
<1>12. ASSUME NEW p \in Procs, WriteFails(p) PROVE TypeOK'
  BY <1>12 DEF WriteFails, Torn, Fault, Throw, Jobs
<1>13. ASSUME NEW p \in Procs, CreationFails(p) PROVE TypeOK'
  BY <1>13 DEF CreationFails, Fault, Throw, Jobs
<1>14. CASE ChildEnds
  BY <1>14 DEF ChildEnds, Jobs
<1>15. CASE Verify
  BY <1>15 DEF Verify, VerifyReadsEvents, VerifyReadsYaml
<1>16. CASE UNCHANGED vars
  BY <1>16 DEF vars
<1>. QED
  BY <1>1, <1>2, <1>3, <1>4, <1>5, <1>6, <1>7, <1>8, <1>9, <1>10, <1>11, <1>12,
     <1>13, <1>14, <1>15, <1>16 DEF Next, Step

(* Every step keeps the inductive invariant.                                  *)
LEMMA InductiveStep == TypeOK /\ IInv /\ [Next]_vars => IInv'
<1>. SUFFICES ASSUME TypeOK, IInv, [Next]_vars PROVE IInv'
  OBVIOUS
<1>t. TypeOK'
  BY TypeInvariant
<1>. USE ProcessesDistinct DEF TypeOK, IInv, Inside, Over, Goto, Procs, Attachers, files, verify
<1>1. ASSUME NEW p \in Procs, Lock(p) PROVE IInv'
  <2>a. pc' = [pc EXCEPT ![p] = FirstStep(job[p])] /\ lock' = p /\ job[p] \notin {"child", "throw"}
    BY <1>1 DEF Lock, Wants, StepsFit
  <2>b. \A q \in Procs : q # p => pc[q] \notin Inside
    BY <1>1 DEF Lock, Wants, Available, Dead, InsideHoldsLock
  <2>c. pc'[p] \notin {"append", "bulk", "release"} /\ pc'[p] \in Inside
    BY <2>a DEF FirstStep
  <2>d. TailUsed(p)' => FALSE
    BY <1>1, <2>a, <2>c DEF Lock, Wants, FirstStep, TailUsed, Appends, JobsFit, Creation
  <2>1. InsideHoldsLock'
    BY <2>a, <2>b DEF InsideHoldsLock
  <2>2. JobsFit'
    BY <1>1, <1>t, <2>a, <2>b, <2>c DEF Lock, Wants, FirstStep, JobsFit,
       Attaches, Appends
  <2>3. StepsFit'
    BY <1>1, <1>t, <2>a, <2>b, <2>c DEF Lock, Wants, FirstStep, StepsFit,
       Overwrites, Appends, Attaches, Jobs, JobsFit
  <2>4. TailFresh'
    BY <1>1, <2>a, <2>b, <2>d DEF Lock, TailFresh, TailUsed
  <2>5. DocFresh'
    BY <1>1, <1>t, <2>a, <2>b, <2>c DEF Lock, Wants, FirstStep, DocFresh,
       DocUsed, Overwrites, Attaches, Appends, InsideHoldsLock, StepsFit,
       JobsFit, Attachable, NoYaml
  <2>6. Creation' /\ Recording'
    BY <1>1, <1>t, <2>a, <2>b, <2>c DEF Lock, Wants, FirstStep, Creation,
       Recording, NoYaml, StepsFit, JobsFit, InsideHoldsLock, Attaches, Appends,
       Overwrites
  <2>7. SealedIsLast'
    BY <1>1, <1>t, <2>a, <2>b, <2>c DEF Lock, Wants, FirstStep, SealedIsLast,
       Sealed, FinalStatuses, NoYaml, JobsFit, StepsFit, Attaches
  <2>8. ChainIntact' /\ AnchorMatchesLog'
    BY <1>1, <1>t, <2>a, <2>b, <2>c DEF Lock, Wants, FirstStep, ChainIntact,
       AnchorMatchesLog, Sealed, FinalStatuses, NoYaml, SealedIsLast
  <2>. QED BY <2>1, <2>2, <2>3, <2>4, <2>5, <2>6, <2>7, <2>8
<1>2. ASSUME NEW p \in Procs, LockHeld(p) PROVE IInv'
  <2>1. InsideHoldsLock'
    BY <1>2, <1>t DEF LockHeld, Wants, InsideHoldsLock
  <2>2. JobsFit' /\ StepsFit'
    BY <1>2, <1>t DEF LockHeld, Wants, JobsFit, StepsFit, Attaches, Appends,
       Overwrites, Jobs
  <2>3. TailFresh'
    BY <1>2, <1>t DEF LockHeld, Wants, TailFresh, TailUsed, InsideHoldsLock,
       StepsFit, JobsFit, Appends, Attaches, Overwrites
  <2>4. DocFresh'
    BY <1>2, <1>t DEF LockHeld, Wants, DocFresh, DocUsed, Overwrites, Attaches,
       Appends, InsideHoldsLock, StepsFit, JobsFit, Attachable, NoYaml
  <2>5. Creation' /\ Recording'
    BY <1>2, <1>t DEF LockHeld, Wants, Creation, Recording, NoYaml, StepsFit,
       JobsFit, InsideHoldsLock, Attaches, Appends, Overwrites
  <2>6. SealedIsLast'
    BY <1>2, <1>t DEF LockHeld, Wants, SealedIsLast, Sealed, FinalStatuses,
       NoYaml, JobsFit, StepsFit, Attaches
  <2>7. ChainIntact' /\ AnchorMatchesLog'
    BY <1>2, <1>t DEF LockHeld, Wants, ChainIntact, AnchorMatchesLog, Sealed,
       FinalStatuses, NoYaml, SealedIsLast
  <2>. QED BY <2>1, <2>2, <2>3, <2>4, <2>5, <2>6, <2>7
<1>3. ASSUME NEW p \in Procs, Release(p) PROVE IInv'
  <2>a. ASSUME NEW j \in NextJobs(job[p])
        PROVE  /\ p = Creator /\ j \in Appends \cup {"running", "child", "finalize"}
               /\ job[p] \notin {"adhoc", "throw", "finalize"} \cup Attaches
               /\ j = "session_started" <=> job[p] = "create"
    BY NextJobsFit, <2>a DEF JobsFit, Attaches
  <2>b. \/ job' = job /\ NextJobs(job[p]) = {} /\ pc'[p] \in Over
        \/ pc'[p] = "out" /\ \E j \in NextJobs(job[p]) : job' = [job EXCEPT ![p] = j]
    BY <1>3 DEF Release
  <2>c. pc[p] = "release" /\ lock' = Free /\ UNCHANGED files
        /\ \A q \in Procs : q # p => pc'[q] = pc[q] /\ job'[q] = job[q] /\ pc[q] \notin Inside
    BY <1>3 DEF Release, InsideHoldsLock
  <2>1. InsideHoldsLock'
    BY <2>b, <2>c DEF InsideHoldsLock
  <2>2. JobsFit'
    BY <1>t, <2>a, <2>b, <2>c DEF JobsFit, Appends, Attaches
  <2>3. StepsFit'
    BY <1>t, <2>a, <2>b, <2>c DEF StepsFit, Appends
  <2>4. TailFresh'
    BY <1>t, <2>b, <2>c DEF TailFresh, TailUsed
  <2>5. DocFresh'
    BY <1>t, <2>b, <2>c DEF DocFresh, DocUsed
  <2>6. Creation'
    BY <1>t, <2>a, <2>b, <2>c DEF Creation, Appends
  <2>7. Recording'
    BY <1>t, <2>a, <2>b, <2>c DEF Recording, Creation, Appends
  <2>8. SealedIsLast'
    BY <1>t, <2>b, <2>c DEF SealedIsLast, Sealed
  <2>9. ChainIntact' /\ AnchorMatchesLog'
    BY <1>3, <1>t DEF Release, ChainIntact, AnchorMatchesLog, Sealed,
       FinalStatuses, NoYaml, SealedIsLast
  <2>. QED BY <2>1, <2>2, <2>3, <2>4, <2>5, <2>6, <2>7, <2>8, <2>9
<1>4. ASSUME NEW p \in Procs, ReadYaml(p) PROVE IInv'
  <2>1. InsideHoldsLock'
    BY <1>4, <1>t DEF ReadYaml, Throw, Attachable, InsideHoldsLock
  <2>2. JobsFit'
    BY <1>4, <1>t DEF ReadYaml, Throw, Attachable, JobsFit, Attaches, Appends
  <2>3. StepsFit'
    BY <1>4, <1>t DEF ReadYaml, Throw, Attachable, StepsFit, Overwrites,
       Appends, Attaches, Jobs, JobsFit
  <2>4. TailFresh'
    BY <1>4, <1>t DEF ReadYaml, Throw, Attachable, TailFresh, TailUsed,
       InsideHoldsLock, StepsFit, JobsFit, Appends, Attaches, Overwrites
  <2>5. DocFresh'
    BY <1>4, <1>t DEF ReadYaml, Throw, Attachable, DocFresh, DocUsed,
       Overwrites, Attaches, Appends, InsideHoldsLock, StepsFit, JobsFit, NoYaml
  <2>6. Creation'
    BY <1>4, <1>t DEF ReadYaml, Throw, Attachable, Creation, NoYaml, StepsFit,
       JobsFit, InsideHoldsLock, Attaches, Appends, Overwrites
  <2>7. Recording'
    BY <1>4, <1>t DEF ReadYaml, Throw, Attachable, Recording, NoYaml, StepsFit,
       JobsFit, Attaches, Appends, Overwrites
  <2>8. SealedIsLast'
    BY <1>4, <1>t DEF ReadYaml, Throw, Attachable, SealedIsLast, Sealed,
       FinalStatuses, NoYaml, JobsFit, StepsFit, Attaches
  <2>9. ChainIntact' /\ AnchorMatchesLog'
    BY <1>4, <1>t DEF ReadYaml, Throw, Attachable, ChainIntact,
       AnchorMatchesLog, Sealed, FinalStatuses, NoYaml, SealedIsLast
  <2>. QED BY <2>1, <2>2, <2>3, <2>4, <2>5, <2>6, <2>7, <2>8, <2>9
<1>5. ASSUME NEW p \in Procs, InspectTail(p) PROVE IInv'
  <2>1. InsideHoldsLock'
    BY <1>5, <1>t DEF InspectTail, Throw, InsideHoldsLock
  <2>2. JobsFit'
    BY <1>5, <1>t DEF InspectTail, Throw, JobsFit, Attaches, Appends
  <2>3. StepsFit'
    <3>1. pc[p] = "inspect" /\ job[p] \in Appends \cup Attaches \cup {"finalize"}
      BY <1>5 DEF InspectTail, StepsFit
    <3>2. CASE frag # "none"
      <4>1. pc' = [pc EXCEPT ![p] = "release"] /\ job' = [job EXCEPT ![p] = "throw"]
        BY <1>5, <3>2 DEF InspectTail, Throw
      <4>2. pc'[p] = "release" /\ \A q \in Procs \ {p} : pc'[q] = pc[q] /\ job'[q] = job[q]
        BY <1>t, <4>1
      <4>. QED BY <4>2 DEF StepsFit
    <3>3. CASE frag = "none"
      BY <1>5, <1>t, <3>1, <3>3 DEF InspectTail, StepsFit
    <3>. QED BY <3>2, <3>3
  <2>4. TailFresh'
    BY <1>5, <1>t DEF InspectTail, Throw, TailFresh, TailUsed, InsideHoldsLock,
       StepsFit, JobsFit, Appends, Attaches, Overwrites
  <2>5. DocFresh'
    BY <1>5 DEF InspectTail, Throw, DocFresh, DocUsed
  <2>6. Creation'
    BY <1>5, <1>t DEF InspectTail, Throw, Creation, NoYaml, StepsFit, JobsFit,
       InsideHoldsLock, Attaches, Appends, Overwrites
  <2>7. Recording'
    BY <1>5, <1>t DEF InspectTail, Throw, Recording, NoYaml, StepsFit, JobsFit,
       Attaches, Appends, Overwrites
  <2>8. SealedIsLast'
    BY <1>5, <1>t DEF InspectTail, Throw, SealedIsLast, Sealed, FinalStatuses,
       NoYaml, JobsFit, StepsFit, Attaches
  <2>9. ChainIntact' /\ AnchorMatchesLog'
    BY <1>5, <1>t DEF InspectTail, Throw, ChainIntact, AnchorMatchesLog, Sealed,
       FinalStatuses, NoYaml, SealedIsLast
  <2>. QED BY <2>1, <2>2, <2>3, <2>4, <2>5, <2>6, <2>7, <2>8, <2>9
<1>6. ASSUME NEW p \in Procs, AppendLine(p) PROVE IInv'
  <2>a. ~Sealed /\ yaml # NoYaml /\ lines' # <<>>
    BY <1>6, WritersFindItLive DEF AppendLine
  <2>1. InsideHoldsLock'
    BY <1>6, <1>t DEF AppendLine, InsideHoldsLock
  <2>2. JobsFit'
    BY <1>6, <1>t DEF AppendLine, JobsFit, Attaches, Appends
  <2>3. StepsFit'
    BY <1>6, <1>t DEF AppendLine, StepsFit, Overwrites, Appends, Attaches, Jobs,
       JobsFit
  <2>4. TailFresh'
    BY <1>6, <1>t DEF AppendLine, TailFresh, TailUsed, InsideHoldsLock,
       StepsFit, JobsFit, Appends, Attaches, Overwrites
  <2>5. DocFresh'
    BY <1>6, <1>t DEF AppendLine, DocFresh, DocUsed, Overwrites, Attaches,
       Appends, InsideHoldsLock, StepsFit, JobsFit, Attachable, NoYaml
  <2>6. Creation'
    BY <1>6, <2>a DEF AppendLine, Creation, InsideHoldsLock, StepsFit, Appends, Attaches
  <2>7. Recording'
    BY <1>6, <2>a DEF AppendLine, Recording, StepsFit, Appends, Attaches, NoYaml
  <2>8. SealedIsLast'
    BY <1>6, <1>t DEF AppendLine, SealedIsLast, Sealed, FinalStatuses, NoYaml,
       JobsFit, StepsFit, Attaches
  <2>9. ChainIntact'
    <3>1. tail[p] = Chain!Anchor(lines, Sid)
      BY <1>6 DEF AppendLine, TailFresh, TailUsed
    <3>. DEFINE l == [id |-> nextId, text |-> job[p], prev |-> tail[p].head]
    <3>2. l \in Line /\ l.prev = Chain!HeadHash(lines, Sid)
      BY <3>1 DEF Line, Chain!Anchor
    <3>3. lines' = Append(lines, l)
      BY <1>6 DEF AppendLine
    <3>. HIDE DEF l
    <3>. QED BY <3>2, <3>3, AppendKeepsChain DEF ChainIntact, Chain!Linked
  <2>10. AnchorMatchesLog'
    BY <1>6, <2>a DEF AppendLine, AnchorMatchesLog, Sealed
  <2>. QED BY <2>1, <2>2, <2>3, <2>4, <2>5, <2>6, <2>7, <2>8, <2>9, <2>10
<1>7. ASSUME NEW p \in Procs, OverwriteYaml(p) PROVE IInv'
  <2>a. /\ p = Creator <=> job[p] # "task_created"
        /\ p # Creator => p \in Tasks
    BY <1>7, WritersFindItLive DEF OverwriteYaml, JobsFit, Attaches
  <2>b. doc[p] = yaml /\ yaml \in Yaml /\ ~Sealed
    BY <1>7, WritersFindItLive DEF OverwriteYaml, DocFresh, DocUsed, Overwrites, Attaches
  <2>c. job[p] = "finalize" => tail[p] = Chain!Anchor(lines, Sid) /\ frag = "none" /\ lines # <<>>
    BY <1>7, <2>a DEF OverwriteYaml, TailFresh, TailUsed, Recording
  <2>d. job[p] = "finalize" => tail[p].count > 0
    BY <2>c DEF Chain!Anchor
  <2>e. /\ yaml'.status \in Statuses
        /\ Sealed' => job[p] = "finalize" /\ yaml'.integrity = tail[p]
    <3>1. CASE job[p] = "running"
      <4>1. yaml' = [yaml EXCEPT !.status = "running"]
        BY <1>7, <2>b, <3>1 DEF OverwriteYaml, Mutated
      <4>. QED BY <2>b, <4>1 DEF Sealed, Statuses, FinalStatuses, Yaml
    <3>2. CASE job[p] = "finalize"
      <4>1. yaml' = [yaml EXCEPT !.status = final, !.integrity = tail[p]]
        BY <1>7, <2>b, <2>d, <3>2 DEF OverwriteYaml, Mutated
      <4>. QED BY <2>b, <3>2, <4>1 DEF Statuses, FinalStatuses, Yaml
    <3>3. CASE job[p] = "task_created"
      <4>1. yaml' = [yaml EXCEPT !.task = p]
        BY <1>7, <2>b, <3>3 DEF OverwriteYaml, Mutated
      <4>. QED BY <2>b, <4>1 DEF Sealed, Yaml
    <3>. QED BY <1>7, <3>1, <3>2, <3>3 DEF OverwriteYaml
  <2>f. yaml # NoYaml /\ yaml' # NoYaml
    BY <2>b, <2>e DEF NoYaml, Yaml, Statuses
  <2>1. InsideHoldsLock'
    BY <1>7, <1>t DEF OverwriteYaml, InsideHoldsLock
  <2>2. JobsFit'
    BY <1>7, <2>a DEF OverwriteYaml, JobsFit, Attaches
  <2>3. StepsFit'
    BY <1>7, <2>a DEF OverwriteYaml, StepsFit, Overwrites, Attaches
  <2>4. TailFresh'
    BY <1>7, <2>f DEF OverwriteYaml, TailFresh, TailUsed, InsideHoldsLock
  <2>5. DocFresh'
    BY <1>7 DEF OverwriteYaml, DocFresh, DocUsed, InsideHoldsLock
  <2>6. Creation'
    BY <1>7, <2>a, <2>f DEF OverwriteYaml, Creation, InsideHoldsLock
  <2>7. Recording'
    BY <1>7, <2>a, <2>f DEF OverwriteYaml, Recording
  <2>8. SealedIsLast'
    BY <1>7, <2>a, <2>e DEF OverwriteYaml, SealedIsLast, NextJobs
  <2>9. ChainIntact'
    BY <1>7, <1>t DEF OverwriteYaml, ChainIntact
  <2>10. AnchorMatchesLog'
    BY <1>7, <2>c, <2>e DEF OverwriteYaml, AnchorMatchesLog
  <2>. QED BY <2>1, <2>2, <2>3, <2>4, <2>5, <2>6, <2>7, <2>8, <2>9, <2>10
<1>8. ASSUME NEW p \in Procs, CreateYaml(p) PROVE IInv'
  <2>1. InsideHoldsLock'
    BY <1>8, <1>t DEF CreateYaml, Created, InsideHoldsLock
  <2>2. JobsFit' /\ StepsFit'
    BY <1>8, <1>t DEF CreateYaml, Created, JobsFit, StepsFit, Attaches, Appends,
       Overwrites, Jobs
  <2>3. TailFresh'
    BY <1>8, <1>t DEF CreateYaml, Created, TailFresh, TailUsed, InsideHoldsLock,
       StepsFit, JobsFit, Appends, Attaches, Overwrites
  <2>4. DocFresh'
    BY <1>8, <1>t DEF CreateYaml, Created, DocFresh, DocUsed, Overwrites,
       Attaches, Appends, InsideHoldsLock, StepsFit, JobsFit, Attachable, NoYaml
  <2>5. Creation' /\ Recording'
    BY <1>8, <1>t DEF CreateYaml, Created, Creation, Recording, NoYaml,
       StepsFit, JobsFit, InsideHoldsLock, Attaches, Appends, Overwrites
  <2>6. SealedIsLast'
    BY <1>8, <1>t DEF CreateYaml, Created, SealedIsLast, Sealed, FinalStatuses,
       NoYaml, JobsFit, StepsFit, Attaches
  <2>7. ChainIntact' /\ AnchorMatchesLog'
    BY <1>8, <1>t DEF CreateYaml, Created, ChainIntact, AnchorMatchesLog,
       Sealed, FinalStatuses, NoYaml, SealedIsLast
  <2>. QED BY <2>1, <2>2, <2>3, <2>4, <2>5, <2>6, <2>7
<1>9. ASSUME NEW p \in Procs, WriteBulk(p) PROVE IInv'
  <2>a. ~Sealed /\ p = Creator /\ yaml = Created
    BY <1>9, WritersFindItLive DEF WriteBulk, Creation
  <2>b. lines' # <<>>
    BY <1>9, BulkTyped DEF WriteBulk
  <2>1. InsideHoldsLock'
    BY <1>9, <1>t DEF WriteBulk, InsideHoldsLock
  <2>2. JobsFit'
    BY <1>9, <1>t DEF WriteBulk, JobsFit, Attaches, Appends
  <2>3. StepsFit'
    BY <1>9, <1>t DEF WriteBulk, StepsFit, Overwrites, Appends, Attaches, Jobs,
       JobsFit
  <2>4. TailFresh'
    BY <1>9, <1>t DEF WriteBulk, TailFresh, TailUsed, InsideHoldsLock, StepsFit,
       JobsFit, Appends, Attaches, Overwrites
  <2>5. DocFresh'
    BY <1>9, <1>t DEF WriteBulk, DocFresh, DocUsed, Overwrites, Attaches,
       Appends, InsideHoldsLock, StepsFit, JobsFit, Attachable, NoYaml
  <2>6. Creation'
    BY <1>9, <2>a DEF WriteBulk, Creation, Created, NoYaml, StepsFit
  <2>7. Recording'
    BY <1>9, <2>a, <2>b DEF WriteBulk, Recording, StepsFit
  <2>8. SealedIsLast'
    BY <1>9, <1>t DEF WriteBulk, SealedIsLast, Sealed, FinalStatuses, NoYaml,
       JobsFit, StepsFit, Attaches
  <2>9. ChainIntact'
    BY <1>9, BulkLinked DEF WriteBulk, ChainIntact
  <2>10. AnchorMatchesLog'
    BY <1>9, <2>a DEF WriteBulk, AnchorMatchesLog, Sealed
  <2>. QED BY <2>1, <2>2, <2>3, <2>4, <2>5, <2>6, <2>7, <2>8, <2>9, <2>10
<1>10. ASSUME NEW p \in Procs, CompleteAdHoc(p) PROVE IInv'
  <2>a. p = Creator
    BY <1>10, WritersFindItLive DEF CompleteAdHoc
  <2>b. tail[p] = Chain!Anchor(lines, Sid) /\ frag = "none"
    BY <1>10 DEF CompleteAdHoc, TailFresh, TailUsed
  <2>1. InsideHoldsLock'
    BY <1>10, <1>t DEF CompleteAdHoc, InsideHoldsLock
  <2>2. JobsFit' /\ StepsFit'
    BY <1>10, <1>t DEF CompleteAdHoc, JobsFit, StepsFit, Attaches, Appends,
       Overwrites, Jobs
  <2>3. TailFresh'
    BY <1>10, <1>t DEF CompleteAdHoc, TailFresh, TailUsed, InsideHoldsLock,
       StepsFit, JobsFit, Appends, Attaches, Overwrites
  <2>4. DocFresh'
    BY <1>10, <1>t DEF CompleteAdHoc, DocFresh, DocUsed, Overwrites, Attaches,
       Appends, InsideHoldsLock, StepsFit, JobsFit, Attachable, NoYaml
  <2>5. Creation' /\ Recording'
    BY <1>10, <1>t DEF CompleteAdHoc, Creation, Recording, NoYaml, StepsFit,
       JobsFit, InsideHoldsLock, Attaches, Appends, Overwrites
  <2>6. SealedIsLast'
    BY <1>10, <2>a DEF CompleteAdHoc, SealedIsLast, NextJobs
  <2>7. ChainIntact' /\ AnchorMatchesLog'
    BY <1>10, <2>b DEF CompleteAdHoc, ChainIntact, AnchorMatchesLog
  <2>. QED BY <2>1, <2>2, <2>3, <2>4, <2>5, <2>6, <2>7
<1>11. ASSUME NEW p \in Procs, Crash(p) PROVE IInv'
  <2>a. pc[p] = "append" => ~Sealed /\ yaml # NoYaml
    BY WritersFindItLive
  <2>b. pc[p] # "append" => frag' = frag
    BY <1>11 DEF Crash, Torn
  <2>1. InsideHoldsLock'
    BY <1>11, <1>t DEF Crash, Torn, InsideHoldsLock
  <2>2. JobsFit' /\ StepsFit'
    BY <1>11, <1>t DEF Crash, Torn, JobsFit, StepsFit, Attaches, Appends,
       Overwrites, Jobs
  <2>3. TailFresh'
    BY <1>11, <1>t DEF Crash, Torn, TailFresh, TailUsed, InsideHoldsLock,
       StepsFit, JobsFit, Appends, Attaches, Overwrites
  <2>4. DocFresh'
    BY <1>11, <1>t DEF Crash, Torn, DocFresh, DocUsed, Overwrites, Attaches,
       Appends, InsideHoldsLock, StepsFit, JobsFit, Attachable, NoYaml
  <2>5. Creation'
    BY <1>11, <2>a, <2>b DEF Crash, Torn, Creation
  <2>6. Recording'
    BY <1>11, <1>t DEF Crash, Torn, Recording, NoYaml, StepsFit, JobsFit,
       Attaches, Appends, Overwrites
  <2>7. SealedIsLast'
    BY <1>11, <1>t DEF Crash, Torn, SealedIsLast, Sealed, FinalStatuses, NoYaml,
       JobsFit, StepsFit, Attaches
  <2>8. ChainIntact' /\ AnchorMatchesLog'
    BY <1>11, <2>a, <2>b DEF Crash, Torn, ChainIntact, AnchorMatchesLog, Sealed
  <2>. QED BY <2>1, <2>2, <2>3, <2>4, <2>5, <2>6, <2>7, <2>8
<1>12. ASSUME NEW p \in Procs, WriteFails(p) PROVE IInv'
  <2>a. pc[p] = "append" => ~Sealed /\ yaml # NoYaml
    BY WritersFindItLive
  <2>b. pc[p] # "append" => frag' = frag
    BY <1>12 DEF WriteFails, Torn
  <2>1. InsideHoldsLock'
    BY <1>12, <1>t DEF WriteFails, Torn, Throw, InsideHoldsLock
  <2>2. JobsFit' /\ StepsFit'
    BY <1>12, <1>t DEF WriteFails, Torn, Throw, JobsFit, StepsFit, Attaches,
       Appends, Overwrites, Jobs
  <2>3. TailFresh'
    BY <1>12, <1>t DEF WriteFails, Torn, Throw, TailFresh, TailUsed,
       InsideHoldsLock, StepsFit, JobsFit, Appends, Attaches, Overwrites
  <2>4. DocFresh'
    BY <1>12, <1>t DEF WriteFails, Torn, Throw, DocFresh, DocUsed, Overwrites,
       Attaches, Appends, InsideHoldsLock, StepsFit, JobsFit, Attachable, NoYaml
  <2>5. Creation'
    BY <1>12, <2>a, <2>b DEF WriteFails, Torn, Throw, Creation
  <2>6. Recording'
    BY <1>12, <1>t DEF WriteFails, Torn, Throw, Recording, NoYaml, StepsFit,
       JobsFit, Attaches, Appends, Overwrites
  <2>7. SealedIsLast'
    BY <1>12, <1>t DEF WriteFails, Torn, Throw, SealedIsLast, Sealed,
       FinalStatuses, NoYaml, JobsFit, StepsFit, Attaches
  <2>8. ChainIntact' /\ AnchorMatchesLog'
    BY <1>12, <2>a, <2>b DEF WriteFails, Torn, ChainIntact, AnchorMatchesLog, Sealed
  <2>. QED BY <2>1, <2>2, <2>3, <2>4, <2>5, <2>6, <2>7, <2>8
<1>13. ASSUME NEW p \in Procs, CreationFails(p) PROVE IInv'
  <2>1. InsideHoldsLock'
    BY <1>13, <1>t DEF CreationFails, Throw, InsideHoldsLock
  <2>2. JobsFit' /\ StepsFit'
    BY <1>13, <1>t DEF CreationFails, Throw, JobsFit, StepsFit, Attaches,
       Appends, Overwrites, Jobs
  <2>3. TailFresh'
    BY <1>13, <1>t DEF CreationFails, Throw, TailFresh, TailUsed,
       InsideHoldsLock, StepsFit, JobsFit, Appends, Attaches, Overwrites
  <2>4. DocFresh'
    BY <1>13, <1>t DEF CreationFails, Throw, DocFresh, DocUsed, Overwrites,
       Attaches, Appends, InsideHoldsLock, StepsFit, JobsFit, Attachable, NoYaml
  <2>5. Creation'
    BY <1>13, <1>t DEF CreationFails, Throw, Creation, NoYaml, StepsFit,
       JobsFit, InsideHoldsLock, Attaches, Appends, Overwrites
  <2>6. Recording'
    BY <1>13, <1>t DEF CreationFails, Throw, Recording, NoYaml, StepsFit,
       JobsFit, Attaches, Appends, Overwrites
  <2>7. SealedIsLast'
    BY <1>13, <1>t DEF CreationFails, Throw, SealedIsLast, Sealed,
       FinalStatuses, NoYaml, JobsFit, StepsFit, Attaches
  <2>8. ChainIntact'
    BY <1>13 DEF CreationFails, ChainIntact, Chain!Linked
  <2>9. AnchorMatchesLog'
    BY <1>13 DEF CreationFails, AnchorMatchesLog, Sealed, FinalStatuses, NoYaml
  <2>. QED BY <2>1, <2>2, <2>3, <2>4, <2>5, <2>6, <2>7, <2>8, <2>9
<1>14. CASE ChildEnds
  <2>1. InsideHoldsLock'
    BY <1>14, <1>t DEF ChildEnds, InsideHoldsLock
  <2>2. JobsFit' /\ StepsFit'
    BY <1>14, <1>t DEF ChildEnds, JobsFit, StepsFit, Attaches, Appends,
       Overwrites, Jobs
  <2>3. TailFresh'
    BY <1>14, <1>t DEF ChildEnds, TailFresh, TailUsed, InsideHoldsLock,
       StepsFit, JobsFit, Appends, Attaches, Overwrites
  <2>4. DocFresh'
    BY <1>14, <1>t DEF ChildEnds, DocFresh, DocUsed, Overwrites, Attaches,
       Appends, InsideHoldsLock, StepsFit, JobsFit, Attachable, NoYaml
  <2>5. Creation' /\ Recording'
    BY <1>14, <1>t DEF ChildEnds, Creation, Recording, NoYaml, StepsFit,
       JobsFit, InsideHoldsLock, Attaches, Appends, Overwrites
  <2>6. SealedIsLast'
    BY <1>14, <1>t DEF ChildEnds, SealedIsLast, Sealed, FinalStatuses, NoYaml,
       JobsFit, StepsFit, Attaches
  <2>7. ChainIntact' /\ AnchorMatchesLog'
    BY <1>14, <1>t DEF ChildEnds, ChainIntact, AnchorMatchesLog, Sealed,
       FinalStatuses, NoYaml, SealedIsLast
  <2>. QED BY <2>1, <2>2, <2>3, <2>4, <2>5, <2>6, <2>7
<1>15. CASE Verify
  <2>1. InsideHoldsLock'
    BY <1>15, <1>t DEF Verify, VerifyReadsEvents, VerifyReadsYaml,
       InsideHoldsLock
  <2>2. JobsFit' /\ StepsFit'
    BY <1>15, <1>t DEF Verify, VerifyReadsEvents, VerifyReadsYaml, JobsFit,
       StepsFit, Attaches, Appends, Overwrites, Jobs
  <2>3. TailFresh'
    BY <1>15, <1>t DEF Verify, VerifyReadsEvents, VerifyReadsYaml, TailFresh,
       TailUsed, InsideHoldsLock, StepsFit, JobsFit, Appends, Attaches,
       Overwrites
  <2>4. DocFresh'
    BY <1>15, <1>t DEF Verify, VerifyReadsEvents, VerifyReadsYaml, DocFresh,
       DocUsed, Overwrites, Attaches, Appends, InsideHoldsLock, StepsFit,
       JobsFit, Attachable, NoYaml
  <2>5. Creation' /\ Recording'
    BY <1>15, <1>t DEF Verify, VerifyReadsEvents, VerifyReadsYaml, Creation,
       Recording, NoYaml, StepsFit, JobsFit, InsideHoldsLock, Attaches, Appends,
       Overwrites
  <2>6. SealedIsLast'
    BY <1>15, <1>t DEF Verify, VerifyReadsEvents, VerifyReadsYaml, SealedIsLast,
       Sealed, FinalStatuses, NoYaml, JobsFit, StepsFit, Attaches
  <2>7. ChainIntact' /\ AnchorMatchesLog'
    BY <1>15, <1>t DEF Verify, VerifyReadsEvents, VerifyReadsYaml, ChainIntact,
       AnchorMatchesLog, Sealed, FinalStatuses, NoYaml, SealedIsLast
  <2>. QED BY <2>1, <2>2, <2>3, <2>4, <2>5, <2>6, <2>7
<1>16. CASE UNCHANGED vars
  <2>1. InsideHoldsLock'
    BY <1>16, <1>t DEF vars, InsideHoldsLock
  <2>2. JobsFit' /\ StepsFit'
    BY <1>16, <1>t DEF vars, JobsFit, StepsFit, Attaches, Appends, Overwrites,
       Jobs
  <2>3. TailFresh'
    BY <1>16, <1>t DEF vars, TailFresh, TailUsed, InsideHoldsLock, StepsFit,
       JobsFit, Appends, Attaches, Overwrites
  <2>4. DocFresh'
    BY <1>16, <1>t DEF vars, DocFresh, DocUsed, Overwrites, Attaches, Appends,
       InsideHoldsLock, StepsFit, JobsFit, Attachable, NoYaml
  <2>5. Creation' /\ Recording'
    BY <1>16, <1>t DEF vars, Creation, Recording, NoYaml, StepsFit, JobsFit,
       InsideHoldsLock, Attaches, Appends, Overwrites
  <2>6. SealedIsLast'
    BY <1>16, <1>t DEF vars, SealedIsLast, Sealed, FinalStatuses, NoYaml,
       JobsFit, StepsFit, Attaches
  <2>7. ChainIntact' /\ AnchorMatchesLog'
    BY <1>16, <1>t DEF vars, ChainIntact, AnchorMatchesLog, Sealed,
       FinalStatuses, NoYaml, SealedIsLast
  <2>. QED BY <2>1, <2>2, <2>3, <2>4, <2>5, <2>6, <2>7
<1>. QED
  BY <1>1, <1>2, <1>3, <1>4, <1>5, <1>6, <1>7, <1>8, <1>9, <1>10, <1>11, <1>12,
     <1>13, <1>14, <1>15, <1>16 DEF Next, Step

LEMMA InitFits == Init => TypeOK /\ IInv
<1>. SUFFICES ASSUME Init PROVE TypeOK /\ IInv
  OBVIOUS
<1>. USE ProcessesDistinct, CreatorJobsKnown, MaxFaultsNat DEF Init, Procs, Attachers
<1>1. TypeOK
  <2>1. lines \in Seq(Line)
    OBVIOUS
  <2>2. NoAnchor \in [head : Nat, count : Nat]
    BY DEF NoAnchor, NoHash
  <2>. QED BY <2>1, <2>2 DEF TypeOK, Inside, Over, Jobs, FinalStatuses
<1>2. \A p \in Procs : pc[p] = "out"
  OBVIOUS
<1>3. InsideHoldsLock /\ TailFresh /\ DocFresh
  BY <1>2 DEF InsideHoldsLock, TailFresh, TailUsed, DocFresh, DocUsed, Inside
<1>4. JobsFit /\ StepsFit
  BY <1>2 DEF JobsFit, StepsFit, Attaches
<1>5. Creation /\ Recording
  BY <1>2 DEF Creation, Recording
<1>6. SealedIsLast /\ ChainIntact /\ AnchorMatchesLog
  BY DEF SealedIsLast, Sealed, FinalStatuses, NoYaml, ChainIntact, Chain!Linked,
         AnchorMatchesLog
<1>. QED BY <1>1, <1>3, <1>4, <1>5, <1>6 DEF IInv

(* The inductive invariant holds in every reachable state.                    *)
THEOREM InvariantHolds == Spec => [](TypeOK /\ IInv)
<1>1. TypeOK /\ IInv /\ [Next]_vars => (TypeOK /\ IInv)'
  BY TypeInvariant, InductiveStep
<1>. QED BY <1>1, InitFits, PTL DEF Spec

(* Whoever appends, in whatever order and whoever dies on the way, every line *)
(* of events.jsonl carries the hash of the line before it                     *)
(* (appendChainedEventLocked, writeEventsBulk).                               *)
THEOREM ChainHolds == Spec => []ChainIntact
<1>1. IInv => ChainIntact
  BY DEF IInv
<1>. QED BY <1>1, InvariantHolds, PTL

(* A session at rest records the head and the count of the log it has: what   *)
(* verify demands of it (finalizeSessionYaml, createAdHocSessionWithEvent).   *)
THEOREM AnchorHolds == Spec => []AnchorMatchesLog
<1>1. IInv => AnchorMatchesLog
  BY DEF IInv
<1>. QED BY <1>1, InvariantHolds, PTL

(* The writes of session.yaml as a step: which of them seal the session, and  *)
(* that none but the creation of the file starts it without its task.         *)
LEMMA OverwriteEffect ==
  ASSUME TypeOK, IInv, NEW p \in Procs, OverwriteYaml(p)
  PROVE  /\ ~Sealed /\ UNCHANGED lines
         /\ yaml.task # NoTask => yaml'.task = yaml.task
<1>1. doc[p] = yaml /\ yaml \in Yaml /\ ~Sealed
  BY WritersFindItLive
     DEF TypeOK, IInv, OverwriteYaml, DocFresh, DocUsed, Overwrites, Attaches
<1>2. UNCHANGED lines
  BY DEF OverwriteYaml
<1>3. yaml.task # NoTask => yaml'.task = yaml.task
  <2>1. CASE job[p] = "running"
    <3>1. yaml' = [yaml EXCEPT !.status = "running"]
      BY <1>1, <2>1 DEF OverwriteYaml, Mutated
    <3>. QED BY <1>1, <3>1 DEF Yaml
  <2>2. CASE job[p] = "finalize"
    <3>1. \E a : yaml' = [yaml EXCEPT !.status = final, !.integrity = a]
      BY <1>1, <2>2 DEF OverwriteYaml, Mutated
    <3>. QED BY <1>1, <3>1 DEF Yaml
  <2>3. CASE job[p] = "task_created"
    BY <2>3 DEF IInv, OverwriteYaml, DocFresh, DocUsed, Overwrites, Attaches, Attachable
  <2>. QED BY <2>1, <2>2, <2>3 DEF OverwriteYaml
<1>. QED BY <1>1, <1>2, <1>3

(* The status writes of the creator keep the task an attacher linked, and no  *)
(* attacher replaces another's (mutateSessionYaml, finalizeSessionYaml,       *)
(* createTaskAttachLocked).                                                   *)
THEOREM TaskLinkHolds == Spec => TaskLinkKept
<1>1. TypeOK /\ IInv /\ [Next]_vars => [yaml.task # NoTask => yaml'.task = yaml.task]_vars
  <2>. SUFFICES ASSUME TypeOK, IInv, Next, yaml.task # NoTask
                PROVE  yaml'.task = yaml.task
    OBVIOUS
  <2>1. ASSUME NEW p \in Procs, Step(p) PROVE yaml'.task = yaml.task
    <3>1. CASE OverwriteYaml(p)
      BY <3>1, OverwriteEffect
    <3>2. CASE CreateYaml(p)
      BY <3>2, WritersFindItLive DEF CreateYaml, IInv, Creation, NoYaml
    <3>3. CASE CompleteAdHoc(p)
      BY <3>3, WritersFindItLive DEF CompleteAdHoc, IInv, Creation, Created
    <3>. QED BY <2>1, <3>1, <3>2, <3>3
             DEF Step, Lock, LockHeld, Release, ReadYaml, InspectTail, AppendLine,
                 WriteBulk, files
  <2>2. ASSUME NEW p \in Procs, CreationFails(p) PROVE yaml'.task = yaml.task
    BY <2>2, WritersFindItLive DEF CreationFails, IInv, Creation, Created, NoYaml
  <2>. QED BY <2>1, <2>2 DEF Next, Crash, WriteFails, ChildEnds, Verify,
                            VerifyReadsEvents, VerifyReadsYaml, files
<1>. QED BY <1>1, InvariantHolds, PTL DEF Spec, TaskLinkKept

(* Every step of a session is a step of its trail, or none.                   *)
LEMMA TrailStep ==
  TypeOK /\ IInv /\ [Next]_vars => [AbstractTrail!Next]_<<lines, Sealed>>
<1>. DEFINE Kept == UNCHANGED <<lines, Sealed>>
<1>. SUFFICES ASSUME TypeOK, IInv, [Next]_vars
              PROVE  AbstractTrail!Next \/ Kept
  OBVIOUS
<1>1. ASSUME UNCHANGED <<lines, yaml>> PROVE Kept
  BY <1>1 DEF Sealed
<1>2. ASSUME NEW p \in Procs, AppendLine(p) PROVE AbstractTrail!Record
  <2>1. ~Sealed /\ UNCHANGED Sealed
    BY <1>2, WritersFindItLive DEF AppendLine, Sealed
  <2>. DEFINE l == [id |-> nextId, text |-> job[p], prev |-> tail[p].head]
  <2>2. l \in Line /\ lines' = Append(lines, l) /\ lines \in Seq(Line)
    BY <1>2 DEF AppendLine, TypeOK, Line
  <2>. HIDE DEF l
  <2>3. AbstractTrail!Extends(lines', lines)
    BY <2>2 DEF AbstractTrail!Extends
  <2>. QED BY <2>1, <2>3 DEF AbstractTrail!Record
<1>3. ASSUME NEW p \in Procs, WriteBulk(p) PROVE AbstractTrail!Record
  <2>1. ~Sealed /\ UNCHANGED Sealed
    BY <1>3, WritersFindItLive DEF WriteBulk, Sealed
  <2>2. lines = <<>>
    BY <1>3, WritersFindItLive DEF WriteBulk, IInv, Creation
  <2>3. lines' \in Seq(Line)
    BY <1>3, BulkTyped DEF WriteBulk, TypeOK
  <2>4. AbstractTrail!Extends(lines', lines)
    BY <2>2, <2>3 DEF AbstractTrail!Extends
  <2>. QED BY <2>1, <2>4 DEF AbstractTrail!Record
<1>4. ASSUME NEW p \in Procs, OverwriteYaml(p) PROVE AbstractTrail!Seal \/ Kept
  BY <1>4, OverwriteEffect DEF AbstractTrail!Seal, Sealed
<1>5. ASSUME NEW p \in Procs, CompleteAdHoc(p) PROVE AbstractTrail!Seal
  BY <1>5, WritersFindItLive DEF CompleteAdHoc, AbstractTrail!Seal, Sealed, FinalStatuses
<1>6. ASSUME NEW p \in Procs, CreateYaml(p) PROVE Kept
  <2>1. ~Sealed
    BY <1>6, WritersFindItLive DEF CreateYaml
  <2>. QED BY <1>6, <2>1 DEF CreateYaml, Created, Sealed, FinalStatuses
<1>7. ASSUME NEW p \in Procs, CreationFails(p) PROVE AbstractTrail!Discard
  <2>1. ~Sealed
    BY <1>7, WritersFindItLive DEF CreationFails
  <2>. QED BY <1>7, <2>1 DEF CreationFails, AbstractTrail!Discard, Sealed, NoYaml, FinalStatuses
<1>8. ASSUME NEW p \in Procs, Step(p) PROVE AbstractTrail!Next \/ Kept
  BY <1>1, <1>2, <1>3, <1>4, <1>5, <1>6, <1>8
     DEF Step, Lock, LockHeld, Release, ReadYaml, InspectTail, AbstractTrail!Next, files
<1>9. ASSUME NEW p \in Procs, Crash(p) \/ WriteFails(p) PROVE Kept
  BY <1>1, <1>9 DEF Crash, WriteFails, Torn
<1>10. CASE ChildEnds \/ Verify \/ UNCHANGED vars
  BY <1>1, <1>10 DEF ChildEnds, Verify, VerifyReadsEvents, VerifyReadsYaml, vars, files
<1>. QED BY <1>7, <1>8, <1>9, <1>10 DEF Next, AbstractTrail!Next

(* A session implements its abstract trail: readers see a log that only grows *)
(* at its end until it is sealed and never changes again.                     *)
THEOREM SessionImplementsTrail == Spec => ImplementsTrail
<1>1. Init => AbstractTrail!Init
  BY DEF Init, AbstractTrail!Init, Sealed, NoYaml, FinalStatuses
<1>2. TypeOK /\ IInv /\ [Next]_vars => [AbstractTrail!Next]_<<lines, Sealed>>
  BY TrailStep
<1>. QED BY <1>1, <1>2, InvariantHolds, PTL DEF Spec, ImplementsTrail, AbstractTrail!Spec
-----------------------------------------------------------------------------
(* No step drops an event: a session is discarded, and a log replaced, only   *)
(* while it is empty.                                                         *)
LEMMA LogGrows ==
  ASSUME TypeOK, IInv, [Next]_vars
  PROVE  UNCHANGED lines \/ lines = <<>> \/ \E p \in Procs : AppendLine(p)
<1>1. ASSUME NEW p \in Procs, CreationFails(p) PROVE lines = <<>>
  BY <1>1, WritersFindItLive DEF CreationFails, IInv, Creation
<1>2. ASSUME NEW p \in Procs, WriteBulk(p) PROVE lines = <<>>
  BY <1>2, WritersFindItLive DEF WriteBulk, IInv, Creation
<1>3. ASSUME NEW p \in Procs, Step(p) \/ Crash(p) \/ WriteFails(p), ~AppendLine(p), ~WriteBulk(p)
      PROVE  UNCHANGED lines
  BY <1>3 DEF Step, Lock, LockHeld, Release, ReadYaml, InspectTail, OverwriteYaml, CreateYaml,
              CompleteAdHoc, Crash, WriteFails, Torn, files
<1>4. CASE ChildEnds \/ Verify \/ UNCHANGED vars
  BY <1>4 DEF ChildEnds, Verify, VerifyReadsEvents, VerifyReadsYaml, vars, files
<1>. QED BY <1>1, <1>2, <1>3, <1>4 DEF Next

LEMMA RecordedStays ==
  ASSUME TypeOK, IInv, [Next]_vars, NEW text, Recorded(text)
  PROVE  Recorded(text)'
<1>1. ASSUME NEW p \in Procs, AppendLine(p) PROVE Recorded(text)'
  <2>. DEFINE l == [id |-> nextId, text |-> job[p], prev |-> tail[p].head]
  <2>1. l \in Line /\ lines' = Append(lines, l) /\ lines \in Seq(Line)
    BY <1>1 DEF AppendLine, TypeOK, Line
  <2>. HIDE DEF l
  <2>2. \A i \in DOMAIN lines : i \in DOMAIN lines' /\ lines'[i] = lines[i]
    BY <2>1
  <2>. QED BY <2>2 DEF Recorded
<1>. QED BY <1>1, LogGrows DEF Recorded

LEMMA AppendRecords ==
  ASSUME TypeOK, NEW p \in Procs, AppendLine(p)
  PROVE  Recorded(job[p])'
<1>. DEFINE l == [id |-> nextId, text |-> job[p], prev |-> tail[p].head]
            r == Append(lines, l)
<1>1. /\ l \in Line /\ lines \in Seq(Line) /\ l.text = job[p]
      /\ lines' = r /\ job' = job
  BY DEF AppendLine, TypeOK, Line
<1>. HIDE DEF l
<1>2. Len(lines) + 1 \in DOMAIN r /\ r[Len(lines) + 1] = l
  BY <1>1
<1>. HIDE DEF r
<1>. QED BY <1>1, <1>2 DEF Recorded

LEMMA BulkRecords ==
  ASSUME NEW p \in Procs, WriteBulk(p)
  PROVE  Recorded("to_final")' /\ Recorded("session_ended")'
<1>1. Len(AdHocEvents) = 5 /\ AdHocEvents[4] = "to_final" /\ AdHocEvents[5] = "session_ended"
  BY DEF AdHocEvents
<1>2. lines' = BulkLines(AdHocEvents)
  BY DEF WriteBulk
<1>3. /\ 4 \in DOMAIN lines' /\ lines'[4].text = "to_final"
      /\ 5 \in DOMAIN lines' /\ lines'[5].text = "session_ended"
  <2>. HIDE DEF AdHocEvents
  <2>. QED BY <1>1, <1>2 DEF BulkLines
<1>. QED BY <1>3 DEF Recorded

(* Where the creator is once it has recorded a status change: at the end of   *)
(* the section that did, or in a later one.                                   *)
AfterRunning == {"running", "child", "command_executed", "snapshot_after", "file_changed",
                 "to_final", "session_ended", "finalize"}

Past(done, later) ==
  \/ job[Creator] \in later
  \/ job[Creator] = done /\ pc[Creator] = "release"

BulkWritten ==
  /\ job[Creator] = "adhoc"
  /\ pc[Creator] = "release" \/ (pc[Creator] = "yaml" /\ yaml # NoYaml)

JobsRecorded ==
  /\ Past("to_running", AfterRunning) => Recorded("to_running")
  /\ Past("to_final", {"session_ended", "finalize"}) \/ BulkWritten => Recorded("to_final")
  /\ Past("session_ended", {"finalize"}) \/ BulkWritten => Recorded("session_ended")

(* The creator passes no status change it has not recorded.                   *)
LEMMA JobsNext ==
  ASSUME TypeOK, IInv, JobsRecorded, [Next]_vars
  PROVE  JobsRecorded'
<1>. USE DEF Goto, files, verify
<1>a. /\ Recorded("to_running") => Recorded("to_running")'
      /\ Recorded("to_final") => Recorded("to_final")'
      /\ Recorded("session_ended") => Recorded("session_ended")'
  BY RecordedStays
<1>b. Creator \in Procs /\ job \in [Procs -> Jobs] /\ DOMAIN pc = Procs
  BY DEF Procs, TypeOK
<1>c. ASSUME job'[Creator] = job[Creator], pc'[Creator] # "release",
             BulkWritten' => BulkWritten
      PROVE  JobsRecorded'
  BY <1>a, <1>c DEF JobsRecorded, Past
<1>d. ASSUME job'[Creator] = "throw" PROVE JobsRecorded'
  BY <1>d DEF JobsRecorded, Past, BulkWritten, AfterRunning
<1>e. ASSUME UNCHANGED <<job[Creator], pc[Creator]>>, BulkWritten' => BulkWritten
      PROVE  JobsRecorded'
  BY <1>a, <1>e DEF JobsRecorded, Past
<1>1. ASSUME Lock(Creator) PROVE JobsRecorded'
  BY <1>1, <1>b, <1>c DEF Lock, Wants, FirstStep, BulkWritten, IInv, Creation, Appends, TypeOK
<1>2. ASSUME LockHeld(Creator) \/ Crash(Creator) PROVE JobsRecorded'
  BY <1>2, <1>b, <1>c DEF LockHeld, Crash, BulkWritten, TypeOK
<1>3. ASSUME Release(Creator) PROVE JobsRecorded'
  <2>1. CASE NextJobs(job[Creator]) = {}
    BY <1>3, <1>b, <1>c, <2>1 DEF Release, BulkWritten, TypeOK
  <2>2. CASE NextJobs(job[Creator]) # {}
    <3>1. PICK k \in NextJobs(job[Creator]) :
             job'[Creator] = k /\ pc'[Creator] = "out" /\ pc[Creator] = "release"
      BY <1>3, <1>b, <2>2 DEF Release, TypeOK
    <3>. QED BY <1>a, <1>b, <3>1
             DEF JobsRecorded, Past, BulkWritten, AfterRunning, NextJobs, Optional, Jobs
  <2>. QED BY <2>1, <2>2
<1>4. ASSUME ReadYaml(Creator) \/ InspectTail(Creator) PROVE JobsRecorded'
  <2>1. job[Creator] # "adhoc"
    BY <1>4, <1>b DEF ReadYaml, InspectTail, IInv, StepsFit, Overwrites, Appends, Attaches
  <2>2. \/ job'[Creator] = "throw"
        \/ job'[Creator] = job[Creator] /\ pc'[Creator] # "release"
    BY <1>4, <1>b DEF ReadYaml, InspectTail, Throw, TypeOK
  <2>. QED BY <1>c, <1>d, <2>1, <2>2 DEF BulkWritten
<1>5. ASSUME AppendLine(Creator) PROVE JobsRecorded'
  <2>1. job[Creator] \in Appends /\ job' = job
    BY <1>5, <1>b DEF AppendLine, IInv, StepsFit, JobsFit
  <2>. QED BY <1>5, <1>a, <1>b, <2>1, AppendRecords
           DEF JobsRecorded, Past, BulkWritten, Appends
<1>6. ASSUME OverwriteYaml(Creator) PROVE JobsRecorded'
  <2>1. job[Creator] \in {"running", "finalize"} /\ job' = job
    BY <1>6, <1>b DEF OverwriteYaml, IInv, JobsFit, Attaches
  <2>. QED BY <1>a, <1>b, <2>1 DEF JobsRecorded, Past, BulkWritten, AfterRunning
<1>7. ASSUME CreateYaml(Creator) PROVE JobsRecorded'
  <2>1. job' = job /\ job[Creator] \in {"create", "adhoc"}
        /\ (job[Creator] = "adhoc" => pc'[Creator] = "bulk")
    BY <1>7, <1>b DEF CreateYaml
  <2>. QED BY <2>1 DEF JobsRecorded, Past, BulkWritten, AfterRunning
<1>8. ASSUME WriteBulk(Creator) PROVE JobsRecorded'
  <2>1. job' = job /\ job[Creator] = "adhoc"
    BY <1>8, <1>b DEF WriteBulk, IInv, StepsFit
  <2>. QED BY <1>8, <1>b, <2>1, BulkRecords DEF JobsRecorded, Past, AfterRunning
<1>9. ASSUME CompleteAdHoc(Creator) PROVE JobsRecorded'
  <2>1. job' = job /\ job[Creator] = "adhoc" /\ BulkWritten
    BY <1>9, <1>b DEF CompleteAdHoc, BulkWritten
  <2>. QED BY <1>a, <2>1 DEF JobsRecorded, Past, AfterRunning
<1>10. ASSUME NEW p \in Procs, WriteFails(p) \/ CreationFails(p) PROVE JobsRecorded'
  <2>1. CASE p = Creator
    BY <1>10, <1>b, <1>d, <2>1 DEF WriteFails, CreationFails, Throw
  <2>2. CASE p # Creator
    <3>1. WriteFails(p)
      BY <1>10, <2>2, WritersFindItLive DEF CreationFails
    <3>. QED BY <1>b, <1>e, <2>2, <3>1 DEF WriteFails, Throw, BulkWritten
  <2>. QED BY <2>1, <2>2
<1>11. ASSUME NEW p \in Procs \ {Creator}, Step(p) \/ Crash(p) PROVE JobsRecorded'
  <2>1. UNCHANGED <<job[Creator], pc[Creator]>>
    BY <1>11, <1>b DEF Step, Lock, LockHeld, Release, ReadYaml, InspectTail, AppendLine,
         OverwriteYaml, CreateYaml, WriteBulk, CompleteAdHoc, Crash, Throw
  <2>2. BulkWritten' => BulkWritten
    <3>1. CASE OverwriteYaml(p)
      BY <2>1, <3>1, <1>b DEF OverwriteYaml, BulkWritten, IInv, DocFresh, DocUsed, Overwrites,
                        Attaches
    <3>2. ASSUME CreateYaml(p) \/ CompleteAdHoc(p) PROVE FALSE
      BY <1>11, <3>2, WritersFindItLive DEF CreateYaml, CompleteAdHoc
    <3>3. ASSUME ~OverwriteYaml(p) PROVE UNCHANGED yaml
      BY <1>11, <3>2, <3>3 DEF Step, Lock, LockHeld, Release, ReadYaml, InspectTail, AppendLine,
         WriteBulk, Crash
    <3>. QED BY <2>1, <3>1, <3>3 DEF BulkWritten
  <2>. QED BY <1>e, <2>1, <2>2
<1>12. CASE ChildEnds
  <2>1. job[Creator] = "child" /\ job'[Creator] = "command_executed"
    BY <1>12, <1>b DEF ChildEnds
  <2>. QED BY <1>a, <2>1 DEF JobsRecorded, Past, BulkWritten, AfterRunning
<1>13. CASE Verify \/ UNCHANGED vars
  BY <1>13, <1>e DEF Verify, VerifyReadsEvents, VerifyReadsYaml, vars, BulkWritten
<1>. QED BY <1>1, <1>2, <1>3, <1>4, <1>5, <1>6, <1>7, <1>8, <1>9, <1>10, <1>11, <1>12, <1>13
         DEF Next, Step

(* Who shows a status has recorded it.                                        *)
LEMMA StatusNext ==
  ASSUME TypeOK, IInv, JobsRecorded, YamlNeverAhead, [Next]_vars
  PROVE  YamlNeverAhead'
<1>a. /\ Recorded("to_running") => Recorded("to_running")'
      /\ Recorded("to_final") => Recorded("to_final")'
      /\ Recorded("session_ended") => Recorded("session_ended")'
  BY RecordedStays
<1>b. ASSUME yaml'.status = yaml.status PROVE YamlNeverAhead'
  BY <1>a, <1>b DEF YamlNeverAhead, Sealed
<1>1. ASSUME NEW p \in Procs, OverwriteYaml(p) PROVE YamlNeverAhead'
  <2>1. doc[p] = yaml /\ yaml \in Yaml
    BY <1>1 DEF TypeOK, IInv, OverwriteYaml, DocFresh, DocUsed, Overwrites, Attaches
  <2>2. CASE job[p] = "running"
    <3>1. p = Creator /\ yaml' = [yaml EXCEPT !.status = "running"]
      BY <1>1, <2>1, <2>2, WritersFindItLive DEF OverwriteYaml, Mutated
    <3>2. yaml'.status = "running" /\ Recorded("to_running")
      BY <2>1, <2>2, <3>1 DEF Yaml, JobsRecorded, Past, AfterRunning
    <3>. QED BY <1>a, <3>2 DEF YamlNeverAhead, Sealed, FinalStatuses
  <2>3. CASE job[p] = "finalize"
    <3>1. p = Creator /\ \E a : yaml' = [yaml EXCEPT !.status = final, !.integrity = a]
      BY <1>1, <2>1, <2>3, WritersFindItLive DEF OverwriteYaml, Mutated
    <3>2. yaml'.status \in FinalStatuses
      BY <2>1, <3>1 DEF Yaml, TypeOK
    <3>3. Recorded("to_final") /\ Recorded("session_ended")
      BY <2>3, <3>1 DEF JobsRecorded, Past
    <3>. QED BY <1>a, <3>2, <3>3 DEF YamlNeverAhead, FinalStatuses
  <2>4. CASE job[p] = "task_created"
    <3>1. yaml' = [yaml EXCEPT !.task = p]
      BY <1>1, <2>1, <2>4 DEF OverwriteYaml, Mutated
    <3>. QED BY <1>b, <2>1, <3>1 DEF Yaml
  <2>. QED BY <1>1, <2>2, <2>3, <2>4 DEF OverwriteYaml
<1>2. ASSUME NEW p \in Procs, CompleteAdHoc(p) PROVE YamlNeverAhead'
  <2>1. p = Creator /\ yaml'.status = "completed"
    BY <1>2, WritersFindItLive DEF CompleteAdHoc
  <2>2. Recorded("to_final") /\ Recorded("session_ended")
    BY <1>2, <2>1 DEF CompleteAdHoc, JobsRecorded, BulkWritten
  <2>. QED BY <1>a, <2>1, <2>2 DEF YamlNeverAhead
<1>3. ASSUME NEW p \in Procs, CreateYaml(p) \/ CreationFails(p) PROVE YamlNeverAhead'
  BY <1>3 DEF CreateYaml, CreationFails, Created, NoYaml, YamlNeverAhead, Sealed, FinalStatuses
<1>4. ASSUME NEW p \in Procs, Step(p) \/ Crash(p) \/ WriteFails(p),
             ~OverwriteYaml(p), ~CompleteAdHoc(p), ~CreateYaml(p)
      PROVE  UNCHANGED yaml
  BY <1>4 DEF Step, Lock, LockHeld, Release, ReadYaml, InspectTail, AppendLine, WriteBulk, Crash,
              WriteFails, files
<1>5. CASE ChildEnds \/ Verify \/ UNCHANGED vars
  BY <1>5, <1>b DEF ChildEnds, Verify, VerifyReadsEvents, VerifyReadsYaml, vars, files
<1>. QED BY <1>1, <1>2, <1>3, <1>4, <1>5, <1>b DEF Next

(* Whatever dies between the two, session.yaml shows no status the log has    *)
(* not recorded before (appendChainedEvent before mutateSessionYaml and       *)
(* finalizeSessionYaml, writeEventsBulk before an ad-hoc session's end).      *)
THEOREM NeverAhead == Spec => []YamlNeverAhead
<1>1. Init => JobsRecorded /\ YamlNeverAhead
  <2>. SUFFICES ASSUME Init PROVE JobsRecorded /\ YamlNeverAhead
    OBVIOUS
  <2>1. job[Creator] \in {"create", "adhoc"} /\ pc[Creator] = "out" /\ yaml = NoYaml
    BY CreatorJobsKnown DEF Init, Procs
  <2>. QED BY <2>1 DEF JobsRecorded, Past, BulkWritten, AfterRunning, YamlNeverAhead, Sealed,
                       NoYaml, FinalStatuses
<1>2. TypeOK /\ IInv /\ JobsRecorded /\ YamlNeverAhead /\ [Next]_vars
        => (JobsRecorded /\ YamlNeverAhead)'
  BY JobsNext, StatusNext
<1>. QED BY <1>1, <1>2, InvariantHolds, PTL DEF Spec

-----------------------------------------------------------------------------
(* What verify has read of the log, and what it may find in session.yaml when *)
(* it comes to read that.                                                     *)
Numbered(s) == \A i \in DOMAIN s : s[i].id > 0

LogFits ==
  /\ nextId > 1
  /\ Numbered(lines)
  /\ pc[Creator] = "bulk" => frag = "none"

SeenFits ==
  /\ seen.lines \in Seq(Line) /\ Chain!Linked(seen.lines, Sid) /\ Numbered(seen.lines)
  /\ seen.lines # <<>> => lines # <<>>
  /\ seen.frag # "none" => frag # "none" /\ yaml # NoYaml
  /\ look \in [attempt : {1, 2}, next : {"events", "yaml", "done"}]
  /\ look.attempt = 2 => Sealed
  /\ look.attempt = 2 /\ look.next = "yaml" => seen.lines = lines /\ seen.frag = frag

LEMMA LogFitsNext ==
  ASSUME TypeOK, IInv, LogFits, [Next]_vars
  PROVE  LogFits'
<1>. USE DEF Goto, files, verify
<1>b. /\ Creator \in Procs /\ job \in [Procs -> Jobs]
      /\ pc \in [Procs -> {"out"} \cup Inside \cup Over]
      /\ lines \in Seq(Line) /\ nextId \in Nat
  BY DEF Procs, TypeOK
<1>1. ASSUME NEW p \in Procs, AppendLine(p) PROVE LogFits'
  <2>. DEFINE l == [id |-> nextId, text |-> job[p], prev |-> tail[p].head]
  <2>1. l \in Line /\ lines' = Append(lines, l) /\ l.id = nextId /\ nextId' = nextId + 1
    BY <1>1 DEF AppendLine, TypeOK, Line
  <2>. HIDE DEF l
  <2>2. \A s \in Seq(Line), e \in Line : Numbered(s) /\ e.id > 0 => Numbered(Append(s, e))
    BY DEF Numbered
  <2>3. pc'[Creator] = "bulk" => pc[Creator] = "bulk"
    BY <1>1, <1>b DEF AppendLine
  <2>4. frag' = frag
    BY <1>1 DEF AppendLine
  <2>. QED BY <1>b, <2>1, <2>2, <2>3, <2>4 DEF LogFits
<1>2. ASSUME NEW p \in Procs, WriteBulk(p) PROVE LogFits'
  <2>1. /\ lines' = BulkLines(AdHocEvents) /\ frag' = "none"
        /\ nextId' = nextId + Len(AdHocEvents)
    BY <1>2 DEF WriteBulk
  <2>2. Numbered(BulkLines(AdHocEvents))
    BY BulkTyped, <1>b DEF BulkLines, Numbered, LogFits
  <2>3. nextId' > 1
    BY <1>b, <2>1, BulkTyped DEF LogFits
  <2>. QED BY <2>1, <2>2, <2>3 DEF LogFits
<1>3. ASSUME NEW p \in Procs, CreationFails(p) PROVE LogFits'
  BY <1>3 DEF CreationFails, LogFits, Numbered
<1>4. ASSUME NEW p \in Procs, Crash(p) \/ WriteFails(p) PROVE LogFits'
  <2>1. UNCHANGED <<lines, nextId>>
    BY <1>4 DEF Crash, WriteFails, Torn
  <2>2. pc'[Creator] = "bulk" => pc[Creator] = "bulk" /\ p # Creator
    BY <1>4, <1>b DEF Crash, WriteFails, Throw
  <2>3. pc[Creator] = "bulk" => \A q \in Procs \ {Creator} : pc[q] # "append"
    BY <1>b DEF IInv, InsideHoldsLock, Inside
  <2>4. pc[p] # "append" => frag' = frag
    BY <1>4 DEF Crash, WriteFails, Torn
  <2>. QED BY <2>1, <2>2, <2>3, <2>4 DEF LogFits
<1>5. ASSUME NEW p \in Procs, CreateYaml(p) PROVE LogFits'
  BY <1>5 DEF CreateYaml, LogFits, IInv, Creation, DocFresh, TailFresh
<1>6. ASSUME NEW p \in Procs,
             Lock(p) \/ LockHeld(p) \/ Release(p) \/ ReadYaml(p) \/ InspectTail(p)
             \/ OverwriteYaml(p) \/ CompleteAdHoc(p)
      PROVE  LogFits'
  <2>1. UNCHANGED <<lines, nextId, frag>>
    BY <1>6 DEF Lock, LockHeld, Release, ReadYaml, InspectTail, OverwriteYaml, CompleteAdHoc
  <2>2. pc'[Creator] = "bulk" => pc[Creator] = "bulk"
    BY <1>6, <1>b DEF Lock, FirstStep, LockHeld, Release, ReadYaml, InspectTail, OverwriteYaml,
                      CompleteAdHoc, Throw
  <2>. QED BY <2>1, <2>2 DEF LogFits
<1>7. CASE ChildEnds \/ Verify \/ UNCHANGED vars
  BY <1>7 DEF ChildEnds, Verify, VerifyReadsEvents, VerifyReadsYaml, vars, LogFits
<1>. QED BY <1>1, <1>2, <1>3, <1>4, <1>5, <1>6, <1>7 DEF Next, Step

(* A log that ends in a fragment keeps it, and its session.                   *)
LEMMA FragmentStays ==
  ASSUME TypeOK, IInv, LogFits, [Next]_vars, frag # "none", yaml # NoYaml
  PROVE  frag' # "none" /\ yaml' # NoYaml
<1>1. ASSUME NEW p \in Procs PROVE pc[p] # "append" /\ pc[p] # "bulk"
  BY WritersFindItLive DEF IInv, TailFresh, TailUsed, LogFits
<1>2. ASSUME NEW p \in Procs, CreationFails(p) PROVE FALSE
  BY <1>1, <1>2 DEF CreationFails
<1>3. ASSUME NEW p \in Procs, Step(p) \/ Crash(p) \/ WriteFails(p) PROVE UNCHANGED frag
  BY <1>1, <1>3 DEF Step, Lock, LockHeld, Release, ReadYaml, InspectTail, AppendLine,
     OverwriteYaml, CreateYaml, WriteBulk, CompleteAdHoc, Crash, WriteFails, Torn, files
<1>4. ASSUME NEW p \in Procs, OverwriteYaml(p) PROVE yaml' # NoYaml
  <2>1. doc[p] = yaml /\ yaml \in Yaml
    BY <1>4 DEF TypeOK, IInv, OverwriteYaml, DocFresh, DocUsed, Overwrites, Attaches
  <2>2. \A y \in Yaml : y.status # "absent"
    BY DEF Yaml, Statuses
  <2>3. yaml' \in Yaml
    <3>1. TypeOK'
      BY TypeInvariant
    <3>2. yaml'.status \in Statuses
      BY <1>4, <2>1 DEF OverwriteYaml, Mutated, Yaml, TypeOK, Statuses, FinalStatuses
    <3>. QED BY <3>1, <3>2 DEF TypeOK, NoYaml, Statuses
  <2>. QED BY <2>2, <2>3 DEF NoYaml
<1>5. ASSUME NEW p \in Procs, CreateYaml(p) \/ CompleteAdHoc(p) PROVE yaml' # NoYaml
  BY <1>5 DEF CreateYaml, CompleteAdHoc, Created, NoYaml
<1>6. ASSUME NEW p \in Procs, Step(p) \/ Crash(p) \/ WriteFails(p),
             ~OverwriteYaml(p), ~CreateYaml(p), ~CompleteAdHoc(p)
      PROVE  UNCHANGED yaml
  BY <1>6 DEF Step, Lock, LockHeld, Release, ReadYaml, InspectTail, AppendLine,
     WriteBulk, Crash, WriteFails, files
<1>7. CASE ChildEnds \/ Verify \/ UNCHANGED vars
  BY <1>7 DEF ChildEnds, Verify, VerifyReadsEvents, VerifyReadsYaml, vars, files
<1>. QED BY <1>2, <1>3, <1>4, <1>5, <1>6, <1>7 DEF Next

(* A session at rest stays as it is.                                          *)
LEMMA SealedStays ==
  ASSUME TypeOK, IInv, [Next]_vars, Sealed
  PROVE  Sealed' /\ UNCHANGED <<lines, frag>>
<1>1. Sealed' /\ UNCHANGED lines
  BY TrailStep DEF AbstractTrail!Next, AbstractTrail!Record, AbstractTrail!Seal,
                   AbstractTrail!Discard
<1>2. frag = "none" /\ IInv'
  BY InductiveStep DEF IInv, AnchorMatchesLog
<1>3. frag' = "none"
  BY <1>1, <1>2 DEF IInv, AnchorMatchesLog
<1>. QED BY <1>1, <1>2, <1>3

(* What verify makes of a log it has read, whatever session.yaml it then      *)
(* finds: no fault of a line, and a tail still being written.                 *)
LEMMA SeenClean ==
  ASSUME SeenFits
  PROVE  Chain!Faulty(SeenLog.lines, Sid) = {}
<1>1. DOMAIN SeenLog.lines = DOMAIN seen.lines
  BY DEF SeenLog
<1>2. ASSUME NEW i \in DOMAIN seen.lines
      PROVE  Chain!LineFault(SeenLog.lines, i, Sid) = "none"
  <2>1. seen.lines[i] \in Line /\ i \in Nat \ {0}
    BY DEF SeenFits
  <2>2. SeenLog.lines[i] = [id |-> seen.lines[i].id, text |-> seen.lines[i].text,
                            sid |-> Sid, prev |-> seen.lines[i].prev]
    BY DEF SeenLog
  <2>3. Chain!Expected(SeenLog.lines, i, Sid) = Chain!Expected(seen.lines, i, Sid)
    BY <2>1, <1>1 DEF Chain!Expected, SeenLog, LineHash, SeenFits
  <2>4. seen.lines[i].prev = Chain!Expected(seen.lines, i, Sid)
    BY DEF SeenFits, Chain!Linked
  <2>5. Chain!Expected(seen.lines, i, Sid) # NoHash
    BY <2>1 DEF Chain!Expected, LineHash, Genesis, NoHash, SeenFits, Numbered
  <2>6. seen.lines[i].text \notin {"blank", "malformed"}
    BY <2>1 DEF Line, Jobs
  <2>. QED BY <2>2, <2>3, <2>4, <2>5, <2>6
           DEF Chain!LineFault, Chain!Blank, Chain!Malformed
<1>. QED BY <1>1, <1>2 DEF Chain!Faulty

LEMMA AnchorJudged ==
  ASSUME NEW s, NEW a, a.kind \in {"absent", "present"},
         a.kind = "present" /\ a.status \notin Chain!LiveStatuses => a.integrity # NoAnchor
  PROVE  \/ Chain!JudgeAnchor(s, a, Sid) \in {Chain!Verdict("incomplete", "yaml_missing", 0),
                                           Chain!Plain("in_progress"), Chain!Plain("verified")}
         \/ /\ Chain!JudgeAnchor(s, a, Sid) = Chain!Tampered("anchor_mismatch")
            /\ a.kind = "present" /\ a.status \notin Chain!LiveStatuses
            /\ a.integrity # Chain!Anchor(s, Sid)
<1>1. CASE a.kind = "absent"
  <2>1. Chain!JudgeAnchor(s, a, Sid) = Chain!Verdict("incomplete", "yaml_missing", 0)
    BY <1>1 DEF Chain!JudgeAnchor
  <2>. QED BY <2>1
<1>2. CASE a.kind = "present" /\ a.status \in Chain!LiveStatuses
  <2>1. Chain!JudgeAnchor(s, a, Sid) = Chain!Plain("in_progress")
    BY <1>2 DEF Chain!JudgeAnchor
  <2>. QED BY <2>1
<1>3. CASE a.kind = "present" /\ a.status \notin Chain!LiveStatuses
  <2>1. CASE a.integrity = Chain!Anchor(s, Sid)
    <3>1. Chain!JudgeAnchor(s, a, Sid) = Chain!Plain("verified")
      BY <1>3, <2>1 DEF Chain!JudgeAnchor
    <3>. QED BY <3>1
  <2>2. CASE a.integrity # Chain!Anchor(s, Sid)
    <3>1. Chain!JudgeAnchor(s, a, Sid) = Chain!Tampered("anchor_mismatch")
      BY <1>3, <2>2 DEF Chain!JudgeAnchor
    <3>. QED BY <1>3, <2>2, <3>1
  <2>. QED BY <2>1, <2>2
<1>. QED BY <1>1, <1>2, <1>3

LEMMA Judged ==
  ASSUME TypeOK, IInv, LogFits, SeenFits,
         NEW v, v = Chain!VerifyOnce(SeenLog, AnchorState, Sid)
  PROVE  /\ v.status = "tampered" => v.reason \in {"anchor_without_chain", "anchor_mismatch"}
         /\ v.reason = "anchor_mismatch" => Sealed /\ (look.attempt = 2 => look.next # "yaml")
<1>1. Chain!Faulty(SeenLog.lines, Sid) = {}
  BY SeenClean
<1>2. /\ AnchorState.newer = FALSE
      /\ AnchorState.kind = IF yaml = NoYaml THEN "absent" ELSE "present"
      /\ AnchorState.status = yaml.status /\ AnchorState.integrity = yaml.integrity
  BY DEF AnchorState
<1>3. v = Chain!JudgeChain(SeenLog, AnchorState, Sid)
  BY <1>2 DEF Chain!VerifyOnce, Chain!WithAnchorState
<1>4. yaml # NoYaml /\ yaml.status \notin Chain!LiveStatuses => Sealed
  BY DEF TypeOK, Yaml, Statuses, Chain!LiveStatuses, Sealed, FinalStatuses
<1>5. SeenLog.frag = seen.frag
  BY DEF SeenLog
<1>6. Chain!Plain("unsupported").status # "tampered"
      /\ Chain!Plain("unsupported").reason # "anchor_mismatch"
  BY DEF Chain!Plain, Chain!Verdict
<1>7. CASE Chain!Chained(SeenLog)
  <2>1. v = Chain!JudgeChained(SeenLog, AnchorState, Sid)
    BY <1>2, <1>3, <1>7 DEF Chain!JudgeChain
  <2>2. CASE seen.frag # "none"
    <3>1. yaml # NoYaml /\ ~Sealed
      BY <2>2 DEF SeenFits, IInv, AnchorMatchesLog
    <3>2. v = Chain!Plain("in_progress")
      BY <1>1, <1>2, <1>4, <1>5, <2>1, <2>2, <3>1 DEF Chain!JudgeChained
    <3>. QED BY <3>2 DEF Chain!Plain, Chain!Verdict
  <2>3. CASE seen.frag = "none"
    <3>1. v = Chain!JudgeAnchor(SeenLog.lines, AnchorState, Sid)
      BY <1>1, <1>5, <2>1, <2>3 DEF Chain!JudgeChained
    <3>2. seen.lines # <<>>
      <4>1. DOMAIN SeenLog.lines # {}
        BY <1>5, <1>7, <2>3 DEF Chain!Chained
      <4>2. DOMAIN SeenLog.lines = DOMAIN seen.lines
        BY DEF SeenLog
      <4>. QED BY <4>1, <4>2
    <3>3. Sealed => yaml.integrity # NoAnchor
      <4>1. lines # <<>> /\ lines \in Seq(Line)
        BY <3>2 DEF SeenFits, TypeOK
      <4>2. Len(lines) # 0
        BY <4>1
      <4>. QED BY <4>2 DEF IInv, AnchorMatchesLog, Chain!Anchor, NoAnchor
    <3>4. Sealed /\ look.attempt = 2 /\ look.next = "yaml" =>
            yaml.integrity = Chain!Anchor(SeenLog.lines, Sid)
      <4>1. Chain!Anchor(SeenLog.lines, Sid) = Chain!Anchor(seen.lines, Sid)
        <5>1. Len(SeenLog.lines) = Len(seen.lines) /\ Len(seen.lines) \in Nat
          BY DEF SeenLog, SeenFits
        <5>2. Len(seen.lines) # 0 =>
                SeenLog.lines[Len(seen.lines)].id = seen.lines[Len(seen.lines)].id
          BY DEF SeenLog, SeenFits
        <5>. QED BY <5>1, <5>2 DEF Chain!Anchor, Chain!HeadHash, Chain!Expected, LineHash, Genesis
      <4>. QED BY <4>1 DEF SeenFits, IInv, AnchorMatchesLog
    <3>5. /\ AnchorState.kind \in {"absent", "present"}
          /\ AnchorState.kind = "present" => yaml # NoYaml
      BY <1>2
    <3>6. AnchorState.kind = "present" /\ AnchorState.status \notin Chain!LiveStatuses => Sealed
      BY <1>2, <1>4, <3>5
    <3>7. \/ v \in {Chain!Verdict("incomplete", "yaml_missing", 0),
                   Chain!Plain("in_progress"), Chain!Plain("verified")}
          \/ /\ v = Chain!Tampered("anchor_mismatch") /\ Sealed
             /\ AnchorState.integrity # Chain!Anchor(SeenLog.lines, Sid)
      <4>1. AnchorState.kind = "present" /\ AnchorState.status \notin Chain!LiveStatuses
              => AnchorState.integrity # NoAnchor
        BY <1>2, <3>3, <3>6
      <4>. QED BY <3>1, <3>5, <3>6, <4>1, AnchorJudged
    <3>. QED BY <1>2, <3>4, <3>7 DEF Chain!Plain, Chain!Tampered, Chain!Verdict
  <2>. QED BY <2>2, <2>3
<1>8. CASE ~Chain!Chained(SeenLog)
  <2>1. v = Chain!JudgeUnchained(SeenLog, AnchorState)
    BY <1>2, <1>3, <1>8 DEF Chain!JudgeChain
  <2>. QED BY <2>1 DEF Chain!JudgeUnchained, Chain!Plain, Chain!Tampered, Chain!Verdict
<1>. QED BY <1>7, <1>8

LEMMA SeenNext ==
  ASSUME TypeOK, IInv, LogFits, SeenFits, FalseAlarmNeedsEmptyLog, [Next]_vars
  PROVE  SeenFits' /\ FalseAlarmNeedsEmptyLog'
<1>. USE DEF files, verify
<1>a. lines # <<>> => lines' # <<>>
  <2>1. ASSUME NEW p \in Procs, AppendLine(p) PROVE lines' # <<>>
    <3>1. lines' \in Seq(Line) /\ Len(lines') # 0
      <4>. DEFINE l == [id |-> nextId, text |-> job[p], prev |-> tail[p].head]
      <4>1. l \in Line /\ lines' = Append(lines, l) /\ lines \in Seq(Line)
        BY <2>1 DEF AppendLine, TypeOK, Line
      <4>. HIDE DEF l
      <4>. QED BY <4>1
    <3>. QED BY <3>1
  <2>. QED BY <2>1, LogGrows
<1>1. CASE VerifyReadsEvents
  <2>1. seen' = [lines |-> lines, frag |-> frag] /\ UNCHANGED <<lines, frag, yaml, verdict>>
        /\ look' = [look EXCEPT !.next = "yaml"]
    BY <1>1 DEF VerifyReadsEvents
  <2>2. look' = [attempt |-> look.attempt, next |-> "yaml"]
    BY <2>1 DEF SeenFits
  <2>3. frag # "none" => yaml # NoYaml
    BY DEF IInv, Creation
  <2>. QED BY <2>1, <2>2, <2>3 DEF SeenFits, FalseAlarmNeedsEmptyLog, LogFits, TypeOK, IInv,
                                   ChainIntact, Sealed
<1>2. CASE VerifyReadsYaml
  <2>. DEFINE v == Chain!VerifyOnce(SeenLog, AnchorState, Sid)
  <2>1. /\ look.next = "yaml" /\ UNCHANGED <<lines, frag, yaml>>
        /\ seen' = [lines |-> <<>>, frag |-> "none"]
        /\ \/ v.reason = "anchor_mismatch" /\ look' = [attempt |-> 2, next |-> "events"]
              /\ UNCHANGED verdict
           \/ ~(v.reason = "anchor_mismatch" /\ look.attempt = 1)
              /\ look' = [look EXCEPT !.next = "done"] /\ verdict' = v
    BY <1>2 DEF VerifyReadsYaml
  <2>2. /\ v.status = "tampered" => v.reason \in {"anchor_without_chain", "anchor_mismatch"}
        /\ v.reason = "anchor_mismatch" => Sealed /\ (look.attempt = 2 => look.next # "yaml")
    BY Judged
  <2>. HIDE DEF v
  <2>3. Chain!Linked(<<>>, Sid) /\ Numbered(<<>>)
    BY DEF Chain!Linked, Numbered
  <2>4. FalseAlarmNeedsEmptyLog'
    BY <2>1, <2>2 DEF FalseAlarmNeedsEmptyLog, SeenFits
  <2>5. \/ look' = [attempt |-> 2, next |-> "events"] /\ v.reason = "anchor_mismatch"
        \/ look' = [attempt |-> look.attempt, next |-> "done"]
    BY <2>1 DEF SeenFits
  <2>6. /\ look' \in [attempt : {1, 2}, next : {"events", "yaml", "done"}]
        /\ look'.next # "yaml" /\ (look'.attempt = 2 => Sealed)
    BY <2>2, <2>5 DEF SeenFits
  <2>. QED BY <2>1, <2>3, <2>4, <2>6 DEF SeenFits, Sealed
<1>3. CASE UNCHANGED verify
  BY <1>3, <1>a, FragmentStays, SealedStays DEF SeenFits, FalseAlarmNeedsEmptyLog
<1>4. UNCHANGED verify \/ VerifyReadsEvents \/ VerifyReadsYaml
  BY DEF Next, Step, Lock, LockHeld, Release, ReadYaml, InspectTail, AppendLine, OverwriteYaml,
         CreateYaml, WriteBulk, CompleteAdHoc, Crash, WriteFails, CreationFails, ChildEnds,
         Verify, vars
<1>. QED BY <1>1, <1>2, <1>3, <1>4

(* verify, which takes no lock, calls a session nobody edited tampered in one *)
(* case only: it read the log before its first event and session.yaml after   *)
(* the session was sealed (verifyEventsChain, which looks again at            *)
(* anchor_mismatch only).                                                     *)
THEOREM FalseAlarmOnlyOnEmptyLog == Spec => []FalseAlarmNeedsEmptyLog
<1>1. Init => LogFits /\ SeenFits /\ FalseAlarmNeedsEmptyLog
  BY DEF Init, LogFits, SeenFits, Numbered, FalseAlarmNeedsEmptyLog, Chain!Linked, Chain!Plain,
         Chain!Verdict, Procs
<1>2. /\ TypeOK /\ IInv /\ LogFits /\ SeenFits /\ FalseAlarmNeedsEmptyLog /\ [Next]_vars
        => (LogFits /\ SeenFits /\ FalseAlarmNeedsEmptyLog)'
  BY LogFitsNext, SeenNext
<1>. QED BY <1>1, <1>2, InvariantHolds, PTL DEF Spec
=============================================================================
