--------------------------- MODULE ApprovalProofs ---------------------------
(* Approval's inductive invariant, and what follows from it for any number of *)
(* approvers, rejecters and viewers, any expiry, any faults.                  *)
EXTENDS Approval, TLAPS

(* The first resolution makes the log of one resolution.                      *)
LEMMA FirstResolution ==
    ASSUME NEW r \in Resolution, NEW t, t = <<>>
    PROVE  /\ Append(t, r) = <<r>>
           /\ Append(t, r) \in Seq(Resolution)
           /\ Len(<<r>>) = 1
           /\ <<r>>[1] = r
           /\ DOMAIN <<r>> = {1}
           /\ <<r>> # <<>>
    OBVIOUS

(* A command that resolves has a resolution to record.                        *)
LEMMA ResolvedTyped ==
    ASSUME TypeOK, NEW p \in Resolvers
    PROVE  Resolved(p) \in Resolution /\ Resolved(p) # NoFile
    BY CommandsDistinct
       DEF TypeOK, Resolved, Resolution, NoFile, Decision, Decisions

(* The initial state satisfies the invariant.                                 *)
LEMMA InitHolds == Init => IInv
  <1> SUFFICES ASSUME Init PROVE IInv
    OBVIOUS
  <1> USE CommandsDistinct
  <1>1. TypeOK
    BY DEF Init, TypeOK, Sides, PCs, Locked, NotShown, Readers
  <1>2. OneResolution /\ MirrorAgrees /\ NeverGone /\ DecidedInTime /\ AnchorKept
    BY DEF Init, OneResolution, MirrorAgrees, NeverGone, DecidedInTime, AnchorKept
  <1>3. ASSUME NEW p \in Resolvers
        PROVE  /\ HoldsLock(p) /\ Fenced(p) /\ StatusFenced(p)
               /\ Recorded(p) /\ Unmirrored(p) /\ Mirrored(p)
    BY DEF Init, HoldsLock, Fenced, StatusFenced, Recorded, Unmirrored, Mirrored,
           Locked, Readers
  <1>4. ASSUME NEW v \in Viewers PROVE ShownMirrors(v)
    BY DEF Init, ShownMirrors, NotShown, Decisions, Readers
  <1>5. QED
    BY <1>1, <1>2, <1>3, <1>4 DEF IInv

(* Every step keeps the types.                                                *)
LEMMA TypeStep ==
    ASSUME TypeOK, Next
    PROVE  TypeOK'
  <1> USE DEF TypeOK, Goto, store, listing, Readers
  <1>1. ASSUME NEW p \in Readers, List(p) PROVE TypeOK'
    <2>1. PICK side \in left[p] :
            LET sides == found[p] \cup {s \in {side} : HasFile(s)} IN
            /\ left' = [left EXCEPT ![p] = @ \ {side}]
            /\ found' = [found EXCEPT ![p] = sides]
            /\ IF left[p] = {side} THEN Goto(p, AfterListing(p, sides))
               ELSE UNCHANGED pc
      BY <1>1 DEF List
    <2> DEFINE sides == found[p] \cup {s \in {side} : HasFile(s)}
    <2>2. sides \subseteq Sides
      BY <1>1
    <2>3. AfterListing(p, sides) \in PCs
      BY DEF AfterListing, PCs, Over, Refused
    <2>4. pc' \in [Readers -> PCs]
      BY <2>1, <2>3
    <2>5. left' \in [Readers -> SUBSET Sides] /\ found' \in [Readers -> SUBSET Sides]
      <3> HIDE DEF sides
      <3> QED
        BY <2>1, <2>2 DEF sides
    <2>6. QED
      BY <1>1, <2>4, <2>5 DEF List
  <1>2. ASSUME NEW p \in Resolvers, Inspect(p) \/ ReadPending(p) PROVE TypeOK'
    BY <1>2 DEF Inspect, ReadPending, PCs, Over, Refused
  <1>3. ASSUME NEW p \in Resolvers, Stamp(p) PROVE TypeOK'
    BY <1>3 DEF Stamp, PCs
  <1>4. ASSUME NEW p \in Resolvers, Lock(p) \/ Release(p) PROVE TypeOK'
    BY <1>4 DEF Lock, Release, PCs, Locked, Over, Refused
  <1>5. ASSUME NEW p \in Resolvers, Fence(p) \/ ReadStatus(p) PROVE TypeOK'
    BY <1>5 DEF Fence, ReadStatus, PCs, Locked
  <1>6. ASSUME NEW p \in Resolvers, AppendEvent(p) PROVE TypeOK'
    BY <1>6, ResolvedTyped DEF AppendEvent, PCs, Locked
  <1>7. ASSUME NEW p \in Resolvers, Link(p) PROVE TypeOK'
    BY <1>7, ResolvedTyped DEF Link, PCs, Over, Refused
  <1>8. ASSUME NEW p \in Resolvers, Unlink(p) PROVE TypeOK'
    BY <1>8 DEF Unlink, PCs, Over, Succeeded
  <1>9. ASSUME NEW p \in Resolvers, Fail(p) PROVE TypeOK'
    <2>1. ASSUME NEW label \in {"dead", "give_up", "failed", "append", "done"}
          PROVE  [pc EXCEPT ![p] = label] \in [Readers -> PCs]
      BY DEF PCs, Over, Succeeded, Refused, Locked
    <2>2. faults' \in Nat
      BY <1>9 DEF Fail, Crash, WriteFails, StatusUnread, UnlinkFails, Fault
    <2>3. QED
      BY <1>9, <2>1, <2>2 DEF Fail, Crash, WriteFails, StatusUnread, UnlinkFails
  <1>10. ASSUME NEW v \in Viewers, LoadResolved(v) PROVE TypeOK'
    <2>1. pc' \in [Readers -> PCs]
      BY <1>10 DEF LoadResolved, PCs
    <2>2. resolved # NoFile => resolved.decision \in Decisions
      BY DEF Resolution
    <2>3. shown' \in [Viewers -> [as : {"none", "pending"} \cup Decisions,
                                  events : Seq(Resolution)]]
      <3>1. \/ shown' = shown
            \/ /\ resolved.decision \in Decisions
               /\ shown' = [shown EXCEPT ![v].as = resolved.decision]
        BY <1>10, <2>2 DEF LoadResolved
      <3>2. QED
        BY <3>1
    <2>4. QED
      BY <1>10, <2>1, <2>3 DEF LoadResolved
  <1>11. ASSUME NEW v \in Viewers, LoadPending(v) PROVE TypeOK'
    <2>1. pc' \in [Readers -> PCs]
      BY <1>11 DEF LoadPending, PCs, Over, Refused
    <2>2. \/ shown' = shown
          \/ shown' = [shown EXCEPT ![v].as = "pending"]
      BY <1>11 DEF LoadPending
    <2>3. shown' \in [Viewers -> [as : {"none", "pending"} \cup Decisions,
                                  events : Seq(Resolution)]]
      BY <2>2
    <2>4. QED
      BY <1>11, <2>1, <2>3 DEF LoadPending
  <1>12. ASSUME NEW v \in Viewers, ReadEvents(v) PROVE TypeOK'
    BY <1>12 DEF ReadEvents, PCs, Over, Succeeded
  <1>13. CASE Finalize
    BY <1>13 DEF Finalize
  <1>14. CASE Tick
    BY <1>14 DEF Tick
  <1>15. QED
    BY <1>1, <1>2, <1>3, <1>4, <1>5, <1>6, <1>7, <1>8, <1>9, <1>10, <1>11,
       <1>12, <1>13, <1>14 DEF Next, Resolve, Show

-----------------------------------------------------------------------------
(* The conjuncts about the files and the log, and those about one resolver.   *)
Files == OneResolution /\ MirrorAgrees /\ NeverGone /\ DecidedInTime /\ AnchorKept

Bound(q) ==
    /\ HoldsLock(q) /\ Fenced(q) /\ StatusFenced(q)
    /\ Recorded(q) /\ Unmirrored(q) /\ Mirrored(q)

(* What a step leaves in place keeps the conjuncts about it.                  *)
LEMMA FilesKept ==
    ASSUME Files, UNCHANGED store, blind \subseteq blind'
    PROVE  Files'
    BY DEF Files, store, OneResolution, MirrorAgrees, NeverGone, DecidedInTime,
       AnchorKept

(* A step that moves one reader to a place with no obligation.                *)
LEMMA BoundKept ==
    ASSUME NEW q \in Resolvers, Bound(q),
           UNCHANGED <<store, lock>>, blind \subseteq blind',
           \/ pc'[q] = pc[q] /\ now'[q] = now[q]
           \/ pc'[q] \in PCs \ (Locked \cup {"link", "unlink", "done"})
    PROVE  Bound(q)'
    BY DEF Bound, store, HoldsLock, Fenced, StatusFenced, Recorded, Unmirrored,
           Mirrored, Resolved, Locked

LEMMA ShownKept ==
    ASSUME NEW v \in Viewers, TypeOK, ShownMirrors(v),
           UNCHANGED trail, shown'[v] = shown[v], pc'[v] = pc[v]
    PROVE  ShownMirrors(v)'
    BY DEF ShownMirrors

(* A resolver's step outside the section moves it alone, to a place with no   *)
(* obligation or to the door of the section.                                  *)
LEMMA Quiet ==
    ASSUME IInv, TypeOK', NEW p \in Resolvers,
           \/ List(p) \/ Inspect(p) \/ ReadPending(p) \/ Stamp(p) \/ Crash(p)
    PROVE  Files' /\ \A q \in Resolvers : Bound(q)'
  <1>1. UNCHANGED <<store, lock, blind>>
    BY DEF List, Inspect, ReadPending, Stamp, Crash
  <1>2. \A q \in Resolvers : q # p => pc'[q] = pc[q] /\ now'[q] = now[q]
    BY DEF List, Inspect, ReadPending, Stamp, Crash, Goto, IInv, TypeOK, Readers
  <1>3. \/ pc'[p] = pc[p] /\ now'[p] = now[p]
        \/ pc'[p] \in PCs \ (Locked \cup {"link", "unlink", "done"})
    <2>1. CASE List(p)
      <3>1. \/ UNCHANGED pc
            \/ \E sides : pc' = [pc EXCEPT ![p] = AfterListing(p, sides)]
        BY <2>1 DEF List, Goto
      <3>2. UNCHANGED now
        BY <2>1 DEF List
      <3>3. \A sides : AfterListing(p, sides) \in
                {"not_found", "load_resolved", "refused", "inspect"}
        BY DEF AfterListing
      <3>4. QED
        BY <3>1, <3>2, <3>3 DEF IInv, TypeOK, Readers, PCs, Over, Refused, Locked
    <2>2. CASE ~List(p)
      BY <2>2 DEF Inspect, ReadPending, Stamp, Crash, Goto, IInv, TypeOK, Readers,
         PCs, Over, Refused, Locked
    <2>3. QED
      BY <2>1, <2>2
  <1>4. QED
    BY <1>1, <1>2, <1>3, BoundKept, FilesKept DEF IInv, Files, Bound

(* Taking the lock, and leaving it.                                           *)
LEMMA LockSteps ==
    ASSUME IInv, TypeOK', NEW p \in Resolvers, Lock(p) \/ Release(p)
    PROVE  Files' /\ \A q \in Resolvers : Bound(q)'
  <1> USE CommandsDistinct
  <1>1. Files'
    BY FilesKept DEF Lock, Release, IInv, Files
  <1>2. ASSUME NEW q \in Resolvers PROVE Bound(q)'
    <2>1. CASE Lock(p)
      BY <2>1 DEF Lock, LockFree, Goto, IInv, TypeOK, Readers, Bound, store,
         HoldsLock, Fenced, StatusFenced, Recorded, Unmirrored, Mirrored, Resolved,
         Locked
    <2>2. CASE Release(p)
      BY <2>2 DEF Release, Goto, IInv, TypeOK, Readers, Bound, store,
         HoldsLock, Fenced, StatusFenced, Recorded, Unmirrored, Mirrored, Resolved,
         Locked
    <2>3. QED
      BY <2>1, <2>2
  <1>3. QED
    BY <1>1, <1>2

(* The fences: the log is empty, the time is in time, the session is live.    *)
LEMMA FenceSteps ==
    ASSUME IInv, TypeOK', NEW p \in Resolvers,
           Fence(p) \/ ReadStatus(p) \/ StatusUnread(p)
    PROVE  Files' /\ \A q \in Resolvers : Bound(q)'
  <1>1. Files'
    BY FilesKept DEF Fence, ReadStatus, StatusUnread, IInv, Files
  <1>2. ASSUME NEW q \in Resolvers PROVE Bound(q)'
    <2>1. CASE Fence(p)
      BY <2>1 DEF Fence, Expired, Goto, IInv, TypeOK, Readers, Bound, store,
         HoldsLock, Fenced, StatusFenced, Recorded, Unmirrored, Mirrored, Resolved,
         Locked
    <2>2. CASE ReadStatus(p) \/ StatusUnread(p)
      BY <2>2 DEF ReadStatus, StatusUnread, Goto, IInv, TypeOK, Readers, Bound,
         store, HoldsLock, Fenced, StatusFenced, Recorded, Unmirrored, Mirrored,
         Resolved, Locked
    <2>3. QED
      BY <2>1, <2>2
  <1>3. QED
    BY <1>1, <1>2

(* The event is appended to an empty log of a session that is live, or whose  *)
(* status the resolver could not read.                                        *)
LEMMA AppendStep ==
    ASSUME IInv, TypeOK', NEW p \in Resolvers, AppendEvent(p)
    PROVE  Files' /\ \A q \in Resolvers : Bound(q)'
  <1>1. trail = <<>> /\ (session.live \/ p \in blind)
        /\ (ExpiresAt \in Nat => now[p] <= ExpiresAt)
    BY DEF IInv, Fenced, StatusFenced, AppendEvent
  <1>2. trail' = <<Resolved(p)>> /\ Len(trail') = 1 /\ trail'[1] = Resolved(p)
        /\ DOMAIN trail' = {1} /\ trail' # <<>>
    BY <1>1, ResolvedTyped, FirstResolution DEF AppendEvent, IInv
  <1>3. resolved = NoFile
    BY <1>1 DEF IInv, MirrorAgrees
  <1>4. Files'
    <2>1. MirrorAgrees' /\ NeverGone' /\ OneResolution'
      BY <1>2, <1>3 DEF OneResolution, AppendEvent, MirrorAgrees, NeverGone, IInv
    <2>2. DecidedInTime'
      BY <1>1, <1>2 DEF DecidedInTime, Resolved
    <2>3. AnchorKept'
      BY <1>1, <1>2 DEF AnchorKept, AppendEvent, Resolved
    <2>4. QED
      BY <2>1, <2>2, <2>3 DEF Files
  <1>5. ASSUME NEW q \in Resolvers PROVE Bound(q)'
    <2>1. Resolved(q)' = Resolved(q)
      BY DEF AppendEvent, Resolved
    <2>2. CASE q = p
      BY <1>2, <1>3, <2>1, <2>2 DEF AppendEvent, Goto, IInv, TypeOK, Readers,
         Bound, HoldsLock, Fenced, StatusFenced, Recorded, Unmirrored, Mirrored,
         Locked
    <2>3. CASE q # p
      <3>1. pc'[q] = pc[q]
        BY <2>3 DEF AppendEvent, Goto, IInv, TypeOK, Readers
      <3>2. pc[q] \notin Locked \cup {"link", "unlink", "done"}
        BY <1>1, <2>3 DEF IInv, AppendEvent, HoldsLock, Recorded, Locked
      <3>3. QED
        BY <3>1, <3>2 DEF Bound, HoldsLock, Fenced, StatusFenced, Recorded,
           Unmirrored, Mirrored, Locked
    <2>4. QED
      BY <2>2, <2>3
  <1>6. QED
    BY <1>4, <1>5

(* The resolved file is created from the resolver's own event; the pending    *)
(* file goes when it stands.                                                  *)
LEMMA FileSteps ==
    ASSUME IInv, TypeOK', NEW p \in Resolvers,
           Link(p) \/ Unlink(p) \/ UnlinkFails(p) \/ WriteFails(p)
    PROVE  Files' /\ \A q \in Resolvers : Bound(q)'
  <1>r. \A q \in Resolvers : Resolved(q)' = Resolved(q)
    BY DEF Link, Unlink, UnlinkFails, WriteFails, Resolved
  <1>1. CASE Link(p)
    <2>1. trail = <<Resolved(p)>> /\ resolved = NoFile /\ resolved' = Resolved(p)
          /\ resolved' # NoFile /\ pc' = [pc EXCEPT ![p] = "unlink"]
      BY <1>1, ResolvedTyped DEF Link, Goto, IInv, Recorded, Unmirrored
    <2>2. Files'
      BY <1>1, <2>1 DEF Link, IInv, Files, OneResolution, MirrorAgrees, NeverGone, DecidedInTime,
         AnchorKept
    <2>3. ASSUME NEW q \in Resolvers PROVE Bound(q)'
      <3>1. Recorded(q)
        BY DEF IInv
      <3>2. Resolved(q).by = q /\ Resolved(p).by = p
        BY DEF Resolved
      <3>3. pc[q] \in {"release", "link", "unlink", "done"} => q = p
        BY <2>1, <3>1, <3>2 DEF Recorded
      <3>4. QED
        BY <1>1, <1>r, <2>1, <3>3 DEF Link, IInv, TypeOK, Readers, Bound, HoldsLock,
           Fenced, StatusFenced, Recorded, Unmirrored, Mirrored, Locked
    <2>4. QED
      BY <2>2, <2>3
  <1>2. CASE Unlink(p) \/ UnlinkFails(p)
    <2>1. resolved = Resolved(p) /\ resolved # NoFile
      BY <1>2, ResolvedTyped DEF Unlink, UnlinkFails, IInv, Mirrored
    <2>2. Files'
      BY <1>2, <2>1 DEF Unlink, UnlinkFails, store, IInv, Files, OneResolution, MirrorAgrees,
         NeverGone, DecidedInTime, AnchorKept
    <2>3. ASSUME NEW q \in Resolvers PROVE Bound(q)'
      BY <1>2, <1>r DEF Unlink, UnlinkFails, store, Goto, IInv, TypeOK, Readers,
         Bound, HoldsLock, Fenced, StatusFenced, Recorded, Unmirrored, Mirrored,
         Locked
    <2>4. QED
      BY <2>2, <2>3
  <1>3. CASE WriteFails(p)
    <2>1. Files'
      BY <1>3, FilesKept DEF WriteFails, IInv, Files
    <2>2. ASSUME NEW q \in Resolvers PROVE Bound(q)'
      BY <1>3, <1>r DEF WriteFails, store, Goto, IInv, TypeOK, Readers, Bound,
         HoldsLock, Fenced, StatusFenced, Recorded, Unmirrored, Mirrored, Locked
    <2>3. QED
      BY <2>1, <2>2
  <1>4. QED
    BY <1>1, <1>2, <1>3

(* The finalize of the session anchors the log with nobody in the section.    *)
LEMMA FinalizeStep ==
    ASSUME IInv, TypeOK', Finalize
    PROVE  Files' /\ \A q \in Resolvers : Bound(q)'
  <1>1. Files'
    BY DEF Finalize, IInv, Files, OneResolution, MirrorAgrees, NeverGone, DecidedInTime, AnchorKept
  <1>2. ASSUME NEW q \in Resolvers PROVE Bound(q)'
    <2>1. pc[q] \notin Locked
      BY DEF Finalize, LockFree, IInv, HoldsLock, Locked
    <2>2. QED
      BY <2>1 DEF Finalize, IInv, Bound, HoldsLock, Fenced, StatusFenced, Recorded,
         Unmirrored, Mirrored, Resolved, Locked
  <1>3. QED
    BY <1>1, <1>2

(* A viewer changes nothing but what it shows, and shows what is recorded.    *)
LEMMA ShowSteps ==
    ASSUME IInv, TypeOK', NEW v \in Viewers, Show(v)
    PROVE  /\ Files' /\ \A q \in Resolvers : Bound(q)'
           /\ \A w \in Viewers : ShownMirrors(w)'
  <1> USE CommandsDistinct
  <1>1. UNCHANGED <<store, lock, blind, now>>
    BY DEF Show, List, LoadResolved, LoadPending, ReadEvents
  <1>2. \A p \in Readers : p # v => pc'[p] = pc[p]
    BY DEF Show, List, LoadResolved, LoadPending, ReadEvents, Goto, IInv, TypeOK
  <1>3. Files' /\ \A q \in Resolvers : Bound(q)'
    BY <1>1, <1>2, BoundKept, FilesKept DEF IInv, Files, Bound, Readers
  <1>4. ASSUME NEW w \in Viewers, w # v PROVE ShownMirrors(w)'
    <2>1. shown'[w] = shown[w]
      BY <1>4 DEF Show, List, LoadResolved, LoadPending, ReadEvents, IInv, TypeOK
    <2>2. QED
      BY <1>1, <1>2, <1>4, <2>1, ShownKept DEF IInv, Readers, store
  <1>5. ShownMirrors(v)'
    <2>1. CASE List(v)
      <3>1. pc'[v] = pc[v] \/ pc'[v] \in {"not_found", "load_resolved", "refused", "inspect"}
        BY <2>1 DEF List, Goto, AfterListing, IInv, TypeOK, Readers
      <3>2. UNCHANGED <<shown, trail>> /\ pc[v] = "list"
        BY <2>1 DEF List, store
      <3>3. QED
        BY <3>1, <3>2 DEF ShownMirrors
    <2>2. CASE LoadResolved(v)
      <3>1. CASE resolved # NoFile
        <4>1. trail = <<resolved>>
          BY <3>1 DEF IInv, MirrorAgrees
        <4>2. trail # <<>> /\ trail[1] = resolved
          BY <4>1
        <4>3. pc'[v] = "events" /\ shown'[v].as = resolved.decision
          BY <2>2, <3>1 DEF LoadResolved, Goto, IInv, TypeOK, Readers
        <4>4. QED
          BY <1>1, <4>2, <4>3 DEF ShownMirrors, store
      <3>2. CASE resolved = NoFile
        <4>1. pc'[v] = "load_pending"
          BY <2>2, <3>2 DEF LoadResolved, Goto, IInv, TypeOK, Readers
        <4>2. QED
          BY <4>1 DEF ShownMirrors
      <3>3. QED
        BY <3>1, <3>2
    <2>3. CASE LoadPending(v)
      <3>1. pc'[v] = "null" \/ (pc'[v] = "events" /\ shown'[v].as = "pending")
        BY <2>3 DEF LoadPending, Goto, IInv, TypeOK, Readers
      <3>2. QED
        BY <3>1 DEF ShownMirrors, Decisions
    <2>4. CASE ReadEvents(v)
      <3>1. pc[v] = "events" /\ pc'[v] = "done" /\ shown'[v].as = shown[v].as
            /\ shown'[v].events = trail
        BY <2>4 DEF ReadEvents, Goto, IInv, TypeOK, Readers
      <3>2. QED
        BY <3>1 DEF ShownMirrors, IInv
    <2>5. QED
      BY <2>1, <2>2, <2>3, <2>4 DEF Show
  <1>6. QED
    BY <1>3, <1>4, <1>5

(* A resolver's steps leave what viewers were shown: the log only grows.      *)
LEMMA ViewersKept ==
    ASSUME IInv, TypeOK',
           \/ \E p \in Resolvers : Resolve(p) \/ Fail(p)
           \/ Finalize \/ Tick
    PROVE  \A v \in Viewers : ShownMirrors(v)'
  <1> USE CommandsDistinct
  <1>1. UNCHANGED shown
    BY DEF Resolve, Fail, Finalize, Tick, List, Inspect, ReadPending, Stamp, Lock,
       Fence, ReadStatus, AppendEvent, Release, Link, Unlink, Crash, WriteFails,
       StatusUnread, UnlinkFails
  <1>2. ASSUME NEW v \in Viewers PROVE pc'[v] = pc[v]
    <2>1. \/ UNCHANGED pc
          \/ \E p \in Resolvers : \E label : pc' = [pc EXCEPT ![p] = label]
      <3>1. CASE Finalize \/ Tick
        BY <3>1 DEF Finalize, Tick
      <3>2. ASSUME NEW p \in Resolvers, Resolve(p) \/ Fail(p)
            PROVE  UNCHANGED pc \/ \E label : pc' = [pc EXCEPT ![p] = label]
        BY <3>2 DEF Resolve, Fail, List, Inspect, ReadPending, Stamp, Lock, Fence,
           ReadStatus, AppendEvent, Release, Link, Unlink, Crash, WriteFails,
           StatusUnread, UnlinkFails, Goto
      <3>3. QED
        BY <3>1, <3>2
    <2>2. QED
      BY <2>1 DEF IInv, TypeOK, Readers
  <1>3. trail' = trail \/ trail = <<>>
    BY DEF Resolve, Fail, Finalize, Tick, List, Inspect, ReadPending, Stamp, Lock,
       Fence, ReadStatus, AppendEvent, Release, Link, Unlink, Crash, WriteFails,
       StatusUnread, UnlinkFails, store, IInv, Fenced
  <1>4. QED
    BY <1>1, <1>2, <1>3 DEF IInv, ShownMirrors

(* The invariant is inductive.                                                *)
LEMMA InductiveStep == IInv /\ [Next]_vars => IInv'
  <1> SUFFICES ASSUME IInv, [Next]_vars PROVE IInv'
    OBVIOUS
  <1>1. CASE UNCHANGED vars
    BY <1>1 DEF vars, store, listing, IInv, TypeOK, OneResolution, MirrorAgrees, NeverGone,
       DecidedInTime, AnchorKept, HoldsLock, Fenced, StatusFenced, Recorded,
       Unmirrored, Mirrored, ShownMirrors, Resolved
  <1>2. CASE Next
    <2>1. TypeOK'
      BY <1>2, TypeStep DEF IInv
    <2>2. ASSUME NEW p \in Resolvers, Resolve(p) \/ Fail(p)
          PROVE  Files' /\ \A q \in Resolvers : Bound(q)'
      BY <2>1, <2>2, Quiet, LockSteps, FenceSteps, AppendStep, FileSteps
         DEF Resolve, Fail
    <2>3. ASSUME Tick PROVE Files' /\ \A q \in Resolvers : Bound(q)'
      <3>1. UNCHANGED <<store, lock, blind, pc, now>>
        BY <2>3 DEF Tick
      <3>2. QED
        BY <3>1, BoundKept, FilesKept DEF IInv, Files, Bound
    <2>4. CASE \E v \in Viewers : Show(v)
      BY <2>1, <2>4, ShowSteps DEF IInv, Files, Bound
    <2>5. CASE ~\E v \in Viewers : Show(v)
      <3>1. \A v \in Viewers : ShownMirrors(v)'
        BY <1>2, <2>1, <2>5, ViewersKept DEF Next
      <3>2. Files' /\ \A q \in Resolvers : Bound(q)'
        <4>1. CASE \E p \in Resolvers : Resolve(p) \/ Fail(p)
          BY <2>2, <4>1
        <4>2. CASE Finalize
          BY <2>1, <4>2, FinalizeStep
        <4>3. QED
          BY <1>2, <2>3, <2>5, <4>1, <4>2 DEF Next
      <3>3. QED
        BY <2>1, <3>1, <3>2 DEF IInv, Files, Bound
    <2>6. QED
      BY <2>4, <2>5
  <1>3. QED
    BY <1>1, <1>2

(* The invariant holds throughout.                                            *)
THEOREM InvariantHolds == Spec => []IInv
  BY InitHolds, InductiveStep, PTL DEF Spec

(* However approvers and rejecters race, fail and die, the log of the session *)
(* holds at most one resolution of the approval.                              *)
THEOREM DecidedOnce == Spec => []OneResolution
  <1>1. IInv => OneResolution
    BY DEF IInv
  <1>2. QED
    BY <1>1, InvariantHolds, PTL

(* The resolved file is the mirror of the recorded resolution, and the        *)
(* approval is on one side at every moment.                                   *)
THEOREM FilesAgree == Spec => [](MirrorAgrees /\ NeverGone)
  <1>1. IInv => MirrorAgrees /\ NeverGone
    BY DEF IInv
  <1>2. QED
    BY <1>1, InvariantHolds, PTL

(* The create of the resolved file never collides, and who reports success    *)
(* has its decision in both places: approve and reject never both succeed.    *)
THEOREM OneSucceeds == Spec => [](NoCollision /\ SuccessIsRecorded)
  <1>1. IInv => NoCollision /\ SuccessIsRecorded
    BY DEF IInv, NoCollision, SuccessIsRecorded, Unmirrored, Mirrored, Recorded
  <1>2. QED
    BY <1>1, InvariantHolds, PTL

(* A decision is recorded in time, and behind the anchor of a finalized log   *)
(* only by a resolver that could not read the session's status.               *)
THEOREM DecidedWhileOpen == Spec => [](DecidedInTime /\ AnchorKept)
  <1>1. IInv => DecidedInTime /\ AnchorKept
    BY DEF IInv
  <1>2. QED
    BY <1>1, InvariantHolds, PTL

(* A viewer shows a resolution only with the event that recorded it.          *)
THEOREM ShownWithItsEvent == Spec => []ShownIsRecorded
  <1>1. IInv => ShownIsRecorded
    <2> SUFFICES ASSUME IInv, NEW v \in Viewers, pc[v] = "done",
                        shown[v].as \in Decisions
                 PROVE  \E i \in DOMAIN shown[v].events :
                            shown[v].events[i].decision = shown[v].as
      BY DEF ShownIsRecorded
    <2>1. shown[v].events \in Seq(Resolution)
      BY DEF IInv, TypeOK
    <2>2. shown[v].events # <<>> /\ shown[v].events[1].decision = shown[v].as
      BY DEF IInv, ShownMirrors
    <2>3. 1 \in DOMAIN shown[v].events
      BY <2>1, <2>2
    <2>4. QED
      BY <2>2, <2>3
  <1>2. QED
    BY <1>1, InvariantHolds, PTL
=============================================================================
