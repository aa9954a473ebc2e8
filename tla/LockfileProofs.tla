--------------------------- MODULE LockfileProofs ---------------------------
(* Proofs about the lockfile for every set of processes and every bound.      *)
EXTENDS Lockfile, TLAPS

(* Type correctness: every step keeps the variables in their domains.         *)
LEMMA TypeInvariant == TypeOK /\ [Next]_vars => TypeOK'
<1>. SUFFICES ASSUME TypeOK, [Next]_vars PROVE TypeOK'
  OBVIOUS
<1>. USE DEF TypeOK, PCs, Body, Goto
<1>1. ASSUME NEW p \in Procs, Start(p) PROVE TypeOK'
  BY <1>1 DEF Start
<1>2. ASSUME NEW p \in Procs, Acquire(p) PROVE TypeOK'
  <2>1. CASE CreateLinks(p)
    BY <2>1 DEF CreateLinks, Link
  <2>2. CASE CreateNoDirectory(p)
    BY <2>2 DEF CreateNoDirectory
  <2>3. CASE CreateExists(p)
    BY <2>3 DEF CreateExists
  <2>4. CASE MakeDirectory(p)
    BY <2>4 DEF MakeDirectory
  <2>5. CASE CreateNew(p)
    <3>1. CASE Link(p)
      BY <2>5, <3>1 DEF CreateNew, Link
    <3>2. CASE Goto(p, "idle") /\ UNCHANGED <<file, current>>
      BY <2>5, <3>2 DEF CreateNew
    <3>. QED
      BY <2>5, <3>1, <3>2 DEF CreateNew
  <2>6. CASE ReadLock(p)
    BY <2>6 DEF ReadLock
  <2>7. CASE ProbeHolder(p)
    BY <2>7 DEF ProbeHolder
  <2>8. CASE UnlinkStale(p)
    BY <2>8 DEF UnlinkStale, Unlink
  <2>9. CASE Retry(p)
    <3>1. CASE Link(p)
      BY <2>9, <3>1 DEF Retry, Link
    <3>2. CASE Goto(p, "idle") /\ UNCHANGED <<file, current>>
      BY <2>9, <3>2 DEF Retry
    <3>. QED
      BY <2>9, <3>1, <3>2 DEF Retry
  <2>. QED
    BY <1>2, <2>1, <2>2, <2>3, <2>4, <2>5, <2>6, <2>7, <2>8, <2>9 DEF Acquire
<1>3. ASSUME NEW p \in Procs, CreateFails(p) PROVE TypeOK'
  BY <1>3, MaxFaultsNat DEF CreateFails
<1>4. ASSUME NEW p \in Procs, Release(p) PROVE TypeOK'
  BY <1>4 DEF Release, Unlink
<1>5. ASSUME NEW p \in Procs, Crash(p) PROVE TypeOK'
  BY <1>5, MaxFaultsNat DEF Crash
<1>6. ASSUME NEW p \in Procs, Respawn(p) PROVE TypeOK'
  BY <1>6 DEF Respawn
<1>7. CASE HourPasses
  BY <1>7, NoFileIsNoBody DEF HourPasses
<1>8. CASE UNCHANGED vars
  BY <1>8 DEF vars
<1>. QED
  BY <1>1, <1>2, <1>3, <1>4, <1>5, <1>6, <1>7, <1>8 DEF Next

(* The rest of the inductive invariant, disturbed only by the steps below.    *)
Inv == BusyAlive /\ DisplacedHold /\ LockfileNamesHolder /\ CurrentKnows

(* A successful link makes p the holder of a fresh lockfile.                  *)
LEMMA LinkPreserves ==
  ASSUME NEW p \in Procs, TypeOK, Inv, Link(p), pc[p] \notin {"idle", "held"},
         UNCHANGED <<alive, body, displaced>>
  PROVE  Inv'
<1>. USE DEF TypeOK, Body, Holders
<1>1. pc' = [pc EXCEPT ![p] = "held"] /\ file' = [pid |-> p, old |-> FALSE]
      /\ current' = {p} /\ file = NoFile
  BY DEF Link, Goto
<1>2. BusyAlive'
  BY <1>1 DEF Inv, BusyAlive
<1>3. DisplacedHold'
  BY <1>1 DEF Inv, DisplacedHold
<1>4. file' # NoFile
  <2>1. file' \in Body
    BY <1>1
  <2>. QED
    BY <2>1, NoFileIsNoBody
<1>5. LockfileNamesHolder'
  BY <1>1, <1>4 DEF Inv, LockfileNamesHolder
<1>6. CurrentKnows'
  BY <1>1, <1>4 DEF CurrentKnows
<1>. QED
  BY <1>2, <1>3, <1>5, <1>6 DEF Inv

(* A step that moves p between two labels that are not "held", keeping the    *)
(* file, may only disturb what p knows.                                       *)
LEMMA MovePreserves ==
  ASSUME NEW p \in Procs, NEW l \in PCs \ {"held", "probe", "unlink"},
         TypeOK, Inv, p \in alive, pc[p] # "held", Goto(p, l),
         UNCHANGED <<file, alive, displaced, current>>,
         \A q \in Procs \ {p} : body'[q] = body[q]
  PROVE  Inv'
<1>. USE DEF TypeOK, Body, Holders, PCs, Goto
<1>2. BusyAlive'
  BY DEF Inv, BusyAlive
<1>3. DisplacedHold'
  BY DEF Inv, DisplacedHold
<1>4. LockfileNamesHolder'
  BY DEF Inv, LockfileNamesHolder
<1>5. CurrentKnows'
  BY DEF Inv, CurrentKnows
<1>. QED
  BY <1>2, <1>3, <1>4, <1>5 DEF Inv

(* An unlink displaces the holder it removes, and leaves nobody current.      *)
LEMMA UnlinkPreserves ==
  ASSUME NEW p \in Procs, NEW l \in {"idle", "retry"},
         TypeOK, Inv, pc[p] # "idle", Unlink(p), Goto(p, l), UNCHANGED alive
  PROVE  Inv'
<1>. USE DEF TypeOK, Body, Holders, PCs, Goto, Unlink
<1>2. BusyAlive'
  BY DEF Inv, BusyAlive
<1>3. DisplacedHold'
  BY DEF Inv, DisplacedHold
<1>4. LockfileNamesHolder'
  <2>. SUFFICES ASSUME NEW q \in Holders' \ displaced' PROVE FALSE
    BY DEF LockfileNamesHolder
  <2>1. q # p /\ pc[q] = "held" /\ q \notin displaced
    OBVIOUS
  <2>2. file # NoFile /\ file.pid = q
    BY <2>1 DEF Inv, LockfileNamesHolder
  <2>. QED
    BY <2>1, <2>2
<1>5. CurrentKnows'
  BY DEF CurrentKnows
<1>. QED
  BY <1>2, <1>3, <1>4, <1>5 DEF Inv

(* Every step keeps the inductive invariant.                                  *)
LEMMA InductiveStep == TypeOK /\ Inv /\ [Next]_vars => Inv'
<1>. SUFFICES ASSUME TypeOK, Inv, [Next]_vars PROVE Inv'
  OBVIOUS
<1>0. ASSUME NEW p \in Procs, pc[p] # "idle" PROVE p \in alive
  BY <1>0 DEF Inv, BusyAlive
<1>1. ASSUME NEW p \in Procs, Start(p) PROVE Inv'
  BY <1>1, MovePreserves DEF Start, PCs
<1>2. ASSUME NEW p \in Procs, CreateLinks(p) PROVE Inv'
  BY <1>2, LinkPreserves DEF CreateLinks
<1>3. ASSUME NEW p \in Procs, CreateNoDirectory(p) PROVE Inv'
  BY <1>0, <1>3, MovePreserves DEF CreateNoDirectory, PCs
<1>4. ASSUME NEW p \in Procs, CreateExists(p) PROVE Inv'
  BY <1>0, <1>4, MovePreserves DEF CreateExists, PCs
<1>5. ASSUME NEW p \in Procs, MakeDirectory(p) PROVE Inv'
  BY <1>0, <1>5, MovePreserves DEF MakeDirectory, PCs
<1>6. ASSUME NEW p \in Procs, CreateNew(p) PROVE Inv'
  <2>1. CASE Link(p)
    BY <1>6, <2>1, LinkPreserves DEF CreateNew
  <2>2. CASE Goto(p, "idle") /\ UNCHANGED <<file, current>>
    BY <1>0, <1>6, <2>2, MovePreserves DEF CreateNew, PCs
  <2>. QED
    BY <1>6, <2>1, <2>2 DEF CreateNew
<1>7. ASSUME NEW p \in Procs, ReadLock(p) PROVE Inv'
  <2>. USE <1>7 DEF ReadLock, TypeOK, Body, Holders, PCs, Goto
  <2>1. BusyAlive'
    BY DEF Inv, BusyAlive
  <2>2. DisplacedHold'
    BY DEF Inv, DisplacedHold
  <2>3. LockfileNamesHolder'
    BY DEF Inv, LockfileNamesHolder
  <2>4. CurrentKnows'
    BY DEF Inv, CurrentKnows
  <2>. QED
    BY <2>1, <2>2, <2>3, <2>4 DEF Inv
<1>8. ASSUME NEW p \in Procs, ProbeHolder(p) PROVE Inv'
  <2>. USE <1>8 DEF ProbeHolder, TypeOK, Body, Holders, PCs, Goto
  <2>1. BusyAlive'
    BY DEF Inv, BusyAlive
  <2>2. DisplacedHold'
    BY DEF Inv, DisplacedHold
  <2>3. LockfileNamesHolder'
    BY DEF Inv, LockfileNamesHolder
  <2>4. CurrentKnows'
    <3>1. ASSUME NEW q \in current, q # p PROVE CurrentKnows!(q)'
      BY <3>1 DEF Inv, CurrentKnows
    <3>2. CASE p \in current /\ Stale(body[p])
      <4>1. file # NoFile /\ (file.old \/ file.pid \notin alive)
        BY <3>2 DEF Inv, CurrentKnows, Stale
      <4>2. file.old \/ pc[file.pid] # "held"
        BY <4>1 DEF Inv, BusyAlive
      <4>. QED
        BY <3>1, <3>2, <4>1, <4>2 DEF CurrentKnows
    <3>3. CASE p \notin current \/ ~Stale(body[p])
      BY <3>1, <3>3 DEF CurrentKnows
    <3>. QED
      BY <3>2, <3>3
  <2>. QED
    BY <2>1, <2>2, <2>3, <2>4 DEF Inv
<1>9. ASSUME NEW p \in Procs, UnlinkStale(p) PROVE Inv'
  BY <1>9, UnlinkPreserves DEF UnlinkStale
<1>10. ASSUME NEW p \in Procs, Retry(p) PROVE Inv'
  <2>1. CASE Link(p)
    BY <1>10, <2>1, LinkPreserves DEF Retry
  <2>2. CASE Goto(p, "idle") /\ UNCHANGED <<file, current>>
    BY <1>0, <1>10, <2>2, MovePreserves DEF Retry, PCs
  <2>. QED
    BY <1>10, <2>1, <2>2 DEF Retry
<1>11. ASSUME NEW p \in Procs, CreateFails(p) PROVE Inv'
  BY <1>0, <1>11, MovePreserves DEF CreateFails, PCs
<1>12. ASSUME NEW p \in Procs, Release(p) PROVE Inv'
  BY <1>12, UnlinkPreserves DEF Release
<1>13. ASSUME NEW p \in Procs, Crash(p) PROVE Inv'
  <2>. USE <1>13 DEF Crash, TypeOK, Body, Holders, PCs, Goto
  <2>1. BusyAlive'
    BY DEF Inv, BusyAlive
  <2>2. DisplacedHold'
    BY DEF Inv, DisplacedHold
  <2>3. LockfileNamesHolder'
    BY DEF Inv, LockfileNamesHolder
  <2>4. CurrentKnows'
    BY DEF Inv, CurrentKnows
  <2>. QED
    BY <2>1, <2>2, <2>3, <2>4 DEF Inv
<1>14. ASSUME NEW p \in Procs, Respawn(p) PROVE Inv'
  BY <1>14 DEF Respawn, Inv, BusyAlive, DisplacedHold, LockfileNamesHolder,
               CurrentKnows, Holders, TypeOK
<1>15. CASE HourPasses
  <2>. USE <1>15 DEF HourPasses, TypeOK, Body, Holders
  <2>1. file' # NoFile <=> file # NoFile
    BY NoFileIsNoBody
  <2>2. file # NoFile => file'.pid = file.pid /\ file'.old
    OBVIOUS
  <2>3. BusyAlive' /\ DisplacedHold'
    BY DEF Inv, BusyAlive, DisplacedHold
  <2>4. LockfileNamesHolder'
    BY <2>1, <2>2 DEF Inv, LockfileNamesHolder
  <2>5. CurrentKnows'
    BY <2>1, <2>2 DEF Inv, CurrentKnows
  <2>. QED
    BY <2>3, <2>4, <2>5 DEF Inv
<1>16. CASE UNCHANGED vars
  BY <1>16 DEF vars, Inv, BusyAlive, DisplacedHold, LockfileNamesHolder,
               CurrentKnows, Holders
<1>. QED
  BY <1>1, <1>2, <1>3, <1>4, <1>5, <1>6, <1>7, <1>8, <1>9, <1>10, <1>11,
     <1>12, <1>13, <1>14, <1>15, <1>16 DEF Next, Acquire

(* The inductive invariant holds in every reachable state.                    *)
THEOREM InvariantHolds == Spec => []IInv
<1>1. Init => IInv
  BY MaxFaultsNat DEF Init, IInv, TypeOK, Body, PCs, BusyAlive, DisplacedHold,
     LockfileNamesHolder, CurrentKnows, Holders
<1>2. IInv /\ [Next]_vars => IInv'
  BY TypeInvariant, InductiveStep DEF IInv, Inv
<1>. QED
  BY <1>1, <1>2, PTL DEF Spec

(* Exclusion among the holders nobody displaced, for any number of processes, *)
(* crashes, pid reuses and clock readings.                                    *)
THEOREM ExclusionHolds == Spec => []UndisplacedExclusion
<1>1. IInv => UndisplacedExclusion
  BY DEF IInv, LockfileNamesHolder, UndisplacedExclusion
<1>. QED
  BY <1>1, InvariantHolds, PTL

(* The steps that unlink are UnlinkStale and Release; no other one displaces. *)
LEMMA DisplacingSteps ==
  ASSUME TypeOK, [Next]_vars
  PROVE  \/ displaced' \subseteq displaced
         \/ \E q \in Procs : pc[q] \in {"unlink", "held"} /\ Unlink(q)
<1>1. ASSUME NEW q \in Procs,
             Start(q) \/ CreateFails(q) \/ Respawn(q) \/ Crash(q)
      PROVE  displaced' \subseteq displaced
  BY <1>1 DEF Start, CreateFails, Respawn, Crash
<1>2. ASSUME NEW q \in Procs, Acquire(q), ~UnlinkStale(q)
      PROVE  displaced' \subseteq displaced
  BY <1>2 DEF Acquire, CreateLinks, CreateNoDirectory, CreateExists,
     MakeDirectory, CreateNew, ReadLock, ProbeHolder, Retry
<1>3. ASSUME NEW q \in Procs, UnlinkStale(q) \/ Release(q)
      PROVE  pc[q] \in {"unlink", "held"} /\ Unlink(q)
  BY <1>3 DEF UnlinkStale, Release
<1>4. CASE HourPasses \/ UNCHANGED vars
  BY <1>4 DEF HourPasses, vars
<1>. QED
  BY <1>1, <1>2, <1>3, <1>4 DEF Next

(* A holder is displaced only by an hour-old lock or a blind unlink.          *)
THEOREM DisplacementCause == Spec => DisplacedOnlyBlindlyOrByAge
<1>. DEFINE Cause == \A p \in Procs : p \in displaced' \ displaced =>
        \/ file.old
        \/ \E q \in Procs \ {p} : pc[q] \in {"unlink", "held"} /\ q \notin current
<1>1. IInv /\ [Next]_vars => Cause
  <2>. SUFFICES ASSUME IInv, [Next]_vars,
                       NEW p \in Procs, p \in displaced' \ displaced
                PROVE  \/ file.old
                       \/ \E q \in Procs \ {p} :
                             pc[q] \in {"unlink", "held"} /\ q \notin current
    OBVIOUS
  <2>1. PICK q \in Procs : pc[q] \in {"unlink", "held"} /\ Unlink(q)
    BY DisplacingSteps DEF IInv
  <2>2. q # p /\ file # NoFile /\ file.pid = p /\ pc[p] = "held"
    BY <2>1 DEF Unlink
  <2>3. CASE q \in current
    BY <2>1, <2>2, <2>3 DEF IInv, CurrentKnows
  <2>4. CASE q \notin current
    BY <2>1, <2>2, <2>4
  <2>. QED
    BY <2>3, <2>4
<1>2. IInv /\ [Next]_vars => [Cause]_vars
  BY <1>1
<1>. QED
  BY <1>2, InvariantHolds, PTL DEF Spec, DisplacedOnlyBlindlyOrByAge

-----------------------------------------------------------------------------
(* The abstract lease.                                                        *)
Undisplaced == Holders \ displaced

(* A successful link acquires the lease: nobody else had it.                  *)
LEMMA LinkAcquires ==
  ASSUME NEW p \in Procs, IInv, Link(p), pc[p] # "held", UNCHANGED displaced
  PROVE  Lease!Acquire(p)
<1>1. pc' = [pc EXCEPT ![p] = "held"] /\ file = NoFile
  BY DEF Link, Goto
<1>2. Holders' = Holders \cup {p} /\ p \notin Holders
  BY <1>1 DEF Holders, IInv, TypeOK
<1>3. Holders \ displaced = {}
  BY <1>1 DEF IInv, LockfileNamesHolder
<1>4. p \notin displaced
  BY <1>2 DEF IInv, DisplacedHold
<1>. QED
  BY <1>2, <1>3, <1>4 DEF Lease!Acquire

(* A step that leaves Holders and displaced alone is a stutter of the lease.  *)
LEMMA MoveStutters ==
  ASSUME NEW p \in Procs, NEW l \in PCs \ {"held"}, TypeOK,
         pc[p] # "held", Goto(p, l), UNCHANGED displaced
  PROVE  UNCHANGED Lease!lease
<1>1. Holders' = Holders
  BY DEF Holders, Goto, TypeOK
<1>. QED
  BY <1>1 DEF Lease!lease

(* An unlink takes the lease from whoever had it, but for p itself.           *)
LEMMA UnlinkLoses ==
  ASSUME NEW p \in Procs, IInv, Unlink(p)
  PROVE  displaced' = (displaced \cup Undisplaced) \ {p}
<1>1. \A q \in Undisplaced : file # NoFile /\ file.pid = q
  BY DEF Undisplaced, IInv, LockfileNamesHolder
<1>2. displaced \subseteq Holders
  BY DEF IInv, DisplacedHold
<1>. DEFINE D == {q \in Procs \ {p} :
                    file # NoFile /\ file.pid = q /\ pc[q] = "held"}
<1>3. displaced' = (displaced \ {p}) \cup D
  BY DEF Unlink
<1>4. Undisplaced \ {p} \subseteq D
  BY <1>1 DEF Undisplaced, Holders
<1>5. D \subseteq (displaced \cup Undisplaced) \ {p}
  BY DEF Undisplaced, Holders
<1>. HIDE DEF D
<1>. QED
  BY <1>3, <1>4, <1>5

(* Every step of the lockfile is a step of the lease, or a stutter.           *)
LEMMA LeaseStep == IInv /\ [Next]_vars => [Lease!Next]_(Lease!lease)
<1>. SUFFICES ASSUME IInv, [Next]_vars PROVE [Lease!Next]_(Lease!lease)
  OBVIOUS
<1>. USE DEF PCs
<1>0. TypeOK /\ displaced \subseteq Holders
  BY DEF IInv, DisplacedHold
<1>a. ASSUME NEW p \in Procs, Lease!Acquire(p) \/ Lease!Drop(p) \/ Lease!DropLost(p)
      PROVE  [Lease!Next]_(Lease!lease)
  BY <1>a DEF Lease!Next
<1>1. ASSUME NEW p \in Procs,
             Start(p) \/ CreateNoDirectory(p) \/ CreateExists(p)
               \/ MakeDirectory(p) \/ CreateFails(p)
      PROVE  UNCHANGED Lease!lease
  BY <1>0, <1>1, MoveStutters
     DEF Start, CreateNoDirectory, CreateExists, MakeDirectory, CreateFails
<1>2. ASSUME NEW p \in Procs, ReadLock(p) \/ ProbeHolder(p)
      PROVE  UNCHANGED Lease!lease
  <2>1. CASE ReadLock(p)
    BY <1>0, <2>1, MoveStutters DEF ReadLock
  <2>2. CASE ProbeHolder(p)
    BY <1>0, <2>2, MoveStutters DEF ProbeHolder
  <2>. QED
    BY <1>2, <2>1, <2>2
<1>3. ASSUME NEW p \in Procs, CreateLinks(p) \/ CreateNew(p) \/ Retry(p)
      PROVE  Lease!Acquire(p) \/ UNCHANGED Lease!lease
  <2>1. pc[p] # "held" /\ UNCHANGED displaced
    BY <1>3 DEF CreateLinks, CreateNew, Retry
  <2>2. CASE Link(p)
    BY <2>1, <2>2, LinkAcquires
  <2>3. CASE ~Link(p)
    <3>1. Goto(p, "idle")
      BY <1>3, <2>3 DEF CreateLinks, CreateNew, Retry
    <3>. QED
      BY <1>0, <2>1, <3>1, MoveStutters
  <2>. QED
    BY <2>2, <2>3
<1>4. ASSUME NEW p \in Procs, UnlinkStale(p)
      PROVE  Lease!Displace \/ UNCHANGED Lease!lease
  <2>1. pc[p] = "unlink" /\ pc' = [pc EXCEPT ![p] = "retry"]
    BY <1>4 DEF UnlinkStale, Goto
  <2>2. Holders' = Holders /\ p \notin Holders
    BY <1>0, <2>1 DEF Holders, TypeOK
  <2>3. displaced' = displaced \cup Undisplaced
    BY <1>0, <1>4, <2>2, UnlinkLoses DEF UnlinkStale, Undisplaced
  <2>4. (Holders \ displaced)' = {}
    BY <2>2, <2>3 DEF Undisplaced
  <2>. QED
    BY <2>3, <2>4 DEF Lease!Displace, Lease!lease, Undisplaced
<1>5. ASSUME NEW p \in Procs, Release(p)
      PROVE  Lease!Drop(p) \/ Lease!DropLost(p)
  <2>1. pc[p] = "held" /\ pc' = [pc EXCEPT ![p] = "idle"]
    BY <1>5 DEF Release, Goto
  <2>2. Holders' = Holders \ {p} /\ p \in Holders
    BY <1>0, <2>1 DEF Holders, TypeOK
  <2>3. displaced' = (displaced \cup Undisplaced) \ {p}
    BY <1>5, UnlinkLoses DEF Release
  <2>4. (Holders \ displaced)' = {}
    BY <2>2, <2>3 DEF Undisplaced
  <2>5. CASE p \in displaced
    BY <2>3, <2>4, <2>5 DEF Lease!DropLost, Undisplaced
  <2>6. CASE p \notin displaced
    <3>1. Undisplaced = {p}
      BY <2>2, <2>6 DEF Undisplaced, IInv, LockfileNamesHolder
    <3>. QED
      BY <2>3, <2>4, <2>6, <3>1 DEF Lease!Drop, Undisplaced
  <2>. QED
    BY <2>5, <2>6
<1>6. ASSUME NEW p \in Procs, Crash(p)
      PROVE  Lease!Drop(p) \/ Lease!DropLost(p) \/ UNCHANGED Lease!lease
  <2>1. pc' = [pc EXCEPT ![p] = "idle"] /\ displaced' = displaced \ {p}
    BY <1>6 DEF Crash, Goto
  <2>2. Holders' = Holders \ {p}
    BY <1>0, <2>1 DEF Holders, TypeOK
  <2>3. CASE p \in displaced
    BY <1>0, <2>1, <2>2, <2>3 DEF Lease!DropLost
  <2>4. CASE p \in Undisplaced
    <3>1. Undisplaced = {p}
      BY <2>4 DEF Undisplaced, IInv, LockfileNamesHolder
    <3>. QED
      BY <2>1, <2>2, <2>4, <3>1 DEF Lease!Drop, Undisplaced
  <2>5. CASE p \notin Holders
    BY <1>0, <2>1, <2>2, <2>5 DEF Lease!lease
  <2>. QED
    BY <2>3, <2>4, <2>5 DEF Undisplaced
<1>7. ASSUME NEW p \in Procs, Respawn(p) PROVE UNCHANGED Lease!lease
  BY <1>7 DEF Respawn, Lease!lease, Holders
<1>8. CASE HourPasses \/ UNCHANGED vars
  BY <1>8 DEF HourPasses, vars, Lease!lease, Holders
<1>. QED
  BY <1>a, <1>1, <1>2, <1>3, <1>4, <1>5, <1>6, <1>7, <1>8
     DEF Next, Acquire, Lease!Next

(* The lockfile implements the lease: the detailed specification, file and    *)
(* probes and races, gives its callers exactly the abstract one's behaviours. *)
THEOREM LockfileImplementsLease == Spec => ImplementsLease
<1>1. Init => Lease!Init
  BY DEF Init, Lease!Init, Holders
<1>. QED
  BY <1>1, LeaseStep, InvariantHolds, PTL DEF Spec, Lease!Spec, ImplementsLease
=============================================================================
