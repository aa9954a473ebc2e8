------------------------------ MODULE Approval ------------------------------
(* One approval request: its file under approvals/pending, its file under     *)
(* approvals/resolved, and the resolution events its session's log holds.     *)
(* `basou approval approve` and `reject` processes race to decide it,         *)
(* `basou approval show` processes read it, the session is finalized by its   *)
(* creator, and time passes.  Every read and write of a file is a step of its *)
(* own; the session lock is the mutex lockfile.ts promises.                   *)
EXTENDS Naturals, Sequences, FiniteSets

CONSTANTS
    Approvers,   \* the processes of `approval approve`
    Rejecters,   \* the processes of `approval reject`
    Viewers,     \* the processes of `approval show`
    ExpiresAt,   \* expires_at of the request, or Never
    Never,       \* expires_at is null
    Free,        \* the session lock is not held
    MaxTime,     \* bound on the clock
    MaxFaults    \* bound on crashes and failed reads and writes

Resolvers == Approvers \cup Rejecters
Readers == Resolvers \cup Viewers

ASSUME CommandsDistinct ==
    /\ Approvers \cap Rejecters = {} /\ Resolvers \cap Viewers = {}
    /\ Free \notin Resolvers
ASSUME NeverIsNoTime == Never \notin Nat
ASSUME ExpiryIsATime == ExpiresAt \in Nat \cup {Never}
ASSUME BoundsNat == MaxTime \in Nat /\ MaxFaults \in Nat

Sides == {"pending", "resolved"}
Decisions == {"approved", "rejected"}
Decision(p) == IF p \in Approvers THEN "approved" ELSE "rejected"

(* A resolution, as an event and as a resolved file: who decided what, when.  *)
Resolution == [by : Resolvers, decision : Decisions, at : Nat]

(* There is no file under resolved.                                           *)
NoFile == [by |-> Free, decision |-> "none", at |-> 0]

VARIABLES
    pending,    \* is there a file under pending?
    resolved,   \* the file under resolved
    trail,      \* the resolution events of the log, in its order
    session,    \* session.yaml: is it live, and how many events it anchors
    lock,       \* the holder of the session lock
    clock,      \* the time
    pc,         \* the file operation each process does next
    left,       \* the sides each process has yet to list
    found,      \* the sides whose listing had the approval
    now,        \* the time each resolver took
    shown,      \* what each viewer loaded, and the events it read
    blind,      \* the resolvers that could not read session.yaml
    faults      \* crashes and failed reads and writes so far

store == <<pending, resolved, trail, session>>
listing == <<left, found>>
vars == <<store, lock, clock, pc, listing, now, shown, blind, faults>>

Succeeded == {"done"}
Refused == {"refused", "not_found", "null", "collided", "failed"}
Over == Succeeded \cup Refused \cup {"dead"}
Locked == {"fence", "status", "append", "release", "give_up"}
PCs == {"list", "inspect", "read", "stamp", "lock", "link", "unlink",
        "load_resolved", "load_pending", "events"} \cup Locked \cup Over

NotShown == [as |-> "none", events |-> <<>>]

TypeOK ==
    /\ pending \in BOOLEAN
    /\ resolved \in Resolution \cup {NoFile}
    /\ trail \in Seq(Resolution)
    /\ session \in [live : BOOLEAN, anchored : Nat]
    /\ lock \in Resolvers \cup {Free}
    /\ clock \in Nat
    /\ pc \in [Readers -> PCs]
    /\ left \in [Readers -> SUBSET Sides]
    /\ found \in [Readers -> SUBSET Sides]
    /\ now \in [Resolvers -> Nat]
    /\ shown \in [Viewers -> [as : {"none", "pending"} \cup Decisions,
                              events : Seq(Resolution)]]
    /\ blind \subseteq Resolvers
    /\ faults \in Nat

(* The request stands, undecided, in a live session.                          *)
Init ==
    /\ pending = TRUE
    /\ resolved = NoFile
    /\ trail = <<>>
    /\ session = [live |-> TRUE, anchored |-> 0]
    /\ lock = Free
    /\ clock = 0
    /\ pc = [p \in Readers |-> "list"]
    /\ left = [p \in Readers |-> Sides]
    /\ found = [p \in Readers |-> {}]
    /\ now = [p \in Resolvers |-> 0]
    /\ shown = [v \in Viewers |-> NotShown]
    /\ blind = {}
    /\ faults = 0

Goto(p, label) == pc' = [pc EXCEPT ![p] = label]

HasFile(side) == IF side = "pending" THEN pending ELSE resolved # NoFile

-----------------------------------------------------------------------------
(* resolveApprovalId, the start of each command: the two directories are      *)
(* listed, in either order; an approval on both sides counts as resolved.     *)
AfterListing(p, sides) ==
    CASE sides = {} -> "not_found"
      [] sides # {} /\ p \in Viewers -> "load_resolved"
      [] "resolved" \in sides /\ p \in Resolvers -> "refused"
      [] OTHER -> "inspect"

List(p) ==
    /\ pc[p] = "list"
    /\ \E side \in left[p] :
        LET sides == found[p] \cup {s \in {side} : HasFile(s)} IN
        /\ left' = [left EXCEPT ![p] = @ \ {side}]
        /\ found' = [found EXCEPT ![p] = sides]
        /\ IF left[p] = {side} THEN Goto(p, AfterListing(p, sides)) ELSE UNCHANGED pc
    /\ UNCHANGED <<store, lock, clock, now, shown, blind, faults>>

(* approve and reject: no resolved file may have appeared since.              *)
Inspect(p) ==
    /\ pc[p] = "inspect"
    /\ Goto(p, IF resolved # NoFile THEN "refused" ELSE "read")
    /\ UNCHANGED <<store, lock, clock, listing, now, shown, blind, faults>>

ReadPending(p) ==
    /\ pc[p] = "read"
    /\ Goto(p, IF pending THEN "stamp" ELSE "not_found")
    /\ UNCHANGED <<store, lock, clock, listing, now, shown, blind, faults>>

(* The time of the decision is taken before the lock.                         *)
Stamp(p) ==
    /\ pc[p] = "stamp"
    /\ now' = [now EXCEPT ![p] = clock]
    /\ Goto(p, "lock")
    /\ UNCHANGED <<store, lock, clock, listing, shown, blind, faults>>

-----------------------------------------------------------------------------
(* The session lock: fail-fast; a dead holder's lock is reclaimed.            *)
LockFree == lock \in Resolvers => pc[lock] = "dead"

(* Mutant: a held lock is taken.                                              *)
LockRegardless(p) ==
    /\ pc[p] = "lock"
    /\ lock' = p /\ Goto(p, "fence")
    /\ UNCHANGED <<store, clock, listing, now, shown, blind, faults>>

Lock(p) ==
    /\ pc[p] = "lock"
    /\ IF LockFree THEN lock' = p /\ Goto(p, "fence")
       ELSE Goto(p, "refused") /\ UNCHANGED lock
    /\ UNCHANGED <<store, clock, listing, now, shown, blind, faults>>

Release(p) ==
    /\ pc[p] \in {"release", "give_up"}
    /\ lock' = IF lock = p THEN Free ELSE lock
    /\ Goto(p, IF pc[p] = "release" THEN "link" ELSE "refused")
    /\ UNCHANGED <<store, clock, listing, now, shown, blind, faults>>

(* isLazyExpired, against the time taken before the lock.                     *)
Expired(at) == ExpiresAt \in Nat /\ ExpiresAt < at

(* Mutant: only the resolved file is consulted, not the log.                  *)
FenceByMirror(p) ==
    /\ pc[p] = "fence"
    /\ Goto(p, IF resolved # NoFile \/ Expired(now[p]) THEN "give_up" ELSE "status")
    /\ UNCHANGED <<store, lock, clock, listing, now, shown, blind, faults>>

(* The log decides whether the approval is open; then its expiry.             *)
Fence(p) ==
    /\ pc[p] = "fence"
    /\ Goto(p, IF trail # <<>> \/ Expired(now[p]) THEN "give_up" ELSE "status")
    /\ UNCHANGED <<store, lock, clock, listing, now, shown, blind, faults>>

(* Mutant: the status of the session is not looked at.                        *)
ReadNoStatus(p) ==
    /\ pc[p] = "status"
    /\ Goto(p, "append")
    /\ UNCHANGED <<store, lock, clock, listing, now, shown, blind, faults>>

ReadStatus(p) ==
    /\ pc[p] = "status"
    /\ Goto(p, IF session.live THEN "append" ELSE "give_up")
    /\ UNCHANGED <<store, lock, clock, listing, now, shown, blind, faults>>

Resolved(p) == [by |-> p, decision |-> Decision(p), at |-> now[p]]

AppendEvent(p) ==
    /\ pc[p] = "append"
    /\ trail' = Append(trail, Resolved(p))
    /\ Goto(p, "release")
    /\ UNCHANGED <<pending, resolved, session, lock, clock, listing, now, shown,
                   blind, faults>>

-----------------------------------------------------------------------------
(* After the lock: the resolved file is created, never overwritten, and the   *)
(* pending file removed.                                                      *)

(* Mutant: the command ends with its event; the files are left.               *)
LinkSkipped(p) ==
    /\ pc[p] = "link"
    /\ Goto(p, "refused")
    /\ UNCHANGED <<store, lock, clock, listing, now, shown, blind, faults>>

(* Mutant: the resolved file is stamped with the time it is written at.       *)
LinkStampedLate(p) ==
    /\ pc[p] = "link"
    /\ IF resolved = NoFile
       THEN resolved' = [Resolved(p) EXCEPT !.at = clock] /\ Goto(p, "unlink")
       ELSE Goto(p, "collided") /\ UNCHANGED resolved
    /\ UNCHANGED <<pending, trail, session, lock, clock, listing, now, shown,
                   blind, faults>>

Link(p) ==
    /\ pc[p] = "link"
    /\ IF resolved = NoFile THEN resolved' = Resolved(p) /\ Goto(p, "unlink")
       ELSE Goto(p, "collided") /\ UNCHANGED resolved
    /\ UNCHANGED <<pending, trail, session, lock, clock, listing, now, shown,
                   blind, faults>>

Unlink(p) ==
    /\ pc[p] = "unlink"
    /\ pending' = FALSE
    /\ Goto(p, "done")
    /\ UNCHANGED <<resolved, trail, session, lock, clock, listing, now, shown,
                   blind, faults>>

-----------------------------------------------------------------------------
(* show: loadApproval tries resolved, then pending; then the log is read.     *)
LoadResolved(v) ==
    /\ pc[v] = "load_resolved"
    /\ IF resolved # NoFile
       THEN /\ shown' = [shown EXCEPT ![v].as = resolved.decision]
            /\ Goto(v, "events")
       ELSE Goto(v, "load_pending") /\ UNCHANGED shown
    /\ UNCHANGED <<store, lock, clock, listing, now, blind, faults>>

LoadPending(v) ==
    /\ pc[v] = "load_pending"
    /\ IF pending
       THEN /\ shown' = [shown EXCEPT ![v].as = "pending"]
            /\ Goto(v, "events")
       ELSE Goto(v, "null") /\ UNCHANGED shown
    /\ UNCHANGED <<store, lock, clock, listing, now, blind, faults>>

ReadEvents(v) ==
    /\ pc[v] = "events"
    /\ shown' = [shown EXCEPT ![v].events = trail]
    /\ Goto(v, "done")
    /\ UNCHANGED <<store, lock, clock, listing, now, blind, faults>>

-----------------------------------------------------------------------------
(* The session's creator finalizes it under the lock: a final status and the  *)
(* anchor of the log as it is (module SessionLog).                            *)
Finalize ==
    /\ session.live
    /\ LockFree
    /\ session' = [live |-> FALSE, anchored |-> Len(trail)]
    /\ UNCHANGED <<pending, resolved, trail, lock, clock, pc, listing, now, shown,
                   blind, faults>>

Tick ==
    /\ clock < MaxTime
    /\ clock' = clock + 1
    /\ UNCHANGED <<store, lock, pc, listing, now, shown, blind, faults>>

Fault == faults < MaxFaults /\ faults' = faults + 1

(* A resolver dies; the lock it holds stays behind.                           *)
Crash(p) ==
    /\ pc[p] \notin Over
    /\ Fault
    /\ Goto(p, "dead")
    /\ UNCHANGED <<store, lock, clock, listing, now, shown, blind>>

(* The append is cut short (what is left of the line is no event), or the     *)
(* resolved file cannot be written; the command throws.                       *)
WriteFails(p) ==
    /\ \/ pc[p] = "append" /\ Goto(p, "give_up")
       \/ pc[p] = "link" /\ Goto(p, "failed")
    /\ Fault
    /\ UNCHANGED <<store, lock, clock, listing, now, shown, blind>>

(* session.yaml cannot be read: that alone does not stop the resolution.      *)
StatusUnread(p) ==
    /\ pc[p] = "status"
    /\ Fault
    /\ blind' = blind \cup {p}
    /\ Goto(p, "append")
    /\ UNCHANGED <<store, lock, clock, listing, now, shown>>

(* The removal is best-effort: its failure is a warning.                      *)
UnlinkFails(p) ==
    /\ pc[p] = "unlink"
    /\ Fault
    /\ Goto(p, "done")
    /\ UNCHANGED <<store, lock, clock, listing, now, shown, blind>>

-----------------------------------------------------------------------------
Resolve(p) ==
    \/ List(p) \/ Inspect(p) \/ ReadPending(p) \/ Stamp(p)
    \/ Lock(p) \/ Fence(p) \/ ReadStatus(p) \/ AppendEvent(p) \/ Release(p)
    \/ Link(p) \/ Unlink(p)

Fail(p) == Crash(p) \/ WriteFails(p) \/ StatusUnread(p) \/ UnlinkFails(p)

Show(v) == List(v) \/ LoadResolved(v) \/ LoadPending(v) \/ ReadEvents(v)

Next ==
    \/ \E p \in Resolvers : Resolve(p) \/ Fail(p)
    \/ \E v \in Viewers : Show(v)
    \/ Finalize
    \/ Tick

Spec == Init /\ [][Next]_vars

(* A command that runs goes on.                                               *)
FairSpec ==
    /\ Spec
    /\ \A p \in Resolvers : WF_vars(Resolve(p))
    /\ \A v \in Viewers : WF_vars(Show(v))

-----------------------------------------------------------------------------
(* However approvers and rejecters race, fail and die, the log holds at most  *)
(* one resolution of the approval.                                            *)
OneResolution == Len(trail) <= 1

(* The resolved file is the mirror of that resolution: same resolver, same    *)
(* decision, same time; it is never there without the event.                  *)
MirrorAgrees == resolved # NoFile => trail = <<resolved>>

(* The pending file goes only once the resolved file stands: at every moment  *)
(* the approval is on one side at least.                                      *)
NeverGone == pending \/ resolved # NoFile

(* The create of the resolved file never finds one: the fence over the log    *)
(* already decided the race.                                                  *)
NoCollision == \A p \in Resolvers : pc[p] = "link" => resolved = NoFile

(* A command that reports success has its own decision in both places; so     *)
(* approve and reject never both succeed.                                     *)
SuccessIsRecorded ==
    \A p \in Resolvers :
        pc[p] = "done" => trail = <<Resolved(p)>> /\ resolved = Resolved(p)

(* No decision carries a time past the expiry.                                *)
DecidedInTime ==
    ExpiresAt \in Nat => \A i \in DOMAIN trail : trail[i].at <= ExpiresAt

(* A finalized log keeps its anchor: no resolution is chained behind it,      *)
(* unless a resolver went ahead without having read the session's status.     *)
AnchorKept ==
    ~session.live => \/ session.anchored = Len(trail)
                     \/ \E i \in DOMAIN trail : trail[i].by \in blind

(* A viewer that shows a resolved approval shows the event that resolved it.  *)
ShownIsRecorded ==
    \A v \in Viewers :
        pc[v] = "done" /\ shown[v].as \in Decisions =>
            \E i \in DOMAIN shown[v].events :
                shown[v].events[i].decision = shown[v].as

(* A recorded decision is mirrored, and the request leaves the pending side,  *)
(* unless the command that recorded it dies or one of its writes fails.       *)
DecisionLands ==
    \A p \in Resolvers :
        (trail # <<>> /\ trail[1].by = p) ~>
            \/ resolved # NoFile /\ (~pending \/ faults > 0)
            \/ pc[p] \in {"dead", "failed"}
-----------------------------------------------------------------------------
(* The inductive invariant.                                                   *)

HoldsLock(p) == pc[p] \in Locked => lock = p

(* Past the fence nothing is decided yet, and the time taken is in time.      *)
Fenced(p) ==
    pc[p] \in {"status", "append"} =>
        /\ trail = <<>>
        /\ ExpiresAt \in Nat => now[p] <= ExpiresAt

StatusFenced(p) == pc[p] = "append" => session.live \/ p \in blind

(* Once it appended, the log holds the command's resolution and no other.     *)
Recorded(p) ==
    pc[p] \in {"release", "link", "unlink", "done"} => trail = <<Resolved(p)>>

Unmirrored(p) == pc[p] \in {"release", "link"} => resolved = NoFile

Mirrored(p) == pc[p] \in {"unlink", "done"} => resolved = Resolved(p)

(* A viewer past a resolved file, or the log of one, has the event in reach.  *)
ShownMirrors(v) ==
    shown[v].as \in Decisions =>
        /\ pc[v] = "events" => trail # <<>> /\ trail[1].decision = shown[v].as
        /\ pc[v] = "done" =>
            shown[v].events # <<>> /\ shown[v].events[1].decision = shown[v].as

IInv ==
    /\ TypeOK
    /\ OneResolution
    /\ MirrorAgrees
    /\ NeverGone
    /\ DecidedInTime
    /\ AnchorKept
    /\ \A p \in Resolvers :
        /\ HoldsLock(p)
        /\ Fenced(p)
        /\ StatusFenced(p)
        /\ Recorded(p)
        /\ Unmirrored(p)
        /\ Mirrored(p)
    /\ \A v \in Viewers : ShownMirrors(v)
=============================================================================
