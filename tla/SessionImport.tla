---------------------------- MODULE SessionImport ---------------------------
(* The sessions imported from one source: the native log of one session of    *)
(* another tool, which grows while basou imports it.  `basou import`,         *)
(* `import --force` and `session rechain` commands come one after the other   *)
(* and at the same time; each write of a file is a step of its own, and so is *)
(* everything a command reads without holding the session lock.               *)
(*                                                                            *)
(* A log is the set of its events: their order is that of their times.  The   *)
(* chain over them is whether the lines carry hashes and whether those link   *)
(* up (module ChainLog); the anchor stands for the events it was taken of.    *)
EXTENDS Naturals, Sequences, FiniteSets, FiniteSetsExt

CONSTANTS
    Importers,     \* the processes of `basou import`, run again and again
    Others,        \* processes of one command more
    Kinds,         \* what those may be: "import", "force", "rechain"
    Histories,     \* what earlier versions of basou may have left in the store
    Copies,        \* the records the source copied from an older transcript
    Free,          \* a session lock is not held
    MaxLength,     \* bound on the records of the source
    MaxSessions,   \* bound on the sessions ever made
    MaxFaults      \* bound on crashes, failed writes, edits of the log or the
                   \* source by hand, and the loss of an older transcript

Procs == Importers \cup Others

ASSUME CommandsDistinct == Importers \cap Others = {} /\ Free \notin Procs
ASSUME KindsKnown == Kinds # {} /\ Kinds \subseteq {"import", "force", "rechain"}
ASSUME HistoriesKnown ==
    Histories # {} /\ Histories \subseteq {"new", "unchained", "unsized", "copies"}
ASSUME BoundsNat ==
    /\ Copies \in Nat /\ MaxLength \in Nat /\ MaxFaults \in Nat
    /\ MaxSessions \in Nat \ {0}

Sids == 1 .. MaxSessions

(* What an event says: its kind and time, and, as events of one kind and time *)
(* are matched first in, first out, which of those it is.                     *)
Content(kind, at, nth) == [kind |-> kind, at |-> at, nth |-> nth]
Roles == {"started", "ended"}
DerivedKinds == Roles \cup {"middle"}

(* A fresh ULID: the write that minted it and what it was minted for.         *)
Event(write, content) == [id |-> <<write, content>>, says |-> content]
Derived(events) == {e \in events : e.says.kind \in DerivedKinds}

NoLog == [events |-> {}, chained |-> FALSE, intact |-> TRUE]
NoAnchor == [set |-> FALSE, events |-> {}]
NoYaml == [there |-> FALSE, size |-> 0, started |-> 0, linked |-> FALSE,
           anchor |-> NoAnchor]
NoSession == [dir |-> FALSE, log |-> NoLog, yaml |-> NoYaml]

(* source_size_bytes is absent in sessions older than the field.              *)
NoSize == 0

ChainedLog(events) == [events |-> events, chained |-> events # {}, intact |-> TRUE]
AnchorOf(events) == [set |-> events # {}, events |-> events]

VARIABLES
    source,    \* the times of the source's records
    older,     \* is the transcript it copied from still there?
    sessions,  \* the session directories
    locks,     \* the session locks
    pc,        \* what each command does next
    kind,      \* what command it is
    mem,       \* what it has read
    made,      \* the sessions made so far
    stamp,     \* the writes that minted ids so far
    faults,    \* what MaxFaults bounds, so far
    ghost      \* history: what happened to the store from outside

vars == <<source, older, sessions, locks, pc, kind, mem, made, stamp, faults, ghost>>

NoMem == [left |-> {}, priors |-> {}, older |-> FALSE, target |-> 0,
          reason |-> "none", payload |-> {}, size |-> 0, started |-> 0,
          leftOut |-> FALSE, next |-> NoLog, yaml |-> NoYaml, raw |-> NoLog]

NoGhost == [forged |-> {}, cut |-> {}, overlapped |-> FALSE, rewritten |-> FALSE]

-----------------------------------------------------------------------------
(* What an adapter makes of the source.                                       *)

(* The nth of the chosen records that carries its time.                       *)
Nth(s, chosen, k) == Cardinality({j \in chosen : j <= k /\ s[j] = s[k]})

Contents(s, chosen) ==
    {Content("middle", s[k], Nth(s, chosen, k)) : k \in chosen}
    \cup {Content("started", s[Min(chosen)], 1), Content("ended", s[Max(chosen)], 1)}

(* Mutant: what an earlier import left out is not remembered.                 *)
OwnForgetful(s, copied, notBefore) == {k \in DOMAIN s : ~(copied /\ k <= Copies)}

(* claudeTranscriptOwnRecords: without the copies an older transcript can     *)
(* name, and without what is older than the session imported before.          *)
Own(s, copied, notBefore) ==
    {k \in DOMAIN s : ~(copied /\ k <= Copies) /\ s[k] >= notBefore}

(* The time of the copied records; 0 where nothing was copied.                *)
CopyTime == IF Copies = 0 THEN 0 ELSE 1

-----------------------------------------------------------------------------
(* What verify says of a session at rest.                                     *)
Verdict(s) ==
    LET log == s.log
        anchor == s.yaml.anchor
    IN
    CASE ~log.chained /\ anchor.set -> "tampered"
      [] ~log.chained /\ ~anchor.set ->
            IF log.events = {} THEN "empty" ELSE "unchained"
      [] log.chained /\ ~log.intact -> "tampered"
      [] log.chained /\ log.intact /\ ~s.yaml.there -> "incomplete"
      [] OTHER -> IF anchor = AnchorOf(log.events) THEN "verified" ELSE "tampered"

-----------------------------------------------------------------------------
(* Re-keying a fresh derivation onto the session it is imported into.         *)

(* started and ended are matched by role, the others by their content.        *)
Matches(prior, content) ==
    /\ prior.says.kind = content.kind
    /\ content.kind \in Roles \/ prior.says = content

(* Mutant: events are matched by kind and time, without taking turns.         *)
RekeyedByTime(prior, contents, write) ==
    {LET same == {e \in prior : e.says.kind = c.kind /\ e.says.at = c.at} IN
     IF same # {} THEN [id |-> (CHOOSE e \in same : TRUE).id, says |-> c]
     ELSE Event(write, c) : c \in contents}

Rekeyed(prior, contents, write) ==
    {LET same == {e \in prior : Matches(e, c)} IN
     IF same # {} THEN [id |-> (CHOOSE e \in same : TRUE).id, says |-> c]
     ELSE Event(write, c) : c \in contents}

(* Mutant: a prior event that is not derived again is let go.                 *)
RefusedNever(prior, contents, dropBefore) == {}

(* The prior events whose ids would vanish and may not.                       *)
Refused(prior, contents, dropBefore) ==
    {e \in prior : /\ \A c \in contents : ~Matches(e, c)
                   /\ ~(e.says.kind = "middle" /\ e.says.at < dropBefore)}

-----------------------------------------------------------------------------
Over == {"done", "skipped", "failed", "dead"}
Locked == {"judge", "merge", "events", "yaml", "restore", "release", "give_up", "throw"}
PCs == {"load", "scan", "classify", "derive", "lock", "remove", "mkdir", "bulk",
        "link", "cleanup"} \cup Locked \cup Over

Goto(p, label) == pc' = [pc EXCEPT ![p] = label]

(* A command that ends forgets what it has read.                              *)
End(p, label) == Goto(p, label) /\ mem' = [mem EXCEPT ![p] = NoMem]
Target(p) == mem[p].target
Set(i, s) == sessions' = [sessions EXCEPT ![i] = s]

Holds(p, i) == locks[i] = p /\ pc[p] \in Locked /\ Target(p) = i
(* The lock of a process that is gone is free for the taking.                 *)
Available(i) == \A p \in Procs : ~Holds(p, i)

Recorded(events, s, chained, anchored) ==
    [dir |-> TRUE,
     log |-> [events |-> events, chained |-> chained, intact |-> TRUE],
     yaml |-> [there |-> TRUE, size |-> s, started |-> source[1], linked |-> TRUE,
               anchor |-> IF anchored THEN AnchorOf(events) ELSE NoAnchor]]

(* A session an earlier version imported, from all the records there were.    *)
Former(history) ==
    LET derived == {Event(0, c) : c \in Contents(source, DOMAIN source)}
        human == Event(0, Content("human", source[1], 1))
    IN
    CASE history = "new" -> NoSession
      [] history = "unchained" ->
            Recorded(derived \cup {human}, Len(source), FALSE, FALSE)
      [] history = "unsized" -> Recorded(derived, NoSize, TRUE, TRUE)
      [] history = "copies" -> Recorded(derived, Len(source), TRUE, TRUE)

Init ==
    /\ source = [k \in 1 .. Copies + 1 |-> IF k <= Copies THEN 1 ELSE 2]
    /\ older = (Copies > 0)
    /\ \E history \in Histories :
        /\ sessions = [i \in Sids |-> IF i = 1 THEN Former(history) ELSE NoSession]
        /\ made = IF history = "new" THEN 0 ELSE 1
    /\ locks = [i \in Sids |-> Free]
    /\ pc = [p \in Procs |-> "load"]
    /\ \E k \in [Others -> Kinds] :
        kind = [p \in Procs |-> IF p \in Importers THEN "import" ELSE k[p]]
    /\ mem = [p \in Procs |-> NoMem]
    /\ stamp = 1
    /\ faults = 0
    /\ ghost = NoGhost

outside == <<source, older, kind>>
store == <<sessions, made, stamp>>

-----------------------------------------------------------------------------
(* `basou import`: the store is read without any lock.                        *)

Running(p) == pc[p] \notin Over \cup {"load"}

Load(p) ==
    /\ pc[p] = "load" /\ kind[p] # "rechain"
    /\ mem' = [mem EXCEPT ![p].left = {i \in Sids : sessions[i].dir}]
    /\ ghost' = [ghost EXCEPT !.overlapped =
                    @ \/ \E q \in Procs \ {p} : kind[q] # "rechain" /\ Running(q)]
    /\ Goto(p, "scan")
    /\ UNCHANGED <<outside, store, locks, faults>>

(* A session whose session.yaml cannot be read is passed over.                *)
Scan(p) ==
    /\ pc[p] = "scan"
    /\ \E i \in mem[p].left :
        LET yaml == sessions[i].yaml IN
        mem' = [mem EXCEPT
                  ![p].left = mem[p].left \ {i},
                  ![p].priors = mem[p].priors \cup
                      (IF yaml.there
                       THEN {[sid |-> i, size |-> yaml.size, started |-> yaml.started]}
                       ELSE {})]
    /\ UNCHANGED <<outside, store, locks, pc, faults, ghost>>

(* The transcripts of the conversation are listed.                            *)
ScanEnds(p) ==
    /\ pc[p] = "scan" /\ mem[p].left = {}
    /\ mem' = [mem EXCEPT ![p].older = older]
    /\ Goto(p, "classify")
    /\ UNCHANGED <<outside, store, locks, faults, ghost>>

(* Mutant: a source that was imported before is left alone.                   *)
ReasonNewOnly(p) == IF mem[p].priors = {} \/ kind[p] = "force" THEN "new" ELSE "none"

(* Mutant: a source that was imported before is imported again.               *)
ReasonAlwaysNew(p) == "new"

(* classifyReimport, by the number of earlier sessions and a stat of the      *)
(* source; --force and a first import go ahead whatever that says.            *)
Reason(p) ==
    LET priors == mem[p].priors
        prior == CHOOSE q \in priors : TRUE
        size == Len(source)
    IN
    CASE kind[p] = "force" \/ priors = {} -> "new"
      [] kind[p] = "import" /\ Cardinality(priors) = 1 /\ prior.size # NoSize ->
            IF size > prior.size THEN "grew"
            ELSE IF size = prior.size /\ mem[p].older /\ prior.started <= source[1]
            THEN "holds_copies"
            ELSE "none"
      [] OTHER -> "none"

Classify(p) ==
    /\ pc[p] = "classify"
    /\ LET reason == Reason(p) IN
        IF reason = "none" THEN End(p, "skipped")
        ELSE mem' = [mem EXCEPT ![p].reason = reason] /\ Goto(p, "derive")
    /\ UNCHANGED <<outside, store, locks, faults, ghost>>

(* Where the earlier sessions begin.                                          *)
EarliestStart(priors) == IF priors = {} THEN 0 ELSE Min({q.started : q \in priors})

(* The source is read, perhaps longer or shorter than it was stat'ed; the     *)
(* size read is compared once more.                                           *)
Derive(p) ==
    /\ pc[p] = "derive"
    /\ LET m == mem[p]
           prior == CHOOSE q \in m.priors : TRUE
           own == Own(source, m.older /\ older, EarliestStart(m.priors))
           leftOut == own # DOMAIN source
           size == Len(source)
           again == m.reason \in {"grew", "holds_copies"}
           stop == \/ own = {}
                   \/ m.reason = "holds_copies" /\ (~leftOut \/ size < prior.size)
                   \/ m.reason = "grew" /\ size <= prior.size
       IN
       IF stop THEN End(p, "skipped")
       ELSE /\ mem' = [mem EXCEPT ![p] =
                         [NoMem EXCEPT
                            !.payload = Contents(source, own),
                            !.size = size,
                            !.started = source[Min(own)],
                            !.leftOut = leftOut,
                            !.target = IF again THEN prior.sid ELSE 0,
                            !.left = IF again THEN {} ELSE {q.sid : q \in m.priors}]]
            /\ Goto(p, IF again THEN "lock"
                       ELSE IF kind[p] = "force" /\ m.priors # {} THEN "remove"
                       ELSE "mkdir")
    /\ UNCHANGED <<outside, store, locks, faults, ghost>>

(* --force: the earlier sessions are removed, whoever may hold their locks.   *)
Remove(p) ==
    /\ pc[p] = "remove"
    /\ \E i \in mem[p].left :
        /\ Set(i, NoSession)
        /\ mem' = [mem EXCEPT ![p].left = @ \ {i}]
        /\ ghost' = [ghost EXCEPT !.forged = @ \ {i}, !.cut = @ \ {i}]
        /\ IF mem[p].left = {i} THEN Goto(p, "mkdir") ELSE UNCHANGED pc
    /\ UNCHANGED <<outside, locks, made, stamp, faults>>

-----------------------------------------------------------------------------
(* importSessionFromJson: a session of its own.                               *)
MakeDirectory(p) ==
    /\ pc[p] = "mkdir"
    /\ made < MaxSessions
    /\ made' = made + 1
    /\ mem' = [mem EXCEPT ![p].target = made']
    /\ Set(made', [NoSession EXCEPT !.dir = TRUE])
    /\ Goto(p, "bulk")
    /\ UNCHANGED <<outside, locks, stamp, faults, ghost>>

NewEvents(p) == {Event(stamp, c) : c \in mem[p].payload}

YamlOf(p, events, linked) ==
    [there |-> TRUE, size |-> mem[p].size, started |-> mem[p].started,
     linked |-> linked, anchor |-> AnchorOf(events)]

WriteBulk(p) ==
    /\ pc[p] = "bulk"
    /\ Set(Target(p), [sessions[Target(p)] EXCEPT !.log = ChainedLog(NewEvents(p))])
    /\ stamp' = stamp + 1
    /\ Goto(p, "link")
    /\ UNCHANGED <<outside, made, locks, mem, faults, ghost>>

LinkYaml(p) ==
    /\ pc[p] = "link"
    /\ LET s == sessions[Target(p)] IN
        Set(Target(p), [s EXCEPT !.yaml = YamlOf(p, s.log.events, FALSE)])
    /\ End(p, "done")
    /\ UNCHANGED <<outside, made, stamp, locks, faults, ghost>>

(* A session that could not be written is taken back, if the disk lets it.    *)
Cleanup(p) ==
    /\ pc[p] = "cleanup"
    /\ Set(Target(p), NoSession) \/ UNCHANGED sessions
    /\ End(p, "failed")
    /\ UNCHANGED <<outside, made, stamp, locks, faults, ghost>>

-----------------------------------------------------------------------------
(* reimportPreservingId and rechainSessionInPlace, under the session lock.    *)

Choose(p) ==
    /\ pc[p] = "load" /\ kind[p] = "rechain"
    /\ \E i \in Sids :
        /\ sessions[i].dir
        /\ mem' = [mem EXCEPT ![p].target = i]
    /\ Goto(p, "lock")
    /\ UNCHANGED <<outside, store, locks, faults, ghost>>

Lock(p) ==
    /\ pc[p] = "lock"
    /\ IF Available(Target(p))
       THEN locks' = [locks EXCEPT ![Target(p)] = p] /\ Goto(p, "judge") /\ UNCHANGED mem
       ELSE End(p, "failed") /\ UNCHANGED locks
    /\ UNCHANGED <<outside, store, faults, ghost>>

(* Mutant: the log is not verified first.                                     *)
JudgeTrusting(p) ==
    /\ pc[p] = "judge"
    /\ Goto(p, IF kind[p] = "rechain" /\ sessions[Target(p)].log.chained
               THEN "give_up" ELSE "merge")
    /\ UNCHANGED <<outside, store, locks, mem, faults, ghost>>

(* A tampered log is not re-imported; only an unchained one is re-chained.    *)
Judge(p) ==
    /\ pc[p] = "judge"
    /\ LET s == sessions[Target(p)]
           open == IF kind[p] = "rechain" THEN s.yaml.there /\ Verdict(s) = "unchained"
                   ELSE Verdict(s) # "tampered"
       IN  Goto(p, IF open THEN "merge" ELSE "give_up")
    /\ UNCHANGED <<outside, store, locks, mem, faults, ghost>>

MergedYaml(p, yaml, events) == YamlOf(p, events, yaml.linked)

(* Events of people and of unknown sources are carried over.                  *)
Preserved(events) == events \ Derived(events)

(* What will be written is worked out from what is there: nobody else writes  *)
(* under the lock, but --force may have removed the session.                  *)
Merge(p) ==
    /\ pc[p] = "merge" /\ kind[p] # "rechain"
    /\ LET s == sessions[Target(p)]
           prior == Derived(s.log.events)
           m == mem[p]
           events == Rekeyed(prior, m.payload, stamp) \cup Preserved(s.log.events)
       IN
       CASE Refused(prior, m.payload, IF m.leftOut THEN m.started ELSE 0) # {} ->
                Goto(p, "give_up") /\ UNCHANGED <<mem, stamp>>
         [] Refused(prior, m.payload, IF m.leftOut THEN m.started ELSE 0) = {}
              /\ ~s.yaml.there -> Goto(p, "throw") /\ UNCHANGED <<mem, stamp>>
         [] OTHER ->
                /\ mem' = [mem EXCEPT ![p] =
                             [NoMem EXCEPT
                                !.target = m.target, !.started = m.started, !.leftOut = m.leftOut,
                                !.next = ChainedLog(events),
                                !.yaml = MergedYaml(p, s.yaml, events),
                                !.raw = s.log]]
                /\ stamp' = stamp + 1
                /\ Goto(p, "events")
    /\ UNCHANGED <<outside, sessions, made, locks, faults, ghost>>

(* The lines are kept as they are; only prev_hash is added.                   *)
Rechain(p) ==
    /\ pc[p] = "merge" /\ kind[p] = "rechain"
    /\ LET s == sessions[Target(p)] IN
        mem' = [mem EXCEPT ![p].next = ChainedLog(s.log.events),
                           ![p].yaml = [s.yaml EXCEPT !.anchor = AnchorOf(s.log.events)],
                           ![p].raw = s.log]
    /\ Goto(p, "events")
    /\ UNCHANGED <<outside, store, locks, faults, ghost>>

(* Two atomic replacements, one after the other.                              *)
WriteEvents(p) ==
    /\ pc[p] = "events"
    /\ LET s == sessions[Target(p)] IN
        IF s.dir THEN Set(Target(p), [s EXCEPT !.log = mem[p].next]) /\ Goto(p, "yaml")
        ELSE Goto(p, "throw") /\ UNCHANGED sessions
    /\ UNCHANGED <<outside, made, stamp, locks, mem, faults, ghost>>

WriteYaml(p) ==
    /\ pc[p] = "yaml"
    /\ LET s == sessions[Target(p)] IN
        IF s.dir THEN Set(Target(p), [s EXCEPT !.yaml = mem[p].yaml]) /\ Goto(p, "release")
        ELSE Goto(p, "restore") /\ UNCHANGED sessions
    /\ UNCHANGED <<outside, made, stamp, locks, mem, faults, ghost>>

(* The log is left new and its anchor old, unless the log is as it was.       *)
CutShort(p) ==
    IF mem[p].next = mem[p].raw THEN ghost
    ELSE [ghost EXCEPT !.cut = @ \cup {Target(p)}]

(* session.yaml could not be written: the bytes of the log are put back.      *)
Restore(p) ==
    /\ pc[p] = "restore"
    /\ LET s == sessions[Target(p)] IN
        IF s.dir THEN Set(Target(p), [s EXCEPT !.log = mem[p].raw]) ELSE UNCHANGED sessions
    /\ Goto(p, "throw")
    /\ UNCHANGED <<outside, made, stamp, locks, mem, faults, ghost>>

(* The disk that refused session.yaml refuses the log too; nobody is told.    *)
RestoreFails(p) ==
    /\ pc[p] = "restore"
    /\ ghost' = CutShort(p)
    /\ Goto(p, "throw")
    /\ UNCHANGED <<outside, store, locks, mem, faults>>

Release(p) ==
    /\ pc[p] \in {"release", "give_up", "throw"}
    /\ locks' = [locks EXCEPT ![Target(p)] = IF @ = p THEN Free ELSE @]
    /\ End(p, CASE pc[p] = "release" -> "done"
                [] pc[p] = "give_up" -> "skipped"
                [] pc[p] = "throw" -> "failed")
    /\ UNCHANGED <<outside, store, faults, ghost>>

(* The user, or `refresh`, imports again.                                     *)
Again(p) ==
    /\ p \in Importers /\ pc[p] \in Over
    /\ Goto(p, "load")
    /\ UNCHANGED <<outside, store, locks, mem, faults, ghost>>

-----------------------------------------------------------------------------
(* What happens to the source.                                                *)

Fault == faults < MaxFaults /\ faults' = faults + 1

Grow ==
    /\ Len(source) < MaxLength
    /\ \E at \in {source[Len(source)], source[Len(source)] + 1} :
        source' = Append(source, at)
    /\ UNCHANGED <<older, kind, store, locks, pc, mem, faults, ghost>>

(* The source is rotated or edited: a record of its own is gone.              *)
Rewrite ==
    /\ \E k \in DOMAIN source :
        /\ k > Copies /\ Len(source) > Copies + 1
        /\ source' = [j \in 1 .. Len(source) - 1 |->
                          IF j < k THEN source[j] ELSE source[j + 1]]
    /\ Fault
    /\ ghost' = [ghost EXCEPT !.rewritten = TRUE]
    /\ UNCHANGED <<older, kind, store, locks, pc, mem>>

(* The transcript the copies came from is cleaned up.                         *)
OlderGone ==
    /\ older
    /\ Fault
    /\ older' = FALSE
    /\ UNCHANGED <<source, kind, store, locks, pc, mem, ghost>>

-----------------------------------------------------------------------------
Crash(p) ==
    /\ Running(p)
    /\ Fault
    /\ End(p, "dead")
    /\ ghost' = IF pc[p] \in {"yaml", "restore"} THEN CutShort(p) ELSE ghost
    /\ UNCHANGED <<outside, store, locks>>

(* A write fails and leaves what was there.                                   *)
WriteFails(p) ==
    /\ \/ pc[p] = "mkdir" /\ End(p, "failed")
       \/ pc[p] \in {"bulk", "link"} /\ Goto(p, "cleanup") /\ UNCHANGED mem
       \/ pc[p] = "events" /\ Goto(p, "throw") /\ UNCHANGED mem
       \/ pc[p] = "yaml" /\ Goto(p, "restore") /\ UNCHANGED mem
    /\ Fault
    /\ UNCHANGED <<outside, store, locks, ghost>>

(* Somebody adds a line to a chained log by hand, while no command has it     *)
(* locked, with or without recomputing the hashes.                            *)
Forge(i) ==
    /\ sessions[i].yaml.there /\ sessions[i].log.chained /\ Available(i)
    /\ Fault
    /\ \E intact \in BOOLEAN :
        LET forged == Event(0, Content("forged", i, 1)) IN
        Set(i, [sessions[i] EXCEPT
                  !.log = [events |-> sessions[i].log.events \cup {forged},
                           chained |-> TRUE, intact |-> intact]])
    /\ ghost' = [ghost EXCEPT !.forged = @ \cup {i}]
    /\ UNCHANGED <<outside, made, stamp, locks, pc, mem>>

-----------------------------------------------------------------------------
Import(p) ==
    \/ Load(p) \/ Scan(p) \/ ScanEnds(p) \/ Classify(p) \/ Derive(p) \/ Remove(p)
    \/ MakeDirectory(p) \/ WriteBulk(p) \/ LinkYaml(p) \/ Cleanup(p)

InPlace(p) ==
    \/ Choose(p) \/ Lock(p) \/ Judge(p) \/ Merge(p) \/ Rechain(p)
    \/ WriteEvents(p) \/ WriteYaml(p) \/ Restore(p) \/ RestoreFails(p)
    \/ Release(p)

Step(p) == Import(p) \/ InPlace(p)

Next ==
    \/ \E p \in Procs : Step(p) \/ Again(p) \/ Crash(p) \/ WriteFails(p)
    \/ \E i \in Sids : Forge(i)
    \/ Grow \/ Rewrite \/ OlderGone

Spec == Init /\ [][Next]_vars

(* Commands that run go on, and the source is imported again and again.       *)
FairSpec == Spec /\ \A p \in Procs : WF_vars(Step(p)) /\ WF_vars(Again(p))

-----------------------------------------------------------------------------
TypeOK ==
    /\ pc \in [Procs -> PCs]
    /\ locks \in [Sids -> Procs \cup {Free}]
    /\ made \in 0 .. MaxSessions
    /\ \A p \in Procs : mem[p].target \in 0 .. made /\ mem[p].left \subseteq 1 .. made
    /\ \A i \in Sids : sessions[i].dir => i <= made

Readable(i) == sessions[i].yaml.there
AtRest(i) == Readable(i) /\ Available(i)

(* An event once recorded keeps its id and stays in its session, and that     *)
(* session its link to a task, however often the source is imported again.    *)
(* What may go is what the source copied from an older one: the events before *)
(* the first record that is its own.  A rewrite that failed is put back.      *)
LetGo(i, e) ==
    /\ e.says.kind = "middle"
    /\ \E p \in Procs : /\ pc[p] = "events" /\ Target(p) = i
                        /\ mem[p].leftOut /\ e.says.at < mem[p].started
                        /\ e.says.at <= CopyTime \/ ghost.rewritten

IdsKept ==
    [][\A i \in Sids :
        \/ ~sessions[i].dir \/ ~sessions'[i].dir
        \/ \E p \in Procs : pc[p] = "restore" /\ Target(p) = i
        \/ /\ sessions[i].yaml.linked => sessions'[i].yaml.linked
           /\ \A e \in sessions[i].log.events :
                \/ LetGo(i, e)
                \/ \E f \in sessions'[i].log.events :
                    f.id = e.id /\ Matches(e, f.says)]_vars

(* No two events of the store have one id.                                    *)
IdsUnique ==
    \A i, j \in Sids :
        \A e \in sessions[i].log.events, f \in sessions[j].log.events :
            e.id = f.id => i = j /\ e = f

(* A log edited by hand, or cut short between its two writes, stays what      *)
(* verify calls tampered: no command chains it anew, only --force removes it. *)
NoLaundering ==
    \A i \in ghost.forged \cup ghost.cut : AtRest(i) => Verdict(sessions[i]) = "tampered"

(* Failed writes and deaths anywhere else leave the two files of a session    *)
(* telling the same.                                                          *)
FilesAgree ==
    \A i \in Sids \ (ghost.forged \cup ghost.cut) :
        AtRest(i) => Verdict(sessions[i]) \in {"verified", "unchained"}

(* At rest a session reads as tampered if and only if something happened to   *)
(* it, however many commands went over it since.                              *)
VerdictsTrue == NoLaundering /\ FilesAgree

(* One source is one session, unless two imports of it overlapped.            *)
OneSession == ghost.overlapped \/ Cardinality({i \in Sids : Readable(i)}) <= 1

(* What was copied from an older transcript does not come back into a session *)
(* imported without it, also when that transcript is gone - unless two        *)
(* imports overlapped, and one went by a session.yaml the other replaced.     *)
CopiesStayOut ==
    [][\A i \in Sids :
        /\ ~ghost.overlapped
        /\ sessions[i].yaml.there /\ sessions[i].yaml.started > CopyTime
        /\ sessions'[i].dir
        => \A e \in Derived(sessions'[i].log.events) : e.says.at > CopyTime]_vars

(* In the end what the source says is imported, unless it was not appended    *)
(* to but rewritten, the log was edited or cut, or the store has two sessions *)
(* of it or one without a size.                                               *)
Excused ==
    \/ ghost.overlapped \/ ghost.rewritten
    \/ ghost.forged # {} \/ ghost.cut # {}
    \/ \E i \in Sids : Readable(i) /\ sessions[i].yaml.size = NoSize

CaughtUp ==
    <>[](\/ Excused
         \/ \E i \in Sids : Readable(i) /\ sessions[i].yaml.size = Len(source))

=============================================================================
