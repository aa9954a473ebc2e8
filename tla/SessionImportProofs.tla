------------------------- MODULE SessionImportProofs -------------------------
(* The proofs about the sessions imported from one source: the inductive      *)
(* invariant Fits and what follows from it, for any number of importers and   *)
(* of other commands, any source, and any bounds on sessions and faults.      *)
EXTENDS SessionImport, FiniteSetTheorems, WellFoundedInduction, TLAPS

-----------------------------------------------------------------------------
(* The values the variables take.                                             *)
EventKinds == DerivedKinds \cup {"human", "forged"}
Says == [kind : EventKinds, at : Nat, nth : Nat]
Events == [id : Nat \X Says, says : Says]
Logs == [events : SUBSET Events, chained : BOOLEAN, intact : BOOLEAN]
Anchors == [set : BOOLEAN, events : SUBSET Events]
Yamls == [there : BOOLEAN, size : Nat, started : Nat, linked : BOOLEAN, anchor : Anchors]
Sessions == [dir : BOOLEAN, log : Logs, yaml : Yamls]
Priors == [sid : Sids, size : Nat, started : Nat]
Reasons == {"none", "new", "grew", "holds_copies"}
Mems == [left : SUBSET Sids, priors : SUBSET Priors, older : BOOLEAN, target : Sids \cup {0},
         reason : Reasons, payload : SUBSET Says, size : Nat, started : Nat,
         leftOut : BOOLEAN, next : Logs, yaml : Yamls, raw : Logs]
Ghosts == [forged : SUBSET Sids, cut : SUBSET Sids, overlapped : BOOLEAN, rewritten : BOOLEAN]

Typed ==
    /\ source \in Seq(Nat) /\ older \in BOOLEAN
    /\ sessions \in [Sids -> Sessions]
    /\ locks \in [Sids -> Procs \cup {Free}]
    /\ pc \in [Procs -> PCs]
    /\ kind \in [Procs -> {"import", "force", "rechain"}]
    /\ mem \in [Procs -> Mems]
    /\ made \in 0 .. MaxSessions /\ stamp \in Nat \ {0}
    /\ ghost \in Ghosts

(* Where a command is.                                                        *)
Making == {"bulk", "link", "cleanup"}
Replacing == {"yaml", "restore"}
Writing == {"events"} \cup Replacing

Unlocked == {"scan", "classify", "derive", "remove", "mkdir"} \cup Making

(* A command knows a session it read the session.yaml of.                     *)
KnowsTarget(p) ==
    \/ kind[p] # "rechain" /\ pc[p] \in Locked \cup {"lock"}
    \/ pc[p] \in {"merge", "release"} \cup Writing

Knows(p, i) ==
    \/ \E q \in mem[p].priors : q.sid = i
    \/ pc[p] = "remove" /\ i \in mem[p].left
    \/ KnowsTarget(p) /\ Target(p) = i

(* What a command has in mind fits where it is.                               *)
CommandFits(p) ==
    LET m == mem[p] IN
    /\ pc[p] \in Over \cup {"load"} => m = NoMem
    /\ pc[p] \in Unlocked => kind[p] # "rechain"
    /\ pc[p] \in Locked => locks[m.target] = p
    /\ pc[p] \in Locked \cup Making \cup {"lock"} => m.target \in 1 .. made
    /\ pc[p] \notin Locked \cup Making \cup {"lock"} => m.target = 0
    /\ pc[p] \in {"remove", "mkdir", "bulk"} => m.payload # {}
    /\ kind[p] # "rechain" /\ pc[p] \in {"lock", "judge", "merge"} => m.payload # {}
    /\ pc[p] \notin Writing \cup {"release", "throw"} => m.next = NoLog /\ m.raw = NoLog
    /\ pc[p] = "derive" => m.reason # "none"
    /\ pc[p] = "derive" /\ m.reason = "new" => kind[p] = "force" \/ m.priors = {}
    /\ pc[p] = "derive" /\ m.reason # "new" => m.priors # {}
    /\ m.left \subseteq 1 .. made
    /\ \A i \in Sids : Knows(p, i) =>
          i <= made /\ (sessions[i].dir => sessions[i].yaml.there)

CommandsFit == \A p \in Procs : CommandFits(p)

(* A session in the making is its maker's alone.                              *)
MakersAlone ==
    \A p \in Procs :
        pc[p] \in Making =>
            LET s == sessions[Target(p)] IN
            /\ s.dir /\ s.yaml = NoYaml
            /\ pc[p] = "bulk" => s.log = NoLog
            /\ pc[p] = "link" => s.log.chained /\ s.log.intact /\ s.log.events # {}
            /\ \A q \in Procs \ {p} : pc[q] \in Making => Target(q) # Target(p)

SessionsFit ==
    \A i \in Sids :
        /\ ~sessions[i].dir => sessions[i] = NoSession
        /\ sessions[i].dir => i <= made

-----------------------------------------------------------------------------
(* Ids.                                                                       *)
Mark(i) == Event(0, Content("forged", i, 1))

(* The events of a session, and those a command is about to write to it.      *)
Pending(p) == mem[p].next.events \cup mem[p].raw.events
Owned(i) ==
    sessions[i].log.events \cup UNION {Pending(p) : p \in {q \in Procs : Target(q) = i}}

IdsFit ==
    \A i \in Sids : \A e \in Owned(i) :
        /\ e.id[1] < stamp
        /\ e.id[2].kind = e.says.kind
        /\ e.says.kind = "forged" => e = Mark(i)
        /\ \A j \in Sids : \A f \in Owned(j) : e.id = f.id => i = j

(* One event per id, one derived event per thing derived.                     *)
Tidy(events) ==
    \A e, f \in events :
        /\ e.id = f.id => e = f
        /\ e \in Derived(events) /\ f \in Derived(events) /\ Matches(e, f.says) => e = f

AllTidy ==
    /\ \A i \in Sids : Tidy(sessions[i].log.events)
    /\ \A p \in Procs : Tidy(mem[p].next.events) /\ Tidy(mem[p].raw.events)

(* The source has one start and one end.                                      *)
PayloadFits(payload) ==
    \A c \in payload :
        /\ c.kind \in DerivedKinds
        /\ \A d \in payload : c.kind \in Roles /\ c.kind = d.kind => c = d

PayloadsFit == \A p \in Procs : PayloadFits(mem[p].payload)

-----------------------------------------------------------------------------
(* Verdicts.                                                                  *)
Clean(log, yaml) ==
    /\ log.events # {}
    /\ \/ log.chained /\ log.intact /\ yaml.anchor = AnchorOf(log.events)
       \/ ~log.chained /\ yaml.anchor = NoAnchor

Broken(log, yaml) ==
    \/ log.chained /\ (~log.intact \/ yaml.anchor # AnchorOf(log.events))
    \/ ~log.chained /\ yaml.anchor.set

Marked == ghost.forged \cup ghost.cut

BetweenWrites(i) == \E p \in Procs : pc[p] \in Replacing /\ Target(p) = i

StoreFitsAt(i) ==
    sessions[i].yaml.there /\ ~BetweenWrites(i) =>
        IF i \in Marked THEN Broken(sessions[i].log, sessions[i].yaml)
        ELSE Clean(sessions[i].log, sessions[i].yaml)

StoreFits == \A i \in Sids : StoreFitsAt(i)

(* Only what has a session.yaml is marked.                                    *)
MarksFit ==
    \A i \in Marked : i <= made /\ (sessions[i].dir => sessions[i].yaml.there)

(* Nobody marks a session a command rewrites, and nobody rewrites a marked    *)
(* session.                                                                   *)
RewriteFits(p) ==
    LET m == mem[p]
        s == sessions[m.target]
    IN
    pc[p] \in {"merge"} \cup Writing /\ s.dir =>
        /\ m.target \notin Marked
        /\ pc[p] \in Writing =>
              /\ m.next.chained /\ m.next.intact /\ m.next.events # {}
              /\ m.yaml.there /\ m.yaml.anchor = AnchorOf(m.next.events)
              /\ m.yaml.linked = s.yaml.linked
              /\ Clean(m.raw, s.yaml)
              /\ s.log = IF pc[p] = "events" THEN m.raw ELSE m.next

RewritesFit == \A p \in Procs : RewriteFits(p)

(* No anchor was ever taken of a forged event.                                *)
ForgedApart ==
    /\ \A i \in Sids :
        /\ Mark(i) \notin sessions[i].yaml.anchor.events
        /\ i \notin ghost.forged => Mark(i) \notin sessions[i].log.events
    /\ \A p \in Procs :
        pc[p] \in Writing =>
            /\ Mark(Target(p)) \notin Pending(p)
            /\ Mark(Target(p)) \notin mem[p].yaml.anchor.events

-----------------------------------------------------------------------------
(* One session.                                                               *)
Importing(p) == kind[p] # "rechain" /\ Running(p)

(* What an import that runs alone makes of the sessions there are.            *)
Sees(p, i) ==
    /\ pc[p] = "scan" => i \in mem[p].left \/ \E q \in mem[p].priors : q.sid = i
    /\ pc[p] \in {"classify", "derive"} => \E q \in mem[p].priors : q.sid = i
    /\ pc[p] = "remove" => i \in mem[p].left
    /\ pc[p] \notin {"mkdir", "bulk", "link"}

Alone ==
    ~ghost.overlapped =>
        /\ \A p, q \in Procs : Importing(p) /\ Importing(q) => p = q
        /\ \A i, j \in Sids : Readable(i) /\ Readable(j) => i = j
        /\ \A p \in Procs, i \in Sids : Readable(i) => Sees(p, i)

-----------------------------------------------------------------------------
(* What is let go.                                                            *)
SourceFits ==
    /\ Len(source) > Copies
    /\ \A k \in DOMAIN source : k <= Copies => source[k] = 1
    /\ \A j, k \in DOMAIN source : j <= k => source[j] <= source[k]
    /\ ~ghost.rewritten => source[Copies + 1] = 2

StartsFit ==
    ~ghost.rewritten =>
        /\ \A i \in Sids : sessions[i].yaml.started <= 2
        /\ \A p \in Procs :
              /\ mem[p].started <= 2 /\ mem[p].yaml.started <= 2
              /\ \A q \in mem[p].priors : q.started <= 2
              /\ mem[p].leftOut => Copies > 0

MergeKeeps ==
    \A p \in Procs :
        pc[p] = "events" =>
            \A e \in mem[p].raw.events :
                \/ /\ e.says.kind = "middle"
                   /\ mem[p].leftOut /\ e.says.at < mem[p].started
                \/ \E f \in mem[p].next.events : f.id = e.id /\ Matches(e, f.says)

-----------------------------------------------------------------------------
(* What stays out.                                                            *)
OwnOnly(events) == \A e \in Derived(events) : e.says.at > CopyTime

(* Only a session that is the only one is imported into.                      *)
PriorsFit ==
    \A p \in Procs :
        /\ IsFiniteSet(mem[p].priors)
        /\ pc[p] = "derive" /\ mem[p].reason # "new" => \A q, r \in mem[p].priors : q = r

(* Nothing is imported that is older than the session is said to be.          *)
TimesFitOf(p) ==
    LET m == mem[p]
        s == sessions[m.target]
    IN
    /\ \A c \in m.payload : c.at >= m.started
    /\ pc[p] = "link" => \A e \in Derived(s.log.events) : e.says.at >= m.started
    /\ kind[p] = "rechain" /\ pc[p] \in Writing /\ s.dir => m.yaml.started = s.yaml.started

TimesFit == \A p \in Procs : TimesFitOf(p)

OwnSession(i) ==
    Readable(i) /\ sessions[i].yaml.started > CopyTime => OwnOnly(sessions[i].log.events)

OwnCommand(p) ==
    LET m == mem[p]
        s == sessions[m.target]
    IN
    /\ pc[p] \in {"scan", "classify", "derive"} =>
          \A q \in m.priors : sessions[q.sid].dir => sessions[q.sid].yaml.started = q.started
    /\ /\ kind[p] # "rechain" /\ pc[p] \in {"lock", "judge", "merge"}
       /\ s.dir /\ s.yaml.started > CopyTime
       => \A c \in m.payload : c.at > CopyTime
    /\ pc[p] \in Writing /\ s.dir =>
        /\ s.yaml.started > CopyTime \/ m.yaml.started > CopyTime => OwnOnly(m.next.events)
        /\ s.yaml.started > CopyTime => OwnOnly(m.raw.events)

NoneCopied ==
    ~ghost.overlapped => (\A i \in Sids : OwnSession(i)) /\ \A p \in Procs : OwnCommand(p)
-----------------------------------------------------------------------------
(* The smallest and the largest number of a set.                              *)
LEMMA MinExists ==
  ASSUME NEW S \in SUBSET Nat, S # {}
  PROVE  Min(S) \in S /\ \A x \in S : Min(S) <= x
<1>. DEFINE R == OpToRel(<, Nat)
<1>1. IsWellFoundedOn(R, Nat)
  BY NatLessThanWellFounded
<1>2. \A x, y \in Nat : <<x, y>> \in R <=> x < y
  BY DEF OpToRel
<1>. HIDE DEF R
<1>3. PICK m \in S : \A y \in S : ~(<<y, m>> \in R)
  BY <1>1, WFMin
<1>4. ASSUME NEW y \in S PROVE m <= y
  <2>1. <<y, m>> \in R <=> y < m
    BY <1>2
  <2>2. <<y, m>> \notin R
    BY <1>3
  <2>. QED BY <2>1, <2>2
<1>. QED BY <1>4 DEF Min

LEMMA MaxExists ==
  ASSUME NEW n \in Nat, NEW S \in SUBSET (1 .. n), S # {}
  PROVE  Max(S) \in S
<1>. DEFINE T == {n - x : x \in S}
<1>1. \A x \in S : n - x \in T /\ n - x \in Nat
  OBVIOUS
<1>2. \A y \in T : \E x \in S : y = n - x
  OBVIOUS
<1>. HIDE DEF T
<1>3. T \in SUBSET Nat /\ T # {}
  BY <1>1, <1>2
<1>4. Min(T) \in T /\ \A x \in T : Min(T) <= x
  BY <1>3, MinExists
<1>5. PICK m \in S : Min(T) = n - m
  BY <1>2, <1>4
<1>6. ASSUME NEW x \in S PROVE m >= x
  <2>1. n - m <= n - x
    BY <1>1, <1>4, <1>5
  <2>. QED BY <2>1
<1>. QED BY <1>6 DEF Max

(* What an adapter derives of a source with records of its own: something, of *)
(* kinds it derives, with one start and one end, nothing older than the first *)
(* record of its own.                                                         *)
LEMMA ContentsFit ==
  ASSUME NEW s \in Seq(Nat), NEW own \in SUBSET DOMAIN s, own # {}
  PROVE  /\ Contents(s, own) \in SUBSET Says /\ Contents(s, own) # {}
         /\ PayloadFits(Contents(s, own))
         /\ Min(own) \in own /\ \A k \in own : Min(own) <= k
         /\ s[Min(own)] \in Nat
         /\ (\A j, k \in DOMAIN s : j <= k => s[j] <= s[k])
              => \A c \in Contents(s, own) : c.at >= s[Min(own)]
<1>1. DOMAIN s = 1 .. Len(s) /\ Len(s) \in Nat
  OBVIOUS
<1>2. Min(own) \in own /\ \A k \in own : Min(own) <= k
  BY <1>1, MinExists
<1>3. Max(own) \in own
  BY <1>1, MaxExists
<1>4. \A k \in own : s[k] \in Nat
  BY <1>1
<1>5. ASSUME NEW k \in own PROVE Nth(s, own, k) \in Nat
  <2>1. IsFiniteSet(1 .. Len(s))
    BY <1>1, FS_Interval
  <2>2. {j \in own : j <= k /\ s[j] = s[k]} \subseteq 1 .. Len(s)
    BY <1>1
  <2>. QED BY <2>1, <2>2, FS_Subset, FS_CardinalityType DEF Nth
<1>6. ASSUME NEW c \in Contents(s, own)
      PROVE  \/ \E k \in own : c = Content("middle", s[k], Nth(s, own, k))
             \/ c = Content("started", s[Min(own)], 1)
             \/ c = Content("ended", s[Max(own)], 1)
  BY DEF Contents
<1>7. Content("started", s[Min(own)], 1) \in Contents(s, own)
  BY DEF Contents
<1>8. Contents(s, own) \in SUBSET Says
  BY <1>2, <1>3, <1>4, <1>5, <1>6 DEF Content, Says, EventKinds, DerivedKinds, Roles
<1>9. PayloadFits(Contents(s, own))
  BY <1>6 DEF PayloadFits, Content, DerivedKinds, Roles
<1>10. ASSUME \A j, k \in DOMAIN s : j <= k => s[j] <= s[k], NEW c \in Contents(s, own)
       PROVE  c.at >= s[Min(own)]
  <2>1. \A k \in own : s[k] >= s[Min(own)]
    BY <1>2, <1>4, <1>10
  <2>2. \E k \in own : c.at = s[k]
    BY <1>2, <1>3, <1>6 DEF Content
  <2>. QED BY <2>1, <2>2
<1>. QED BY <1>2, <1>4, <1>7, <1>8, <1>9, <1>10

(* Matching is by what is said: of a tidy log at most one event matches.      *)
LEMMA RekeyedEvents ==
  ASSUME NEW events, NEW payload, NEW write, NEW e \in Rekeyed(events, payload, write)
  PROVE  \E c \in payload :
            \/ \E f \in events : Matches(f, c) /\ e = [id |-> f.id, says |-> c]
            \/ (\A f \in events : ~Matches(f, c)) /\ e = Event(write, c)
<1>. DEFINE same(c) == {f \in events : Matches(f, c)}
<1>1. PICK c \in payload :
        e = IF same(c) # {} THEN [id |-> (CHOOSE f \in same(c) : TRUE).id, says |-> c]
            ELSE Event(write, c)
  BY DEF Rekeyed
<1>2. CASE same(c) = {}
  BY <1>1, <1>2
<1>3. CASE same(c) # {}
  <2>1. (CHOOSE f \in same(c) : TRUE) \in same(c)
    BY <1>3
  <2>. QED BY <1>1, <1>3, <2>1
<1>. QED BY <1>2, <1>3

LEMMA RekeyedOnto ==
  ASSUME NEW events, NEW payload, NEW write, NEW c \in payload
  PROVE  \E e \in Rekeyed(events, payload, write) :
            /\ e.says = c
            /\ \A f \in events : Matches(f, c) =>
                  \E g \in events : Matches(g, c) /\ e.id = g.id
<1>. DEFINE same == {f \in events : Matches(f, c)}
            e == IF same # {} THEN [id |-> (CHOOSE f \in same : TRUE).id, says |-> c]
                 ELSE Event(write, c)
<1>1. e \in Rekeyed(events, payload, write)
  BY DEF Rekeyed
<1>2. e.says = c
  BY DEF Event
<1>3. ASSUME NEW f \in events, Matches(f, c)
      PROVE  \E g \in events : Matches(g, c) /\ e.id = g.id
  <2>1. (CHOOSE g \in same : TRUE) \in same
    BY <1>3
  <2>. QED BY <1>3, <2>1
<1>. QED BY <1>1, <1>2, <1>3

(* What a re-import writes: tidy again, its old ids those of the events it    *)
(* takes over, its new ones of this write, and nothing derived that the       *)
(* source does not say.                                                       *)
LEMMA MergeFits ==
  ASSUME NEW old \in SUBSET Events, NEW payload \in SUBSET Says, NEW write \in Nat \ {0},
         Tidy(old), PayloadFits(payload), \A e \in old : e.id[1] < write,
         NEW new, new = Rekeyed(Derived(old), payload, write) \cup Preserved(old)
  PROVE  /\ new \in SUBSET Events /\ Tidy(new)
         /\ payload # {} => new # {}
         /\ \A e \in new : \/ e \in Preserved(old)
                           \/ /\ e.says \in payload
                              /\ \/ \E f \in Derived(old) :
                                        e.id = f.id /\ e.says.kind = f.says.kind
                                 \/ e = Event(write, e.says)
         /\ \A e \in Derived(new) : e.says \in payload
         /\ \A e \in old : \/ e \in Derived(old) /\ \A c \in payload : ~Matches(e, c)
                           \/ \E f \in new : f.id = e.id /\ Matches(e, f.says)
<1>. DEFINE Old(e, f) == /\ f \in Derived(old) /\ Matches(f, e.says)
                         /\ e = [id |-> f.id, says |-> e.says]
            New(e) == /\ \A f \in Derived(old) : ~Matches(f, e.says)
                      /\ e = Event(write, e.says)
<1>1. ASSUME NEW e \in new, e \notin Preserved(old)
      PROVE  e.says \in payload /\ ((\E f \in Derived(old) : Old(e, f)) \/ New(e))
  <2>1. e \in Rekeyed(Derived(old), payload, write)
    BY <1>1
  <2>2. PICK c \in payload :
          \/ \E f \in Derived(old) : Matches(f, c) /\ e = [id |-> f.id, says |-> c]
          \/ (\A f \in Derived(old) : ~Matches(f, c)) /\ e = Event(write, c)
    BY <2>1, RekeyedEvents
  <2>3. e.says = c
    BY <2>2 DEF Event
  <2>. QED BY <2>2, <2>3
<1>2. \A e \in Derived(old) : e \in old /\ e.says.kind \in DerivedKinds
  BY DEF Derived
<1>3. \A e \in Preserved(old) : e \in old /\ e.says.kind \notin DerivedKinds
  BY DEF Preserved, Derived
<1>4. \A c, d \in payload : /\ c.kind \in DerivedKinds
                            /\ c.kind \in Roles /\ c.kind = d.kind => c = d
  BY DEF PayloadFits
<1>5. \A e \in old : e \in Events /\ e.id \in Nat \X Says /\ e.says \in Says /\ e.id[1] < write
  BY DEF Events
<1>6. \A c \in payload : Event(write, c).id[1] = write /\ Event(write, c) \in Events
  BY DEF Event, Events
<1>7. new \in SUBSET Events
  <2>. SUFFICES ASSUME NEW e \in new PROVE e \in Events
    OBVIOUS
  <2>1. CASE e \in Preserved(old)
    BY <1>3, <2>1
  <2>2. CASE e \notin Preserved(old)
    BY <1>1, <1>2, <1>5, <1>6, <2>2 DEF Events
  <2>. QED BY <2>1, <2>2
<1>8. ASSUME NEW e \in Derived(new)
      PROVE  e \in new /\ e \notin Preserved(old) /\ e.says \in payload
  BY <1>1, <1>3 DEF Derived
<1>9. ASSUME NEW e \in new, NEW f \in new, e.id = f.id PROVE e = f
  <2>1. \A g, h \in old : g.id = h.id => g = h
    BY DEF Tidy
  <2>2. \A g \in new : g \in Preserved(old) \/ (\E h \in Derived(old) : Old(g, h)) => g.id[1] < write
    BY <1>2, <1>3, <1>5
  <2>3. \A g \in new : g \notin Preserved(old) /\ New(g) => g.id[1] = write
    BY <1>1, <1>6
  <2>4. CASE e \in Preserved(old) \/ f \in Preserved(old)
    BY <1>1, <1>2, <1>3, <1>5, <1>9, <2>1, <2>2, <2>3, <2>4
  <2>5. CASE e \notin Preserved(old) /\ f \notin Preserved(old)
    <3>1. e.says \in payload /\ f.says \in payload
      BY <1>1, <2>5
    <3>2. ASSUME NEW g \in Derived(old), Old(e, g), NEW h \in Derived(old), Old(f, h)
          PROVE  e = f
      <4>1. g = h
        BY <1>2, <1>9, <2>1, <3>2
      <4>2. e.says = f.says
        BY <1>4, <3>1, <3>2, <4>1 DEF Matches
      <4>. QED BY <3>2, <4>1, <4>2
    <3>3. ASSUME New(e), New(f) PROVE e = f
      <4>1. e.id[2] = e.says /\ f.id[2] = f.says
        BY <3>3 DEF Event
      <4>2. e.says = f.says
        BY <1>9, <4>1
      <4>. QED BY <3>3, <4>2
    <3>. QED BY <1>1, <1>5, <1>9, <2>2, <2>3, <2>5, <3>2, <3>3
  <2>. QED BY <2>4, <2>5
<1>10. ASSUME NEW e \in Derived(new), NEW f \in Derived(new), Matches(e, f.says) PROVE e = f
  <2>1. e.says = f.says
    BY <1>4, <1>8, <1>10 DEF Matches
  <2>2. ASSUME NEW g \in Derived(old), Old(e, g), NEW h \in Derived(old), Old(f, h)
        PROVE  e = f
    <3>1. Matches(g, h.says)
      BY <2>1, <2>2 DEF Matches
    <3>2. g = h
      BY <1>2, <2>2, <3>1 DEF Tidy
    <3>. QED BY <2>1, <2>2, <3>2
  <2>3. ASSUME New(e), New(f) PROVE e = f
    BY <2>1, <2>3
  <2>4. e \notin Preserved(old) /\ f \notin Preserved(old) /\ e \in new /\ f \in new
    BY <1>8
  <2>. QED BY <1>1, <2>1, <2>2, <2>3, <2>4
<1>11. Tidy(new)
  BY <1>9, <1>10 DEF Tidy
<1>12. payload # {} => new # {}
  <2>. SUFFICES ASSUME NEW c \in payload PROVE new # {}
    OBVIOUS
  <2>. QED BY RekeyedOnto
<1>13. ASSUME NEW e \in new, e \notin Preserved(old)
       PROVE  /\ e.says \in payload
              /\ \/ \E f \in Derived(old) : e.id = f.id /\ e.says.kind = f.says.kind
                 \/ e = Event(write, e.says)
  <2>1. ASSUME NEW f \in Derived(old), Old(e, f)
        PROVE  e.id = f.id /\ e.says.kind = f.says.kind
    BY <2>1 DEF Matches
  <2>. QED BY <1>1, <1>13, <2>1
<1>14. ASSUME NEW e \in old, NEW c \in payload, e \in Derived(old), Matches(e, c)
       PROVE  \E f \in new : f.id = e.id /\ Matches(e, f.says)
  <2>1. PICK f \in Rekeyed(Derived(old), payload, write) :
          /\ f.says = c
          /\ \A g \in Derived(old) : Matches(g, c) =>
                \E h \in Derived(old) : Matches(h, c) /\ f.id = h.id
    BY RekeyedOnto
  <2>2. PICK h \in Derived(old) : Matches(h, c) /\ f.id = h.id
    BY <1>14, <2>1
  <2>3. Matches(e, h.says)
    BY <1>14, <2>2 DEF Matches
  <2>4. e = h
    BY <1>2, <1>14, <2>2, <2>3 DEF Tidy
  <2>. QED BY <1>14, <2>1, <2>2, <2>4
<1>15. ASSUME NEW e \in old, e \notin Derived(old)
       PROVE  \E f \in new : f.id = e.id /\ Matches(e, f.says)
  BY <1>15 DEF Preserved, Matches
<1>. QED BY <1>7, <1>8, <1>11, <1>12, <1>13, <1>14, <1>15

-----------------------------------------------------------------------------
(* What each step does, with its updates worked out.                          *)
LEMMA NothingTyped ==
  /\ NoLog \in Logs /\ NoAnchor \in Anchors /\ NoYaml \in Yamls
  /\ NoSession \in Sessions /\ NoMem \in Mems
<1>1. NoLog \in Logs /\ NoAnchor \in Anchors
  BY DEF NoLog, NoAnchor, Logs, Anchors
<1>2. NoYaml \in Yamls
  BY <1>1 DEF NoYaml, Yamls
<1>3. NoSession \in Sessions
  BY <1>1, <1>2 DEF NoSession, Sessions
<1>4. NoMem \in Mems
  BY <1>1, <1>2 DEF NoMem, Mems, Reasons
<1>. QED BY <1>1, <1>2, <1>3, <1>4

LEMMA WrittenTyped ==
  ASSUME NEW events \in SUBSET Events
  PROVE  ChainedLog(events) \in Logs /\ AnchorOf(events) \in Anchors
BY DEF ChainedLog, AnchorOf, Logs, Anchors

LEMMA Frame ==
  ASSUME Typed, NEW p \in Procs, Step(p) \/ Again(p) \/ Crash(p) \/ WriteFails(p)
  PROVE  /\ UNCHANGED <<source, older, kind>>
         /\ \A q \in Procs \ {p} : pc'[q] = pc[q] /\ mem'[q] = mem[q]
<1>. USE DEF Goto, End, outside, Typed
<1>1. CASE Import(p)
  BY <1>1 DEF Import, Load, Scan, ScanEnds, Classify, Derive, Remove, MakeDirectory, WriteBulk,
              LinkYaml, Cleanup
<1>2. CASE InPlace(p)
  BY <1>2 DEF InPlace, Choose, Lock, Judge, Merge, Rechain, WriteEvents, WriteYaml, Restore,
              RestoreFails, Release
<1>3. CASE Again(p) \/ Crash(p) \/ WriteFails(p)
  BY <1>3 DEF Again, Crash, WriteFails
<1>. QED BY <1>1, <1>2, <1>3 DEF Step

LEMMA LoadEffect ==
  ASSUME Typed, NEW p \in Procs, Load(p)
  PROVE  /\ pc[p] = "load" /\ kind[p] # "rechain" /\ pc'[p] = "scan"
         /\ mem'[p] = [mem[p] EXCEPT !.left = {i \in Sids : sessions[i].dir}]
         /\ ghost' = [ghost EXCEPT !.overlapped = @ \/ \E q \in Procs \ {p} : Importing(q)]
         /\ UNCHANGED <<sessions, locks, made, stamp>>
BY DEF Load, Goto, Typed, store, Importing

LEMMA ScanEffect ==
  ASSUME Typed, NEW p \in Procs, Scan(p)
  PROVE  \E i \in mem[p].left :
            /\ pc[p] = "scan" /\ pc' = pc
            /\ mem'[p] = [mem[p] EXCEPT
                  !.left = mem[p].left \ {i},
                  !.priors = mem[p].priors \cup
                      (IF sessions[i].yaml.there
                       THEN {[sid |-> i, size |-> sessions[i].yaml.size,
                              started |-> sessions[i].yaml.started]}
                       ELSE {})]
            /\ UNCHANGED <<sessions, locks, made, stamp, ghost>>
<1>1. PICK i \in mem[p].left :
        mem' = [mem EXCEPT
                  ![p].left = mem[p].left \ {i},
                  ![p].priors = mem[p].priors \cup
                      (IF sessions[i].yaml.there
                       THEN {[sid |-> i, size |-> sessions[i].yaml.size,
                              started |-> sessions[i].yaml.started]}
                       ELSE {})]
  BY DEF Scan
<1>. QED BY <1>1 DEF Scan, Typed, store

LEMMA ScanEndsEffect ==
  ASSUME Typed, NEW p \in Procs, ScanEnds(p)
  PROVE  /\ pc[p] = "scan" /\ mem[p].left = {} /\ pc'[p] = "classify"
         /\ mem'[p] = [mem[p] EXCEPT !.older = older]
         /\ UNCHANGED <<sessions, locks, made, stamp, ghost>>
BY DEF ScanEnds, Goto, Typed, store

LEMMA ClassifyEffect ==
  ASSUME Typed, NEW p \in Procs, Classify(p)
  PROVE  /\ pc[p] = "classify"
         /\ \/ pc'[p] = "skipped" /\ mem'[p] = NoMem
            \/ /\ Reason(p) # "none" /\ pc'[p] = "derive"
               /\ mem'[p] = [mem[p] EXCEPT !.reason = Reason(p)]
         /\ UNCHANGED <<sessions, locks, made, stamp, ghost>>
BY DEF Classify, Goto, End, Typed, store

LEMMA ReasonFits ==
  ASSUME Typed, NEW p \in Procs
  PROVE  /\ Reason(p) \in Reasons
         /\ Reason(p) = "new" => kind[p] = "force" \/ mem[p].priors = {}
         /\ Reason(p) \notin {"none", "new"} => mem[p].priors # {} /\ kind[p] = "import"
<1>1. CASE kind[p] = "force" \/ mem[p].priors = {}
  <2>1. ~(kind[p] = "import" /\ Cardinality(mem[p].priors) = 1
          /\ (CHOOSE q \in mem[p].priors : TRUE).size # NoSize)
    BY <1>1, FS_EmptySet
  <2>2. Reason(p) = "new"
    BY <1>1, <2>1 DEF Reason
  <2>. QED BY <1>1, <2>2 DEF Reasons
<1>2. CASE ~(kind[p] = "force" \/ mem[p].priors = {})
  <2>1. Reason(p) \in {"grew", "holds_copies", "none"}
    BY <1>2 DEF Reason
  <2>2. kind[p] # "import" => Reason(p) = "none"
    BY <1>2 DEF Reason
  <2>. QED BY <1>2, <2>1, <2>2 DEF Reasons
<1>. QED BY <1>1, <1>2

(* The records of its own, where earlier sessions began, and which of them it *)
(* goes into.                                                                 *)
OwnOf(p) == Own(source, mem[p].older /\ older, EarliestStart(mem[p].priors))
PriorOf(p) == CHOOSE q \in mem[p].priors : TRUE
AgainFor(p) == mem[p].reason \in {"grew", "holds_copies"}

LEMMA DeriveEffect ==
  ASSUME Typed, NEW p \in Procs, Derive(p)
  PROVE  /\ pc[p] = "derive"
         /\ \/ pc'[p] = "skipped" /\ mem'[p] = NoMem
            \/ /\ OwnOf(p) # {}
               /\ mem'[p] = [NoMem EXCEPT
                     !.payload = Contents(source, OwnOf(p)),
                     !.size = Len(source),
                     !.started = source[Min(OwnOf(p))],
                     !.leftOut = (OwnOf(p) # DOMAIN source),
                     !.target = IF AgainFor(p) THEN PriorOf(p).sid ELSE 0,
                     !.left = IF AgainFor(p) THEN {} ELSE {q.sid : q \in mem[p].priors}]
               /\ pc'[p] = IF AgainFor(p) THEN "lock"
                           ELSE IF kind[p] = "force" /\ mem[p].priors # {} THEN "remove"
                           ELSE "mkdir"
         /\ UNCHANGED <<sessions, locks, made, stamp, ghost>>
<1>. DEFINE own == OwnOf(p)
            stop == \/ own = {}
                    \/ /\ mem[p].reason = "holds_copies"
                       /\ ~(own # DOMAIN source) \/ Len(source) < PriorOf(p).size
                    \/ mem[p].reason = "grew" /\ Len(source) <= PriorOf(p).size
            next == [NoMem EXCEPT
                     !.payload = Contents(source, own),
                     !.size = Len(source),
                     !.started = source[Min(own)],
                     !.leftOut = (own # DOMAIN source),
                     !.target = IF AgainFor(p) THEN PriorOf(p).sid ELSE 0,
                     !.left = IF AgainFor(p) THEN {} ELSE {q.sid : q \in mem[p].priors}]
            label == IF AgainFor(p) THEN "lock"
                     ELSE IF kind[p] = "force" /\ mem[p].priors # {} THEN "remove"
                     ELSE "mkdir"
<1>1. /\ IF stop THEN End(p, "skipped")
         ELSE mem' = [mem EXCEPT ![p] = next] /\ Goto(p, label)
      /\ pc[p] = "derive" /\ UNCHANGED <<sessions, locks, made, stamp, ghost>>
  BY DEF Derive, store, OwnOf, PriorOf, AgainFor
<1>2. ~stop => own # {}
  OBVIOUS
<1>. HIDE DEF own, stop, next, label
<1>3. \/ pc'[p] = "skipped" /\ mem'[p] = NoMem
      \/ ~stop /\ mem'[p] = next /\ pc'[p] = label
  BY <1>1 DEF End, Goto, Typed
<1>. QED BY <1>1, <1>2, <1>3 DEF own, next, label

LEMMA SetMeans ==
  ASSUME Typed, NEW i \in Sids, NEW s \in Sessions, Set(i, s)
  PROVE  /\ sessions' \in [Sids -> Sessions]
         /\ sessions'[i] = s
         /\ \A j \in Sids \ {i} : sessions'[j] = sessions[j]
BY DEF Set, Typed

LEMMA RemoveEffect ==
  ASSUME Typed, NEW p \in Procs, Remove(p)
  PROVE  \E i \in mem[p].left :
            /\ pc[p] = "remove" /\ Set(i, NoSession)
            /\ mem'[p] = [mem[p] EXCEPT !.left = mem[p].left \ {i}]
            /\ ghost' = [ghost EXCEPT !.forged = ghost.forged \ {i}, !.cut = ghost.cut \ {i}]
            /\ pc'[p] = IF mem[p].left = {i} THEN "mkdir" ELSE "remove"
            /\ UNCHANGED <<locks, made, stamp>>
<1>1. PICK i \in mem[p].left :
        /\ pc[p] = "remove" /\ Set(i, NoSession)
        /\ mem' = [mem EXCEPT ![p].left = mem[p].left \ {i}]
        /\ ghost' = [ghost EXCEPT !.forged = ghost.forged \ {i}, !.cut = ghost.cut \ {i}]
        /\ IF mem[p].left = {i} THEN Goto(p, "mkdir") ELSE UNCHANGED pc
        /\ UNCHANGED <<locks, made, stamp>>
  BY DEF Remove
<1>2. mem'[p] = [mem[p] EXCEPT !.left = mem[p].left \ {i}]
  BY <1>1 DEF Typed
<1>3. pc'[p] = IF mem[p].left = {i} THEN "mkdir" ELSE "remove"
  BY <1>1 DEF Typed, Goto
<1>. QED BY <1>1, <1>2, <1>3

LEMMA MakeDirectoryEffect ==
  ASSUME Typed, NEW p \in Procs, MakeDirectory(p)
  PROVE  /\ pc[p] = "mkdir" /\ pc'[p] = "bulk" /\ made' = made + 1 /\ made' \in Sids
         /\ mem'[p] = [mem[p] EXCEPT !.target = made']
         /\ Set(made', [NoSession EXCEPT !.dir = TRUE])
         /\ UNCHANGED <<locks, stamp, ghost>>
<1>1. made' = made + 1 /\ made' \in Sids
  BY BoundsNat DEF MakeDirectory, Typed, Sids
<1>. QED BY <1>1 DEF MakeDirectory, Goto, Typed

LEMMA WriteBulkEffect ==
  ASSUME Typed, NEW p \in Procs, WriteBulk(p)
  PROVE  /\ pc[p] = "bulk" /\ pc'[p] = "link" /\ mem' = mem /\ stamp' = stamp + 1
         /\ Set(Target(p), [sessions[Target(p)] EXCEPT !.log = ChainedLog(NewEvents(p))])
         /\ UNCHANGED <<locks, made, ghost>>
BY DEF WriteBulk, Goto, Typed

LEMMA LinkYamlEffect ==
  ASSUME Typed, NEW p \in Procs, LinkYaml(p)
  PROVE  /\ pc[p] = "link" /\ pc'[p] = "done" /\ mem'[p] = NoMem
         /\ Set(Target(p), [sessions[Target(p)] EXCEPT
                              !.yaml = YamlOf(p, sessions[Target(p)].log.events, FALSE)])
         /\ UNCHANGED <<locks, made, stamp, ghost>>
BY DEF LinkYaml, Goto, End, Typed

LEMMA CleanupEffect ==
  ASSUME Typed, NEW p \in Procs, Cleanup(p)
  PROVE  /\ pc[p] = "cleanup" /\ pc'[p] = "failed" /\ mem'[p] = NoMem
         /\ Set(Target(p), NoSession) \/ UNCHANGED sessions
         /\ UNCHANGED <<locks, made, stamp, ghost>>
BY DEF Cleanup, Goto, End, Typed

LEMMA ChooseEffect ==
  ASSUME Typed, NEW p \in Procs, Choose(p)
  PROVE  \E i \in Sids :
            /\ pc[p] = "load" /\ kind[p] = "rechain" /\ pc'[p] = "lock" /\ sessions[i].dir
            /\ mem'[p] = [mem[p] EXCEPT !.target = i]
            /\ UNCHANGED <<sessions, locks, made, stamp, ghost>>
<1>1. PICK i \in Sids : sessions[i].dir /\ mem' = [mem EXCEPT ![p].target = i]
  BY DEF Choose
<1>. QED BY <1>1 DEF Choose, Goto, store, Typed

LEMMA LockEffect ==
  ASSUME Typed, NEW p \in Procs, Lock(p)
  PROVE  /\ pc[p] = "lock"
         /\ \/ /\ Available(Target(p)) /\ locks' = [locks EXCEPT ![Target(p)] = p]
               /\ pc'[p] = "judge" /\ mem' = mem
            \/ pc'[p] = "failed" /\ mem'[p] = NoMem /\ locks' = locks
         /\ UNCHANGED <<sessions, made, stamp, ghost>>
BY DEF Lock, Goto, End, store, Typed

LEMMA JudgeEffect ==
  ASSUME Typed, NEW p \in Procs, Judge(p)
  PROVE  /\ pc[p] = "judge" /\ mem' = mem
         /\ \/ /\ pc'[p] = "merge"
               /\ IF kind[p] = "rechain"
                  THEN /\ sessions[Target(p)].yaml.there
                       /\ Verdict(sessions[Target(p)]) = "unchained"
                  ELSE Verdict(sessions[Target(p)]) # "tampered"
            \/ pc'[p] = "give_up"
         /\ UNCHANGED <<sessions, locks, made, stamp, ghost>>
<1>. DEFINE s == sessions[Target(p)]
            open == IF kind[p] = "rechain" THEN s.yaml.there /\ Verdict(s) = "unchained"
                    ELSE Verdict(s) # "tampered"
<1>1. /\ pc[p] = "judge" /\ Goto(p, IF open THEN "merge" ELSE "give_up")
      /\ UNCHANGED <<mem, sessions, locks, made, stamp, ghost>>
  BY DEF Judge, store
<1>. HIDE DEF open
<1>2. pc'[p] = IF open THEN "merge" ELSE "give_up"
  BY <1>1 DEF Goto, Typed
<1>. QED BY <1>1, <1>2 DEF open

(* What a merge makes of a session.                                           *)
MergeOf(p, s) ==
    Rekeyed(Derived(s.log.events), mem[p].payload, stamp) \cup Preserved(s.log.events)

DropBefore(p) == IF mem[p].leftOut THEN mem[p].started ELSE 0

LEMMA MergeEffect ==
  ASSUME Typed, NEW p \in Procs, Merge(p), NEW s, s = sessions[Target(p)]
  PROVE  /\ pc[p] = "merge" /\ kind[p] # "rechain"
         /\ \/ pc'[p] \in {"give_up", "throw"} /\ UNCHANGED <<mem, stamp>>
            \/ /\ Refused(Derived(s.log.events), mem[p].payload, DropBefore(p)) = {}
               /\ s.yaml.there /\ pc'[p] = "events" /\ stamp' = stamp + 1
               /\ mem'[p] = [NoMem EXCEPT
                     !.target = mem[p].target, !.started = mem[p].started,
                     !.leftOut = mem[p].leftOut,
                     !.next = ChainedLog(MergeOf(p, s)),
                     !.yaml = YamlOf(p, MergeOf(p, s), s.yaml.linked),
                     !.raw = s.log]
         /\ UNCHANGED <<sessions, locks, made, ghost>>
<1>. DEFINE refused == Refused(Derived(s.log.events), mem[p].payload, DropBefore(p))
            next == [NoMem EXCEPT
                     !.target = mem[p].target, !.started = mem[p].started,
                     !.leftOut = mem[p].leftOut,
                     !.next = ChainedLog(MergeOf(p, s)),
                     !.yaml = YamlOf(p, MergeOf(p, s), s.yaml.linked),
                     !.raw = s.log]
<1>1. /\ pc[p] = "merge" /\ kind[p] # "rechain"
      /\ UNCHANGED <<sessions, locks, made, ghost>>
      /\ CASE refused # {} -> Goto(p, "give_up") /\ UNCHANGED <<mem, stamp>>
           [] refused = {} /\ ~s.yaml.there -> Goto(p, "throw") /\ UNCHANGED <<mem, stamp>>
           [] OTHER -> /\ mem' = [mem EXCEPT ![p] = next]
                       /\ stamp' = stamp + 1
                       /\ Goto(p, "events")
  BY DEF Merge, MergeOf, DropBefore, MergedYaml
<1>. HIDE DEF refused, next
<1>2. \/ Goto(p, "give_up") /\ UNCHANGED <<mem, stamp>>
      \/ Goto(p, "throw") /\ UNCHANGED <<mem, stamp>>
      \/ /\ refused = {} /\ s.yaml.there
         /\ mem' = [mem EXCEPT ![p] = next] /\ stamp' = stamp + 1 /\ Goto(p, "events")
  BY <1>1
<1>3. \/ pc'[p] \in {"give_up", "throw"} /\ UNCHANGED <<mem, stamp>>
      \/ /\ refused = {} /\ s.yaml.there
         /\ mem'[p] = next /\ stamp' = stamp + 1 /\ pc'[p] = "events"
  BY <1>2 DEF Goto, Typed
<1>. QED BY <1>1, <1>3 DEF refused, next

LEMMA RechainEffect ==
  ASSUME Typed, NEW p \in Procs, Rechain(p), NEW s, s = sessions[Target(p)]
  PROVE  /\ pc[p] = "merge" /\ kind[p] = "rechain" /\ pc'[p] = "events"
         /\ mem'[p] = [mem[p] EXCEPT
               !.next = ChainedLog(s.log.events),
               !.yaml = [s.yaml EXCEPT !.anchor = AnchorOf(s.log.events)],
               !.raw = s.log]
         /\ UNCHANGED <<sessions, locks, made, stamp, ghost>>
<1>. DEFINE log == ChainedLog(s.log.events)
            yaml == [s.yaml EXCEPT !.anchor = AnchorOf(s.log.events)]
<1>1. /\ mem' = [mem EXCEPT ![p].next = log, ![p].yaml = yaml, ![p].raw = s.log]
      /\ pc[p] = "merge" /\ kind[p] = "rechain" /\ Goto(p, "events")
      /\ UNCHANGED <<sessions, locks, made, stamp, ghost>>
  BY DEF Rechain, store
<1>. HIDE DEF log, yaml
<1>2. mem'[p] = [mem[p] EXCEPT !.next = log, !.yaml = yaml, !.raw = s.log]
  BY <1>1 DEF Typed
<1>3. pc'[p] = "events"
  BY <1>1 DEF Goto, Typed
<1>. QED BY <1>1, <1>2, <1>3 DEF log, yaml

LEMMA WriteEventsEffect ==
  ASSUME Typed, NEW p \in Procs, WriteEvents(p), NEW s, s = sessions[Target(p)]
  PROVE  /\ pc[p] = "events" /\ mem' = mem
         /\ \/ s.dir /\ Set(Target(p), [s EXCEPT !.log = mem[p].next]) /\ pc'[p] = "yaml"
            \/ ~s.dir /\ pc'[p] = "throw" /\ UNCHANGED sessions
         /\ UNCHANGED <<locks, made, stamp, ghost>>
BY DEF WriteEvents, Goto, Typed

LEMMA WriteYamlEffect ==
  ASSUME Typed, NEW p \in Procs, WriteYaml(p), NEW s, s = sessions[Target(p)]
  PROVE  /\ pc[p] = "yaml" /\ mem' = mem
         /\ \/ s.dir /\ Set(Target(p), [s EXCEPT !.yaml = mem[p].yaml]) /\ pc'[p] = "release"
            \/ ~s.dir /\ pc'[p] = "restore" /\ UNCHANGED sessions
         /\ UNCHANGED <<locks, made, stamp, ghost>>
BY DEF WriteYaml, Goto, Typed

LEMMA RestoreEffect ==
  ASSUME Typed, NEW p \in Procs, Restore(p), NEW s, s = sessions[Target(p)]
  PROVE  /\ pc[p] = "restore" /\ pc'[p] = "throw" /\ mem' = mem
         /\ \/ s.dir /\ Set(Target(p), [s EXCEPT !.log = mem[p].raw])
            \/ ~s.dir /\ UNCHANGED sessions
         /\ UNCHANGED <<locks, made, stamp, ghost>>
BY DEF Restore, Goto, Typed

(* The only marks of a rewrite cut short.                                     *)
LEMMA CutShortEffect ==
  ASSUME Typed, NEW p \in Procs
  PROVE  /\ CutShort(p).forged = ghost.forged
         /\ CutShort(p).cut = IF mem[p].next = mem[p].raw THEN ghost.cut
                              ELSE ghost.cut \cup {Target(p)}
         /\ CutShort(p).overlapped = ghost.overlapped
         /\ CutShort(p).rewritten = ghost.rewritten
         /\ Target(p) \in Sids => CutShort(p) \in Ghosts
BY DEF CutShort, Typed, Ghosts

LEMMA RestoreFailsEffect ==
  ASSUME Typed, NEW p \in Procs, RestoreFails(p)
  PROVE  /\ pc[p] = "restore" /\ pc'[p] = "throw" /\ mem' = mem /\ ghost' = CutShort(p)
         /\ UNCHANGED <<sessions, locks, made, stamp>>
BY DEF RestoreFails, Goto, Typed, store

LEMMA ReleaseEffect ==
  ASSUME Typed, NEW p \in Procs, Release(p)
  PROVE  /\ pc[p] \in {"release", "give_up", "throw"}
         /\ pc'[p] \in Over /\ mem'[p] = NoMem
         /\ locks' = [locks EXCEPT ![Target(p)] =
                         IF locks[Target(p)] = p THEN Free ELSE locks[Target(p)]]
         /\ UNCHANGED <<sessions, made, stamp, ghost>>
BY DEF Release, Goto, End, Typed, store, Over

LEMMA AgainEffect ==
  ASSUME Typed, NEW p \in Procs, Again(p)
  PROVE  /\ pc[p] \in Over /\ pc'[p] = "load" /\ mem' = mem
         /\ UNCHANGED <<sessions, locks, made, stamp, ghost>>
BY DEF Again, Goto, Typed, store

LEMMA CrashEffect ==
  ASSUME Typed, NEW p \in Procs, Crash(p)
  PROVE  /\ pc[p] \notin Over \cup {"load"} /\ pc'[p] = "dead" /\ mem'[p] = NoMem
         /\ ghost' = IF pc[p] \in {"yaml", "restore"} THEN CutShort(p) ELSE ghost
         /\ UNCHANGED <<sessions, locks, made, stamp>>
BY DEF Crash, Running, Goto, End, Typed, store

LEMMA WriteFailsEffect ==
  ASSUME Typed, NEW p \in Procs, WriteFails(p)
  PROVE  /\ \/ pc[p] = "mkdir" /\ pc'[p] = "failed" /\ mem'[p] = NoMem
            \/ pc[p] \in {"bulk", "link"} /\ pc'[p] = "cleanup" /\ mem' = mem
            \/ pc[p] = "events" /\ pc'[p] = "throw" /\ mem' = mem
            \/ pc[p] = "yaml" /\ pc'[p] = "restore" /\ mem' = mem
         /\ UNCHANGED <<sessions, locks, made, stamp, ghost>>
BY DEF WriteFails, Goto, End, Typed, store

LEMMA ForgeEffect ==
  ASSUME Typed, NEW i \in Sids, Forge(i)
  PROVE  /\ sessions[i].yaml.there /\ sessions[i].log.chained /\ Available(i)
         /\ \E intact \in BOOLEAN :
              Set(i, [sessions[i] EXCEPT
                        !.log = [events |-> sessions[i].log.events \cup {Mark(i)},
                                 chained |-> TRUE, intact |-> intact]])
         /\ ghost' = [ghost EXCEPT !.forged = ghost.forged \cup {i}]
         /\ UNCHANGED <<source, older, kind, made, stamp, locks, pc, mem>>
BY DEF Forge, outside, Mark

LEMMA SourceEffect ==
  ASSUME Typed, Grow \/ Rewrite \/ OlderGone
  PROVE  /\ UNCHANGED <<kind, sessions, made, stamp, locks, pc, mem>>
         /\ \/ UNCHANGED ghost
            \/ ghost' = [ghost EXCEPT !.rewritten = TRUE]
BY DEF Grow, Rewrite, OlderGone, store

LEMMA MarkTyped ==
  ASSUME NEW i \in Sids
  PROVE  /\ Mark(i) \in Events /\ Mark(i).id[1] = 0 /\ Mark(i).id[2] = Mark(i).says
         /\ Mark(i).says.kind = "forged"
BY BoundsNat DEF Mark, Event, Content, Events, Says, EventKinds, Sids

-----------------------------------------------------------------------------
(* Types.                                                                     *)
LEMMA Shapes ==
  ASSUME Typed, NEW p \in Procs, Step(p) \/ Again(p) \/ Crash(p) \/ WriteFails(p),
         mem'[p] \in Mems, pc'[p] \in PCs
  PROVE  mem' \in [Procs -> Mems] /\ pc' \in [Procs -> PCs]
<1>1. \A q \in Procs : mem'[q] \in Mems /\ pc'[q] \in PCs
  BY Frame DEF Typed
<1>. USE DEF Goto, End
<1>2. (\E x : pc' = [pc EXCEPT ![p] = x]) \/ pc' = pc
  <2>1. CASE Import(p)
    BY <2>1 DEF Import, Load, Scan, ScanEnds, Classify, Derive, Remove, MakeDirectory, WriteBulk,
                LinkYaml, Cleanup
  <2>2. CASE InPlace(p)
    BY <2>2 DEF InPlace, Choose, Lock, Judge, Merge, Rechain, WriteEvents, WriteYaml, Restore,
                RestoreFails, Release
  <2>3. CASE Again(p) \/ Crash(p) \/ WriteFails(p)
    BY <2>3 DEF Again, Crash, WriteFails
  <2>. QED BY <2>1, <2>2, <2>3 DEF Step
<1>3. (\E x : mem' = [mem EXCEPT ![p] = x]) \/ mem' = mem \/ mem' = [q \in Procs |-> mem'[q]]
  <2>1. CASE Load(p) \/ Scan(p) \/ ScanEnds(p) \/ Classify(p) \/ Remove(p) \/ MakeDirectory(p)
             \/ WriteBulk(p) \/ LinkYaml(p) \/ Cleanup(p)
    BY <2>1 DEF Load, Scan, ScanEnds, Classify, Derive, Remove, MakeDirectory, WriteBulk,
                LinkYaml, Cleanup, Typed
  <2>2. CASE Derive(p)
    BY <2>2 DEF Derive
  <2>3. CASE InPlace(p)
    BY <2>3 DEF InPlace, Choose, Lock, Judge, Merge, Rechain, WriteEvents, WriteYaml, Restore,
                RestoreFails, Release, Typed
  <2>4. CASE Again(p) \/ Crash(p) \/ WriteFails(p)
    BY <2>4 DEF Again, Crash, WriteFails
  <2>. QED BY <2>1, <2>2, <2>3, <2>4 DEF Step, Import
<1>. HIDE DEF Goto, End
<1>4. mem' = [q \in Procs |-> mem'[q]] /\ pc' = [q \in Procs |-> pc'[q]]
  BY <1>2, <1>3 DEF Typed
<1>. QED BY <1>1, <1>4

LEMMA TargetIsSession ==
  ASSUME Typed, CommandsFit, NEW p \in Procs, pc[p] \in Locked \cup Making \cup {"lock"}
  PROVE  Target(p) \in Sids /\ Target(p) <= made
<1>1. mem[p].target \in 1 .. made
  BY DEF CommandsFit, CommandFits
<1>. QED BY <1>1, BoundsNat DEF Target, Sids, Typed

LEMMA PayloadTyped ==
  ASSUME Typed, CommandsFit, NEW p \in Procs
  PROVE  /\ mem[p] \in Mems
         /\ NewEvents(p) \in SUBSET Events
         /\ \A e \in NewEvents(p) : e.id[1] = stamp /\ e.id[2] = e.says /\ e.says \in mem[p].payload
         /\ mem[p].payload # {} => NewEvents(p) # {}
<1>1. mem[p] \in Mems /\ mem[p].payload \in SUBSET Says /\ stamp \in Nat
  BY DEF Typed, Mems
<1>2. ASSUME NEW c \in mem[p].payload
      PROVE  /\ Event(stamp, c) \in Events
             /\ Event(stamp, c).id[1] = stamp /\ Event(stamp, c).id[2] = c
             /\ Event(stamp, c).says = c
  BY <1>1 DEF Event, Events
<1>3. ASSUME NEW e \in NewEvents(p)
      PROVE  /\ e \in Events
             /\ e.id[1] = stamp /\ e.id[2] = e.says /\ e.says \in mem[p].payload
  <2>1. PICK c \in mem[p].payload : e = Event(stamp, c)
    BY DEF NewEvents
  <2>. QED BY <1>2, <2>1
<1>4. ASSUME NEW c \in mem[p].payload PROVE NewEvents(p) # {}
  BY DEF NewEvents
<1>. QED BY <1>1, <1>3, <1>4

LEMMA YamlTyped ==
  ASSUME Typed, NEW p \in Procs, NEW events \in SUBSET Events, NEW linked \in BOOLEAN
  PROVE  YamlOf(p, events, linked) \in Yamls
<1>1. mem[p].size \in Nat /\ mem[p].started \in Nat
  BY DEF Typed, Mems
<1>. QED BY <1>1, WrittenTyped DEF YamlOf, Yamls

LEMMA OwnFits ==
  ASSUME Typed, NEW p \in Procs
  PROVE  OwnOf(p) \in SUBSET DOMAIN source
BY DEF OwnOf, Own

(* A merge is one of a tidy log with a payload the source has.                *)
LEMMA MergeOfFits ==
  ASSUME Typed, IdsFit, AllTidy, PayloadsFit, NEW p \in Procs, Target(p) \in Sids,
         NEW s, s = sessions[Target(p)], NEW new, new = MergeOf(p, s)
  PROVE  /\ s.log.events \in SUBSET Events /\ s \in Sessions
         /\ new \in SUBSET Events /\ Tidy(new)
         /\ mem[p].payload # {} => new # {}
         /\ \A e \in new :
              \/ e \in Preserved(s.log.events)
              \/ /\ e.says \in mem[p].payload
                 /\ \/ \E f \in Derived(s.log.events) :
                           e.id = f.id /\ e.says.kind = f.says.kind
                    \/ e = Event(stamp, e.says)
         /\ \A e \in Derived(new) : e.says \in mem[p].payload
         /\ \A e \in s.log.events :
              \/ e \in Derived(s.log.events) /\ \A c \in mem[p].payload : ~Matches(e, c)
              \/ \E f \in new : f.id = e.id /\ Matches(e, f.says)
<1>1. s \in Sessions /\ s.log \in Logs /\ s.log.events \in SUBSET Events
  BY DEF Typed, Sessions, Logs
<1>2. mem[p].payload \in SUBSET Says /\ stamp \in Nat \ {0}
  BY DEF Typed, Mems
<1>3. Tidy(s.log.events) /\ PayloadFits(mem[p].payload)
  BY DEF AllTidy, PayloadsFit
<1>4. \A e \in s.log.events : e.id[1] < stamp
  BY DEF IdsFit, Owned
<1>5. new = Rekeyed(Derived(s.log.events), mem[p].payload, stamp) \cup Preserved(s.log.events)
  BY DEF MergeOf
<1>. DEFINE old == s.log.events
            payload == mem[p].payload
<1>6. /\ old \in SUBSET Events /\ payload \in SUBSET Says /\ stamp \in Nat \ {0}
      /\ Tidy(old) /\ PayloadFits(payload) /\ \A e \in old : e.id[1] < stamp
      /\ new = Rekeyed(Derived(old), payload, stamp) \cup Preserved(old)
  BY <1>1, <1>2, <1>3, <1>4, <1>5
<1>. HIDE DEF old, payload
<1>7. /\ new \in SUBSET Events /\ Tidy(new)
      /\ payload # {} => new # {}
      /\ \A e \in new : \/ e \in Preserved(old)
                        \/ /\ e.says \in payload
                           /\ \/ \E f \in Derived(old) :
                                     e.id = f.id /\ e.says.kind = f.says.kind
                              \/ e = Event(stamp, e.says)
      /\ \A e \in Derived(new) : e.says \in payload
      /\ \A e \in old : \/ e \in Derived(old) /\ \A c \in payload : ~Matches(e, c)
                        \/ \E f \in new : f.id = e.id /\ Matches(e, f.says)
  BY <1>6, MergeFits
<1>. QED BY <1>1, <1>7 DEF old, payload

(* What a step has to leave of the types.                                     *)
StepTyped(p) ==
    /\ mem'[p] \in Mems /\ pc'[p] \in PCs
    /\ sessions' \in [Sids -> Sessions]
    /\ locks' \in [Sids -> Procs \cup {Free}]
    /\ made' \in 0 .. MaxSessions /\ stamp' \in Nat \ {0}
    /\ ghost' \in Ghosts

LEMMA ImportTyped ==
  ASSUME Typed, CommandsFit, NEW p \in Procs, Import(p)
  PROVE  StepTyped(p)
<1>. USE DEF StepTyped
<1>1. mem[p] \in Mems /\ pc[p] \in PCs /\ ghost \in Ghosts /\ sessions \in [Sids -> Sessions]
      /\ locks \in [Sids -> Procs \cup {Free}] /\ made \in 0 .. MaxSessions /\ stamp \in Nat \ {0}
      /\ NoSession \in Sessions /\ NoMem \in Mems
  BY NothingTyped DEF Typed
<1>2. {"scan", "classify", "derive", "skipped", "lock", "remove", "mkdir", "bulk", "link", "done",
       "failed"} \subseteq PCs
  BY DEF PCs, Over
<1>3. ASSUME Load(p) PROVE StepTyped(p)
  <2>1. [mem[p] EXCEPT !.left = {i \in Sids : sessions[i].dir}] \in Mems
    BY <1>1 DEF Mems
  <2>2. [ghost EXCEPT !.overlapped = @ \/ \E q \in Procs \ {p} : Importing(q)] \in Ghosts
    BY <1>1 DEF Ghosts
  <2>. QED BY <1>1, <1>2, <1>3, <2>1, <2>2, LoadEffect
<1>4. ASSUME Scan(p) PROVE StepTyped(p)
  <2>1. PICK i \in mem[p].left :
            /\ pc[p] = "scan" /\ pc' = pc
            /\ mem'[p] = [mem[p] EXCEPT
                  !.left = mem[p].left \ {i},
                  !.priors = mem[p].priors \cup
                      (IF sessions[i].yaml.there
                       THEN {[sid |-> i, size |-> sessions[i].yaml.size,
                              started |-> sessions[i].yaml.started]}
                       ELSE {})]
            /\ UNCHANGED <<sessions, locks, made, stamp, ghost>>
    BY <1>4, ScanEffect
  <2>2. i \in Sids /\ sessions[i].yaml \in Yamls
    BY <1>1 DEF Mems, Sessions
  <2>3. [sid |-> i, size |-> sessions[i].yaml.size, started |-> sessions[i].yaml.started] \in Priors
    BY <2>2 DEF Yamls, Priors
  <2>4. \A r \in SUBSET Priors : [mem[p] EXCEPT !.left = mem[p].left \ {i},
                                               !.priors = mem[p].priors \cup r] \in Mems
    BY <1>1 DEF Mems
  <2>5. mem'[p] \in Mems
    BY <2>1, <2>3, <2>4
  <2>. QED BY <1>1, <2>1, <2>5
<1>5. ASSUME ScanEnds(p) PROVE StepTyped(p)
  <2>1. [mem[p] EXCEPT !.older = older] \in Mems
    BY <1>1 DEF Mems, Typed
  <2>. QED BY <1>1, <1>2, <1>5, <2>1, ScanEndsEffect
<1>6. ASSUME Classify(p) PROVE StepTyped(p)
  <2>1. [mem[p] EXCEPT !.reason = Reason(p)] \in Mems
    BY <1>1, ReasonFits DEF Mems
  <2>. QED BY <1>1, <1>2, <1>6, <2>1, ClassifyEffect
<1>7. ASSUME Derive(p) PROVE StepTyped(p)
  <2>1. CASE pc'[p] = "skipped" /\ mem'[p] = NoMem
    BY <1>1, <1>2, <1>7, <2>1, DeriveEffect
  <2>2. CASE ~(pc'[p] = "skipped" /\ mem'[p] = NoMem)
    <3>1. /\ OwnOf(p) # {}
          /\ mem'[p] = [NoMem EXCEPT
                     !.payload = Contents(source, OwnOf(p)),
                     !.size = Len(source),
                     !.started = source[Min(OwnOf(p))],
                     !.leftOut = (OwnOf(p) # DOMAIN source),
                     !.target = IF AgainFor(p) THEN PriorOf(p).sid ELSE 0,
                     !.left = IF AgainFor(p) THEN {} ELSE {q.sid : q \in mem[p].priors}]
          /\ pc[p] = "derive" /\ pc'[p] \in {"lock", "remove", "mkdir"}
      BY <1>7, <2>2, DeriveEffect
    <3>2. OwnOf(p) \in SUBSET DOMAIN source /\ source \in Seq(Nat) /\ Len(source) \in Nat
      BY OwnFits DEF Typed
    <3>3. Contents(source, OwnOf(p)) \in SUBSET Says /\ source[Min(OwnOf(p))] \in Nat
      BY <3>1, <3>2, ContentsFit
    <3>4. mem[p].priors \in SUBSET Priors
      BY <1>1 DEF Mems
    <3>5. \A q \in mem[p].priors : q.sid \in Sids
      BY <3>4 DEF Priors
    <3>6. {q.sid : q \in mem[p].priors} \in SUBSET Sids
      BY <3>5
    <3>7. AgainFor(p) => PriorOf(p).sid \in Sids
      <4>. SUFFICES ASSUME AgainFor(p) PROVE PriorOf(p).sid \in Sids
        OBVIOUS
      <4>1. mem[p].priors # {}
        BY <3>1 DEF AgainFor, CommandsFit, CommandFits
      <4>. QED BY <3>5, <4>1 DEF PriorOf
    <3>8. mem'[p] \in Mems
      <4>. DEFINE target == IF AgainFor(p) THEN PriorOf(p).sid ELSE 0
                  left == IF AgainFor(p) THEN {} ELSE {q.sid : q \in mem[p].priors}
                  payload == Contents(source, OwnOf(p))
                  started == source[Min(OwnOf(p))]
                  leftOut == OwnOf(p) # DOMAIN source
      <4>1. target \in Sids \cup {0} /\ left \in SUBSET Sids /\ payload \in SUBSET Says
            /\ started \in Nat /\ leftOut \in BOOLEAN
        BY <3>3, <3>6, <3>7
      <4>2. mem'[p] = [NoMem EXCEPT !.payload = payload, !.size = Len(source), !.started = started,
                                    !.leftOut = leftOut, !.target = target, !.left = left]
        BY <3>1
      <4>. HIDE DEF target, left, payload, started, leftOut
      <4>. QED BY <1>1, <3>2, <4>1, <4>2 DEF Mems
    <3>. QED BY <1>1, <1>2, <1>7, <3>1, <3>8, DeriveEffect
  <2>. QED BY <2>1, <2>2
<1>8. ASSUME Remove(p) PROVE StepTyped(p)
  <2>1. PICK i \in mem[p].left :
            /\ pc[p] = "remove" /\ Set(i, NoSession)
            /\ mem'[p] = [mem[p] EXCEPT !.left = mem[p].left \ {i}]
            /\ ghost' = [ghost EXCEPT !.forged = ghost.forged \ {i}, !.cut = ghost.cut \ {i}]
            /\ pc'[p] = IF mem[p].left = {i} THEN "mkdir" ELSE "remove"
            /\ UNCHANGED <<locks, made, stamp>>
    BY <1>8, RemoveEffect
  <2>2. i \in Sids /\ mem'[p] \in Mems
    BY <1>1, <2>1 DEF Mems
  <2>3. ghost' \in Ghosts
    BY <1>1, <2>1 DEF Ghosts
  <2>. QED BY <1>1, <1>2, <2>1, <2>2, <2>3, SetMeans
<1>9. ASSUME MakeDirectory(p) PROVE StepTyped(p)
  <2>1. made' \in Sids /\ made' \in 0 .. MaxSessions
    <3>1. made' \in Sids
      BY <1>9, MakeDirectoryEffect
    <3>. QED BY <3>1, BoundsNat DEF Sids
  <2>2. [mem[p] EXCEPT !.target = made'] \in Mems
    BY <1>1, <2>1 DEF Mems
  <2>3. [NoSession EXCEPT !.dir = TRUE] \in Sessions
    BY <1>1 DEF Sessions
  <2>. QED BY <1>1, <1>2, <1>9, <2>1, <2>2, <2>3, SetMeans, MakeDirectoryEffect
<1>10. ASSUME WriteBulk(p) PROVE StepTyped(p)
  <2>1. Target(p) \in Sids
    BY <1>10, WriteBulkEffect, TargetIsSession DEF Making
  <2>2. ChainedLog(NewEvents(p)) \in Logs
    BY PayloadTyped, WrittenTyped
  <2>3. [sessions[Target(p)] EXCEPT !.log = ChainedLog(NewEvents(p))] \in Sessions
    BY <1>1, <2>1, <2>2 DEF Sessions
  <2>4. stamp + 1 \in Nat \ {0}
    BY <1>1
  <2>. QED BY <1>1, <1>2, <1>10, <2>1, <2>3, <2>4, WriteBulkEffect, SetMeans
<1>11. ASSUME LinkYaml(p) PROVE StepTyped(p)
  <2>1. Target(p) \in Sids
    BY <1>11, LinkYamlEffect, TargetIsSession DEF Making
  <2>2. sessions[Target(p)] \in Sessions /\ sessions[Target(p)].log.events \in SUBSET Events
    BY <1>1, <2>1 DEF Sessions, Logs
  <2>3. YamlOf(p, sessions[Target(p)].log.events, FALSE) \in Yamls
    BY <2>2, YamlTyped
  <2>4. [sessions[Target(p)] EXCEPT
             !.yaml = YamlOf(p, sessions[Target(p)].log.events, FALSE)] \in Sessions
    BY <2>2, <2>3 DEF Sessions
  <2>. QED BY <1>1, <1>2, <1>11, <2>1, <2>4, LinkYamlEffect, SetMeans
<1>12. ASSUME Cleanup(p) PROVE StepTyped(p)
  <2>1. Target(p) \in Sids
    BY <1>12, CleanupEffect, TargetIsSession DEF Making
  <2>. QED BY <1>1, <1>2, <1>12, <2>1, CleanupEffect, SetMeans
<1>. QED BY <1>3, <1>4, <1>5, <1>6, <1>7, <1>8, <1>9, <1>10, <1>11, <1>12 DEF Import

LEMMA InPlaceTyped ==
  ASSUME Typed, CommandsFit, IdsFit, AllTidy, PayloadsFit, NEW p \in Procs, InPlace(p)
  PROVE  StepTyped(p)
<1>. USE DEF StepTyped
<1>1. mem[p] \in Mems /\ pc[p] \in PCs /\ ghost \in Ghosts /\ sessions \in [Sids -> Sessions]
      /\ locks \in [Sids -> Procs \cup {Free}] /\ made \in 0 .. MaxSessions /\ stamp \in Nat \ {0}
      /\ NoSession \in Sessions /\ NoMem \in Mems
  BY NothingTyped DEF Typed
<1>2. {"lock", "judge", "failed", "merge", "give_up", "throw", "events", "yaml", "release",
       "restore"} \cup Over \subseteq PCs
  BY DEF PCs, Locked, Over
<1>3. ASSUME Choose(p) PROVE StepTyped(p)
  <2>1. PICK i \in Sids :
            /\ pc[p] = "load" /\ kind[p] = "rechain" /\ pc'[p] = "lock" /\ sessions[i].dir
            /\ mem'[p] = [mem[p] EXCEPT !.target = i]
            /\ UNCHANGED <<sessions, locks, made, stamp, ghost>>
    BY <1>3, ChooseEffect
  <2>2. mem'[p] \in Mems
    BY <1>1, <2>1 DEF Mems
  <2>. QED BY <1>1, <1>2, <2>1, <2>2
<1>4. ASSUME Lock(p) PROVE StepTyped(p)
  <2>1. [locks EXCEPT ![Target(p)] = p] \in [Sids -> Procs \cup {Free}]
    BY <1>1
  <2>. QED BY <1>1, <1>2, <1>4, <2>1, LockEffect DEF Over
<1>5. ASSUME Judge(p) PROVE StepTyped(p)
  BY <1>1, <1>2, <1>5, JudgeEffect
<1>6. ASSUME pc[p] \in Locked PROVE Target(p) \in Sids /\ sessions[Target(p)] \in Sessions
  BY <1>1, <1>6, TargetIsSession
<1>7. ASSUME Merge(p) PROVE StepTyped(p)
  <2>. DEFINE s == sessions[Target(p)]
              new == MergeOf(p, s)
  <2>1. pc[p] = "merge"
    BY <1>7, MergeEffect
  <2>2. Target(p) \in Sids /\ s \in Sessions
    BY <1>6, <2>1 DEF Locked
  <2>3. new \in SUBSET Events
    BY <2>2, MergeOfFits
  <2>4. s.log \in Logs /\ s.yaml.linked \in BOOLEAN
    BY <2>2 DEF Sessions, Yamls
  <2>5. ChainedLog(new) \in Logs /\ YamlOf(p, new, s.yaml.linked) \in Yamls
    BY <2>3, <2>4, WrittenTyped, YamlTyped
  <2>6. [NoMem EXCEPT !.target = mem[p].target, !.started = mem[p].started,
                      !.leftOut = mem[p].leftOut, !.next = ChainedLog(new),
                      !.yaml = YamlOf(p, new, s.yaml.linked), !.raw = s.log] \in Mems
    <3>. DEFINE log == ChainedLog(new)
                yaml == YamlOf(p, new, s.yaml.linked)
                raw == s.log
    <3>1. log \in Logs /\ yaml \in Yamls /\ raw \in Logs
      BY <2>4, <2>5
    <3>. HIDE DEF log, yaml, raw
    <3>2. [NoMem EXCEPT !.target = mem[p].target, !.started = mem[p].started,
                        !.leftOut = mem[p].leftOut, !.next = log,
                        !.yaml = yaml, !.raw = raw] \in Mems
      BY <1>1, <3>1 DEF Mems
    <3>. QED BY <3>2 DEF log, yaml, raw
  <2>7. stamp + 1 \in Nat \ {0}
    BY <1>1
  <2>8. \/ pc'[p] \in {"give_up", "throw"} /\ UNCHANGED <<mem, stamp>>
        \/ /\ pc'[p] = "events" /\ stamp' = stamp + 1
           /\ mem'[p] = [NoMem EXCEPT !.target = mem[p].target, !.started = mem[p].started,
                      !.leftOut = mem[p].leftOut, !.next = ChainedLog(new),
                      !.yaml = YamlOf(p, new, s.yaml.linked), !.raw = s.log]
    BY <1>7, MergeEffect
  <2>9. UNCHANGED <<sessions, locks, made, ghost>>
    BY <1>7, MergeEffect
  <2>. HIDE DEF s, new
  <2>. QED BY <1>1, <1>2, <2>6, <2>7, <2>8, <2>9
<1>8. ASSUME Rechain(p) PROVE StepTyped(p)
  <2>. DEFINE s == sessions[Target(p)]
              log == ChainedLog(s.log.events)
              yaml == [s.yaml EXCEPT !.anchor = AnchorOf(s.log.events)]
              raw == s.log
  <2>1. pc[p] = "merge"
    BY <1>8, RechainEffect
  <2>2. s \in Sessions
    BY <1>6, <2>1 DEF Locked
  <2>3. raw \in Logs /\ s.log.events \in SUBSET Events /\ s.yaml \in Yamls
    BY <2>2 DEF Sessions, Logs
  <2>4. log \in Logs /\ AnchorOf(s.log.events) \in Anchors
    BY <2>3, WrittenTyped
  <2>5. yaml \in Yamls
    BY <2>3, <2>4 DEF Yamls
  <2>6. /\ pc'[p] = "events" /\ mem'[p] = [mem[p] EXCEPT !.next = log, !.yaml = yaml, !.raw = raw]
        /\ UNCHANGED <<sessions, locks, made, stamp, ghost>>
    BY <1>8, RechainEffect
  <2>. HIDE DEF s, log, yaml, raw
  <2>7. mem'[p] \in Mems
    BY <1>1, <2>3, <2>4, <2>5, <2>6 DEF Mems
  <2>. QED BY <1>1, <1>2, <2>6, <2>7
<1>9. mem[p].next \in Logs /\ mem[p].raw \in Logs /\ mem[p].yaml \in Yamls
  BY <1>1 DEF Mems
<1>10. ASSUME WriteEvents(p) PROVE StepTyped(p)
  <2>1. pc[p] = "events"
    BY <1>10, WriteEventsEffect
  <2>2. Target(p) \in Sids /\ sessions[Target(p)] \in Sessions
    BY <1>6, <2>1 DEF Locked
  <2>3. [sessions[Target(p)] EXCEPT !.log = mem[p].next] \in Sessions
    BY <1>9, <2>2 DEF Sessions
  <2>. QED BY <1>1, <1>2, <1>10, <2>2, <2>3, WriteEventsEffect, SetMeans
<1>11. ASSUME WriteYaml(p) PROVE StepTyped(p)
  <2>1. pc[p] = "yaml"
    BY <1>11, WriteYamlEffect
  <2>2. Target(p) \in Sids /\ sessions[Target(p)] \in Sessions
    BY <1>6, <2>1 DEF Locked
  <2>3. [sessions[Target(p)] EXCEPT !.yaml = mem[p].yaml] \in Sessions
    BY <1>9, <2>2 DEF Sessions
  <2>. QED BY <1>1, <1>2, <1>11, <2>2, <2>3, WriteYamlEffect, SetMeans
<1>12. ASSUME Restore(p) PROVE StepTyped(p)
  <2>1. pc[p] = "restore"
    BY <1>12, RestoreEffect
  <2>2. Target(p) \in Sids /\ sessions[Target(p)] \in Sessions
    BY <1>6, <2>1 DEF Locked
  <2>3. [sessions[Target(p)] EXCEPT !.log = mem[p].raw] \in Sessions
    BY <1>9, <2>2 DEF Sessions
  <2>. QED BY <1>1, <1>2, <1>12, <2>2, <2>3, RestoreEffect, SetMeans
<1>13. ASSUME RestoreFails(p) PROVE StepTyped(p)
  <2>1. Target(p) \in Sids
    BY <1>6, <1>13, RestoreFailsEffect DEF Locked
  <2>. QED BY <1>1, <1>2, <1>13, <2>1, RestoreFailsEffect, CutShortEffect
<1>14. ASSUME Release(p) PROVE StepTyped(p)
  <2>1. [locks EXCEPT ![Target(p)] = IF locks[Target(p)] = p THEN Free ELSE locks[Target(p)]]
          \in [Sids -> Procs \cup {Free}]
    BY <1>1
  <2>. QED BY <1>1, <1>2, <1>14, <2>1, ReleaseEffect
<1>. QED BY <1>3, <1>4, <1>5, <1>7, <1>8, <1>10, <1>11, <1>12, <1>13, <1>14 DEF InPlace

LEMMA TypedNext ==
  ASSUME Typed, CommandsFit, IdsFit, AllTidy, PayloadsFit, SourceFits, [Next]_vars
  PROVE  Typed'
<1>1. ASSUME NEW p \in Procs, Step(p) \/ Again(p) \/ Crash(p) \/ WriteFails(p), StepTyped(p)
      PROVE  Typed'
  <2>1. mem' \in [Procs -> Mems] /\ pc' \in [Procs -> PCs]
    BY <1>1, Shapes DEF StepTyped
  <2>2. UNCHANGED <<source, older, kind>>
    BY <1>1, Frame
  <2>. QED BY <1>1, <2>1, <2>2 DEF StepTyped, Typed
<1>2. ASSUME NEW p \in Procs, Step(p) PROVE Typed'
  BY <1>1, <1>2, ImportTyped, InPlaceTyped DEF Step
<1>3. ASSUME NEW p \in Procs, Again(p) PROVE Typed'
  <2>1. StepTyped(p)
    BY <1>3, AgainEffect DEF StepTyped, Typed, PCs
  <2>. QED BY <1>1, <1>3, <2>1
<1>4. ASSUME NEW p \in Procs, Crash(p) PROVE Typed'
  <2>1. pc[p] \in {"yaml", "restore"} => CutShort(p) \in Ghosts
    BY CutShortEffect, TargetIsSession DEF Locked
  <2>2. ghost' \in Ghosts
    BY <1>4, <2>1, CrashEffect DEF Typed
  <2>3. StepTyped(p)
    BY <1>4, <2>2, CrashEffect, NothingTyped DEF StepTyped, Typed, PCs, Over
  <2>. QED BY <1>1, <1>4, <2>3
<1>5. ASSUME NEW p \in Procs, WriteFails(p) PROVE Typed'
  <2>1. StepTyped(p)
    BY <1>5, WriteFailsEffect, NothingTyped DEF StepTyped, Typed, PCs, Over, Locked
  <2>. QED BY <1>1, <1>5, <2>1
<1>6. ASSUME NEW i \in Sids, Forge(i) PROVE Typed'
  <2>1. PICK intact \in BOOLEAN :
          Set(i, [sessions[i] EXCEPT !.log = [events |-> sessions[i].log.events \cup {Mark(i)},
                                              chained |-> TRUE, intact |-> intact]])
    BY <1>6, ForgeEffect
  <2>2. sessions[i] \in Sessions /\ sessions[i].log.events \in SUBSET Events
    BY DEF Typed, Sessions, Logs
  <2>3. [events |-> sessions[i].log.events \cup {Mark(i)}, chained |-> TRUE, intact |-> intact]
          \in Logs
    BY <2>2, MarkTyped DEF Logs
  <2>4. [sessions[i] EXCEPT !.log = [events |-> sessions[i].log.events \cup {Mark(i)},
                                     chained |-> TRUE, intact |-> intact]] \in Sessions
    BY <2>2, <2>3 DEF Sessions
  <2>5. sessions' \in [Sids -> Sessions]
    BY <2>1, <2>4, SetMeans
  <2>6. ghost' \in Ghosts
    <3>1. ghost \in Ghosts /\ ghost' = [ghost EXCEPT !.forged = ghost.forged \cup {i}]
      BY <1>6, ForgeEffect DEF Typed
    <3>. QED BY <3>1 DEF Ghosts
  <2>. QED BY <1>6, <2>5, <2>6, ForgeEffect DEF Typed
<1>7. ASSUME Grow \/ Rewrite \/ OlderGone PROVE Typed'
  <2>1. source' \in Seq(Nat)
    <3>1. CASE Grow
      <4>1. source \in Seq(Nat) /\ Len(source) \in Nat /\ source[Len(source)] \in Nat
        <5>1. source \in Seq(Nat) /\ Len(source) > Copies /\ Copies \in Nat
          BY BoundsNat DEF Typed, SourceFits
        <5>. QED BY <5>1
      <4>2. PICK at \in {source[Len(source)], source[Len(source)] + 1} : source' = Append(source, at)
        BY <3>1 DEF Grow
      <4>. QED BY <4>1, <4>2
    <3>2. CASE Rewrite
      BY <3>2 DEF Rewrite, Typed
    <3>3. CASE OlderGone
      BY <3>3 DEF OlderGone, Typed
    <3>. QED BY <1>7, <3>1, <3>2, <3>3
  <2>2. older' \in BOOLEAN
    BY <1>7 DEF Grow, Rewrite, OlderGone, Typed
  <2>3. ghost' \in Ghosts
    BY <1>7, SourceEffect DEF Typed, Ghosts
  <2>. QED BY <1>7, <2>1, <2>2, <2>3, SourceEffect DEF Typed
<1>8. CASE UNCHANGED vars
  BY <1>8 DEF vars, Typed
<1>. QED BY <1>2, <1>3, <1>4, <1>5, <1>6, <1>7, <1>8 DEF Next

-----------------------------------------------------------------------------
(* The four ways a session is written.                                        *)
LEMMA SetNothing ==
  ASSUME Typed, NEW i \in Sids, Set(i, NoSession)
  PROVE  /\ sessions'[i] = NoSession /\ ~sessions'[i].dir /\ ~sessions'[i].yaml.there
         /\ sessions'[i].log.events = {}
         /\ \A j \in Sids \ {i} : sessions'[j] = sessions[j]
<1>1. sessions'[i] = NoSession /\ \A j \in Sids \ {i} : sessions'[j] = sessions[j]
  BY NothingTyped, SetMeans
<1>2. ~NoSession.dir /\ ~NoSession.yaml.there /\ NoSession.log.events = {}
  BY DEF NoSession, NoYaml, NoLog
<1>. QED BY <1>1, <1>2

LEMMA SetDirectory ==
  ASSUME Typed, NEW i \in Sids, Set(i, [NoSession EXCEPT !.dir = TRUE])
  PROVE  /\ sessions'[i].dir /\ sessions'[i].yaml = NoYaml /\ sessions'[i].log = NoLog
         /\ \A j \in Sids \ {i} : sessions'[j] = sessions[j]
<1>. DEFINE s == [NoSession EXCEPT !.dir = TRUE]
<1>1. s \in Sessions
  BY NothingTyped DEF Sessions
<1>2. s.dir /\ s.yaml = NoYaml /\ s.log = NoLog
  BY DEF NoSession
<1>. QED BY <1>1, <1>2, SetMeans

LEMMA SetLog ==
  ASSUME Typed, NEW i \in Sids, NEW log \in Logs, Set(i, [sessions[i] EXCEPT !.log = log])
  PROVE  /\ sessions'[i].dir = sessions[i].dir /\ sessions'[i].yaml = sessions[i].yaml
         /\ sessions'[i].log = log
         /\ \A j \in Sids \ {i} : sessions'[j] = sessions[j]
<1>1. sessions[i] \in Sessions
  BY DEF Typed
<1>. DEFINE s == [sessions[i] EXCEPT !.log = log]
<1>2. s \in Sessions /\ s.dir = sessions[i].dir /\ s.yaml = sessions[i].yaml /\ s.log = log
  BY <1>1 DEF Sessions
<1>3. Set(i, s)
  OBVIOUS
<1>. HIDE DEF s
<1>. QED BY <1>2, <1>3, SetMeans

LEMMA SetYaml ==
  ASSUME Typed, NEW i \in Sids, NEW yaml \in Yamls, Set(i, [sessions[i] EXCEPT !.yaml = yaml])
  PROVE  /\ sessions'[i].dir = sessions[i].dir /\ sessions'[i].log = sessions[i].log
         /\ sessions'[i].yaml = yaml
         /\ \A j \in Sids \ {i} : sessions'[j] = sessions[j]
<1>1. sessions[i] \in Sessions
  BY DEF Typed
<1>. DEFINE s == [sessions[i] EXCEPT !.yaml = yaml]
<1>2. s \in Sessions /\ s.dir = sessions[i].dir /\ s.log = sessions[i].log /\ s.yaml = yaml
  BY <1>1 DEF Sessions
<1>3. Set(i, s)
  OBVIOUS
<1>. HIDE DEF s
<1>. QED BY <1>2, <1>3, SetMeans

(* What each command does to the session it writes.                           *)
LEMMA ImportWrites ==
  ASSUME Typed, CommandsFit, NEW p \in Procs, Import(p)
  PROVE  \/ sessions' = sessions
         \/ \E i \in Sids : /\ Set(i, NoSession)
                           /\ \/ Remove(p) /\ i \in mem[p].left
                                 /\ ghost' = [ghost EXCEPT !.forged = ghost.forged \ {i},
                                                           !.cut = ghost.cut \ {i}]
                              \/ Cleanup(p) /\ Target(p) = i
         \/ /\ MakeDirectory(p) /\ made' = made + 1 /\ made' \in Sids
            /\ Set(made', [NoSession EXCEPT !.dir = TRUE])
         \/ /\ WriteBulk(p) /\ Target(p) \in Sids /\ ChainedLog(NewEvents(p)) \in Logs
            /\ Set(Target(p), [sessions[Target(p)] EXCEPT !.log = ChainedLog(NewEvents(p))])
         \/ /\ LinkYaml(p) /\ Target(p) \in Sids
            /\ YamlOf(p, sessions[Target(p)].log.events, FALSE) \in Yamls
            /\ Set(Target(p), [sessions[Target(p)] EXCEPT
                                 !.yaml = YamlOf(p, sessions[Target(p)].log.events, FALSE)])
<1>1. ASSUME pc[p] \in Making PROVE Target(p) \in Sids
  BY <1>1, TargetIsSession
<1>2. CASE Load(p) \/ Scan(p) \/ ScanEnds(p) \/ Classify(p) \/ Derive(p)
  BY <1>2, LoadEffect, ScanEffect, ScanEndsEffect, ClassifyEffect, DeriveEffect
<1>3. CASE Remove(p)
  <2>1. PICK i \in mem[p].left :
          Set(i, NoSession) /\ ghost' = [ghost EXCEPT !.forged = ghost.forged \ {i},
                                                      !.cut = ghost.cut \ {i}]
    BY <1>3, RemoveEffect
  <2>2. i \in Sids
    BY DEF Typed, Mems
  <2>. QED BY <1>3, <2>1, <2>2
<1>4. CASE MakeDirectory(p)
  BY <1>4, MakeDirectoryEffect
<1>5. CASE WriteBulk(p)
  <2>1. Target(p) \in Sids
    BY <1>1, <1>5, WriteBulkEffect DEF Making
  <2>2. ChainedLog(NewEvents(p)) \in Logs
    BY PayloadTyped, WrittenTyped
  <2>. QED BY <1>5, <2>1, <2>2, WriteBulkEffect
<1>6. CASE LinkYaml(p)
  <2>1. Target(p) \in Sids
    BY <1>1, <1>6, LinkYamlEffect DEF Making
  <2>2. sessions[Target(p)].log.events \in SUBSET Events
    BY <2>1 DEF Typed, Sessions, Logs
  <2>3. YamlOf(p, sessions[Target(p)].log.events, FALSE) \in Yamls
    BY <2>2, YamlTyped
  <2>. QED BY <1>6, <2>1, <2>3, LinkYamlEffect
<1>7. CASE Cleanup(p)
  <2>1. Target(p) \in Sids
    BY <1>1, <1>7, CleanupEffect DEF Making
  <2>. QED BY <1>7, <2>1, CleanupEffect
<1>. QED BY <1>2, <1>3, <1>4, <1>5, <1>6, <1>7 DEF Import

LEMMA InPlaceWrites ==
  ASSUME Typed, CommandsFit, NEW p \in Procs, InPlace(p)
  PROVE  \/ sessions' = sessions
         \/ /\ WriteEvents(p) /\ Target(p) \in Sids /\ mem[p].next \in Logs
            /\ sessions[Target(p)].dir
            /\ Set(Target(p), [sessions[Target(p)] EXCEPT !.log = mem[p].next])
         \/ /\ WriteYaml(p) /\ Target(p) \in Sids /\ mem[p].yaml \in Yamls
            /\ sessions[Target(p)].dir
            /\ Set(Target(p), [sessions[Target(p)] EXCEPT !.yaml = mem[p].yaml])
         \/ /\ Restore(p) /\ Target(p) \in Sids /\ mem[p].raw \in Logs
            /\ sessions[Target(p)].dir
            /\ Set(Target(p), [sessions[Target(p)] EXCEPT !.log = mem[p].raw])
<1>1. mem[p].next \in Logs /\ mem[p].raw \in Logs /\ mem[p].yaml \in Yamls
  BY DEF Typed, Mems
<1>2. ASSUME pc[p] \in Writing PROVE Target(p) \in Sids
  BY <1>2, TargetIsSession DEF Writing, Replacing, Locked
<1>3. CASE Choose(p) \/ Lock(p) \/ Judge(p) \/ Merge(p) \/ Rechain(p) \/ RestoreFails(p) \/ Release(p)
  BY <1>3, ChooseEffect, LockEffect, JudgeEffect, MergeEffect, RechainEffect, RestoreFailsEffect,
     ReleaseEffect
<1>4. CASE WriteEvents(p)
  BY <1>1, <1>2, <1>4, WriteEventsEffect DEF Writing
<1>5. CASE WriteYaml(p)
  BY <1>1, <1>2, <1>5, WriteYamlEffect DEF Writing, Replacing
<1>6. CASE Restore(p)
  BY <1>1, <1>2, <1>6, RestoreEffect DEF Writing, Replacing
<1>. QED BY <1>3, <1>4, <1>5, <1>6 DEF InPlace

LEMMA ForgeWrites ==
  ASSUME Typed, NEW i \in Sids, Forge(i)
  PROVE  \E log \in Logs :
            /\ log.events = sessions[i].log.events \cup {Mark(i)} /\ log.chained
            /\ Set(i, [sessions[i] EXCEPT !.log = log])
<1>1. PICK intact \in BOOLEAN :
        Set(i, [sessions[i] EXCEPT !.log = [events |-> sessions[i].log.events \cup {Mark(i)},
                                            chained |-> TRUE, intact |-> intact]])
  BY ForgeEffect
<1>. DEFINE log == [events |-> sessions[i].log.events \cup {Mark(i)},
                    chained |-> TRUE, intact |-> intact]
<1>2. sessions[i].log.events \in SUBSET Events
  BY DEF Typed, Sessions, Logs
<1>3. log \in Logs /\ log.events = sessions[i].log.events \cup {Mark(i)} /\ log.chained
  BY <1>2, MarkTyped DEF Logs
<1>. QED BY <1>1, <1>3

-----------------------------------------------------------------------------
(* Commands and the sessions they know.                                       *)
(* A session.yaml that is there goes only with its session, and no session    *)
(* gets a directory but one made.                                             *)
LEMMA DirsStay ==
  ASSUME Typed, CommandsFit, RewritesFit, [Next]_vars, NEW i \in Sids, i <= made, sessions'[i].dir
  PROVE  sessions[i].dir /\ (sessions[i].yaml.there => sessions'[i].yaml.there)
<1>. DEFINE Goal == sessions[i].dir /\ (sessions[i].yaml.there => sessions'[i].yaml.there)
<1>1. made \in Nat
  BY DEF Typed
<1>2. ASSUME NEW p \in Procs, NEW events, NEW linked PROVE YamlOf(p, events, linked).there
  BY DEF YamlOf
<1>3. ASSUME NEW p \in Procs, Import(p) PROVE Goal
  <2>1. ASSUME NEW j \in Sids, Set(j, NoSession) PROVE Goal
    BY <2>1, SetNothing
  <2>2. ASSUME made' = made + 1, made' \in Sids, Set(made', [NoSession EXCEPT !.dir = TRUE])
        PROVE  Goal
    <3>1. made' # i
      BY <1>1, <2>2
    <3>. QED BY <2>2, <3>1, SetDirectory
  <2>3. ASSUME NEW j \in Sids, NEW log \in Logs, Set(j, [sessions[j] EXCEPT !.log = log])
        PROVE  Goal
    BY <2>3, SetLog
  <2>4. ASSUME NEW j \in Sids, NEW yaml \in Yamls, yaml.there,
               Set(j, [sessions[j] EXCEPT !.yaml = yaml])
        PROVE  Goal
    BY <2>4, SetYaml
  <2>5. ASSUME sessions' = sessions PROVE Goal
    BY <2>5
  <2>. HIDE DEF Goal
  <2>. QED BY <1>2, <1>3, <2>1, <2>2, <2>3, <2>4, <2>5, ImportWrites
<1>4. ASSUME NEW p \in Procs, WriteYaml(p), sessions[Target(p)].dir PROVE mem[p].yaml.there
  BY <1>4, WriteYamlEffect DEF RewritesFit, RewriteFits, Target, Writing, Replacing
<1>5. ASSUME NEW p \in Procs, InPlace(p) PROVE Goal
  <2>1. ASSUME NEW j \in Sids, NEW log \in Logs, Set(j, [sessions[j] EXCEPT !.log = log])
        PROVE  Goal
    BY <2>1, SetLog
  <2>2. ASSUME NEW j \in Sids, NEW yaml \in Yamls, yaml.there,
               Set(j, [sessions[j] EXCEPT !.yaml = yaml])
        PROVE  Goal
    BY <2>2, SetYaml
  <2>3. ASSUME sessions' = sessions PROVE Goal
    BY <2>3
  <2>. HIDE DEF Goal
  <2>. QED BY <1>4, <1>5, <2>1, <2>2, <2>3, InPlaceWrites
<1>6. ASSUME NEW p \in Procs, Again(p) \/ Crash(p) \/ WriteFails(p) PROVE sessions' = sessions
  BY <1>6, AgainEffect, CrashEffect, WriteFailsEffect
<1>7. ASSUME NEW j \in Sids, Forge(j) PROVE Goal
  BY <1>7, ForgeWrites, SetLog
<1>8. ASSUME Grow \/ Rewrite \/ OlderGone PROVE sessions' = sessions
  BY <1>8, SourceEffect
<1>9. CASE UNCHANGED vars
  BY <1>9 DEF vars
<1>. QED BY <1>3, <1>5, <1>6, <1>7, <1>8, <1>9 DEF Next, Step

LEMMA MadeGrows ==
  ASSUME Typed, [Next]_vars
  PROVE  made' \in Nat /\ made' >= made
<1>1. made \in Nat
  BY DEF Typed
<1>2. ASSUME NEW p \in Procs, Step(p) PROVE made' = made \/ made' = made + 1
  <2>1. CASE Import(p)
    BY <2>1 DEF Import, Load, Scan, ScanEnds, Classify, Derive, Remove, MakeDirectory, WriteBulk,
                LinkYaml, Cleanup, store
  <2>2. CASE InPlace(p)
    BY <2>2 DEF InPlace, Choose, Lock, Judge, Merge, Rechain, WriteEvents, WriteYaml, Restore,
                RestoreFails, Release, store
  <2>. QED BY <1>2, <2>1, <2>2 DEF Step
<1>3. ASSUME NEW p \in Procs, Again(p) \/ Crash(p) \/ WriteFails(p) PROVE made' = made
  BY <1>3 DEF Again, Crash, WriteFails, store
<1>4. ASSUME NEW i \in Sids, Forge(i) PROVE made' = made
  BY <1>4 DEF Forge
<1>5. ASSUME Grow \/ Rewrite \/ OlderGone PROVE made' = made
  BY <1>5, SourceEffect
<1>6. CASE UNCHANGED vars
  BY <1>1, <1>6 DEF vars
<1>. QED BY <1>1, <1>2, <1>3, <1>4, <1>5, <1>6 DEF Next

(* Nobody takes a lock from a command that runs under it.                     *)
LEMMA LocksStay ==
  ASSUME Typed, CommandsFit, NEW p \in Procs, NEW q \in Procs \ {p}, pc[q] \in Locked,
         Step(p) \/ Again(p) \/ Crash(p) \/ WriteFails(p)
  PROVE  locks'[Target(q)] = q
<1>1. locks[Target(q)] = q /\ Target(q) \in Sids
  BY TargetIsSession DEF CommandsFit, CommandFits, Target
<1>2. p # q /\ p # Free /\ q # Free
  BY CommandsDistinct
<1>3. CASE Import(p)
  BY <1>1, <1>3 DEF Import, Load, Scan, ScanEnds, Classify, Derive, Remove, MakeDirectory,
                    WriteBulk, LinkYaml, Cleanup
<1>4. CASE Lock(p)
  <2>1. Available(Target(p)) => Target(p) # Target(q)
    BY <1>1 DEF Available, Holds
  <2>. QED BY <1>1, <1>4, <2>1, LockEffect DEF Typed
<1>5. CASE Release(p)
  BY <1>1, <1>2, <1>5, ReleaseEffect DEF Typed
<1>6. CASE InPlace(p) /\ ~Lock(p) /\ ~Release(p)
  BY <1>1, <1>6 DEF InPlace, Choose, Judge, Merge, Rechain, WriteEvents, WriteYaml, Restore,
                    RestoreFails
<1>7. CASE Again(p) \/ Crash(p) \/ WriteFails(p)
  BY <1>1, <1>7, AgainEffect, CrashEffect, WriteFailsEffect
<1>. QED BY <1>3, <1>4, <1>5, <1>6, <1>7 DEF Step

(* A session known stays known, whatever becomes of it.                       *)
LEMMA KnownStays ==
  ASSUME Typed, CommandsFit, RewritesFit, [Next]_vars, NEW i \in Sids,
         i <= made, sessions[i].dir => sessions[i].yaml.there
  PROVE  i <= made' /\ (sessions'[i].dir => sessions'[i].yaml.there)
<1>1. made \in Nat /\ i \in Nat
  BY BoundsNat DEF Typed, Sids
<1>. QED BY <1>1, DirsStay, MadeGrows

LEMMA OthersFit ==
  ASSUME Typed, CommandsFit, RewritesFit, [Next]_vars, NEW q \in Procs,
         pc'[q] = pc[q], mem'[q] = mem[q], kind'[q] = kind[q],
         pc[q] \in Locked => locks'[Target(q)] = q
  PROVE  CommandFits(q)'
<1>1. CommandFits(q)
  BY DEF CommandsFit
<1>2. made \in Nat /\ made' \in Nat /\ made <= made'
  BY MadeGrows DEF Typed
<1>3. \A i \in Sids : Knows(q, i)' <=> Knows(q, i)
  BY DEF Knows, KnowsTarget, Target
<1>4. ASSUME NEW i \in Sids, Knows(q, i)'
      PROVE  i <= made' /\ (sessions'[i].dir => sessions'[i].yaml.there)
  <2>1. i <= made /\ (sessions[i].dir => sessions[i].yaml.there)
    BY <1>1, <1>3, <1>4 DEF CommandFits
  <2>. QED BY <2>1, KnownStays
<1>5. 1 .. made \subseteq 1 .. made'
  BY <1>2
<1>. QED BY <1>1, <1>4, <1>5 DEF CommandFits, Target

(* A command that is over has nothing in mind.                                *)
LEMMA OverFits ==
  ASSUME Typed, [Next]_vars, NEW p \in Procs, pc'[p] \in Over \cup {"load"}, mem'[p] = NoMem
  PROVE  CommandFits(p)'
<1>1. /\ pc'[p] \notin Unlocked \cup Locked \cup Making \cup {"lock"} \cup Writing
      /\ pc'[p] \notin {"remove", "mkdir", "bulk", "lock", "judge", "merge", "derive", "release",
                        "throw"}
  BY DEF Unlocked, Locked, Making, Writing, Replacing, Over
<1>2. NoMem.target = 0 /\ NoMem.left = {} /\ NoMem.priors = {} /\ NoMem.next = NoLog
      /\ NoMem.raw = NoLog
  BY DEF NoMem
<1>3. ASSUME NEW i \in Sids PROVE ~Knows(p, i)'
  BY <1>1, <1>2 DEF Knows, KnowsTarget, Locked
<1>. QED BY <1>1, <1>2, <1>3 DEF CommandFits

(* The places a command can be, and what they are for.                        *)
LEMMA Places ==
  ASSUME NEW l
  PROVE  /\ l \in Locked <=> l \in {"judge", "merge", "events", "yaml", "restore", "release",
                                    "give_up", "throw"}
         /\ l \in Unlocked <=> l \in {"scan", "classify", "derive", "remove", "mkdir", "bulk",
                                      "link", "cleanup"}
         /\ l \in Making <=> l \in {"bulk", "link", "cleanup"}
         /\ l \in Writing <=> l \in {"events", "yaml", "restore"}
         /\ l \in Over <=> l \in {"done", "skipped", "failed", "dead"}
BY DEF Locked, Unlocked, Making, Writing, Replacing, Over

LEMMA ImportFits ==
  ASSUME Typed, CommandsFit, SessionsFit, SourceFits, RewritesFit, [Next]_vars,
         NEW p \in Procs, Import(p)
  PROVE  CommandFits(p)'
<1>1. /\ mem[p] \in Mems /\ made \in Nat /\ made' \in Nat /\ made <= made' /\ kind' = kind
      /\ CommandFits(p)
  BY MadeGrows, Frame DEF Typed, Step, CommandsFit
<1>2. \A i \in Sids : i \in Nat /\ i >= 1
  BY BoundsNat DEF Sids
<1>3. 1 .. made \subseteq 1 .. made'
  BY <1>1
<1>4. \A i \in Sids : i <= made /\ (sessions[i].dir => sessions[i].yaml.there)
         => i <= made' /\ (sessions'[i].dir => sessions'[i].yaml.there)
  BY KnownStays
<1>5. NoMem.left = {} /\ NoMem.priors = {} /\ NoMem.next = NoLog /\ NoMem.raw = NoLog
      /\ NoMem.target = 0
  BY DEF NoMem
<1>. USE DEF CommandFits
<1>6. CASE Load(p)
  <2>1. /\ pc[p] = "load" /\ kind[p] # "rechain" /\ pc'[p] = "scan"
        /\ mem'[p] = [mem[p] EXCEPT !.left = {i \in Sids : sessions[i].dir}]
    BY <1>6, LoadEffect
  <2>2. mem[p] = NoMem
    BY <1>1, <2>1
  <2>3. {i \in Sids : sessions[i].dir} \subseteq 1 .. made
    BY <1>1, <1>2 DEF SessionsFit
  <2>4. /\ mem'[p].left \subseteq 1 .. made' /\ mem'[p].priors = {} /\ mem'[p].target = 0
        /\ mem'[p].next = NoLog /\ mem'[p].raw = NoLog
    BY <1>1, <1>3, <1>5, <2>1, <2>2, <2>3 DEF Mems
  <2>5. \A i \in Sids : ~Knows(p, i)'
    BY <2>1, <2>4, Places DEF Knows, KnowsTarget
  <2>. QED BY <1>1, <2>1, <2>4, <2>5, Places
<1>7. CASE Scan(p)
  <2>1. PICK i \in mem[p].left :
            /\ pc[p] = "scan" /\ pc' = pc
            /\ mem'[p] = [mem[p] EXCEPT
                  !.left = mem[p].left \ {i},
                  !.priors = mem[p].priors \cup
                      (IF sessions[i].yaml.there
                       THEN {[sid |-> i, size |-> sessions[i].yaml.size,
                              started |-> sessions[i].yaml.started]}
                       ELSE {})]
            /\ UNCHANGED <<sessions, locks, made, stamp, ghost>>
    BY <1>7, ScanEffect
  <2>. DEFINE found == IF sessions[i].yaml.there
                       THEN {[sid |-> i, size |-> sessions[i].yaml.size,
                              started |-> sessions[i].yaml.started]}
                       ELSE {}
  <2>2. \A q \in found : q.sid = i /\ sessions[i].yaml.there
    OBVIOUS
  <2>. HIDE DEF found
  <2>3. /\ mem'[p].left = mem[p].left \ {i} /\ mem'[p].priors = mem[p].priors \cup found
        /\ mem'[p].target = mem[p].target /\ mem'[p].next = mem[p].next
        /\ mem'[p].raw = mem[p].raw
    BY <1>1, <2>1 DEF Mems, found
  <2>4. i \in 1 .. made
    BY <1>1
  <2>5. ASSUME NEW j \in Sids, Knows(p, j)' PROVE Knows(p, j) \/ (j = i /\ sessions[i].yaml.there)
    BY <2>1, <2>2, <2>3, <2>5, Places DEF Knows, KnowsTarget
  <2>6. ASSUME NEW j \in Sids, Knows(p, j)'
        PROVE  j <= made' /\ (sessions'[j].dir => sessions'[j].yaml.there)
    BY <1>1, <2>1, <2>4, <2>5, <2>6
  <2>7. mem'[p].left \subseteq 1 .. made'
    BY <1>1, <1>3, <2>3
  <2>. QED BY <1>1, <2>1, <2>3, <2>6, <2>7, Places
<1>8. CASE ScanEnds(p)
  <2>1. /\ pc[p] = "scan" /\ pc'[p] = "classify" /\ mem'[p] = [mem[p] EXCEPT !.older = older]
        /\ UNCHANGED <<sessions, locks, made, stamp, ghost>>
    BY <1>8, ScanEndsEffect
  <2>2. /\ mem'[p].left = mem[p].left /\ mem'[p].priors = mem[p].priors
        /\ mem'[p].target = mem[p].target /\ mem'[p].next = mem[p].next
        /\ mem'[p].raw = mem[p].raw
    BY <1>1, <2>1 DEF Mems
  <2>3. \A j \in Sids : Knows(p, j)' => Knows(p, j)
    BY <2>1, <2>2, Places DEF Knows, KnowsTarget
  <2>. QED BY <1>1, <2>1, <2>2, <2>3, Places
<1>9. ASSUME pc'[p] \in Over, mem'[p] = NoMem PROVE CommandFits(p)'
  <2>. HIDE DEF CommandFits
  <2>. QED BY <1>9, OverFits
<1>10. CASE Classify(p)
  <2>1. CASE pc'[p] = "skipped" /\ mem'[p] = NoMem
    <3>. HIDE DEF CommandFits
    <3>. QED BY <1>9, <2>1, Places
  <2>2. CASE ~(pc'[p] = "skipped" /\ mem'[p] = NoMem)
    <3>1. /\ pc[p] = "classify" /\ Reason(p) # "none" /\ pc'[p] = "derive"
          /\ mem'[p] = [mem[p] EXCEPT !.reason = Reason(p)]
          /\ UNCHANGED <<sessions, locks, made, stamp, ghost>>
      BY <1>10, <2>2, ClassifyEffect
    <3>2. /\ mem'[p].left = mem[p].left /\ mem'[p].priors = mem[p].priors
          /\ mem'[p].target = mem[p].target /\ mem'[p].next = mem[p].next
          /\ mem'[p].raw = mem[p].raw /\ mem'[p].reason = Reason(p)
      BY <1>1, <3>1 DEF Mems
    <3>3. \A j \in Sids : Knows(p, j)' => Knows(p, j)
      BY <3>1, <3>2, Places DEF Knows, KnowsTarget
    <3>. QED BY <1>1, <3>1, <3>2, <3>3, Places, ReasonFits
  <2>. QED BY <2>1, <2>2
<1>11. CASE Derive(p)
  <2>1. CASE pc'[p] = "skipped" /\ mem'[p] = NoMem
    <3>. HIDE DEF CommandFits
    <3>. QED BY <1>9, <2>1, Places
  <2>2. CASE ~(pc'[p] = "skipped" /\ mem'[p] = NoMem)
    <3>. DEFINE target == IF AgainFor(p) THEN PriorOf(p).sid ELSE 0
                left == IF AgainFor(p) THEN {} ELSE {q.sid : q \in mem[p].priors}
                payload == Contents(source, OwnOf(p))
                started == source[Min(OwnOf(p))]
                leftOut == OwnOf(p) # DOMAIN source
    <3>1. /\ OwnOf(p) # {}
          /\ mem'[p] = [NoMem EXCEPT !.payload = payload, !.size = Len(source),
                          !.started = started, !.leftOut = leftOut, !.target = target, !.left = left]
          /\ pc'[p] = IF AgainFor(p) THEN "lock"
                      ELSE IF kind[p] = "force" /\ mem[p].priors # {} THEN "remove"
                      ELSE "mkdir"
          /\ pc[p] = "derive" /\ UNCHANGED <<sessions, locks, made, stamp, ghost>>
      BY <1>11, <2>2, DeriveEffect
    <3>2. payload # {}
      BY <3>1, OwnFits, ContentsFit DEF Typed
    <3>3. AgainFor(p) => target \in Sids /\ Knows(p, target)
      <4>. SUFFICES ASSUME AgainFor(p) PROVE target \in Sids /\ Knows(p, target)
        OBVIOUS
      <4>1. PriorOf(p) \in mem[p].priors
        BY <1>1, <3>1 DEF PriorOf, AgainFor
      <4>2. PriorOf(p).sid \in Sids
        BY <1>1, <4>1 DEF Mems, Priors
      <4>. QED BY <4>1, <4>2 DEF Knows
    <3>4. \A i \in left : i \in Sids /\ Knows(p, i) /\ ~AgainFor(p)
      BY <1>1 DEF Mems, Priors, Knows
    <3>5. ~AgainFor(p) => target = 0
      OBVIOUS
    <3>. HIDE DEF target, left, payload, started, leftOut
    <3>6. /\ mem'[p].left = left /\ mem'[p].priors = {} /\ mem'[p].target = target
          /\ mem'[p].next = NoLog /\ mem'[p].raw = NoLog /\ mem'[p].payload = payload
      BY <1>5, <3>1 DEF NoMem
    <3>7. \A i \in Sids : Knows(p, i) => i <= made /\ (sessions[i].dir => sessions[i].yaml.there)
      BY <1>1
    <3>8. left \subseteq 1 .. made'
      <4>1. \A i \in left : i \in Sids /\ i <= made
        BY <3>4, <3>7
      <4>. QED BY <1>1, <1>2, <4>1
    <3>9. AgainFor(p) => target \in 1 .. made'
      BY <1>1, <1>2, <3>3, <3>7
    <3>10. pc'[p] \in {"lock", "remove", "mkdir"}
      BY <3>1
    <3>11. ASSUME NEW i \in Sids, Knows(p, i)' PROVE Knows(p, i)
      <4>1. i \in left \/ (pc'[p] = "lock" /\ i = target)
        BY <3>6, <3>10, <3>11, Places DEF Knows, KnowsTarget, Target
      <4>2. CASE i \in left
        BY <3>4, <4>2
      <4>3. CASE pc'[p] = "lock" /\ i = target
        BY <3>1, <3>3, <4>3
      <4>. QED BY <4>1, <4>2, <4>3
    <3>12. \A i \in Sids : Knows(p, i)' => i <= made' /\ (sessions'[i].dir => sessions'[i].yaml.there)
      BY <1>4, <3>7, <3>11
    <3>13. kind[p] # "rechain"
      BY <1>1, <3>1, Places
    <3>14. CASE AgainFor(p)
      BY <1>1, <3>1, <3>2, <3>6, <3>8, <3>9, <3>12, <3>13, <3>14, Places
    <3>15. CASE ~AgainFor(p)
      <4>1. pc'[p] \in {"remove", "mkdir"} /\ mem'[p].target = 0
        BY <3>1, <3>5, <3>6, <3>15
      <4>. QED BY <1>1, <3>2, <3>6, <3>8, <3>12, <3>13, <4>1, Places
    <3>. QED BY <3>14, <3>15
  <2>. QED BY <2>1, <2>2
<1>12. CASE Remove(p)
  <2>1. PICK i \in mem[p].left :
            /\ pc[p] = "remove"
            /\ mem'[p] = [mem[p] EXCEPT !.left = mem[p].left \ {i}]
            /\ pc'[p] = IF mem[p].left = {i} THEN "mkdir" ELSE "remove"
    BY <1>12, RemoveEffect
  <2>2. /\ mem'[p].left = mem[p].left \ {i} /\ mem'[p].priors = mem[p].priors
        /\ mem'[p].target = mem[p].target /\ mem'[p].next = mem[p].next
        /\ mem'[p].raw = mem[p].raw /\ mem'[p].payload = mem[p].payload
    BY <1>1, <2>1 DEF Mems
  <2>3. pc'[p] \in {"mkdir", "remove"}
    BY <2>1
  <2>4. \A j \in Sids : Knows(p, j)' => Knows(p, j)
    BY <2>1, <2>2, <2>3, Places DEF Knows, KnowsTarget
  <2>5. \A j \in Sids : Knows(p, j)' => j <= made' /\ (sessions'[j].dir => sessions'[j].yaml.there)
    BY <1>1, <1>4, <2>4
  <2>6. mem'[p].left \subseteq 1 .. made'
    BY <1>1, <1>3, <2>2
  <2>. QED BY <1>1, <2>1, <2>2, <2>3, <2>5, <2>6, Places
<1>13. CASE MakeDirectory(p)
  <2>1. /\ pc[p] = "mkdir" /\ pc'[p] = "bulk" /\ made' = made + 1 /\ made' \in Sids
        /\ mem'[p] = [mem[p] EXCEPT !.target = made']
    BY <1>13, MakeDirectoryEffect
  <2>2. /\ mem'[p].left = mem[p].left /\ mem'[p].priors = mem[p].priors
        /\ mem'[p].target = made' /\ mem'[p].next = mem[p].next
        /\ mem'[p].raw = mem[p].raw /\ mem'[p].payload = mem[p].payload
    BY <1>1, <2>1 DEF Mems
  <2>3. \A j \in Sids : Knows(p, j)' => Knows(p, j)
    BY <2>1, <2>2, Places DEF Knows, KnowsTarget
  <2>4. \A j \in Sids : Knows(p, j)' => j <= made' /\ (sessions'[j].dir => sessions'[j].yaml.there)
    BY <1>1, <1>4, <2>3
  <2>5. mem'[p].left \subseteq 1 .. made' /\ mem'[p].target \in 1 .. made'
    BY <1>1, <1>2, <1>3, <2>1, <2>2
  <2>. QED BY <1>1, <2>1, <2>2, <2>4, <2>5, Places
<1>14. CASE WriteBulk(p)
  <2>1. pc[p] = "bulk" /\ pc'[p] = "link" /\ mem' = mem /\ UNCHANGED <<locks, made, ghost>>
    BY <1>14, WriteBulkEffect
  <2>2. \A j \in Sids : Knows(p, j)' => Knows(p, j)
    BY <2>1, Places DEF Knows, KnowsTarget
  <2>3. \A j \in Sids : Knows(p, j)' => j <= made' /\ (sessions'[j].dir => sessions'[j].yaml.there)
    BY <1>1, <1>4, <2>2
  <2>. QED BY <1>1, <2>1, <2>3, Places
<1>15. CASE LinkYaml(p) \/ Cleanup(p)
  <2>. HIDE DEF CommandFits
  <2>. QED BY <1>9, <1>15, LinkYamlEffect, CleanupEffect, Places
<1>. QED BY <1>6, <1>7, <1>8, <1>10, <1>11, <1>12, <1>13, <1>14, <1>15 DEF Import

LEMMA InPlaceFits ==
  ASSUME Typed, CommandsFit, SessionsFit, RewritesFit, [Next]_vars,
         NEW p \in Procs, InPlace(p)
  PROVE  CommandFits(p)'
<1>1. /\ mem[p] \in Mems /\ made \in Nat /\ made' \in Nat /\ made <= made' /\ kind' = kind
      /\ CommandFits(p)
  BY MadeGrows, Frame DEF Typed, Step, CommandsFit
<1>2. \A i \in Sids : i \in Nat /\ i >= 1
  BY BoundsNat DEF Sids
<1>3. 1 .. made \subseteq 1 .. made'
  BY <1>1
<1>4. \A i \in Sids : i <= made /\ (sessions[i].dir => sessions[i].yaml.there)
         => i <= made' /\ (sessions'[i].dir => sessions'[i].yaml.there)
  BY KnownStays
<1>5. NoMem.left = {} /\ NoMem.priors = {} /\ NoMem.next = NoLog /\ NoMem.raw = NoLog
      /\ NoMem.target = 0
  BY DEF NoMem
<1>6. ASSUME pc'[p] \in Over, mem'[p] = NoMem PROVE CommandFits(p)'
  BY <1>6, OverFits
<1>. USE DEF CommandFits
(* A command that keeps what it has in mind, and its lock.                    *)
<1>7. ASSUME mem' = mem, locks' = locks, pc[p] \in Locked, pc'[p] \in Locked,
             pc'[p] \in {"judge", "merge"} => pc[p] \in {"judge", "merge"},
             pc[p] \in Writing \cup {"release", "throw"}
               => pc'[p] \in Writing \cup {"release", "throw"},
             pc[p] = "judge" /\ kind[p] = "rechain" /\ pc'[p] = "merge"
               => sessions[Target(p)].yaml.there,
             KnowsTarget(p)' => KnowsTarget(p) \/ (pc[p] = "judge" /\ pc'[p] = "merge")
      PROVE  CommandFits(p)'
  <2>1. pc[p] = "judge" /\ pc'[p] = "merge" /\ kind[p] # "rechain" => KnowsTarget(p)
    BY <1>7, Places DEF KnowsTarget
  <2>2. \A j \in Sids : Knows(p, j)' => Knows(p, j) \/ (j = Target(p) /\ sessions[j].yaml.there)
    BY <1>7, <2>1, Places DEF Knows, Target
  <2>3. Target(p) <= made
    BY <1>7, TargetIsSession
  <2>4. \A j \in Sids : Knows(p, j)' => j <= made' /\ (sessions'[j].dir => sessions'[j].yaml.there)
    BY <1>1, <1>4, <2>2, <2>3
  <2>. QED BY <1>1, <1>3, <1>7, <2>4, Places
<1>8. CASE Choose(p)
  <2>1. PICK i \in Sids :
            /\ pc[p] = "load" /\ kind[p] = "rechain" /\ pc'[p] = "lock" /\ sessions[i].dir
            /\ mem'[p] = [mem[p] EXCEPT !.target = i]
            /\ UNCHANGED <<sessions, locks, made, stamp, ghost>>
    BY <1>8, ChooseEffect
  <2>2. mem[p] = NoMem
    BY <1>1, <2>1
  <2>3. /\ mem'[p].left = {} /\ mem'[p].priors = {} /\ mem'[p].target = i
        /\ mem'[p].next = NoLog /\ mem'[p].raw = NoLog
    BY <1>1, <1>5, <2>1, <2>2 DEF Mems
  <2>4. i \in 1 .. made'
    BY <1>1, <1>2, <2>1 DEF SessionsFit
  <2>5. \A j \in Sids : ~Knows(p, j)'
    BY <1>1, <2>1, <2>3, Places DEF Knows, KnowsTarget
  <2>. QED BY <1>1, <2>1, <2>3, <2>4, <2>5, Places
<1>9. CASE Lock(p)
  <2>1. CASE pc'[p] = "failed" /\ mem'[p] = NoMem
    <3>. HIDE DEF CommandFits
    <3>. QED BY <1>6, <2>1, Places
  <2>2. CASE ~(pc'[p] = "failed" /\ mem'[p] = NoMem)
    <3>1. /\ pc[p] = "lock" /\ locks' = [locks EXCEPT ![Target(p)] = p]
          /\ pc'[p] = "judge" /\ mem' = mem /\ made' = made /\ sessions' = sessions
      BY <1>9, <2>2, LockEffect
    <3>2. Target(p) \in Sids
      BY <3>1, TargetIsSession
    <3>3. locks'[mem'[p].target] = p
      BY <3>1, <3>2 DEF Typed, Target
    <3>4. \A j \in Sids : Knows(p, j)' => Knows(p, j)
      BY <1>1, <3>1, Places DEF Knows, KnowsTarget, Target
    <3>. QED BY <1>1, <3>1, <3>3, <3>4, Places
  <2>. QED BY <2>1, <2>2
<1>10. CASE Judge(p)
  <2>1. /\ pc[p] = "judge" /\ mem' = mem /\ UNCHANGED <<sessions, locks, made, stamp, ghost>>
        /\ \/ pc'[p] = "merge" /\ (kind[p] = "rechain" => sessions[Target(p)].yaml.there)
           \/ pc'[p] = "give_up"
    BY <1>10, JudgeEffect
  <2>2. KnowsTarget(p)' => KnowsTarget(p) \/ (pc[p] = "judge" /\ pc'[p] = "merge")
    BY <1>1, <2>1, Places DEF KnowsTarget
  <2>. HIDE DEF CommandFits
  <2>. QED BY <1>7, <2>1, <2>2, Places
<1>11. ASSUME pc[p] = "merge" PROVE KnowsTarget(p)
  BY <1>11 DEF KnowsTarget
<1>12. CASE Merge(p)
  <2>. DEFINE s == sessions[Target(p)]
              next == ChainedLog(MergeOf(p, s))
              yaml == YamlOf(p, MergeOf(p, s), s.yaml.linked)
              raw == s.log
  <2>1. /\ pc[p] = "merge" /\ kind[p] # "rechain" /\ UNCHANGED <<sessions, locks, made, ghost>>
        /\ \/ pc'[p] \in {"give_up", "throw"} /\ mem' = mem
           \/ /\ s.yaml.there /\ pc'[p] = "events" /\ stamp' = stamp + 1
              /\ mem'[p] = [NoMem EXCEPT
                    !.target = mem[p].target, !.started = mem[p].started,
                    !.leftOut = mem[p].leftOut, !.next = next, !.yaml = yaml, !.raw = raw]
    BY <1>12, MergeEffect
  <2>2. CASE pc'[p] \in {"give_up", "throw"} /\ mem' = mem
    <3>1. KnowsTarget(p)' => KnowsTarget(p)
      BY <1>11, <2>1
    <3>. HIDE DEF CommandFits
    <3>. QED BY <1>7, <2>1, <2>2, <3>1, Places
  <2>3. CASE ~(pc'[p] \in {"give_up", "throw"} /\ mem' = mem)
    <3>. HIDE DEF s, next, yaml, raw
    <3>1. /\ pc'[p] = "events"
          /\ mem'[p] = [NoMem EXCEPT
                    !.target = mem[p].target, !.started = mem[p].started,
                    !.leftOut = mem[p].leftOut, !.next = next, !.yaml = yaml, !.raw = raw]
      BY <2>1, <2>3
    <3>2. mem'[p].left = {} /\ mem'[p].priors = {} /\ mem'[p].target = mem[p].target
      BY <3>1 DEF NoMem
    <3>3. \A j \in Sids : Knows(p, j)' => Knows(p, j)
      BY <1>11, <2>1, <3>1, <3>2 DEF Knows, Target
    <3>. QED BY <1>1, <2>1, <3>1, <3>2, <3>3, Places
  <2>. QED BY <2>2, <2>3
<1>13. CASE Rechain(p)
  <2>. DEFINE s == sessions[Target(p)]
              next == ChainedLog(s.log.events)
              yaml == [s.yaml EXCEPT !.anchor = AnchorOf(s.log.events)]
              raw == s.log
  <2>1. /\ pc[p] = "merge" /\ kind[p] = "rechain" /\ pc'[p] = "events"
        /\ mem'[p] = [mem[p] EXCEPT !.next = next, !.yaml = yaml, !.raw = raw]
        /\ UNCHANGED <<sessions, locks, made, stamp, ghost>>
    BY <1>13, RechainEffect
  <2>. HIDE DEF s, next, yaml, raw
  <2>2. /\ mem'[p].left = mem[p].left /\ mem'[p].priors = mem[p].priors
        /\ mem'[p].target = mem[p].target
    BY <1>1, <2>1 DEF Mems
  <2>3. \A j \in Sids : Knows(p, j)' => Knows(p, j)
    BY <1>11, <2>1, <2>2, Places DEF Knows, Target
  <2>. QED BY <1>1, <2>1, <2>2, <2>3, Places
<1>14. CASE WriteEvents(p) \/ WriteYaml(p) \/ Restore(p) \/ RestoreFails(p)
  <2>1. /\ mem' = mem /\ locks' = locks /\ pc[p] \in Writing
        /\ pc'[p] \in Writing \cup {"release", "throw"}
    BY <1>14, WriteEventsEffect, WriteYamlEffect, RestoreEffect, RestoreFailsEffect, Places
  <2>2. KnowsTarget(p)
    BY <2>1 DEF KnowsTarget
  <2>. HIDE DEF CommandFits
  <2>. QED BY <1>7, <2>1, <2>2, Places
<1>15. CASE Release(p)
  <2>. HIDE DEF CommandFits
  <2>. QED BY <1>6, <1>15, ReleaseEffect
<1>. QED BY <1>8, <1>9, <1>10, <1>12, <1>13, <1>14, <1>15 DEF InPlace

LEMMA CommandsFitNext ==
  ASSUME Typed, CommandsFit, SessionsFit, SourceFits, RewritesFit, [Next]_vars
  PROVE  CommandsFit'
<1>1. ASSUME NEW p \in Procs, Step(p) \/ Again(p) \/ Crash(p) \/ WriteFails(p), CommandFits(p)'
      PROVE  CommandsFit'
  <2>1. ASSUME NEW q \in Procs \ {p} PROVE CommandFits(q)'
    BY <1>1, Frame, LocksStay, OthersFit
  <2>. QED BY <1>1, <2>1 DEF CommandsFit
<1>2. ASSUME NEW p \in Procs, Step(p) PROVE CommandsFit'
  BY <1>1, <1>2, ImportFits, InPlaceFits DEF Step
<1>3. ASSUME NEW p \in Procs, Again(p) \/ Crash(p) PROVE CommandsFit'
  <2>1. pc[p] \in Over => mem[p] = NoMem
    BY DEF CommandsFit, CommandFits
  <2>2. pc'[p] \in Over \cup {"load"} /\ mem'[p] = NoMem
    BY <1>3, <2>1, AgainEffect, CrashEffect, Places
  <2>. QED BY <1>1, <1>3, <2>2, OverFits
<1>4. ASSUME NEW p \in Procs, WriteFails(p) PROVE CommandsFit'
  <2>1. CASE pc'[p] = "failed" /\ mem'[p] = NoMem
    BY <1>1, <1>4, <2>1, OverFits, Places
  <2>2. CASE ~(pc'[p] = "failed" /\ mem'[p] = NoMem)
    <3>1. /\ mem' = mem /\ UNCHANGED <<sessions, locks, made, stamp, ghost>>
          /\ \/ pc[p] \in {"bulk", "link"} /\ pc'[p] = "cleanup"
             \/ pc[p] = "events" /\ pc'[p] = "throw"
             \/ pc[p] = "yaml" /\ pc'[p] = "restore"
      BY <1>4, <2>2, WriteFailsEffect
    <3>2. CommandFits(p) /\ kind' = kind
      BY <1>4, Frame DEF CommandsFit
    <3>3. \A j \in Sids : Knows(p, j)' => Knows(p, j)
      BY <3>1, <3>2, Places DEF Knows, KnowsTarget, Target
    <3>4. CommandFits(p)'
      BY <3>1, <3>2, <3>3, Places DEF CommandFits
    <3>. QED BY <1>1, <1>4, <3>4
  <2>. QED BY <2>1, <2>2
<1>5. ASSUME UNCHANGED <<kind, locks, pc, mem>> PROVE CommandsFit'
  <2>1. ASSUME NEW q \in Procs PROVE CommandFits(q)'
    <3>1. pc[q] \in Locked => locks'[Target(q)] = q
      BY <1>5 DEF CommandsFit, CommandFits, Target
    <3>. QED BY <1>5, <3>1, OthersFit
  <2>. QED BY <2>1 DEF CommandsFit
<1>6. ASSUME NEW i \in Sids, Forge(i) PROVE CommandsFit'
  BY <1>5, <1>6, ForgeEffect
<1>7. ASSUME Grow \/ Rewrite \/ OlderGone PROVE CommandsFit'
  BY <1>5, <1>7, SourceEffect
<1>8. CASE UNCHANGED vars
  BY <1>5, <1>8 DEF vars
<1>. QED BY <1>2, <1>3, <1>4, <1>6, <1>7, <1>8 DEF Next

-----------------------------------------------------------------------------
(* Sessions and their makers.                                                 *)
LEMMA SessionsFitNext ==
  ASSUME Typed, CommandsFit, MakersAlone, SessionsFit, [Next]_vars
  PROVE  SessionsFit'
<1>1. \A i \in Sids : /\ ~sessions[i].dir => sessions[i] = NoSession
                      /\ sessions[i].dir => i <= made
                      /\ i \in Nat
  BY BoundsNat DEF SessionsFit, Sids
<1>2. made \in Nat /\ made' \in Nat /\ made <= made'
  BY MadeGrows DEF Typed
<1>3. ASSUME sessions' = sessions PROVE SessionsFit'
  BY <1>1, <1>2, <1>3 DEF SessionsFit
<1>4. ASSUME NEW i \in Sids, Set(i, NoSession) PROVE SessionsFit'
  <2>1. ASSUME NEW j \in Sids \ {i} PROVE sessions'[j] = sessions[j]
    BY <1>4, SetNothing
  <2>. QED BY <1>1, <1>2, <1>4, <2>1, SetNothing DEF SessionsFit
<1>5. ASSUME NEW i \in Sids, i = made', Set(i, [NoSession EXCEPT !.dir = TRUE]) PROVE SessionsFit'
  <2>1. ASSUME NEW j \in Sids \ {i} PROVE sessions'[j] = sessions[j]
    BY <1>5, SetDirectory
  <2>2. sessions'[i].dir /\ i <= made'
    <3>1. sessions'[i].dir
      BY <1>5, SetDirectory
    <3>2. i <= made'
      BY <1>2, <1>5
    <3>. QED BY <3>1, <3>2
  <2>3. ASSUME NEW j \in Sids
        PROVE  /\ ~sessions'[j].dir => sessions'[j] = NoSession
               /\ sessions'[j].dir => j <= made'
    BY <1>1, <1>2, <2>1, <2>2
  <2>. QED BY <2>3 DEF SessionsFit
<1>6. ASSUME NEW i \in Sids, sessions[i].dir,
             sessions'[i].dir, \A j \in Sids \ {i} : sessions'[j] = sessions[j]
      PROVE  SessionsFit'
  <2>1. ASSUME NEW j \in Sids
        PROVE  /\ ~sessions'[j].dir => sessions'[j] = NoSession
               /\ sessions'[j].dir => j <= made'
    <3>1. CASE j = i
      <4>1. i <= made /\ i \in Nat
        BY <1>1, <1>6
      <4>. QED BY <1>2, <1>6, <3>1, <4>1
    <3>2. CASE j # i
      <4>1. sessions'[j] = sessions[j] /\ j \in Nat
        BY <1>1, <1>6, <3>2
      <4>. QED BY <1>1, <1>2, <4>1
    <3>. QED BY <3>1, <3>2
  <2>. QED BY <2>1 DEF SessionsFit
<1>7. ASSUME NEW i \in Sids, NEW log \in Logs, Set(i, [sessions[i] EXCEPT !.log = log]),
             sessions[i].dir
      PROVE  SessionsFit'
  <2>. HIDE DEF SessionsFit
  <2>. QED BY <1>6, <1>7, SetLog
<1>8. ASSUME NEW i \in Sids, NEW yaml \in Yamls, Set(i, [sessions[i] EXCEPT !.yaml = yaml]),
             sessions[i].dir
      PROVE  SessionsFit'
  BY <1>6, <1>8, SetYaml
<1>9. ASSUME NEW p \in Procs, pc[p] \in Making PROVE sessions[Target(p)].dir
  BY <1>9 DEF MakersAlone
<1>10. ASSUME NEW p \in Procs, Import(p) PROVE SessionsFit'
  <2>1. WriteBulk(p) \/ LinkYaml(p) => sessions[Target(p)].dir
    BY <1>9, WriteBulkEffect, LinkYamlEffect, Places
  <2>. QED BY <1>3, <1>4, <1>5, <1>7, <1>8, <1>10, <2>1, ImportWrites
<1>11. ASSUME NEW p \in Procs, InPlace(p) PROVE SessionsFit'
  BY <1>3, <1>7, <1>8, <1>11, InPlaceWrites
<1>12. ASSUME NEW p \in Procs, Again(p) \/ Crash(p) \/ WriteFails(p) PROVE sessions' = sessions
  BY <1>12, AgainEffect, CrashEffect, WriteFailsEffect
<1>13. ASSUME NEW i \in Sids, Forge(i) PROVE SessionsFit'
  <2>1. sessions[i].dir
    BY <1>1, <1>13, ForgeEffect DEF NoSession, NoYaml
  <2>. QED BY <1>7, <1>13, <2>1, ForgeWrites
<1>14. ASSUME Grow \/ Rewrite \/ OlderGone PROVE sessions' = sessions
  BY <1>14, SourceEffect
<1>15. CASE UNCHANGED vars
  BY <1>3, <1>15 DEF vars
<1>. QED BY <1>3, <1>10, <1>11, <1>12, <1>13, <1>14, <1>15 DEF Next, Step

(* A session known to a command is not in the making.                         *)
LEMMA KnownNotMade ==
  ASSUME CommandsFit, MakersAlone, NEW p \in Procs, NEW q \in Procs, pc[q] \in Making,
         Target(q) \in Sids
  PROVE  ~Knows(p, Target(q)) /\ ~sessions[Target(q)].yaml.there
<1>1. sessions[Target(q)].dir /\ sessions[Target(q)].yaml = NoYaml
  BY DEF MakersAlone
<1>2. ~NoYaml.there
  BY DEF NoYaml
<1>3. Knows(p, Target(q)) /\ sessions[Target(q)].dir => sessions[Target(q)].yaml.there
  BY DEF CommandsFit, CommandFits
<1>. QED BY <1>1, <1>2, <1>3

LEMMA MakingLeftAlone ==
  ASSUME Typed, CommandsFit, MakersAlone, NEW q \in Procs, pc[q] \in Making,
         \/ \E p \in Procs \ {q} : Step(p)
         \/ \E p \in Procs : Again(p) \/ Crash(p) \/ WriteFails(p)
         \/ \E i \in Sids : Forge(i)
         \/ Grow \/ Rewrite \/ OlderGone \/ UNCHANGED vars
  PROVE  sessions'[Target(q)] = sessions[Target(q)]
<1>. DEFINE t == Target(q)
            Goal == sessions'[t] = sessions[t]
<1>1. t \in Sids /\ t <= made /\ made \in Nat
  BY TargetIsSession DEF Typed
<1>2. \A p \in Procs : ~Knows(p, t)
  BY <1>1, KnownNotMade
<1>3. \A p \in Procs \ {q} : pc[p] \in Making => Target(p) # t
  BY DEF MakersAlone
<1>. HIDE DEF t
<1>4. ASSUME NEW i \in Sids, i # t, Set(i, NoSession) PROVE Goal
  BY <1>1, <1>4, SetNothing
<1>5. ASSUME made' = made + 1, made' \in Sids, Set(made', [NoSession EXCEPT !.dir = TRUE])
      PROVE  Goal
  <2>1. made' # t
    BY <1>1, <1>5
  <2>. QED BY <1>1, <1>5, <2>1, SetDirectory
<1>6. ASSUME NEW i \in Sids, i # t, NEW log \in Logs, Set(i, [sessions[i] EXCEPT !.log = log])
      PROVE  Goal
  BY <1>1, <1>6, SetLog
<1>7. ASSUME NEW i \in Sids, i # t, NEW yaml \in Yamls, Set(i, [sessions[i] EXCEPT !.yaml = yaml])
      PROVE  Goal
  BY <1>1, <1>7, SetYaml
<1>8. ASSUME sessions' = sessions PROVE Goal
  BY <1>8
<1>9. ASSUME NEW p \in Procs \ {q}, Import(p) PROVE Goal
  <2>1. ASSUME NEW i \in mem[p].left, Remove(p) PROVE i # t
    BY <1>2, <2>1, RemoveEffect DEF Knows
  <2>2. WriteBulk(p) \/ LinkYaml(p) \/ Cleanup(p) => Target(p) # t
    BY <1>3, WriteBulkEffect, LinkYamlEffect, CleanupEffect, Places
  <2>. HIDE DEF Goal
  <2>. QED BY <1>4, <1>5, <1>6, <1>7, <1>8, <1>9, <2>1, <2>2, ImportWrites
<1>10. ASSUME NEW p \in Procs \ {q}, InPlace(p) PROVE Goal
  <2>1. WriteEvents(p) \/ WriteYaml(p) \/ Restore(p) => Target(p) # t
    BY <1>2, WriteEventsEffect, WriteYamlEffect, RestoreEffect, Places DEF Knows, KnowsTarget
  <2>. HIDE DEF Goal
  <2>. QED BY <1>6, <1>7, <1>8, <1>10, <2>1, InPlaceWrites
<1>11. ASSUME NEW p \in Procs, Again(p) \/ Crash(p) \/ WriteFails(p) PROVE sessions' = sessions
  BY <1>11, AgainEffect, CrashEffect, WriteFailsEffect
<1>12. ASSUME NEW i \in Sids, Forge(i) PROVE Goal
  <2>1. i # t
    BY <1>1, <1>12, KnownNotMade, ForgeEffect DEF t
  <2>. HIDE DEF Goal
  <2>. QED BY <1>6, <1>12, <2>1, ForgeWrites
<1>13. ASSUME Grow \/ Rewrite \/ OlderGone \/ UNCHANGED vars PROVE sessions' = sessions
  BY <1>13, SourceEffect DEF vars
<1>. HIDE DEF Goal
<1>14. Goal
  BY <1>8, <1>9, <1>10, <1>11, <1>12, <1>13 DEF Step
<1>. QED BY <1>14 DEF Goal, t

MakerFits(p) ==
    pc[p] \in Making =>
        LET s == sessions[Target(p)] IN
        /\ s.dir /\ s.yaml = NoYaml
        /\ pc[p] = "bulk" => s.log = NoLog
        /\ pc[p] = "link" => s.log.chained /\ s.log.intact /\ s.log.events # {}

LEMMA MakersAloneNext ==
  ASSUME Typed, CommandsFit, MakersAlone, [Next]_vars
  PROVE  MakersAlone'
<1>1. MakersAlone <=> /\ \A p \in Procs : MakerFits(p)
                      /\ \A p, q \in Procs :
                          pc[p] \in Making /\ pc[q] \in Making /\ p # q => Target(p) # Target(q)
  BY DEF MakersAlone, MakerFits
<1>2. /\ \A p \in Procs : MakerFits(p)
      /\ \A p, q \in Procs :
            pc[p] \in Making /\ pc[q] \in Making /\ p # q => Target(p) # Target(q)
  BY <1>1
<1>3. ASSUME \A p \in Procs : MakerFits(p)',
             \A p, q \in Procs :
                pc'[p] \in Making /\ pc'[q] \in Making /\ p # q => Target(p)' # Target(q)'
      PROVE  MakersAlone'
  BY <1>3 DEF MakersAlone, MakerFits
<1>4. ASSUME NEW q \in Procs, sessions'[Target(q)] = sessions[Target(q)], mem'[q] = mem[q],
             pc'[q] = pc[q]
      PROVE  MakerFits(q)'
  BY <1>2, <1>4 DEF MakerFits, Target
<1>5. ASSUME NEW p \in Procs, Step(p) \/ Again(p) \/ Crash(p) \/ WriteFails(p), MakerFits(p)',
             pc'[p] \in Making =>
                \/ Target(p)' = Target(p) /\ pc[p] \in Making
                \/ \A q \in Procs : pc[q] \in Making => Target(p)' # Target(q)
      PROVE  MakersAlone'
  <2>1. ASSUME NEW q \in Procs \ {p} PROVE pc'[q] = pc[q] /\ mem'[q] = mem[q]
    BY <1>5, Frame
  <2>2. ASSUME NEW q \in Procs \ {p}, pc[q] \in Making
        PROVE  sessions'[Target(q)] = sessions[Target(q)]
    BY <1>5, <2>2, MakingLeftAlone
  <2>3. ASSUME NEW q \in Procs PROVE MakerFits(q)'
    <3>1. CASE q = p
      BY <1>5, <3>1
    <3>2. CASE q # p /\ pc[q] \in Making
      BY <1>4, <2>1, <2>2, <3>2
    <3>3. CASE q # p /\ pc[q] \notin Making
      BY <2>1, <3>3 DEF MakerFits
    <3>. QED BY <3>1, <3>2, <3>3
  <2>4. ASSUME NEW q \in Procs, NEW r \in Procs, pc'[q] \in Making, pc'[r] \in Making, q # r
        PROVE  Target(q)' # Target(r)'
    <3>1. \A o \in Procs \ {p} : Target(o)' = Target(o) /\ pc'[o] = pc[o]
      BY <2>1 DEF Target
    <3>. QED BY <1>2, <1>5, <2>4, <3>1
  <2>. QED BY <1>3, <2>3, <2>4
<1>6. ASSUME NEW p \in Procs, Import(p) PROVE MakersAlone'
  <2>1. CASE Load(p) \/ Scan(p) \/ ScanEnds(p) \/ Classify(p) \/ Derive(p) \/ Remove(p)
             \/ LinkYaml(p) \/ Cleanup(p)
    <3>1. pc'[p] \notin Making
      BY <2>1, LoadEffect, ScanEffect, ScanEndsEffect, ClassifyEffect, DeriveEffect, RemoveEffect,
         LinkYamlEffect, CleanupEffect, Places
    <3>2. MakerFits(p)'
      BY <3>1 DEF MakerFits
    <3>. QED BY <1>5, <1>6, <3>1, <3>2 DEF Step
  <2>2. CASE MakeDirectory(p)
    <3>1. /\ pc[p] = "mkdir" /\ pc'[p] = "bulk" /\ made' = made + 1 /\ made' \in Sids
          /\ mem'[p] = [mem[p] EXCEPT !.target = made']
          /\ Set(made', [NoSession EXCEPT !.dir = TRUE])
      BY <2>2, MakeDirectoryEffect
    <3>2. Target(p)' = made' /\ made \in Nat
      BY <3>1 DEF Target, Typed, Mems
    <3>3. \A q \in Procs : pc[q] \in Making => Target(q) <= made /\ Target(q) \in Sids
      BY TargetIsSession
    <3>4. \A q \in Procs : pc[q] \in Making => Target(p)' # Target(q)
      BY <3>1, <3>2, <3>3, BoundsNat DEF Sids
    <3>5. sessions'[made'].dir /\ sessions'[made'].yaml = NoYaml /\ sessions'[made'].log = NoLog
      BY <3>1, SetDirectory
    <3>6. MakerFits(p)'
      BY <3>1, <3>2, <3>5 DEF MakerFits
    <3>. QED BY <1>5, <1>6, <3>4, <3>6 DEF Step
  <2>3. CASE WriteBulk(p)
    <3>1. /\ pc[p] = "bulk" /\ pc'[p] = "link" /\ mem' = mem /\ Target(p) \in Sids
          /\ ChainedLog(NewEvents(p)) \in Logs
          /\ Set(Target(p), [sessions[Target(p)] EXCEPT !.log = ChainedLog(NewEvents(p))])
      BY <2>3, WriteBulkEffect, PayloadTyped, WrittenTyped, TargetIsSession, Places
    <3>2. NewEvents(p) # {}
      BY <3>1, PayloadTyped DEF CommandsFit, CommandFits
    <3>3. ChainedLog(NewEvents(p)).chained /\ ChainedLog(NewEvents(p)).intact
          /\ ChainedLog(NewEvents(p)).events # {}
      BY <3>2 DEF ChainedLog
    <3>4. /\ sessions'[Target(p)].dir = sessions[Target(p)].dir
          /\ sessions'[Target(p)].yaml = sessions[Target(p)].yaml
          /\ sessions'[Target(p)].log = ChainedLog(NewEvents(p))
      BY <3>1, SetLog
    <3>5. Target(p)' = Target(p)
      BY <3>1 DEF Target
    <3>6. MakerFits(p)'
      BY <1>2, <3>1, <3>3, <3>4, <3>5, Places DEF MakerFits
    <3>. QED BY <1>5, <1>6, <3>1, <3>5, <3>6, Places DEF Step
  <2>. QED BY <1>6, <2>1, <2>2, <2>3 DEF Import
<1>7. ASSUME NEW p \in Procs, InPlace(p) \/ Again(p) \/ Crash(p) PROVE MakersAlone'
  <2>1. pc'[p] \notin Making
    BY <1>7, ChooseEffect, LockEffect, JudgeEffect, MergeEffect, RechainEffect, WriteEventsEffect,
       WriteYamlEffect, RestoreEffect, RestoreFailsEffect, ReleaseEffect, AgainEffect, CrashEffect,
       Places DEF InPlace
  <2>2. MakerFits(p)'
    BY <2>1 DEF MakerFits
  <2>. QED BY <1>5, <1>7, <2>1, <2>2 DEF Step
<1>8. ASSUME NEW p \in Procs, WriteFails(p) PROVE MakersAlone'
  <2>1. CASE pc[p] \in {"bulk", "link"}
    <3>1. pc'[p] = "cleanup" /\ mem' = mem /\ sessions' = sessions
      BY <1>8, <2>1, WriteFailsEffect
    <3>2. MakerFits(p)' /\ Target(p)' = Target(p) /\ pc[p] \in Making
      BY <1>2, <2>1, <3>1, Places DEF MakerFits, Target
    <3>. QED BY <1>5, <1>8, <3>2
  <2>2. CASE pc[p] \notin {"bulk", "link"}
    <3>1. pc'[p] \notin Making
      BY <1>8, <2>2, WriteFailsEffect, Places
    <3>2. MakerFits(p)'
      BY <3>1 DEF MakerFits
    <3>. QED BY <1>5, <1>8, <3>1, <3>2
  <2>. QED BY <2>1, <2>2
<1>9. ASSUME UNCHANGED <<pc, mem>>,
             (\E i \in Sids : Forge(i)) \/ Grow \/ Rewrite \/ OlderGone \/ UNCHANGED vars
      PROVE  MakersAlone'
  <2>1. ASSUME NEW q \in Procs PROVE MakerFits(q)' /\ Target(q)' = Target(q)
    <3>1. CASE pc[q] \in Making
      BY <1>4, <1>9, <3>1, MakingLeftAlone DEF Target
    <3>2. CASE pc[q] \notin Making
      BY <1>9, <3>2 DEF MakerFits, Target
    <3>. QED BY <3>1, <3>2
  <2>. QED BY <1>2, <1>3, <1>9, <2>1
<1>10. ASSUME (\E i \in Sids : Forge(i)) \/ Grow \/ Rewrite \/ OlderGone \/ UNCHANGED vars
       PROVE  MakersAlone'
  BY <1>9, <1>10, ForgeEffect, SourceEffect DEF vars
<1>. QED BY <1>6, <1>7, <1>8, <1>10 DEF Next, Step

-----------------------------------------------------------------------------
(* Ids.                                                                       *)
LEMMA PayloadsFitNext ==
  ASSUME Typed, PayloadsFit, [Next]_vars
  PROVE  PayloadsFit'
<1>1. PayloadFits({})
  BY DEF PayloadFits
<1>2. NoMem.payload = {}
  BY DEF NoMem
<1>3. ASSUME NEW p \in Procs PROVE mem[p] \in Mems /\ PayloadFits(mem[p].payload)
  BY DEF Typed, PayloadsFit
<1>4. ASSUME NEW p \in Procs, Step(p) \/ Again(p) \/ Crash(p) \/ WriteFails(p),
             \/ mem'[p].payload = mem[p].payload
             \/ mem'[p].payload = {}
             \/ PayloadFits(mem'[p].payload)
      PROVE  PayloadsFit'
  <2>1. ASSUME NEW q \in Procs PROVE PayloadFits(mem'[q].payload)
    BY <1>1, <1>3, <1>4, Frame
  <2>. QED BY <2>1 DEF PayloadsFit
<1>5. ASSUME NEW p \in Procs, Step(p), mem'[p] \in {mem[p], NoMem} PROVE PayloadsFit'
  BY <1>2, <1>4, <1>5
<1>6. ASSUME NEW p \in Procs, Import(p) PROVE PayloadsFit'
  <2>1. CASE Load(p) \/ ScanEnds(p) \/ Classify(p) \/ MakeDirectory(p)
    <3>1. mem'[p] # NoMem => mem'[p].payload = mem[p].payload
      BY <1>3, <2>1, LoadEffect, ScanEndsEffect, ClassifyEffect, MakeDirectoryEffect DEF Mems
    <3>. QED BY <1>2, <1>4, <1>6, <3>1 DEF Step
  <2>2. CASE Scan(p)
    <3>1. \E i : mem'[p] = [mem[p] EXCEPT
                  !.left = mem[p].left \ {i},
                  !.priors = mem[p].priors \cup
                      (IF sessions[i].yaml.there
                       THEN {[sid |-> i, size |-> sessions[i].yaml.size,
                              started |-> sessions[i].yaml.started]}
                       ELSE {})]
      BY <2>2, ScanEffect
    <3>2. mem'[p].payload = mem[p].payload
      BY <1>3, <3>1 DEF Mems
    <3>. QED BY <1>4, <1>6, <3>2 DEF Step
  <2>3. CASE Remove(p)
    <3>1. PICK left : mem'[p] = [mem[p] EXCEPT !.left = left]
      BY <2>3, RemoveEffect
    <3>2. mem'[p].payload = mem[p].payload
      BY <1>3, <3>1 DEF Mems
    <3>. QED BY <1>4, <1>6, <3>2 DEF Step
  <2>4. CASE Derive(p) /\ mem'[p] # NoMem
    <3>. DEFINE target == IF AgainFor(p) THEN PriorOf(p).sid ELSE 0
                left == IF AgainFor(p) THEN {} ELSE {q.sid : q \in mem[p].priors}
                started == source[Min(OwnOf(p))]
                leftOut == OwnOf(p) # DOMAIN source
    <3>1. /\ OwnOf(p) # {}
          /\ mem'[p] = [NoMem EXCEPT !.payload = Contents(source, OwnOf(p)), !.size = Len(source),
                          !.started = started, !.leftOut = leftOut, !.target = target, !.left = left]
      BY <2>4, DeriveEffect
    <3>. HIDE DEF target, left, started, leftOut
    <3>2. mem'[p].payload = Contents(source, OwnOf(p))
      BY <3>1 DEF NoMem
    <3>3. PayloadFits(Contents(source, OwnOf(p)))
      BY <3>1, OwnFits, ContentsFit DEF Typed
    <3>. QED BY <1>4, <1>6, <3>2, <3>3 DEF Step
  <2>5. CASE WriteBulk(p) \/ LinkYaml(p) \/ Cleanup(p) \/ mem'[p] = NoMem
    BY <1>5, <1>6, <2>5, WriteBulkEffect, LinkYamlEffect, CleanupEffect DEF Step
  <2>. QED BY <1>6, <2>1, <2>2, <2>3, <2>4, <2>5 DEF Import
<1>7. ASSUME NEW p \in Procs, InPlace(p) PROVE PayloadsFit'
  <2>1. CASE Choose(p)
    <3>1. PICK i : mem'[p] = [mem[p] EXCEPT !.target = i]
      BY <2>1, ChooseEffect
    <3>2. mem'[p].payload = mem[p].payload
      BY <1>3, <3>1 DEF Mems
    <3>. QED BY <1>4, <1>7, <3>2 DEF Step
  <2>2. CASE Merge(p)
    <3>. DEFINE s == sessions[Target(p)]
                next == ChainedLog(MergeOf(p, s))
                yaml == YamlOf(p, MergeOf(p, s), s.yaml.linked)
                raw == s.log
    <3>1. \/ mem' = mem
          \/ mem'[p] = [NoMem EXCEPT
                  !.target = mem[p].target, !.started = mem[p].started,
                  !.leftOut = mem[p].leftOut, !.next = next, !.yaml = yaml, !.raw = raw]
      BY <2>2, MergeEffect
    <3>. HIDE DEF s, next, yaml, raw
    <3>2. mem'[p].payload = mem[p].payload \/ mem'[p].payload = {}
      BY <3>1 DEF NoMem
    <3>. QED BY <1>4, <1>7, <3>2 DEF Step
  <2>3. CASE Rechain(p)
    <3>. DEFINE s == sessions[Target(p)]
                next == ChainedLog(s.log.events)
                yaml == [s.yaml EXCEPT !.anchor = AnchorOf(s.log.events)]
                raw == s.log
    <3>1. mem'[p] = [mem[p] EXCEPT !.next = next, !.yaml = yaml, !.raw = raw]
      BY <2>3, RechainEffect
    <3>. HIDE DEF s, next, yaml, raw
    <3>2. mem'[p].payload = mem[p].payload
      BY <1>3, <3>1 DEF Mems
    <3>. QED BY <1>4, <1>7, <3>2 DEF Step
  <2>4. CASE Lock(p) \/ Judge(p) \/ WriteEvents(p) \/ WriteYaml(p) \/ Restore(p) \/ RestoreFails(p)
             \/ Release(p)
    BY <1>5, <1>7, <2>4, LockEffect, JudgeEffect, WriteEventsEffect, WriteYamlEffect, RestoreEffect,
       RestoreFailsEffect, ReleaseEffect DEF Step
  <2>. QED BY <1>7, <2>1, <2>2, <2>3, <2>4 DEF InPlace
<1>8. ASSUME NEW p \in Procs, Again(p) \/ Crash(p) \/ WriteFails(p) PROVE PayloadsFit'
  <2>1. mem'[p] \in {mem[p], NoMem}
    BY <1>8, AgainEffect, CrashEffect, WriteFailsEffect
  <2>. QED BY <1>2, <1>4, <1>8, <2>1
<1>9. ASSUME mem' = mem PROVE PayloadsFit'
  BY <1>3, <1>9 DEF PayloadsFit
<1>10. ASSUME NEW i \in Sids, Forge(i) PROVE mem' = mem
  BY <1>10, ForgeEffect
<1>11. ASSUME Grow \/ Rewrite \/ OlderGone \/ UNCHANGED vars PROVE mem' = mem
  BY <1>11, SourceEffect DEF vars
<1>. QED BY <1>6, <1>7, <1>8, <1>9, <1>10, <1>11 DEF Next, Step

(* What a command is about to write is nothing but between its reading the    *)
(* log and its end.                                                           *)
LEMMA NothingPending ==
  ASSUME CommandsFit, NEW p \in Procs, pc[p] \notin Writing \cup {"release", "throw"}
  PROVE  Pending(p) = {} /\ mem[p].next = NoLog /\ mem[p].raw = NoLog
<1>1. mem[p].next = NoLog /\ mem[p].raw = NoLog
  BY DEF CommandsFit, CommandFits
<1>2. NoLog.events = {}
  BY DEF NoLog
<1>. QED BY <1>1, <1>2 DEF Pending

LEMMA NothingPendingNext ==
  ASSUME CommandsFit', NEW p \in Procs, pc'[p] \notin Writing \cup {"release", "throw"}
  PROVE  Pending(p)' = {} /\ mem'[p].next = NoLog /\ mem'[p].raw = NoLog
<1>1. mem'[p].next = NoLog /\ mem'[p].raw = NoLog
  BY DEF CommandsFit, CommandFits
<1>2. NoLog.events = {}
  BY DEF NoLog
<1>. QED BY <1>1, <1>2 DEF Pending

(* What a step does to what a command is about to write.                      *)
LEMMA PendingNext ==
  ASSUME Typed, CommandsFit, CommandsFit', NEW p \in Procs,
         Step(p) \/ Again(p) \/ Crash(p) \/ WriteFails(p)
  PROVE  \/ Pending(p)' = {} /\ mem'[p].next = NoLog /\ mem'[p].raw = NoLog
         \/ mem'[p] = mem[p]
         \/ /\ Merge(p) /\ Target(p) \in Sids /\ stamp' = stamp + 1 /\ Target(p)' = Target(p)
            /\ mem'[p].next = ChainedLog(MergeOf(p, sessions[Target(p)]))
            /\ mem'[p].raw = sessions[Target(p)].log
         \/ /\ Rechain(p) /\ Target(p) \in Sids /\ stamp' = stamp /\ Target(p)' = Target(p)
            /\ mem'[p].next = ChainedLog(sessions[Target(p)].log.events)
            /\ mem'[p].raw = sessions[Target(p)].log
<1>1. ASSUME pc'[p] \notin Writing \cup {"release", "throw"}
      PROVE  Pending(p)' = {} /\ mem'[p].next = NoLog /\ mem'[p].raw = NoLog
  BY <1>1, NothingPendingNext
<1>2. CASE Import(p) \/ Again(p) \/ Crash(p)
  <2>1. pc'[p] \notin Writing \cup {"release", "throw"}
    BY <1>2, LoadEffect, ScanEffect, ScanEndsEffect, ClassifyEffect, DeriveEffect, RemoveEffect,
       MakeDirectoryEffect, WriteBulkEffect, LinkYamlEffect, CleanupEffect, AgainEffect, CrashEffect,
       Places DEF Import
  <2>. QED BY <1>1, <2>1
<1>3. CASE Choose(p) \/ Lock(p) \/ Release(p)
  <2>1. pc'[p] \notin Writing \cup {"release", "throw"}
    BY <1>3, ChooseEffect, LockEffect, ReleaseEffect, Places
  <2>. QED BY <1>1, <2>1
<1>4. CASE Judge(p) \/ WriteEvents(p) \/ WriteYaml(p) \/ Restore(p) \/ RestoreFails(p)
  BY <1>4, JudgeEffect, WriteEventsEffect, WriteYamlEffect, RestoreEffect, RestoreFailsEffect
<1>5. CASE WriteFails(p)
  <2>1. mem' = mem \/ pc'[p] = "failed"
    BY <1>5, WriteFailsEffect
  <2>. QED BY <1>1, <2>1, Places
<1>6. CASE Merge(p)
  <2>. DEFINE s == sessions[Target(p)]
              next == ChainedLog(MergeOf(p, s))
              yaml == YamlOf(p, MergeOf(p, s), s.yaml.linked)
              raw == s.log
  <2>1. /\ pc[p] = "merge"
        /\ \/ mem' = mem
           \/ /\ stamp' = stamp + 1
              /\ mem'[p] = [NoMem EXCEPT
                    !.target = mem[p].target, !.started = mem[p].started,
                    !.leftOut = mem[p].leftOut, !.next = next, !.yaml = yaml, !.raw = raw]
    BY <1>6, MergeEffect
  <2>2. Target(p) \in Sids
    BY <2>1, TargetIsSession, Places
  <2>. HIDE DEF s, next, yaml, raw
  <2>3. CASE mem' = mem
    BY <2>3
  <2>4. CASE mem' # mem
    <3>1. mem'[p].next = next /\ mem'[p].raw = raw /\ mem'[p].target = mem[p].target
      BY <2>1, <2>4 DEF NoMem
    <3>. QED BY <1>6, <2>1, <2>2, <2>4, <3>1 DEF next, raw, s, Target
  <2>. QED BY <2>3, <2>4
<1>7. CASE Rechain(p)
  <2>. DEFINE s == sessions[Target(p)]
              next == ChainedLog(s.log.events)
              yaml == [s.yaml EXCEPT !.anchor = AnchorOf(s.log.events)]
              raw == s.log
  <2>1. /\ pc[p] = "merge" /\ stamp' = stamp
        /\ mem'[p] = [mem[p] EXCEPT !.next = next, !.yaml = yaml, !.raw = raw]
    BY <1>7, RechainEffect
  <2>2. Target(p) \in Sids
    BY <2>1, TargetIsSession, Places
  <2>. HIDE DEF s, next, yaml, raw
  <2>3. mem'[p].next = next /\ mem'[p].raw = raw /\ mem'[p].target = mem[p].target
    BY <2>1 DEF Typed, Mems
  <2>. QED BY <1>7, <2>1, <2>2, <2>3 DEF next, raw, s, Target
<1>. QED BY <1>2, <1>3, <1>4, <1>5, <1>6, <1>7 DEF Step, InPlace

LEMMA OwnedMeans ==
  ASSUME NEW i \in Sids, NEW e
  PROVE  e \in Owned(i) <=> \/ e \in sessions[i].log.events
                            \/ \E q \in Procs : Target(q) = i /\ e \in Pending(q)
BY DEF Owned

LEMMA OwnedMeansNext ==
  ASSUME NEW i \in Sids, NEW e
  PROVE  e \in Owned(i)' <=> \/ e \in sessions'[i].log.events
                             \/ \E q \in Procs : Target(q)' = i /\ e \in Pending(q)'
BY DEF Owned

(* Where the events of a session can come from in one step, t being the       *)
(* session that a new import or a merge mints ids for.                        *)
Stems(j, e, t) ==
    \/ \E f \in Owned(j) : /\ e.id = f.id /\ e.says.kind = f.says.kind
                           /\ e = f \/ e.says.kind \in DerivedKinds
    \/ /\ e.id[1] = stamp /\ stamp' = stamp + 1 /\ j = t
       /\ e.id[2].kind = e.says.kind /\ e.says.kind \in DerivedKinds
    \/ e = Mark(j)

LEMMA LogsTyped ==
  ASSUME Typed, NEW i \in Sids
  PROVE  /\ sessions[i] \in Sessions /\ sessions[i].log \in Logs
         /\ sessions[i].log.events \in SUBSET Events
BY DEF Typed, Sessions, Logs

LEMMA ChainedEvents ==
  ASSUME NEW events
  PROVE  ChainedLog(events).events = events /\ ChainedLog(events).intact
         /\ (ChainedLog(events).chained <=> events # {})
BY DEF ChainedLog

(* A merge takes ids of the session over, or mints them.                      *)
LEMMA MergeStems ==
  ASSUME Typed, CommandsFit, IdsFit, AllTidy, PayloadsFit, NEW p \in Procs,
         NEW t \in Sids, t = Target(p), stamp' = stamp + 1,
         NEW e \in MergeOf(p, sessions[t])
  PROVE  Stems(t, e, t)
<1>. DEFINE s == sessions[t]
<1>1. \/ e \in Preserved(s.log.events)
      \/ /\ e.says \in mem[p].payload
         /\ \/ \E f \in Derived(s.log.events) : e.id = f.id /\ e.says.kind = f.says.kind
            \/ e = Event(stamp, e.says)
  BY MergeOfFits
<1>2. \A f \in s.log.events : f \in Owned(t)
  BY OwnedMeans
<1>3. e \in Preserved(s.log.events) => e \in s.log.events
  BY DEF Preserved
<1>4. \A f \in Derived(s.log.events) : f \in s.log.events
  BY DEF Derived
<1>5. e.says \in mem[p].payload => e.says.kind \in DerivedKinds
  BY DEF PayloadsFit, PayloadFits
<1>6. e = Event(stamp, e.says) => e.id[1] = stamp /\ e.id[2].kind = e.says.kind
  BY DEF Event
<1>. HIDE DEF s
<1>. QED BY <1>1, <1>2, <1>3, <1>4, <1>5, <1>6 DEF Stems

LEMMA OwnedNext ==
  ASSUME Typed, CommandsFit, CommandsFit', IdsFit, AllTidy, PayloadsFit, [Next]_vars
  PROVE  \E t \in Sids : \A j \in Sids : \A e \in Owned(j)' : Stems(j, e, t)
<1>1. 1 \in Sids
  BY BoundsNat DEF Sids
<1>2. \A j \in Sids : \A e \in Owned(j) : \A t : Stems(j, e, t)
  BY DEF Stems
<1>3. \A j \in Sids : \A e \in sessions[j].log.events : e \in Owned(j)
  BY OwnedMeans
<1>4. \A q \in Procs : \A e \in Pending(q) : Target(q) \in Sids => e \in Owned(Target(q))
  BY OwnedMeans
<1>. DEFINE Goal(t) == \A j \in Sids : \A e \in Owned(j)' : Stems(j, e, t)
            LogsStem(t) == \A j \in Sids : \A e \in sessions'[j].log.events : Stems(j, e, t)
            PendingStems(p, t) == Target(p)' \in Sids => \A e \in Pending(p)' : Stems(Target(p)', e, t)
<1>5. ASSUME NEW p \in Procs, Step(p) \/ Again(p) \/ Crash(p) \/ WriteFails(p), NEW t \in Sids,
             LogsStem(t), PendingStems(p, t)
      PROVE  Goal(t)
  <2>. SUFFICES ASSUME NEW j \in Sids, NEW e \in Owned(j)' PROVE Stems(j, e, t)
    OBVIOUS
  <2>1. CASE e \in sessions'[j].log.events
    BY <1>5, <2>1
  <2>2. CASE \E q \in Procs : Target(q)' = j /\ e \in Pending(q)'
    <3>1. PICK q \in Procs : Target(q)' = j /\ e \in Pending(q)'
      BY <2>2
    <3>2. CASE q = p
      BY <1>5, <3>1, <3>2
    <3>3. CASE q # p
      <4>1. mem'[q] = mem[q]
        BY <1>5, <3>3, Frame
      <4>2. Target(q) = j /\ e \in Pending(q)
        BY <3>1, <4>1 DEF Target, Pending
      <4>. QED BY <1>2, <1>4, <4>2
    <3>. QED BY <3>2, <3>3
  <2>. QED BY <2>1, <2>2, OwnedMeansNext
<1>6. ASSUME sessions' = sessions, NEW t PROVE LogsStem(t)
  BY <1>2, <1>3, <1>6
<1>7. ASSUME NEW i \in Sids, NEW t, \A j \in Sids \ {i} : sessions'[j] = sessions[j],
             \A e \in sessions'[i].log.events : Stems(i, e, t)
      PROVE  LogsStem(t)
  BY <1>2, <1>3, <1>7
<1>8. ASSUME NEW p \in Procs, Target(p) \in Sids, mem'[p] = mem[p] PROVE \A t : PendingStems(p, t)
  BY <1>2, <1>4, <1>8 DEF Target, Pending
<1>9. ASSUME NEW p \in Procs, mem'[p] = mem[p] PROVE \A t : PendingStems(p, t)
  <2>1. Target(p)' = Target(p)
    BY <1>9 DEF Target
  <2>. HIDE DEF PendingStems
  <2>2. CASE Target(p) \in Sids
    BY <1>8, <1>9, <2>2
  <2>3. CASE Target(p) \notin Sids
    BY <2>1, <2>3 DEF PendingStems
  <2>. QED BY <2>2, <2>3
<1>10. ASSUME NEW p \in Procs, Pending(p)' = {} PROVE \A t : PendingStems(p, t)
  BY <1>10
<1>11. ASSUME NEW p \in Procs, Merge(p), NEW t \in Sids, t = Target(p), stamp' = stamp + 1,
              Target(p)' = t, mem'[p].next = ChainedLog(MergeOf(p, sessions[t])),
              mem'[p].raw = sessions[t].log
       PROVE  PendingStems(p, t)
  <2>1. Pending(p)' = MergeOf(p, sessions[t]) \cup sessions[t].log.events
    BY <1>11, ChainedEvents DEF Pending
  <2>. QED BY <1>2, <1>3, <1>11, <2>1, MergeStems
<1>12. ASSUME NEW p \in Procs, Target(p) \in Sids, Target(p)' = Target(p),
              mem'[p].next = ChainedLog(sessions[Target(p)].log.events),
              mem'[p].raw = sessions[Target(p)].log
       PROVE  \A t : PendingStems(p, t)
  <2>1. Pending(p)' = sessions[Target(p)].log.events
    BY <1>12, ChainedEvents DEF Pending
  <2>. QED BY <1>2, <1>3, <1>12, <2>1
<1>. HIDE DEF PendingStems, LogsStem
<1>13. ASSUME NEW p \in Procs, ~Merge(p), Step(p) \/ Again(p) \/ Crash(p) \/ WriteFails(p)
       PROVE  \A t : PendingStems(p, t)
  BY <1>9, <1>10, <1>12, <1>13, PendingNext
<1>14. ASSUME NEW p \in Procs, Import(p) PROVE \E t \in Sids : Goal(t)
  <2>1. ~Merge(p)
    BY <1>14, MergeEffect, LoadEffect, ScanEffect, ScanEndsEffect, ClassifyEffect, DeriveEffect,
       RemoveEffect, MakeDirectoryEffect, WriteBulkEffect, LinkYamlEffect, CleanupEffect DEF Import
  <2>2. \A t : PendingStems(p, t)
    BY <1>13, <1>14, <2>1 DEF Step
  <2>3. ASSUME NEW i \in Sids, Set(i, NoSession) PROVE LogsStem(1)
    BY <1>7, <2>3, SetNothing
  <2>4. ASSUME made' \in Sids, Set(made', [NoSession EXCEPT !.dir = TRUE]) PROVE LogsStem(1)
    <3>1. PICK i \in Sids : i = made'
      BY <2>4
    <3>2. Set(i, [NoSession EXCEPT !.dir = TRUE])
      BY <2>4, <3>1
    <3>3. sessions'[i].log = NoLog /\ NoLog.events = {} /\ \A j \in Sids \ {i} : sessions'[j] = sessions[j]
      BY <3>2, SetDirectory DEF NoLog
    <3>. QED BY <1>7, <3>3
  <2>5. ASSUME WriteBulk(p), NEW t \in Sids, t = Target(p), ChainedLog(NewEvents(p)) \in Logs,
               Set(t, [sessions[t] EXCEPT !.log = ChainedLog(NewEvents(p))])
        PROVE  LogsStem(t)
    <3>1. sessions'[t].log.events = NewEvents(p) /\ \A j \in Sids \ {t} : sessions'[j] = sessions[j]
      BY <2>5, SetLog, ChainedEvents
    <3>2. stamp' = stamp + 1
      BY <2>5, WriteBulkEffect
    <3>3. ASSUME NEW e \in NewEvents(p) PROVE Stems(t, e, t)
      <4>1. e.id[1] = stamp /\ e.id[2] = e.says /\ e.says \in mem[p].payload
        BY PayloadTyped
      <4>2. e.says.kind \in DerivedKinds
        BY <4>1 DEF PayloadsFit, PayloadFits
      <4>. QED BY <3>2, <4>1, <4>2 DEF Stems
    <3>. QED BY <1>7, <3>1, <3>3
  <2>6. ASSUME NEW t \in Sids, NEW yaml \in Yamls, Set(t, [sessions[t] EXCEPT !.yaml = yaml])
        PROVE  LogsStem(t)
    <3>1. sessions'[t].log = sessions[t].log /\ \A j \in Sids \ {t} : sessions'[j] = sessions[j]
      BY <2>6, SetYaml
    <3>. QED BY <1>2, <1>3, <1>7, <3>1
  <2>7. \E t \in Sids : LogsStem(t)
    BY <1>1, <1>6, <1>14, <2>3, <2>4, <2>5, <2>6, ImportWrites
  <2>. HIDE DEF Goal
  <2>. QED BY <1>5, <1>14, <2>2, <2>7 DEF Step
<1>15. ASSUME NEW p \in Procs, InPlace(p), ~Merge(p) PROVE \E t \in Sids : Goal(t)
  <2>1. \A t : PendingStems(p, t)
    BY <1>13, <1>15 DEF Step
  <2>2. ASSUME NEW t \in Sids, t = Target(p), NEW log \in Logs,
               Set(t, [sessions[t] EXCEPT !.log = log]), log.events \subseteq Pending(p)
        PROVE  LogsStem(t)
    <3>1. sessions'[t].log = log /\ \A j \in Sids \ {t} : sessions'[j] = sessions[j]
      BY <2>2, SetLog
    <3>2. \A e \in log.events : e \in Owned(t)
      BY <1>4, <2>2
    <3>. QED BY <1>2, <1>7, <3>1, <3>2
  <2>3. ASSUME NEW t \in Sids, NEW yaml \in Yamls, Set(t, [sessions[t] EXCEPT !.yaml = yaml])
        PROVE  LogsStem(t)
    <3>1. sessions'[t].log = sessions[t].log /\ \A j \in Sids \ {t} : sessions'[j] = sessions[j]
      BY <2>3, SetYaml
    <3>. QED BY <1>2, <1>3, <1>7, <3>1
  <2>4. mem[p].next.events \subseteq Pending(p) /\ mem[p].raw.events \subseteq Pending(p)
    BY DEF Pending
  <2>5. \E t \in Sids : LogsStem(t)
    BY <1>1, <1>6, <1>15, <2>2, <2>3, <2>4, InPlaceWrites
  <2>. HIDE DEF Goal
  <2>. QED BY <1>5, <1>15, <2>1, <2>5 DEF Step
<1>16. ASSUME NEW p \in Procs, Merge(p) PROVE \E t \in Sids : Goal(t)
  <2>1. sessions' = sessions
    BY <1>16, MergeEffect
  <2>2. \A t : LogsStem(t)
    BY <1>6, <2>1
  <2>3. InPlace(p) /\ Step(p) /\ ~Rechain(p)
    BY <1>16, RechainEffect, MergeEffect DEF InPlace, Step
  <2>4. \E t \in Sids : PendingStems(p, t)
    BY <1>1, <1>9, <1>10, <1>11, <2>3, PendingNext
  <2>. HIDE DEF Goal
  <2>. QED BY <1>5, <2>2, <2>3, <2>4
<1>17. ASSUME NEW p \in Procs, Again(p) \/ Crash(p) \/ WriteFails(p) PROVE \E t \in Sids : Goal(t)
  <2>1. sessions' = sessions
    BY <1>17, AgainEffect, CrashEffect, WriteFailsEffect
  <2>2. Pending(p)' = {} \/ mem'[p] = mem[p]
    <3>1. CASE Again(p)
      BY <3>1, AgainEffect
    <3>2. CASE Crash(p)
      BY <3>2, CrashEffect, NothingPendingNext, Places
    <3>3. CASE WriteFails(p)
      <4>1. mem' = mem \/ pc'[p] = "failed"
        BY <3>3, WriteFailsEffect
      <4>. QED BY <4>1, NothingPendingNext, Places
    <3>. QED BY <1>17, <3>1, <3>2, <3>3
  <2>3. PendingStems(p, 1)
    BY <1>9, <1>10, <2>2
  <2>. HIDE DEF Goal
  <2>. QED BY <1>1, <1>5, <1>6, <1>17, <2>1, <2>3
<1>18. ASSUME NEW t, mem' = mem, LogsStem(t) PROVE Goal(t)
  <2>. SUFFICES ASSUME NEW j \in Sids, NEW e \in Owned(j)' PROVE Stems(j, e, t)
    OBVIOUS
  <2>1. \A q \in Procs : Target(q)' = Target(q) /\ Pending(q)' = Pending(q)
    BY <1>18 DEF Target, Pending
  <2>2. e \in sessions'[j].log.events \/ e \in Owned(j)
    BY <2>1, OwnedMeans, OwnedMeansNext
  <2>. QED BY <1>2, <1>18, <2>2 DEF LogsStem
<1>19. ASSUME NEW i \in Sids, Forge(i) PROVE \E t \in Sids : Goal(t)
  <2>1. PICK log \in Logs : /\ log.events = sessions[i].log.events \cup {Mark(i)}
                            /\ Set(i, [sessions[i] EXCEPT !.log = log])
    BY <1>19, ForgeWrites
  <2>2. sessions'[i].log = log /\ \A j \in Sids \ {i} : sessions'[j] = sessions[j]
    BY <2>1, SetLog
  <2>3. \A e \in sessions'[i].log.events : Stems(i, e, i)
    BY <1>2, <1>3, <2>1, <2>2 DEF Stems
  <2>4. LogsStem(i) /\ mem' = mem
    BY <1>7, <1>19, <2>2, <2>3, ForgeEffect
  <2>. HIDE DEF Goal
  <2>. QED BY <1>18, <2>4
<1>20. ASSUME Grow \/ Rewrite \/ OlderGone \/ UNCHANGED vars PROVE \E t \in Sids : Goal(t)
  <2>1. mem' = mem /\ sessions' = sessions
    BY <1>20, SourceEffect DEF vars
  <2>. HIDE DEF Goal
  <2>. QED BY <1>1, <1>6, <1>18, <2>1
<1>. QED BY <1>14, <1>15, <1>16, <1>17, <1>19, <1>20 DEF Next, Step

LEMMA StampGrows ==
  ASSUME Typed, [Next]_vars
  PROVE  stamp' \in Nat /\ (stamp' = stamp \/ stamp' = stamp + 1)
<1>1. stamp \in Nat
  BY DEF Typed
<1>2. ASSUME NEW p \in Procs, Import(p) PROVE stamp' = stamp \/ stamp' = stamp + 1
  BY <1>2, LoadEffect, ScanEffect, ScanEndsEffect, ClassifyEffect, DeriveEffect, RemoveEffect,
     MakeDirectoryEffect, WriteBulkEffect, LinkYamlEffect, CleanupEffect DEF Import
<1>3. ASSUME NEW p \in Procs, InPlace(p) PROVE stamp' = stamp \/ stamp' = stamp + 1
  BY <1>3, ChooseEffect, LockEffect, JudgeEffect, MergeEffect, RechainEffect, WriteEventsEffect,
     WriteYamlEffect, RestoreEffect, RestoreFailsEffect, ReleaseEffect DEF InPlace
<1>4. ASSUME NEW p \in Procs, Again(p) \/ Crash(p) \/ WriteFails(p) PROVE stamp' = stamp
  BY <1>4, AgainEffect, CrashEffect, WriteFailsEffect
<1>5. ASSUME NEW i \in Sids, Forge(i) PROVE stamp' = stamp
  BY <1>5, ForgeEffect
<1>6. ASSUME Grow \/ Rewrite \/ OlderGone \/ UNCHANGED vars PROVE stamp' = stamp
  BY <1>6, SourceEffect DEF vars
<1>. QED BY <1>1, <1>2, <1>3, <1>4, <1>5, <1>6 DEF Next, Step

LEMMA MarksApart ==
  ASSUME NEW i \in Sids, NEW j \in Sids, Mark(i).id = Mark(j).id
  PROVE  i = j
BY DEF Mark, Event, Content

LEMMA IdsFitNext ==
  ASSUME Typed, CommandsFit, CommandsFit', IdsFit, AllTidy, PayloadsFit, [Next]_vars
  PROVE  IdsFit'
<1>1. PICK t \in Sids : \A j \in Sids : \A e \in Owned(j)' : Stems(j, e, t)
  BY OwnedNext
<1>2. stamp \in Nat \ {0} /\ stamp' \in Nat /\ (stamp' = stamp \/ stamp' = stamp + 1)
  BY StampGrows DEF Typed
<1>3. \A i \in Sids : \A e \in Owned(i) :
        /\ e.id[1] < stamp
        /\ e.id[2].kind = e.says.kind
        /\ e.says.kind = "forged" => e = Mark(i)
        /\ \A j \in Sids : \A f \in Owned(j) : e.id = f.id => i = j
  BY DEF IdsFit
<1>4. \A i \in Sids : \A e \in Owned(i) : e.id[1] \in Int
  <2>1. \A i \in Sids : \A e \in sessions[i].log.events : e.id[1] \in Int
    <3>1. \A e \in Events : e.id[1] \in Int
      BY DEF Events
    <3>. QED BY <3>1, LogsTyped
  <2>2. \A q \in Procs : \A e \in Pending(q) : e.id[1] \in Int
    <3>1. \A e \in Events : e.id[1] \in Int
      BY DEF Events
    <3>2. \A q \in Procs : Pending(q) \subseteq Events
      BY DEF Pending, Typed, Mems, Logs
    <3>. QED BY <3>1, <3>2
  <2>. QED BY <2>1, <2>2, OwnedMeans
<1>5. \A i \in Sids : Mark(i).id[1] = 0 /\ Mark(i).id[2] = Mark(i).says /\ Mark(i).says.kind = "forged"
  BY MarkTyped
<1>6. "forged" \notin DerivedKinds
  BY DEF DerivedKinds, Roles
<1>7. ASSUME NEW i \in Sids, NEW e \in Owned(i)'
      PROVE  e.id[1] < stamp' /\ e.id[2].kind = e.says.kind
             /\ (e.says.kind = "forged" => e = Mark(i))
  <2>1. Stems(i, e, t)
    BY <1>1
  <2>. QED BY <1>2, <1>3, <1>4, <1>5, <1>6, <2>1 DEF Stems
<1>8. ASSUME NEW i \in Sids, NEW e \in Owned(i)', NEW j \in Sids, NEW f \in Owned(j)', e.id = f.id
      PROVE  i = j
  <2>1. Stems(i, e, t) /\ Stems(j, f, t)
    BY <1>1
  <2>. DEFINE Old(k, x) == \E g \in Owned(k) : x.id = g.id
              New(k, x) == x.id[1] = stamp /\ k = t
  <2>2. (Old(i, e) \/ New(i, e) \/ e = Mark(i)) /\ (Old(j, f) \/ New(j, f) \/ f = Mark(j))
    BY <2>1 DEF Stems
  <2>3. ASSUME NEW k \in Sids, NEW g \in Owned(k), NEW l \in Sids, g.id = Mark(l).id PROVE k = l
    <3>1. g.says.kind = "forged"
      BY <1>3, <1>5, <2>3
    <3>2. g = Mark(k)
      BY <1>3, <3>1
    <3>. QED BY <2>3, <3>2, MarksApart
  <2>4. CASE Old(i, e) /\ Old(j, f)
    BY <1>3, <1>8, <2>4
  <2>5. CASE New(i, e) \/ New(j, f)
    BY <1>2, <1>3, <1>4, <1>5, <1>8, <2>2, <2>5
  <2>6. CASE Old(i, e) /\ f = Mark(j)
    BY <1>8, <2>3, <2>6
  <2>7. CASE e = Mark(i) /\ Old(j, f)
    BY <1>8, <2>3, <2>7
  <2>8. CASE e = Mark(i) /\ f = Mark(j)
    BY <1>8, <2>8, MarksApart
  <2>. QED BY <2>2, <2>4, <2>5, <2>6, <2>7, <2>8
<1>. QED BY <1>7, <1>8 DEF IdsFit

LEMMA AllTidyNext ==
  ASSUME Typed, CommandsFit, CommandsFit', IdsFit, AllTidy, PayloadsFit, [Next]_vars
  PROVE  AllTidy'
<1>1. /\ \A i \in Sids : Tidy(sessions[i].log.events)
      /\ \A p \in Procs : Tidy(mem[p].next.events) /\ Tidy(mem[p].raw.events)
  BY DEF AllTidy
<1>2. Tidy({})
  BY DEF Tidy
<1>3. NoLog.events = {}
  BY DEF NoLog
<1>. DEFINE LogsTidy == \A i \in Sids : Tidy(sessions'[i].log.events)
            MindTidy(p) == Tidy(mem'[p].next.events) /\ Tidy(mem'[p].raw.events)
<1>4. ASSUME LogsTidy, \A p \in Procs : MindTidy(p) PROVE AllTidy'
  BY <1>4 DEF AllTidy
<1>5. ASSUME NEW i \in Sids, \A j \in Sids \ {i} : sessions'[j] = sessions[j],
             Tidy(sessions'[i].log.events)
      PROVE  LogsTidy
  BY <1>1, <1>5
<1>6. ASSUME sessions' = sessions PROVE LogsTidy
  BY <1>1, <1>6
<1>7. ASSUME NEW p \in Procs, Step(p) \/ Again(p) \/ Crash(p) \/ WriteFails(p),
             NEW q \in Procs
      PROVE  MindTidy(q)
  <2>1. CASE mem'[q] = mem[q]
    BY <1>1, <2>1
  <2>2. CASE mem'[q].next = NoLog /\ mem'[q].raw = NoLog
    BY <1>2, <1>3, <2>2
  <2>3. ASSUME Target(p) \in Sids, mem'[p].next = ChainedLog(MergeOf(p, sessions[Target(p)])),
               mem'[p].raw = sessions[Target(p)].log
        PROVE  MindTidy(p)
    <3>1. Tidy(MergeOf(p, sessions[Target(p)]))
      BY <2>3, MergeOfFits
    <3>. QED BY <1>1, <2>3, <3>1, ChainedEvents
  <2>4. ASSUME Target(p) \in Sids, mem'[p].next = ChainedLog(sessions[Target(p)].log.events),
               mem'[p].raw = sessions[Target(p)].log
        PROVE  MindTidy(p)
    BY <1>1, <2>4, ChainedEvents
  <2>. HIDE DEF MindTidy
  <2>5. CASE q # p
    BY <1>7, <2>1, <2>5, Frame
  <2>6. CASE q = p
    BY <1>7, <2>1, <2>2, <2>3, <2>4, <2>6, PendingNext
  <2>. QED BY <2>5, <2>6
<1>. HIDE DEF MindTidy, LogsTidy
<1>8. ASSUME NEW p \in Procs, Import(p) PROVE LogsTidy
  <2>1. ASSUME NEW i \in Sids, Set(i, NoSession) PROVE LogsTidy
    BY <1>2, <1>5, <2>1, SetNothing
  <2>2. ASSUME made' \in Sids, Set(made', [NoSession EXCEPT !.dir = TRUE]) PROVE LogsTidy
    <3>1. PICK i \in Sids : i = made'
      BY <2>2
    <3>2. Set(i, [NoSession EXCEPT !.dir = TRUE])
      BY <2>2, <3>1
    <3>3. sessions'[i].log = NoLog /\ \A j \in Sids \ {i} : sessions'[j] = sessions[j]
      BY <3>2, SetDirectory
    <3>. QED BY <1>2, <1>3, <1>5, <3>3
  <2>3. ASSUME NEW t \in Sids, ChainedLog(NewEvents(p)) \in Logs,
               Set(t, [sessions[t] EXCEPT !.log = ChainedLog(NewEvents(p))])
        PROVE  LogsTidy
    <3>1. sessions'[t].log.events = NewEvents(p) /\ \A j \in Sids \ {t} : sessions'[j] = sessions[j]
      BY <2>3, SetLog, ChainedEvents
    <3>2. \A e \in NewEvents(p) : e = Event(stamp, e.says) /\ e.says \in mem[p].payload
                                 /\ e.id[2] = e.says
      BY DEF NewEvents, Event
    <3>3. \A e, f \in NewEvents(p) : e.says = f.says => e = f
      BY <3>2
    <3>4. \A e, f \in NewEvents(p) : e.id = f.id => e = f
      BY <3>2, <3>3
    <3>5. \A e, f \in NewEvents(p) : Matches(e, f.says) => e = f
      BY <3>2, <3>3 DEF Matches, PayloadsFit, PayloadFits
    <3>6. Tidy(NewEvents(p))
      BY <3>4, <3>5 DEF Tidy
    <3>. QED BY <1>5, <3>1, <3>6
  <2>4. ASSUME NEW t \in Sids, NEW yaml \in Yamls, Set(t, [sessions[t] EXCEPT !.yaml = yaml])
        PROVE  LogsTidy
    BY <1>1, <1>5, <2>4, SetYaml
  <2>. QED BY <1>6, <1>8, <2>1, <2>2, <2>3, <2>4, ImportWrites
<1>9. ASSUME NEW p \in Procs, InPlace(p) PROVE LogsTidy
  <2>1. ASSUME NEW t \in Sids, NEW log \in Logs, Set(t, [sessions[t] EXCEPT !.log = log]),
               Tidy(log.events)
        PROVE  LogsTidy
    BY <1>5, <2>1, SetLog
  <2>2. ASSUME NEW t \in Sids, NEW yaml \in Yamls, Set(t, [sessions[t] EXCEPT !.yaml = yaml])
        PROVE  LogsTidy
    BY <1>1, <1>5, <2>2, SetYaml
  <2>. QED BY <1>1, <1>6, <1>9, <2>1, <2>2, InPlaceWrites
<1>10. ASSUME NEW p \in Procs, Again(p) \/ Crash(p) \/ WriteFails(p) PROVE LogsTidy
  BY <1>6, <1>10, AgainEffect, CrashEffect, WriteFailsEffect
<1>11. ASSUME mem' = mem PROVE \A p \in Procs : MindTidy(p)
  BY <1>1, <1>11 DEF MindTidy
<1>12. ASSUME NEW i \in Sids, Forge(i) PROVE LogsTidy
  <2>1. PICK log \in Logs : /\ log.events = sessions[i].log.events \cup {Mark(i)}
                            /\ Set(i, [sessions[i] EXCEPT !.log = log])
    BY <1>12, ForgeWrites
  <2>2. sessions'[i].log = log /\ \A j \in Sids \ {i} : sessions'[j] = sessions[j]
    BY <2>1, SetLog
  <2>3. \A e \in sessions[i].log.events : e.id = Mark(i).id => e = Mark(i)
    <3>1. \A e \in sessions[i].log.events : /\ e.id[2].kind = e.says.kind
                                            /\ e.says.kind = "forged" => e = Mark(i)
      BY OwnedMeans DEF IdsFit
    <3>. QED BY <3>1, MarkTyped
  <2>4. Mark(i).says.kind \notin DerivedKinds
    BY MarkTyped DEF DerivedKinds, Roles
  <2>5. Tidy(sessions[i].log.events)
    BY <1>1
  <2>6. Tidy(log.events)
    BY <2>1, <2>3, <2>4, <2>5 DEF Tidy, Derived
  <2>. QED BY <1>5, <2>2, <2>6
<1>13. ASSUME Grow \/ Rewrite \/ OlderGone \/ UNCHANGED vars PROVE mem' = mem /\ sessions' = sessions
  BY <1>13, SourceEffect DEF vars
<1>14. ASSUME NEW p \in Procs, Step(p) \/ Again(p) \/ Crash(p) \/ WriteFails(p) PROVE AllTidy'
  BY <1>4, <1>7, <1>8, <1>9, <1>10, <1>14 DEF Step
<1>15. ASSUME NEW i \in Sids, Forge(i) PROVE AllTidy'
  BY <1>4, <1>11, <1>12, <1>15, ForgeEffect
<1>. QED BY <1>4, <1>6, <1>11, <1>13, <1>14, <1>15 DEF Next

-----------------------------------------------------------------------------
(* Marks and verdicts.                                                        *)

(* A session is locked by one command.                                        *)
LEMMA LockedAlone ==
  ASSUME CommandsFit, NEW p \in Procs, NEW q \in Procs, pc[p] \in Locked, pc[q] \in Locked,
         Target(p) = Target(q)
  PROVE  p = q
BY DEF CommandsFit, CommandFits, Target

(* Only --force takes a session from a command that has it locked and knows   *)
(* its session.yaml.                                                          *)
LEMMA HeldLeftAlone ==
  ASSUME Typed, CommandsFit, MakersAlone, NEW q \in Procs, pc[q] \in Locked, KnowsTarget(q),
         \/ \E p \in Procs \ {q} : Step(p)
         \/ \E p \in Procs : Again(p) \/ Crash(p) \/ WriteFails(p)
         \/ \E i \in Sids : Forge(i)
         \/ Grow \/ Rewrite \/ OlderGone \/ UNCHANGED vars
  PROVE  sessions'[Target(q)] \in {sessions[Target(q)], NoSession}
<1>. DEFINE t == Target(q)
            Goal == sessions'[t] \in {sessions[t], NoSession}
<1>1. t \in Sids /\ t <= made /\ made \in Nat
  BY TargetIsSession DEF Typed
<1>2. Knows(q, t)
  BY DEF Knows
<1>3. \A p \in Procs : pc[p] \in Making => Target(p) # t
  BY <1>1, <1>2, KnownNotMade
<1>4. \A p \in Procs \ {q} : pc[p] \in Locked => Target(p) # t
  BY LockedAlone
<1>5. ~Available(t)
  BY DEF Available, Holds, CommandsFit, CommandFits, Target
<1>. HIDE DEF t
<1>6. ASSUME NEW i \in Sids, Set(i, NoSession) PROVE Goal
  BY <1>1, <1>6, SetNothing
<1>7. ASSUME made' = made + 1, made' \in Sids, Set(made', [NoSession EXCEPT !.dir = TRUE])
      PROVE  Goal
  <2>1. made' # t
    BY <1>1, <1>7
  <2>. QED BY <1>1, <1>7, <2>1, SetDirectory
<1>8. ASSUME NEW i \in Sids, i # t, NEW log \in Logs, Set(i, [sessions[i] EXCEPT !.log = log])
      PROVE  Goal
  BY <1>1, <1>8, SetLog
<1>9. ASSUME NEW i \in Sids, i # t, NEW yaml \in Yamls, Set(i, [sessions[i] EXCEPT !.yaml = yaml])
      PROVE  Goal
  BY <1>1, <1>9, SetYaml
<1>10. ASSUME sessions' = sessions PROVE Goal
  BY <1>10
<1>11. ASSUME NEW p \in Procs \ {q}, Import(p) PROVE Goal
  <2>1. WriteBulk(p) \/ LinkYaml(p) => Target(p) # t
    BY <1>3, WriteBulkEffect, LinkYamlEffect, Places
  <2>. HIDE DEF Goal
  <2>. QED BY <1>6, <1>7, <1>8, <1>9, <1>10, <1>11, <2>1, ImportWrites
<1>12. ASSUME NEW p \in Procs \ {q}, InPlace(p) PROVE Goal
  <2>1. WriteEvents(p) \/ WriteYaml(p) \/ Restore(p) => Target(p) # t
    BY <1>4, WriteEventsEffect, WriteYamlEffect, RestoreEffect, Places
  <2>. HIDE DEF Goal
  <2>. QED BY <1>8, <1>9, <1>10, <1>12, <2>1, InPlaceWrites
<1>13. ASSUME NEW p \in Procs, Again(p) \/ Crash(p) \/ WriteFails(p) PROVE sessions' = sessions
  BY <1>13, AgainEffect, CrashEffect, WriteFailsEffect
<1>14. ASSUME NEW i \in Sids, Forge(i) PROVE Goal
  <2>1. i # t
    BY <1>5, <1>14, ForgeEffect
  <2>. HIDE DEF Goal
  <2>. QED BY <1>8, <1>14, <2>1, ForgeWrites
<1>15. ASSUME Grow \/ Rewrite \/ OlderGone \/ UNCHANGED vars PROVE sessions' = sessions
  BY <1>15, SourceEffect DEF vars
<1>. HIDE DEF Goal
<1>16. Goal
  BY <1>10, <1>11, <1>12, <1>13, <1>14, <1>15 DEF Step
<1>. QED BY <1>16 DEF Goal, t

(* Who marks a session, and how a mark goes.                                  *)
CutsOff(i) ==
    \E p \in Procs : /\ pc[p] \in Replacing /\ Target(p) = i /\ mem[p].next # mem[p].raw
                     /\ Crash(p) \/ RestoreFails(p)

LEMMA MarksNext ==
  ASSUME Typed, CommandsFit, [Next]_vars, NEW i \in Sids
  PROVE  /\ i \in Marked' => i \in Marked \/ Forge(i) \/ CutsOff(i)
         /\ i \in ghost'.forged => i \in ghost.forged \/ Forge(i)
         /\ i \in Marked /\ i \notin Marked' => sessions'[i] = NoSession
         /\ i \in ghost.forged /\ i \notin ghost'.forged => sessions'[i] = NoSession
<1>. DEFINE Goal == /\ i \in Marked' => i \in Marked \/ Forge(i) \/ CutsOff(i)
                    /\ i \in ghost'.forged => i \in ghost.forged \/ Forge(i)
                    /\ i \in Marked /\ i \notin Marked' => sessions'[i] = NoSession
                    /\ i \in ghost.forged /\ i \notin ghost'.forged => sessions'[i] = NoSession
<1>1. ghost \in Ghosts
  BY DEF Typed
<1>2. ASSUME ghost'.forged = ghost.forged, ghost'.cut = ghost.cut PROVE Goal
  BY <1>2 DEF Marked
<1>3. ASSUME NEW p \in Procs, Load(p) PROVE Goal
  <2>1. ghost'.forged = ghost.forged /\ ghost'.cut = ghost.cut
    BY <1>1, <1>3, LoadEffect DEF Ghosts
  <2>. QED BY <1>2, <2>1
<1>4. ASSUME NEW p \in Procs, Remove(p) PROVE Goal
  <2>1. PICK j \in mem[p].left :
          /\ Set(j, NoSession)
          /\ ghost' = [ghost EXCEPT !.forged = ghost.forged \ {j}, !.cut = ghost.cut \ {j}]
    BY <1>4, RemoveEffect
  <2>2. j \in Sids
    BY DEF Typed, Mems
  <2>3. sessions'[j] = NoSession
    BY <2>1, <2>2, SetNothing
  <2>4. ghost'.forged = ghost.forged \ {j} /\ ghost'.cut = ghost.cut \ {j}
    BY <1>1, <2>1 DEF Ghosts
  <2>. QED BY <2>3, <2>4 DEF Marked
<1>5. ASSUME NEW p \in Procs, Import(p), ~Load(p), ~Remove(p) PROVE ghost' = ghost
  BY <1>5, ScanEffect, ScanEndsEffect, ClassifyEffect, DeriveEffect, MakeDirectoryEffect,
     WriteBulkEffect, LinkYamlEffect, CleanupEffect DEF Import
<1>6. ASSUME NEW p \in Procs, ghost' = CutShort(p), pc[p] \in Replacing, Crash(p) \/ RestoreFails(p)
      PROVE  Goal
  <2>1. /\ ghost'.forged = ghost.forged
        /\ ghost'.cut = IF mem[p].next = mem[p].raw THEN ghost.cut ELSE ghost.cut \cup {Target(p)}
    BY <1>6, CutShortEffect
  <2>2. i \in ghost'.cut => i \in ghost.cut \/ CutsOff(i)
    BY <1>6, <2>1 DEF CutsOff
  <2>3. ghost.cut \subseteq ghost'.cut
    BY <2>1
  <2>. QED BY <2>1, <2>2, <2>3 DEF Marked
<1>7. ASSUME NEW p \in Procs, RestoreFails(p) PROVE Goal
  BY <1>6, <1>7, RestoreFailsEffect DEF Replacing
<1>8. ASSUME NEW p \in Procs, InPlace(p), ~RestoreFails(p) PROVE ghost' = ghost
  BY <1>8, ChooseEffect, LockEffect, JudgeEffect, MergeEffect, RechainEffect, WriteEventsEffect,
     WriteYamlEffect, RestoreEffect, ReleaseEffect DEF InPlace
<1>9. ASSUME NEW p \in Procs, Crash(p) PROVE Goal
  BY <1>2, <1>6, <1>9, CrashEffect DEF Replacing
<1>10. ASSUME NEW p \in Procs, Again(p) \/ WriteFails(p) PROVE ghost' = ghost
  BY <1>10, AgainEffect, WriteFailsEffect
<1>11. ASSUME NEW j \in Sids, Forge(j) PROVE Goal
  <2>1. ghost'.forged = ghost.forged \cup {j} /\ ghost'.cut = ghost.cut
    <3>1. ghost' = [ghost EXCEPT !.forged = ghost.forged \cup {j}]
      BY <1>11, ForgeEffect
    <3>. QED BY <1>1, <3>1 DEF Ghosts
  <2>. QED BY <1>11, <2>1 DEF Marked
<1>12. ASSUME Grow \/ Rewrite \/ OlderGone PROVE Goal
  <2>1. ghost' = ghost \/ ghost' = [ghost EXCEPT !.rewritten = TRUE]
    BY <1>12, SourceEffect
  <2>2. ghost'.forged = ghost.forged /\ ghost'.cut = ghost.cut
    BY <1>1, <2>1 DEF Ghosts
  <2>. QED BY <1>2, <2>2
<1>13. ASSUME UNCHANGED vars PROVE ghost' = ghost
  BY <1>13 DEF vars
<1>14. ASSUME ghost' = ghost PROVE Goal
  BY <1>2, <1>14
<1>. HIDE DEF Goal
<1>15. Goal
  BY <1>3, <1>4, <1>5, <1>7, <1>8, <1>9, <1>10, <1>11, <1>12, <1>13, <1>14 DEF Next, Step
<1>. QED BY <1>15 DEF Goal

LEMMA ThereIsDir ==
  ASSUME SessionsFit, NEW i \in Sids, sessions[i].yaml.there
  PROVE  sessions[i].dir /\ i <= made
BY DEF SessionsFit, NoSession, NoYaml

LEMMA MarksFitNext ==
  ASSUME Typed, CommandsFit, SessionsFit, RewritesFit, MarksFit, [Next]_vars, Typed'
  PROVE  MarksFit'
<1>. SUFFICES ASSUME NEW i \in Marked'
              PROVE  i <= made' /\ (sessions'[i].dir => sessions'[i].yaml.there)
  BY DEF MarksFit
<1>1. i \in Sids
  BY DEF Marked, Typed, Ghosts
<1>2. CASE i \in Marked
  BY <1>1, <1>2, KnownStays DEF MarksFit
<1>3. CASE Forge(i)
  BY <1>1, <1>3, ForgeEffect, ThereIsDir, KnownStays
<1>4. CASE CutsOff(i)
  <2>1. PICK p \in Procs : pc[p] \in Replacing /\ Target(p) = i
    BY <1>4 DEF CutsOff
  <2>2. Knows(p, i)
    BY <2>1 DEF Knows, KnowsTarget, Writing
  <2>. QED BY <1>1, <2>2, KnownStays DEF CommandsFit, CommandFits
<1>. QED BY <1>1, <1>2, <1>3, <1>4, MarksNext

(* A broken session is what verify calls tampered, a clean one is not.        *)
LEMMA VerdictFits ==
  ASSUME NEW s \in Sessions, s.yaml.there
  PROVE  /\ Broken(s.log, s.yaml) => Verdict(s) = "tampered"
         /\ Clean(s.log, s.yaml) => Verdict(s) \in {"verified", "unchained"}
<1>1. s.log.chained \in BOOLEAN /\ s.log.intact \in BOOLEAN /\ s.yaml.anchor.set \in BOOLEAN
  BY DEF Sessions, Logs, Yamls, Anchors
<1>2. ~NoAnchor.set
  BY DEF NoAnchor
<1>3. CASE ~s.log.chained /\ s.yaml.anchor.set
  <2>1. Verdict(s) = "tampered"
    BY <1>3 DEF Verdict
  <2>. QED BY <1>2, <1>3, <2>1 DEF Clean
<1>4. CASE ~s.log.chained /\ ~s.yaml.anchor.set
  <2>1. Verdict(s) = IF s.log.events = {} THEN "empty" ELSE "unchained"
    BY <1>4 DEF Verdict
  <2>. QED BY <1>4, <2>1 DEF Clean, Broken
<1>5. CASE s.log.chained /\ ~s.log.intact
  <2>1. Verdict(s) = "tampered"
    BY <1>5 DEF Verdict
  <2>. QED BY <1>5, <2>1 DEF Clean
<1>6. CASE s.log.chained /\ s.log.intact
  <2>1. Verdict(s) = IF s.yaml.anchor = AnchorOf(s.log.events) THEN "verified" ELSE "tampered"
    BY <1>6 DEF Verdict
  <2>. QED BY <1>6, <2>1 DEF Clean, Broken
<1>. QED BY <1>1, <1>3, <1>4, <1>5, <1>6

(* What a command found fit to merge is not broken.                           *)
LEMMA JudgedClean ==
  ASSUME Typed, CommandsFit, StoreFits, NEW p \in Procs, pc[p] \in {"judge", "merge"},
         sessions[Target(p)].yaml.there
  PROVE  IF Target(p) \in Marked THEN Broken(sessions[Target(p)].log, sessions[Target(p)].yaml)
         ELSE Clean(sessions[Target(p)].log, sessions[Target(p)].yaml)
<1>1. Target(p) \in Sids
  BY TargetIsSession, Places
<1>2. ~BetweenWrites(Target(p))
  BY LockedAlone, Places DEF BetweenWrites, Replacing
<1>. QED BY <1>1, <1>2 DEF StoreFits, StoreFitsAt

LEMMA RewritesFitNext ==
  ASSUME Typed, CommandsFit, MakersAlone, SessionsFit, IdsFit, AllTidy, PayloadsFit, StoreFits,
         MarksFit, RewritesFit, [Next]_vars, CommandsFit'
  PROVE  RewritesFit'
<1>. DEFINE t(p) == Target(p)
            s(p) == sessions[Target(p)]
<1>1. ASSUME NEW p \in Procs
      PROVE  /\ RewriteFits(p)
             /\ pc[p] \in Locked => t(p) \in Sids /\ t(p) <= made /\ s(p) \in Sessions
             /\ pc[p] \in {"merge"} \cup Writing => pc[p] \in Locked /\ KnowsTarget(p) /\ Knows(p, t(p))
  BY TargetIsSession, Places DEF RewritesFit, Typed, Knows, KnowsTarget
(* What others do to it.                                                      *)
<1>2. ASSUME NEW q \in Procs, mem'[q] = mem[q], pc'[q] = pc[q],
             \/ \E p \in Procs \ {q} : Step(p) \/ Again(p) \/ Crash(p) \/ WriteFails(p)
             \/ \E i \in Sids : Forge(i)
             \/ Grow \/ Rewrite \/ OlderGone \/ UNCHANGED vars
      PROVE  RewriteFits(q)'
  <2>1. CASE pc[q] \notin {"merge"} \cup Writing
    BY <1>2, <2>1 DEF RewriteFits
  <2>2. CASE pc[q] \in {"merge"} \cup Writing /\ sessions'[t(q)] = NoSession
    <3>1. ~NoSession.dir
      BY DEF NoSession
    <3>. QED BY <1>2, <2>2, <3>1 DEF RewriteFits, Target
  <2>3. CASE pc[q] \in {"merge"} \cup Writing /\ sessions'[t(q)] # NoSession
    <3>1. sessions'[t(q)] = s(q)
      BY <1>1, <1>2, <2>3, HeldLeftAlone
    <3>2. ~Available(t(q)) /\ t(q) \in Sids /\ pc[q] \in Locked
      BY <1>1, <2>3 DEF Available, Holds, CommandsFit, CommandFits, Target
    <3>3. ~CutsOff(t(q))
      <4>. SUFFICES ASSUME NEW p \in Procs, pc[p] \in Replacing, Target(p) = t(q),
                           Crash(p) \/ RestoreFails(p)
                    PROVE  FALSE
        BY DEF CutsOff
      <4>1. p = q
        BY <3>2, LockedAlone, Places DEF Replacing
      <4>2. pc'[p] # pc[p]
        BY CrashEffect, RestoreFailsEffect DEF Replacing
      <4>. QED BY <1>2, <4>1, <4>2
    <3>4. t(q) \in Marked' => t(q) \in Marked
      BY <3>2, <3>3, MarksNext, ForgeEffect
    <3>. QED BY <1>1, <1>2, <2>3, <3>1, <3>4 DEF RewriteFits, Target
  <2>. QED BY <2>1, <2>2, <2>3
<1>3. ASSUME NEW p \in Procs, Step(p) \/ Again(p) \/ Crash(p) \/ WriteFails(p), RewriteFits(p)'
      PROVE  RewritesFit'
  <2>1. ASSUME NEW q \in Procs \ {p} PROVE RewriteFits(q)'
    BY <1>2, <1>3, Frame
  <2>. QED BY <1>3, <2>1 DEF RewritesFit
<1>4. ASSUME NEW p \in Procs, pc'[p] \notin {"merge"} \cup Writing PROVE RewriteFits(p)'
  BY <1>4 DEF RewriteFits
<1>5. ASSUME NEW p \in Procs, Import(p) \/ Again(p) \/ Crash(p) PROVE RewritesFit'
  <2>1. pc'[p] \notin {"merge"} \cup Writing
    BY <1>5, LoadEffect, ScanEffect, ScanEndsEffect, ClassifyEffect, DeriveEffect, RemoveEffect,
       MakeDirectoryEffect, WriteBulkEffect, LinkYamlEffect, CleanupEffect, AgainEffect, CrashEffect,
       Places DEF Import
  <2>. QED BY <1>3, <1>4, <1>5, <2>1 DEF Step
<1>6. ASSUME NEW p \in Procs, Choose(p) \/ Lock(p) \/ Restore(p) \/ RestoreFails(p) \/ Release(p)
      PROVE  RewritesFit'
  <2>1. pc'[p] \notin {"merge"} \cup Writing
    BY <1>6, ChooseEffect, LockEffect, RestoreEffect, RestoreFailsEffect, ReleaseEffect, Places
  <2>. QED BY <1>3, <1>4, <1>6, <2>1 DEF Step, InPlace
<1>7. ASSUME NEW p \in Procs, sessions' = sessions, ghost' = ghost, Target(p)' = Target(p),
             s(p).dir => RewriteFits(p)'
      PROVE  RewriteFits(p)'
  BY <1>7 DEF RewriteFits, Target
<1>8. ASSUME NEW p \in Procs, Judge(p) PROVE RewritesFit'
  <2>1. /\ pc[p] = "judge" /\ mem' = mem /\ sessions' = sessions /\ ghost' = ghost
        /\ \/ /\ pc'[p] = "merge"
              /\ IF kind[p] = "rechain" THEN s(p).yaml.there /\ Verdict(s(p)) = "unchained"
                 ELSE Verdict(s(p)) # "tampered"
           \/ pc'[p] = "give_up"
    BY <1>8, JudgeEffect
  <2>2. CASE pc'[p] = "give_up"
    BY <1>3, <1>4, <1>8, <2>2, Places DEF Step, InPlace
  <2>3. CASE pc'[p] = "merge" /\ s(p).dir
    <3>1. s(p).yaml.there
      <4>1. CASE kind[p] = "rechain"
        BY <2>1, <2>3, <4>1
      <4>2. CASE kind[p] # "rechain"
        <5>1. Knows(p, t(p)) /\ t(p) \in Sids
          BY <1>1, <2>1, <4>2, Places DEF Knows, KnowsTarget
        <5>. QED BY <2>3, <5>1 DEF CommandsFit, CommandFits
      <4>. QED BY <4>1, <4>2
    <3>2. t(p) \in Sids /\ s(p) \in Sessions
      BY <1>1, <2>1, Places
    <3>3. t(p) \notin Marked
      <4>1. Verdict(s(p)) # "tampered"
        BY <2>1, <2>3
      <4>. QED BY <2>1, <3>1, <3>2, <4>1, VerdictFits, JudgedClean
    <3>4. RewriteFits(p)'
      BY <2>1, <2>3, <3>3, Places DEF RewriteFits, Target, Marked
    <3>. QED BY <1>3, <1>8, <3>4 DEF Step, InPlace
  <2>4. CASE pc'[p] = "merge" /\ ~s(p).dir
    <3>1. RewriteFits(p)'
      BY <2>1, <2>4 DEF RewriteFits, Target
    <3>. QED BY <1>3, <1>8, <3>1 DEF Step, InPlace
  <2>. QED BY <2>1, <2>2, <2>3, <2>4
<1>9. ASSUME NEW p \in Procs, pc[p] = "merge", s(p).yaml.there
      PROVE  t(p) \notin Marked /\ Clean(s(p).log, s(p).yaml) /\ s(p).dir
  <2>1. t(p) \in Sids /\ s(p).dir
    BY <1>1, <1>9, ThereIsDir, Places
  <2>2. t(p) \notin Marked
    BY <1>1, <1>9, <2>1 DEF RewriteFits, Target
  <2>. QED BY <1>9, <2>1, <2>2, JudgedClean
<1>10. ASSUME NEW p \in Procs, Merge(p) PROVE RewritesFit'
  <2>. DEFINE new == MergeOf(p, s(p))
              next == ChainedLog(new)
              yaml == YamlOf(p, new, s(p).yaml.linked)
              raw == s(p).log
  <2>1. /\ pc[p] = "merge" /\ kind[p] # "rechain" /\ sessions' = sessions /\ ghost' = ghost
        /\ \/ pc'[p] \in {"give_up", "throw"}
           \/ /\ s(p).yaml.there /\ pc'[p] = "events"
              /\ mem'[p] = [NoMem EXCEPT
                    !.target = mem[p].target, !.started = mem[p].started,
                    !.leftOut = mem[p].leftOut, !.next = next, !.yaml = yaml, !.raw = raw]
    BY <1>10, MergeEffect
  <2>2. CASE pc'[p] \in {"give_up", "throw"}
    BY <1>3, <1>4, <1>10, <2>2, Places DEF Step, InPlace
  <2>3. CASE pc'[p] \notin {"give_up", "throw"}
    <3>1. t(p) \notin Marked /\ Clean(raw, s(p).yaml) /\ s(p).dir
      BY <1>9, <2>1, <2>3
    <3>2. new # {}
      <4>1. mem[p].payload # {}
        BY <2>1 DEF CommandsFit, CommandFits
      <4>2. t(p) \in Sids
        BY <1>1, <2>1, Places
      <4>. QED BY <4>1, <4>2, MergeOfFits
    <3>3. next.chained /\ next.intact /\ next.events = new
      BY <3>2, ChainedEvents
    <3>4. yaml.there /\ yaml.anchor = AnchorOf(next.events) /\ yaml.linked = s(p).yaml.linked
      BY <3>3 DEF YamlOf
    <3>. HIDE DEF new, next, yaml, raw
    <3>5. /\ mem'[p].target = mem[p].target /\ mem'[p].next = next /\ mem'[p].yaml = yaml
          /\ mem'[p].raw = raw /\ pc'[p] = "events"
      <4>1. /\ pc'[p] = "events"
            /\ mem'[p] = [NoMem EXCEPT
                    !.target = mem[p].target, !.started = mem[p].started,
                    !.leftOut = mem[p].leftOut, !.next = next, !.yaml = yaml, !.raw = raw]
        BY <2>1, <2>3
      <4>. QED BY <4>1 DEF NoMem
    <3>6. RewriteFits(p)'
      BY <2>1, <3>1, <3>2, <3>3, <3>4, <3>5 DEF RewriteFits, Target, Marked, raw
    <3>. QED BY <1>3, <1>10, <3>6 DEF Step, InPlace
  <2>. QED BY <2>2, <2>3
<1>11. ASSUME NEW p \in Procs, Rechain(p) PROVE RewritesFit'
  <2>. DEFINE next == ChainedLog(s(p).log.events)
              yaml == [s(p).yaml EXCEPT !.anchor = AnchorOf(s(p).log.events)]
              raw == s(p).log
  <2>1. /\ pc[p] = "merge" /\ pc'[p] = "events" /\ sessions' = sessions /\ ghost' = ghost
        /\ mem'[p] = [mem[p] EXCEPT !.next = next, !.yaml = yaml, !.raw = raw]
    BY <1>11, RechainEffect
  <2>2. /\ s(p) \in Sessions /\ t(p) \in Sids /\ (s(p).dir => s(p).yaml.there)
    BY <1>1, <2>1, Places DEF CommandsFit, CommandFits
  <2>3. s(p).yaml \in Yamls
    BY <2>2 DEF Sessions
  <2>4. yaml.there = s(p).yaml.there /\ yaml.anchor = AnchorOf(s(p).log.events)
        /\ yaml.linked = s(p).yaml.linked
    BY <2>3 DEF Yamls
  <2>5. next.intact /\ next.events = s(p).log.events /\ (next.chained <=> s(p).log.events # {})
    BY ChainedEvents
  <2>6. s(p).dir => t(p) \notin Marked /\ Clean(raw, s(p).yaml)
    BY <1>9, <2>1, <2>2
  <2>. HIDE DEF next, yaml, raw
  <2>7. /\ mem'[p].target = mem[p].target /\ mem'[p].next = next /\ mem'[p].yaml = yaml
        /\ mem'[p].raw = raw
    BY <2>1 DEF Typed, Mems
  <2>8. Clean(raw, s(p).yaml) => s(p).log.events # {}
    BY DEF Clean, raw
  <2>9. CASE s(p).dir
    <3>1. RewriteFits(p)'
      BY <2>1, <2>2, <2>4, <2>5, <2>6, <2>7, <2>8, <2>9 DEF RewriteFits, Target, Marked, raw
    <3>. QED BY <1>3, <1>11, <3>1 DEF Step, InPlace
  <2>10. CASE ~s(p).dir
    <3>1. RewriteFits(p)'
      BY <2>1, <2>7, <2>10 DEF RewriteFits, Target
    <3>. QED BY <1>3, <1>11, <3>1 DEF Step, InPlace
  <2>. QED BY <2>9, <2>10
<1>12. ASSUME NEW p \in Procs, WriteEvents(p) PROVE RewritesFit'
  <2>1. /\ pc[p] = "events" /\ mem' = mem /\ ghost' = ghost /\ t(p) \in Sids /\ mem[p].next \in Logs
        /\ \/ /\ s(p).dir /\ pc'[p] = "yaml"
              /\ Set(Target(p), [sessions[Target(p)] EXCEPT !.log = mem[p].next])
           \/ pc'[p] = "throw"
    BY <1>1, <1>12, WriteEventsEffect, Places DEF Typed, Mems
  <2>2. CASE pc'[p] = "throw"
    BY <1>3, <1>4, <1>12, <2>2, Places DEF Step, InPlace
  <2>3. CASE pc'[p] # "throw"
    <3>1. /\ sessions'[t(p)].dir = s(p).dir /\ sessions'[t(p)].yaml = s(p).yaml
          /\ sessions'[t(p)].log = mem[p].next
      BY <2>1, <2>3, SetLog
    <3>2. RewriteFits(p)'
      BY <1>1, <2>1, <2>3, <3>1, Places DEF RewriteFits, Target, Marked
    <3>. QED BY <1>3, <1>12, <3>2 DEF Step, InPlace
  <2>. QED BY <2>2, <2>3
<1>13. ASSUME NEW p \in Procs, WriteYaml(p) PROVE RewritesFit'
  <2>1. /\ pc[p] = "yaml" /\ mem' = mem
        /\ pc'[p] = "release" \/ (~s(p).dir /\ pc'[p] = "restore" /\ sessions' = sessions)
    BY <1>13, WriteYamlEffect
  <2>2. RewriteFits(p)'
    BY <1>4, <2>1, Places DEF RewriteFits, Target
  <2>. QED BY <1>3, <1>13, <2>2 DEF Step, InPlace
<1>14. ASSUME NEW p \in Procs, WriteFails(p) PROVE RewritesFit'
  <2>1. CASE pc[p] # "yaml"
    <3>1. pc'[p] \notin {"merge"} \cup Writing
      BY <1>14, <2>1, WriteFailsEffect, Places
    <3>. QED BY <1>3, <1>4, <1>14, <3>1
  <2>2. CASE pc[p] = "yaml"
    <3>1. pc'[p] = "restore" /\ mem' = mem /\ sessions' = sessions /\ ghost' = ghost
      BY <1>14, <2>2, WriteFailsEffect
    <3>2. RewriteFits(p)'
      BY <1>1, <2>2, <3>1, Places DEF RewriteFits, Target, Marked
    <3>. QED BY <1>3, <1>14, <3>2
  <2>. QED BY <2>1, <2>2
<1>15. ASSUME \/ \E i \in Sids : Forge(i)
              \/ Grow \/ Rewrite \/ OlderGone \/ UNCHANGED vars
       PROVE  RewritesFit'
  <2>1. mem' = mem /\ pc' = pc
    BY <1>15, ForgeEffect, SourceEffect DEF vars
  <2>. QED BY <1>2, <1>15, <2>1 DEF RewritesFit
<1>. QED BY <1>5, <1>6, <1>8, <1>10, <1>11, <1>12, <1>13, <1>14, <1>15 DEF Next, Step, InPlace

(* What a rewrite leaves between its two writes is clean only if the log was  *)
(* as it is.                                                                  *)
LEMMA HalfWritten ==
  ASSUME NEW old \in Logs, NEW new \in Logs, NEW yaml, Clean(old, yaml),
         new.chained, new.intact, new.events # {}
  PROVE  IF new = old THEN Clean(new, yaml) ELSE Broken(new, yaml)
<1>1. CASE new = old
  BY <1>1
<1>2. CASE new # old /\ old.chained
  <2>1. old.intact /\ yaml.anchor = AnchorOf(old.events)
    BY <1>2 DEF Clean
  <2>2. new.events # old.events
    <3>1. SUFFICES ASSUME new.events = old.events PROVE FALSE
      OBVIOUS
    <3>2. /\ new.events = old.events /\ new.chained = old.chained /\ new.intact = old.intact
      BY <1>2, <2>1, <3>1 DEF Logs
    <3>3. /\ new = [events |-> new.events, chained |-> new.chained, intact |-> new.intact]
          /\ old = [events |-> old.events, chained |-> old.chained, intact |-> old.intact]
      BY DEF Logs
    <3>. QED BY <1>2, <3>2, <3>3
  <2>3. AnchorOf(new.events) # AnchorOf(old.events)
    BY <2>2 DEF AnchorOf
  <2>. QED BY <1>2, <2>1, <2>3 DEF Broken
<1>3. CASE new # old /\ ~old.chained
  <2>1. yaml.anchor = NoAnchor
    BY <1>3 DEF Clean
  <2>2. AnchorOf(new.events).set /\ ~NoAnchor.set
    BY DEF AnchorOf, NoAnchor
  <2>. QED BY <1>3, <2>1, <2>2 DEF Broken
<1>. QED BY <1>1, <1>2, <1>3

LEMMA StoreFitsNext ==
  ASSUME Typed, CommandsFit, MakersAlone, SessionsFit, StoreFits, RewritesFit, MarksFit,
         ForgedApart, [Next]_vars, CommandsFit'
  PROVE  StoreFits'
<1>. SUFFICES ASSUME NEW i \in Sids PROVE StoreFitsAt(i)'
  BY DEF StoreFits
<1>1. StoreFitsAt(i)
  BY DEF StoreFits
<1>2. ASSUME sessions'[i] = sessions[i], i \in Marked' <=> i \in Marked,
             BetweenWrites(i) => BetweenWrites(i)'
      PROVE  StoreFitsAt(i)'
  BY <1>1, <1>2 DEF StoreFitsAt
<1>3. ASSUME ~sessions'[i].yaml.there PROVE StoreFitsAt(i)'
  BY <1>3 DEF StoreFitsAt
<1>4. ~NoSession.yaml.there /\ ~NoYaml.there
  BY DEF NoSession, NoYaml
<1>5. ASSUME sessions'[i] = sessions[i], ~Forge(i), ~CutsOff(i),
             BetweenWrites(i) => BetweenWrites(i)'
      PROVE  StoreFitsAt(i)'
  <2>1. CASE sessions'[i] = NoSession
    BY <1>3, <1>4, <2>1
  <2>2. CASE sessions'[i] # NoSession
    BY <1>2, <1>5, <2>2, MarksNext
  <2>. QED BY <2>1, <2>2
<1>. DEFINE Replaces(p) == pc[p] \in Replacing /\ Target(p) = i
<1>6. ASSUME NEW p \in Procs, Step(p) \/ Again(p) \/ Crash(p) \/ WriteFails(p), ~Replaces(p)
      PROVE  (BetweenWrites(i) => BetweenWrites(i)')
  <2>. SUFFICES ASSUME NEW q \in Procs, pc[q] \in Replacing, Target(q) = i
                PROVE  BetweenWrites(i)'
    BY DEF BetweenWrites
  <2>1. q # p
    BY <1>6
  <2>2. pc'[q] = pc[q] /\ Target(q)' = Target(q)
    BY <1>6, <2>1, Frame DEF Target
  <2>. QED BY <2>2 DEF BetweenWrites
<1>7. ASSUME NEW p \in Procs, Step(p) \/ Again(p) \/ Crash(p) \/ WriteFails(p), ~Replaces(p),
             ~Forge(i), ~CutsOff(i), sessions'[i] = sessions[i]
      PROVE  StoreFitsAt(i)'
  BY <1>5, <1>6, <1>7
<1>8. CASE Forge(i)
  <2>1. PICK log \in Logs : /\ log.events = sessions[i].log.events \cup {Mark(i)} /\ log.chained
                            /\ Set(i, [sessions[i] EXCEPT !.log = log])
    BY <1>8, ForgeWrites
  <2>2. sessions'[i].log = log /\ sessions'[i].yaml = sessions[i].yaml
    BY <2>1, SetLog
  <2>3. i \in Marked'
    <3>1. ghost' = [ghost EXCEPT !.forged = ghost.forged \cup {i}] /\ ghost \in Ghosts
      BY <1>8, ForgeEffect DEF Typed
    <3>. QED BY <3>1 DEF Marked, Ghosts
  <2>4. Mark(i) \notin sessions[i].yaml.anchor.events
    BY DEF ForgedApart
  <2>5. AnchorOf(log.events).events = log.events
    BY DEF AnchorOf
  <2>6. sessions[i].yaml.anchor # AnchorOf(log.events)
    BY <2>1, <2>4, <2>5
  <2>. QED BY <2>1, <2>2, <2>3, <2>6 DEF StoreFitsAt, Broken
<1>9. ASSUME NEW p \in Procs, Replaces(p)
      PROVE  /\ i = Target(p) /\ mem[p] \in Mems /\ mem[p].next \in Logs /\ mem[p].raw \in Logs
             /\ sessions[i].dir => /\ i \notin Marked /\ mem[p].next.chained
                                   /\ mem[p].next.intact /\ mem[p].next.events # {}
                                   /\ mem[p].yaml.anchor = AnchorOf(mem[p].next.events)
                                   /\ Clean(mem[p].raw, sessions[i].yaml)
                                   /\ sessions[i].log = mem[p].next
             /\ ~sessions[i].dir => ~sessions[i].yaml.there
  <2>1. RewriteFits(p)
    BY DEF RewritesFit
  <2>2. pc[p] \in Writing /\ pc[p] # "events"
    BY <1>9 DEF Writing, Replacing
  <2>. QED BY <1>9, <2>1, <2>2, ThereIsDir DEF RewriteFits, Target, Typed, Mems
<1>10. CASE CutsOff(i) /\ ~Forge(i)
  <2>1. PICK p \in Procs : /\ Replaces(p) /\ mem[p].next # mem[p].raw
                           /\ Crash(p) \/ RestoreFails(p)
    BY <1>10 DEF CutsOff
  <2>2. sessions' = sessions /\ ghost' = CutShort(p)
    BY <2>1, CrashEffect, RestoreFailsEffect DEF Replacing
  <2>3. CASE ~sessions[i].dir
    BY <1>3, <1>9, <2>1, <2>2, <2>3
  <2>4. CASE sessions[i].dir
    <3>1. i \in Marked'
      BY <1>9, <2>1, <2>2, CutShortEffect DEF Marked
    <3>2. Broken(sessions[i].log, sessions[i].yaml)
      BY <1>9, <2>1, <2>4, HalfWritten
    <3>. QED BY <2>2, <3>1, <3>2 DEF StoreFitsAt
  <2>. QED BY <2>3, <2>4
<1>. DEFINE Quiet == ~Forge(i) /\ ~CutsOff(i)
<1>11. ASSUME NEW p \in Procs, Import(p), Quiet PROVE StoreFitsAt(i)'
  <2>1. ~Replaces(p)
    BY <1>11, LoadEffect, ScanEffect, ScanEndsEffect, ClassifyEffect, DeriveEffect, RemoveEffect,
       MakeDirectoryEffect, WriteBulkEffect, LinkYamlEffect, CleanupEffect DEF Import, Replacing
  <2>2. ASSUME sessions'[i] = sessions[i] PROVE StoreFitsAt(i)'
    BY <1>7, <1>11, <2>1, <2>2 DEF Step
  <2>3. ASSUME NEW j \in Sids, Set(j, NoSession) PROVE StoreFitsAt(i)'
    BY <1>3, <2>2, <2>3, SetNothing
  <2>4. ASSUME made' \in Sids, Set(made', [NoSession EXCEPT !.dir = TRUE]) PROVE StoreFitsAt(i)'
    BY <1>3, <1>4, <2>2, <2>4, SetDirectory
  <2>5. ASSUME NEW j \in Sids, j = Target(p), pc[p] \in Making, NEW log \in Logs,
               Set(j, [sessions[j] EXCEPT !.log = log])
        PROVE  StoreFitsAt(i)'
    <3>1. CASE i = j
      <4>1. ~sessions[i].yaml.there
        BY <2>5, <3>1, KnownNotMade
      <4>. QED BY <1>3, <2>5, <3>1, <4>1, SetLog
    <3>2. CASE i # j
      BY <2>2, <2>5, <3>2, SetLog
    <3>. QED BY <3>1, <3>2
  <2>6. ASSUME LinkYaml(p), Target(p) \in Sids,
               YamlOf(p, sessions[Target(p)].log.events, FALSE) \in Yamls,
               Set(Target(p), [sessions[Target(p)] EXCEPT
                                 !.yaml = YamlOf(p, sessions[Target(p)].log.events, FALSE)])
        PROVE  StoreFitsAt(i)'
    <3>. DEFINE yaml == YamlOf(p, sessions[Target(p)].log.events, FALSE)
    <3>1. CASE i = Target(p)
      <4>1. pc[p] = "link"
        BY <2>6, LinkYamlEffect
      <4>2. /\ sessions[i].dir /\ ~sessions[i].yaml.there
            /\ sessions[i].log.chained /\ sessions[i].log.intact /\ sessions[i].log.events # {}
        BY <1>4, <3>1, <4>1, Places DEF MakersAlone
      <4>3. i \notin Marked
        BY <4>2 DEF MarksFit
      <4>4. i \notin Marked'
        BY <1>11, <4>3, MarksNext
      <4>5. yaml.anchor = AnchorOf(sessions[i].log.events)
        BY <3>1 DEF YamlOf
      <4>. HIDE DEF yaml
      <4>6. sessions'[i].log = sessions[i].log /\ sessions'[i].yaml = yaml
        BY <2>6, <3>1, SetYaml DEF yaml
      <4>. QED BY <4>2, <4>4, <4>5, <4>6 DEF StoreFitsAt, Clean
    <3>2. CASE i # Target(p)
      <4>. HIDE DEF yaml
      <4>1. sessions'[i] = sessions[i]
        BY <2>6, <3>2, SetYaml DEF yaml
      <4>. QED BY <2>2, <4>1
    <3>. QED BY <3>1, <3>2
  <2>7. WriteBulk(p) => pc[p] \in Making
    BY WriteBulkEffect, Places
  <2>. QED BY <1>11, <2>2, <2>3, <2>4, <2>5, <2>6, <2>7, ImportWrites
<1>12. ASSUME NEW p \in Procs, Quiet,
              InPlace(p) \/ Again(p) \/ Crash(p) \/ WriteFails(p),
              sessions'[i] = sessions[i], Replaces(p) => pc'[p] \in Replacing /\ mem' = mem
       PROVE  StoreFitsAt(i)'
  <2>1. CASE ~Replaces(p)
    BY <1>7, <1>12, <2>1 DEF Step
  <2>2. CASE Replaces(p)
    <3>1. BetweenWrites(i)'
      BY <1>12, <2>2 DEF BetweenWrites, Target
    <3>. QED BY <1>5, <1>12, <3>1
  <2>. QED BY <2>1, <2>2
<1>13. ASSUME NEW p \in Procs, Quiet, Replaces(p), Crash(p) \/ RestoreFails(p)
       PROVE  StoreFitsAt(i)'
  <2>1. mem[p].next = mem[p].raw
    BY <1>13 DEF CutsOff
  <2>2. sessions' = sessions
    BY <1>13, CrashEffect, RestoreFailsEffect
  <2>3. CASE ~sessions[i].dir
    BY <1>3, <1>9, <1>13, <2>2, <2>3
  <2>4. CASE sessions[i].dir
    <3>1. i \notin Marked' /\ Clean(sessions[i].log, sessions[i].yaml)
      BY <1>9, <1>13, <2>1, <2>4, MarksNext
    <3>. QED BY <2>2, <3>1 DEF StoreFitsAt
  <2>. QED BY <2>3, <2>4
<1>14. ASSUME NEW p \in Procs, InPlace(p), Quiet PROVE StoreFitsAt(i)'
  <2>1. CASE WriteEvents(p) /\ Target(p) = i /\ sessions[i].dir
    <3>1. pc'[p] = "yaml" /\ mem' = mem
      BY <2>1, WriteEventsEffect
    <3>2. BetweenWrites(i)'
      BY <2>1, <3>1 DEF BetweenWrites, Target, Replacing
    <3>. QED BY <3>2 DEF StoreFitsAt
  <2>2. CASE WriteYaml(p) /\ Target(p) = i /\ sessions[i].dir
    <3>1. Replaces(p)
      BY <2>2, WriteYamlEffect DEF Replacing
    <3>2. mem[p].yaml \in Yamls /\ Set(i, [sessions[i] EXCEPT !.yaml = mem[p].yaml])
      BY <2>2, WriteYamlEffect DEF Typed, Mems
    <3>3. sessions'[i].log = sessions[i].log /\ sessions'[i].yaml = mem[p].yaml
      BY <3>2, SetYaml
    <3>4. i \notin Marked'
      BY <1>9, <1>14, <2>2, <3>1, MarksNext
    <3>. QED BY <1>9, <2>2, <3>1, <3>3, <3>4 DEF StoreFitsAt, Clean
  <2>3. CASE Restore(p) /\ Target(p) = i /\ sessions[i].dir
    <3>1. Replaces(p)
      BY <2>3, RestoreEffect DEF Replacing
    <3>2. mem[p].raw \in Logs /\ Set(i, [sessions[i] EXCEPT !.log = mem[p].raw])
      BY <2>3, RestoreEffect DEF Typed, Mems
    <3>3. sessions'[i].log = mem[p].raw /\ sessions'[i].yaml = sessions[i].yaml
      BY <3>2, SetLog
    <3>4. i \notin Marked'
      BY <1>9, <1>14, <2>3, <3>1, MarksNext
    <3>. QED BY <1>9, <2>3, <3>1, <3>3, <3>4 DEF StoreFitsAt
  <2>4. CASE RestoreFails(p) /\ Replaces(p)
    BY <1>13, <1>14, <2>4
  <2>5. CASE ~sessions[i].dir /\ Target(p) = i
    <3>1. ~sessions[i].yaml.there
      BY <2>5, ThereIsDir
    <3>2. sessions'[i] = sessions[i]
      BY <1>14, <2>5, InPlaceWrites, SetLog, SetYaml
    <3>. QED BY <1>3, <3>1, <3>2
  <2>6. CASE Target(p) # i
    <3>1. sessions'[i] = sessions[i]
      <4>1. ASSUME NEW j \in Sids, j # i, NEW log \in Logs, Set(j, [sessions[j] EXCEPT !.log = log])
            PROVE  sessions'[i] = sessions[i]
        BY <4>1, SetLog
      <4>2. ASSUME NEW j \in Sids, j # i, NEW yaml \in Yamls,
                   Set(j, [sessions[j] EXCEPT !.yaml = yaml])
            PROVE  sessions'[i] = sessions[i]
        BY <4>2, SetYaml
      <4>. QED BY <1>14, <2>6, <4>1, <4>2, InPlaceWrites
    <3>2. ~Replaces(p)
      BY <2>6
    <3>. HIDE DEF Quiet, Replaces
    <3>. QED BY <1>12, <1>14, <3>1, <3>2
  <2>7. CASE Choose(p) \/ Lock(p) \/ Judge(p) \/ Merge(p) \/ Rechain(p) \/ Release(p)
    <3>1. sessions' = sessions /\ ~Replaces(p)
      BY <2>7, ChooseEffect, LockEffect, JudgeEffect, MergeEffect, RechainEffect, ReleaseEffect
         DEF Replacing
    <3>2. sessions'[i] = sessions[i]
      BY <3>1
    <3>. HIDE DEF Quiet, Replaces
    <3>. QED BY <1>12, <1>14, <3>1, <3>2
  <2>8. RestoreFails(p) /\ Target(p) = i => Replaces(p)
    BY RestoreFailsEffect DEF Replacing
  <2>. QED BY <1>14, <2>1, <2>2, <2>3, <2>4, <2>5, <2>6, <2>7, <2>8 DEF InPlace
<1>15. ASSUME NEW p \in Procs, Again(p) \/ Crash(p) \/ WriteFails(p), Quiet
       PROVE  StoreFitsAt(i)'
  <2>1. sessions' = sessions
    BY <1>15, AgainEffect, CrashEffect, WriteFailsEffect
  <2>2. Again(p) => ~Replaces(p)
    BY AgainEffect, Places DEF Replacing
  <2>3. WriteFails(p) /\ Replaces(p) => pc'[p] \in Replacing /\ mem' = mem
    BY WriteFailsEffect DEF Replacing
  <2>4. sessions'[i] = sessions[i]
    BY <2>1
  <2>. HIDE DEF Quiet, Replaces
  <2>. QED BY <1>12, <1>13, <1>15, <2>2, <2>3, <2>4
<1>16. ASSUME UNCHANGED <<pc, mem>>, sessions'[i] = sessions[i], Quiet PROVE StoreFitsAt(i)'
  <2>1. BetweenWrites(i) => BetweenWrites(i)'
    BY <1>16 DEF BetweenWrites, Target
  <2>. QED BY <1>5, <1>16, <2>1
<1>17. ASSUME NEW j \in Sids, Forge(j), Quiet PROVE StoreFitsAt(i)'
  <2>1. j # i
    BY <1>17
  <2>2. sessions'[i] = sessions[i]
    BY <1>17, <2>1, ForgeWrites, SetLog
  <2>. QED BY <1>16, <1>17, <2>2, ForgeEffect
<1>18. ASSUME Grow \/ Rewrite \/ OlderGone \/ UNCHANGED vars, Quiet PROVE StoreFitsAt(i)'
  BY <1>16, <1>18, SourceEffect DEF vars
<1>. QED BY <1>8, <1>10, <1>11, <1>14, <1>15, <1>17, <1>18 DEF Next, Step

LEMMA ForgedApartNext ==
  ASSUME Typed, CommandsFit, MakersAlone, SessionsFit, IdsFit, AllTidy, PayloadsFit, RewritesFit,
         MarksFit, ForgedApart, [Next]_vars
  PROVE  ForgedApart'
<1>1. \A i \in Sids : /\ Mark(i) \notin sessions[i].yaml.anchor.events
                      /\ i \notin ghost.forged => Mark(i) \notin sessions[i].log.events
  BY DEF ForgedApart
<1>2. \A i \in Sids : Mark(i).says.kind \notin DerivedKinds
  BY MarkTyped DEF DerivedKinds, Roles
<1>3. NoAnchor.events = {} /\ NoLog.events = {} /\ NoYaml.anchor = NoAnchor
      /\ NoSession.yaml = NoYaml /\ NoSession.log = NoLog
  BY DEF NoAnchor, NoLog, NoYaml, NoSession
<1>4. \A events : AnchorOf(events).events = events
  BY DEF AnchorOf
<1>. DEFINE Apart(p) == pc[p] \in Writing => /\ Mark(Target(p)) \notin Pending(p)
                                            /\ Mark(Target(p)) \notin mem[p].yaml.anchor.events
            ApartNext(p) == pc'[p] \in Writing =>
                                /\ Mark(Target(p)') \notin Pending(p)'
                                /\ Mark(Target(p)') \notin mem'[p].yaml.anchor.events
            AnchorApart(i) == Mark(i) \notin sessions'[i].yaml.anchor.events
            LogApart(i) == i \notin ghost'.forged => Mark(i) \notin sessions'[i].log.events
<1>5. \A p \in Procs : Apart(p)
  BY DEF ForgedApart
<1>6. ASSUME \A p \in Procs : ApartNext(p), \A i \in Sids : AnchorApart(i) /\ LogApart(i)
      PROVE  ForgedApart'
  <2>1. \A p \in Procs : (pc[p] \in Writing => /\ Mark(Target(p)) \notin Pending(p)
                                               /\ Mark(Target(p)) \notin mem[p].yaml.anchor.events)'
    BY <1>6 DEF Mark
  <2>. QED BY <1>6, <2>1 DEF ForgedApart, Mark
<1>7. ASSUME NEW q \in Procs, mem'[q] = mem[q], pc'[q] \in Writing => pc[q] \in Writing
      PROVE  ApartNext(q)
  <2>1. Target(q)' = Target(q) /\ Pending(q)' = Pending(q)
    BY <1>7 DEF Target, Pending
  <2>. QED BY <1>5, <1>7, <2>1
<1>8. ASSUME NEW p \in Procs, Merge(p) PROVE ApartNext(p)
  <2>. DEFINE t == Target(p)
              s == sessions[t]
              new == MergeOf(p, s)
              next == ChainedLog(new)
              yaml == YamlOf(p, new, s.yaml.linked)
              raw == s.log
  <2>1. /\ pc[p] = "merge"
        /\ \/ pc'[p] \in {"give_up", "throw"}
           \/ /\ s.yaml.there
              /\ mem'[p] = [NoMem EXCEPT
                    !.target = mem[p].target, !.started = mem[p].started,
                    !.leftOut = mem[p].leftOut, !.next = next, !.yaml = yaml, !.raw = raw]
    BY <1>8, MergeEffect
  <2>2. CASE pc'[p] \in {"give_up", "throw"}
    BY <2>2, Places
  <2>3. CASE pc'[p] \notin {"give_up", "throw"}
    <3>1. t \in Sids /\ s.dir
      BY <2>1, <2>3, TargetIsSession, ThereIsDir, Places
    <3>2. t \notin Marked
      BY <2>1, <3>1 DEF RewritesFit, RewriteFits, Target
    <3>3. Mark(t) \notin s.log.events
      BY <1>1, <3>1, <3>2 DEF Marked
    <3>4. ASSUME NEW e \in new PROVE e \in s.log.events \/ e.says.kind \in DerivedKinds
      <4>1. e \in Preserved(s.log.events) \/ e.says \in mem[p].payload
        BY <3>1, MergeOfFits
      <4>. QED BY <4>1 DEF Preserved, PayloadsFit, PayloadFits
    <3>5. Mark(t) \notin new
      BY <1>2, <3>1, <3>3, <3>4
    <3>6. next.events = new /\ yaml.anchor.events = new /\ raw.events = s.log.events
      BY <1>4, ChainedEvents DEF YamlOf
    <3>. HIDE DEF new, next, yaml, raw, s
    <3>7. mem'[p] = [NoMem EXCEPT
                    !.target = mem[p].target, !.started = mem[p].started,
                    !.leftOut = mem[p].leftOut, !.next = next, !.yaml = yaml, !.raw = raw]
      BY <2>1, <2>3
    <3>8. /\ mem'[p].target = mem[p].target /\ mem'[p].next = next /\ mem'[p].yaml = yaml
          /\ mem'[p].raw = raw
      BY <3>7 DEF NoMem
    <3>9. Pending(p)' = new \cup s.log.events /\ Target(p)' = t
      BY <3>6, <3>8 DEF Pending, Target
    <3>. QED BY <3>3, <3>5, <3>6, <3>8, <3>9
  <2>. QED BY <2>2, <2>3
<1>9. ASSUME NEW p \in Procs, Rechain(p) PROVE ApartNext(p)
  <2>. DEFINE t == Target(p)
              s == sessions[t]
              next == ChainedLog(s.log.events)
              yaml == [s.yaml EXCEPT !.anchor = AnchorOf(s.log.events)]
              raw == s.log
  <2>1. /\ pc[p] = "merge" /\ mem'[p] = [mem[p] EXCEPT !.next = next, !.yaml = yaml, !.raw = raw]
    BY <1>9, RechainEffect
  <2>2. t \in Sids /\ s \in Sessions
    BY <2>1, TargetIsSession, Places DEF Typed
  <2>3. Mark(t) \notin s.log.events
    <3>1. CASE s.dir
      BY <1>1, <2>1, <2>2, <3>1 DEF Marked, RewritesFit, RewriteFits, Target
    <3>2. CASE ~s.dir
      BY <1>3, <2>2, <3>2 DEF SessionsFit
    <3>. QED BY <3>1, <3>2
  <2>4. next.events = s.log.events /\ yaml.anchor.events = s.log.events /\ raw.events = s.log.events
    <3>1. s.yaml \in Yamls
      BY <2>2 DEF Sessions
    <3>2. yaml.anchor = AnchorOf(s.log.events)
      BY <3>1 DEF Yamls
    <3>. QED BY <1>4, <3>2, ChainedEvents
  <2>. HIDE DEF next, yaml, raw, s
  <2>5. /\ mem'[p].target = mem[p].target /\ mem'[p].next = next /\ mem'[p].yaml = yaml
        /\ mem'[p].raw = raw
    BY <2>1 DEF Typed, Mems
  <2>6. Pending(p)' = s.log.events /\ Target(p)' = t
    BY <2>4, <2>5 DEF Pending, Target
  <2>. QED BY <2>3, <2>4, <2>5, <2>6
<1>10. ASSUME NEW i \in Sids, sessions'[i] = sessions[i], ~Forge(i)
       PROVE  AnchorApart(i) /\ LogApart(i)
  <2>1. CASE i \notin ghost.forged
    BY <1>1, <1>10, <2>1
  <2>2. CASE i \in ghost.forged /\ i \in ghost'.forged
    BY <1>1, <1>10, <2>2
  <2>3. CASE i \in ghost.forged /\ i \notin ghost'.forged
    <3>1. sessions'[i] = NoSession
      BY <2>3, MarksNext
    <3>. QED BY <1>3, <3>1
  <2>. QED BY <2>1, <2>2, <2>3
<1>11. ASSUME NEW i \in Sids, Forge(i) PROVE AnchorApart(i) /\ LogApart(i)
  <2>1. PICK log \in Logs : Set(i, [sessions[i] EXCEPT !.log = log])
    BY <1>11, ForgeWrites
  <2>2. sessions'[i].yaml = sessions[i].yaml
    BY <2>1, SetLog
  <2>3. i \in ghost'.forged
    <3>1. ghost' = [ghost EXCEPT !.forged = ghost.forged \cup {i}] /\ ghost \in Ghosts
      BY <1>11, ForgeEffect DEF Typed
    <3>. QED BY <3>1 DEF Ghosts
  <2>. QED BY <1>1, <2>2, <2>3
<1>12. ASSUME NEW i \in Sids, ~Forge(i), sessions'[i].log.events = {}, sessions'[i].yaml.anchor = NoAnchor
       PROVE  AnchorApart(i) /\ LogApart(i)
  BY <1>3, <1>12
<1>13. ASSUME NEW p \in Procs, Import(p), NEW i \in Sids, ~Forge(i)
       PROVE  AnchorApart(i) /\ LogApart(i)
  <2>. HIDE DEF AnchorApart, LogApart
  <2>1. ASSUME NEW j \in Sids, Set(j, NoSession) PROVE AnchorApart(i) /\ LogApart(i)
    <3>1. CASE i = j
      <4>1. sessions'[i] = NoSession
        BY <2>1, <3>1, SetNothing
      <4>. QED BY <1>3, <1>12, <1>13, <4>1
    <3>2. CASE i # j
      BY <1>10, <1>13, <2>1, <3>2, SetNothing
    <3>. QED BY <3>1, <3>2
  <2>2. ASSUME made' \in Sids, Set(made', [NoSession EXCEPT !.dir = TRUE])
        PROVE  AnchorApart(i) /\ LogApart(i)
    <3>1. CASE i = made'
      <4>1. sessions'[i].log = NoLog /\ sessions'[i].yaml = NoYaml
        BY <2>2, <3>1, SetDirectory
      <4>. QED BY <1>3, <1>12, <1>13, <4>1
    <3>2. CASE i # made'
      BY <1>10, <1>13, <2>2, <3>2, SetDirectory
    <3>. QED BY <3>1, <3>2
  <2>3. ASSUME NEW t \in Sids, ChainedLog(NewEvents(p)) \in Logs,
               Set(t, [sessions[t] EXCEPT !.log = ChainedLog(NewEvents(p))])
        PROVE  AnchorApart(i) /\ LogApart(i)
    <3>1. /\ sessions'[t].log.events = NewEvents(p) /\ sessions'[t].yaml = sessions[t].yaml
          /\ \A j \in Sids \ {t} : sessions'[j] = sessions[j]
      BY <2>3, SetLog, ChainedEvents
    <3>2. CASE i = t
      <4>1. \A e \in NewEvents(p) : e.says.kind \in DerivedKinds
        BY PayloadTyped DEF PayloadsFit, PayloadFits
      <4>2. Mark(i) \notin NewEvents(p)
        BY <1>2, <4>1
      <4>. QED BY <1>1, <3>1, <3>2, <4>2 DEF AnchorApart, LogApart
    <3>3. CASE i # t
      BY <1>10, <1>13, <3>1, <3>3
    <3>. QED BY <3>2, <3>3
  <2>4. ASSUME LinkYaml(p), Target(p) \in Sids,
               YamlOf(p, sessions[Target(p)].log.events, FALSE) \in Yamls,
               Set(Target(p), [sessions[Target(p)] EXCEPT
                                 !.yaml = YamlOf(p, sessions[Target(p)].log.events, FALSE)])
        PROVE  AnchorApart(i) /\ LogApart(i)
    <3>. DEFINE yaml == YamlOf(p, sessions[Target(p)].log.events, FALSE)
    <3>1. yaml.anchor.events = sessions[Target(p)].log.events
      BY <1>4 DEF YamlOf
    <3>. HIDE DEF yaml
    <3>2. /\ sessions'[Target(p)].log = sessions[Target(p)].log /\ sessions'[Target(p)].yaml = yaml
          /\ \A j \in Sids \ {Target(p)} : sessions'[j] = sessions[j]
      BY <2>4, SetYaml DEF yaml
    <3>3. CASE i = Target(p)
      <4>1. pc[p] \in Making
        BY <2>4, LinkYamlEffect, Places
      <4>2. sessions[i].dir /\ ~sessions[i].yaml.there
        BY <3>3, <4>1 DEF MakersAlone, NoYaml
      <4>3. i \notin ghost.forged
        BY <4>2 DEF MarksFit, Marked
      <4>. QED BY <1>1, <3>1, <3>2, <3>3, <4>3 DEF AnchorApart, LogApart
    <3>4. CASE i # Target(p)
      BY <1>10, <1>13, <3>2, <3>4
    <3>. QED BY <3>3, <3>4
  <2>. QED BY <1>10, <1>13, <2>1, <2>2, <2>3, <2>4, ImportWrites
<1>14. ASSUME NEW p \in Procs, InPlace(p), NEW i \in Sids, ~Forge(i)
       PROVE  AnchorApart(i) /\ LogApart(i)
  <2>1. WriteEvents(p) \/ WriteYaml(p) \/ Restore(p) =>
          /\ Mark(Target(p)) \notin mem[p].next.events
          /\ Mark(Target(p)) \notin mem[p].raw.events
          /\ Mark(Target(p)) \notin mem[p].yaml.anchor.events
    BY <1>5, WriteEventsEffect, WriteYamlEffect, RestoreEffect, Places DEF Pending
  <2>2. ASSUME NEW t \in Sids, NEW log \in Logs, Set(t, [sessions[t] EXCEPT !.log = log]),
               Mark(t) \notin log.events
        PROVE  AnchorApart(i) /\ LogApart(i)
    <3>1. /\ sessions'[t].log = log /\ sessions'[t].yaml = sessions[t].yaml
          /\ \A j \in Sids \ {t} : sessions'[j] = sessions[j]
      BY <2>2, SetLog
    <3>. HIDE DEF AnchorApart, LogApart
    <3>2. CASE i = t
      BY <1>1, <2>2, <3>1, <3>2 DEF AnchorApart, LogApart
    <3>3. CASE i # t
      BY <1>10, <1>14, <3>1, <3>3
    <3>. QED BY <3>2, <3>3
  <2>3. ASSUME NEW t \in Sids, NEW yaml \in Yamls, Set(t, [sessions[t] EXCEPT !.yaml = yaml]),
               Mark(t) \notin yaml.anchor.events
        PROVE  AnchorApart(i) /\ LogApart(i)
    <3>1. /\ sessions'[t].yaml = yaml /\ sessions'[t].log = sessions[t].log
          /\ \A j \in Sids \ {t} : sessions'[j] = sessions[j]
      BY <2>3, SetYaml
    <3>. HIDE DEF AnchorApart, LogApart
    <3>2. CASE i = t
      <4>1. AnchorApart(i)
        BY <2>3, <3>1, <3>2 DEF AnchorApart
      <4>2. i \in ghost.forged /\ i \notin ghost'.forged => sessions'[i] = NoSession
        BY MarksNext
      <4>3. LogApart(i)
        BY <1>1, <1>3, <3>1, <3>2, <4>2 DEF LogApart
      <4>. QED BY <4>1, <4>3
    <3>3. CASE i # t
      BY <1>10, <1>14, <3>1, <3>3
    <3>. QED BY <3>2, <3>3
  <2>. HIDE DEF AnchorApart, LogApart
  <2>. QED BY <1>10, <1>14, <2>1, <2>2, <2>3, InPlaceWrites
<1>. HIDE DEF AnchorApart, LogApart, ApartNext, Apart
<1>15. ASSUME NEW p \in Procs, Step(p) \/ Again(p) \/ Crash(p) \/ WriteFails(p), NEW q \in Procs
       PROVE  ApartNext(q)
  <2>1. CASE q # p
    BY <1>7, <1>15, <2>1, Frame
  <2>2. CASE q = p
    <3>1. ASSUME pc'[p] \notin Writing PROVE ApartNext(p)
      BY <3>1 DEF ApartNext
    <3>2. CASE Import(p) \/ Again(p) \/ Crash(p)
      <4>1. pc'[p] \notin Writing
        BY <3>2, LoadEffect, ScanEffect, ScanEndsEffect, ClassifyEffect, DeriveEffect, RemoveEffect,
           MakeDirectoryEffect, WriteBulkEffect, LinkYamlEffect, CleanupEffect, AgainEffect,
           CrashEffect, Places DEF Import
      <4>. QED BY <2>2, <3>1, <4>1
    <3>3. CASE Choose(p) \/ Lock(p) \/ Judge(p) \/ Restore(p) \/ RestoreFails(p) \/ Release(p)
      <4>1. pc'[p] \notin Writing
        BY <3>3, ChooseEffect, LockEffect, JudgeEffect, RestoreEffect, RestoreFailsEffect,
           ReleaseEffect, Places
      <4>. QED BY <2>2, <3>1, <4>1
    <3>4. CASE WriteEvents(p) \/ WriteYaml(p)
      <4>1. mem' = mem /\ pc[p] \in Writing
        BY <3>4, WriteEventsEffect, WriteYamlEffect, Places
      <4>. QED BY <1>7, <2>2, <4>1
    <3>5. CASE WriteFails(p)
      <4>1. CASE pc[p] \in {"events", "yaml"}
        <5>1. mem' = mem /\ pc[p] \in Writing
          BY <3>5, <4>1, WriteFailsEffect, Places
        <5>. QED BY <1>7, <2>2, <5>1
      <4>2. CASE pc[p] \notin {"events", "yaml"}
        <5>1. pc'[p] \in {"failed", "cleanup"}
          BY <3>5, <4>2, WriteFailsEffect
        <5>2. pc'[p] \notin Writing
          BY <5>1, Places
        <5>. QED BY <2>2, <3>1, <5>2
      <4>. QED BY <4>1, <4>2
    <3>. QED BY <1>8, <1>9, <1>15, <2>2, <3>2, <3>3, <3>4, <3>5 DEF Step, InPlace
  <2>. QED BY <2>1, <2>2
<1>16. ASSUME mem' = mem, pc' = pc PROVE \A q \in Procs : ApartNext(q)
  BY <1>7, <1>16
<1>17. ASSUME NEW p \in Procs, Step(p) \/ Again(p) \/ Crash(p) \/ WriteFails(p)
       PROVE  ForgedApart'
  <2>1. ASSUME NEW i \in Sids PROVE AnchorApart(i) /\ LogApart(i)
    <3>1. CASE Forge(i)
      BY <1>11, <3>1
    <3>2. CASE ~Forge(i) /\ Step(p)
      BY <1>13, <1>14, <3>2 DEF Step
    <3>3. CASE ~Forge(i) /\ (Again(p) \/ Crash(p) \/ WriteFails(p))
      <4>1. sessions' = sessions
        BY <3>3, AgainEffect, CrashEffect, WriteFailsEffect
      <4>. QED BY <1>10, <3>3, <4>1
    <3>. QED BY <1>17, <3>1, <3>2, <3>3
  <2>. QED BY <1>6, <1>15, <1>17, <2>1
<1>18. ASSUME NEW j \in Sids, Forge(j) PROVE ForgedApart'
  <2>1. ASSUME NEW i \in Sids PROVE AnchorApart(i) /\ LogApart(i)
    <3>1. CASE Forge(i)
      BY <1>11, <3>1
    <3>2. CASE ~Forge(i)
      <4>1. i # j
        BY <1>18, <3>2
      <4>2. sessions'[i] = sessions[i]
        BY <1>18, <4>1, ForgeWrites, SetLog
      <4>. QED BY <1>10, <3>2, <4>2
    <3>. QED BY <3>1, <3>2
  <2>. QED BY <1>6, <1>16, <1>18, <2>1, ForgeEffect
<1>19. ASSUME Grow \/ Rewrite \/ OlderGone \/ UNCHANGED vars PROVE ForgedApart'
  <2>1. sessions' = sessions /\ mem' = mem /\ pc' = pc
    BY <1>19, SourceEffect DEF vars
  <2>2. ASSUME NEW i \in Sids PROVE AnchorApart(i) /\ LogApart(i)
    BY <1>10, <1>11, <2>1
  <2>. QED BY <1>6, <1>16, <2>1, <2>2
<1>. QED BY <1>17, <1>18, <1>19 DEF Next

-----------------------------------------------------------------------------
(* The source, and what happened to it.                                       *)
LEMMA HistoryNext ==
  ASSUME Typed, [Next]_vars
  PROVE  /\ ghost.rewritten => ghost'.rewritten
         /\ ghost.overlapped => ghost'.overlapped
         /\ ghost'.rewritten => ghost.rewritten \/ Rewrite
         /\ Rewrite => ghost'.rewritten
         /\ \A p, q \in Procs : Load(p) /\ Importing(q) /\ p # q => ghost'.overlapped
<1>. DEFINE Same == ghost'.rewritten = ghost.rewritten /\ ghost'.overlapped = ghost.overlapped
<1>1. ghost \in Ghosts
  BY DEF Typed
<1>2. ASSUME NEW p \in Procs, NEW q \in Procs, Load(p), Importing(q), p # q
      PROVE  ghost'.overlapped
  BY <1>1, <1>2, LoadEffect DEF Ghosts
<1>3. ASSUME Rewrite PROVE ghost'.rewritten /\ ghost'.overlapped = ghost.overlapped
  BY <1>1, <1>3 DEF Rewrite, Ghosts
<1>4. ASSUME NEW p \in Procs, Import(p)
      PROVE  /\ ghost'.rewritten = ghost.rewritten
             /\ ghost.overlapped => ghost'.overlapped
  <2>1. CASE Load(p)
    BY <1>1, <2>1, LoadEffect DEF Ghosts
  <2>2. CASE Remove(p)
    <3>1. \E F, C : ghost' = [ghost EXCEPT !.forged = F, !.cut = C]
      BY <2>2, RemoveEffect
    <3>. QED BY <1>1, <3>1 DEF Ghosts
  <2>3. CASE ~Load(p) /\ ~Remove(p)
    <3>1. ghost' = ghost
      BY <1>4, <2>3, ScanEffect, ScanEndsEffect, ClassifyEffect, DeriveEffect,
         MakeDirectoryEffect, WriteBulkEffect, LinkYamlEffect, CleanupEffect DEF Import
    <3>. QED BY <3>1
  <2>. QED BY <2>1, <2>2, <2>3
<1>5. ASSUME NEW p \in Procs, InPlace(p) \/ Again(p) \/ Crash(p) \/ WriteFails(p) PROVE Same
  <2>1. ghost' = ghost \/ ghost' = CutShort(p)
    BY <1>5, ChooseEffect, LockEffect, JudgeEffect, MergeEffect, RechainEffect, WriteEventsEffect,
       WriteYamlEffect, RestoreEffect, RestoreFailsEffect, ReleaseEffect, AgainEffect, CrashEffect,
       WriteFailsEffect DEF InPlace
  <2>. QED BY <2>1, CutShortEffect
<1>6. ASSUME NEW i \in Sids, Forge(i) PROVE Same
  BY <1>1, <1>6, ForgeEffect DEF Ghosts
<1>7. ASSUME Grow \/ OlderGone \/ UNCHANGED vars PROVE ghost' = ghost
  BY <1>7 DEF Grow, OlderGone, vars
<1>. QED BY <1>2, <1>3, <1>4, <1>5, <1>6, <1>7 DEF Next, Step

(* Records are added at the end, never earlier than what is there, and only   *)
(* the source's own are taken out of it.                                      *)
LEMMA SourceFitsNext ==
  ASSUME Typed, SourceFits, [Next]_vars
  PROVE  SourceFits'
<1>1. /\ source \in Seq(Nat) /\ Len(source) \in Nat /\ DOMAIN source = 1 .. Len(source)
      /\ \A k \in DOMAIN source : source[k] \in Nat
      /\ Copies \in Nat
  BY BoundsNat DEF Typed
<1>2. /\ Len(source) > Copies
      /\ \A k \in DOMAIN source : k <= Copies => source[k] = 1
      /\ \A j, k \in DOMAIN source : j <= k => source[j] <= source[k]
      /\ ~ghost.rewritten => source[Copies + 1] = 2
  BY DEF SourceFits
<1>3. ASSUME source' = source, ghost'.rewritten = ghost.rewritten PROVE SourceFits'
  BY <1>2, <1>3 DEF SourceFits
<1>4. CASE Grow
  <2>1. PICK at \in {source[Len(source)], source[Len(source)] + 1} :
          source' = Append(source, at)
    BY <1>4 DEF Grow
  <2>2. ghost' = ghost
    BY <1>4 DEF Grow
  <2>3. Len(source) \in DOMAIN source
    BY <1>1, <1>2
  <2>4. at \in Nat /\ at >= source[Len(source)]
    BY <1>1, <2>1, <2>3
  <2>5. /\ Len(source') = Len(source) + 1 /\ DOMAIN source' = 1 .. Len(source) + 1
        /\ source'[Len(source) + 1] = at
        /\ \A k \in 1 .. Len(source) : source'[k] = source[k]
    BY <1>1, <2>1, <2>4
  <2>6. Len(source') > Copies
    BY <1>1, <1>2, <2>5
  <2>7. ASSUME NEW k \in DOMAIN source', k <= Copies PROVE source'[k] = 1
    <3>1. k \in 1 .. Len(source)
      BY <1>1, <1>2, <2>5, <2>7
    <3>. QED BY <1>1, <1>2, <2>5, <2>7, <3>1
  <2>8. ASSUME NEW j \in DOMAIN source', NEW k \in DOMAIN source', j <= k
        PROVE  source'[j] <= source'[k]
    <3>1. CASE k <= Len(source)
      <4>1. j \in 1 .. Len(source) /\ k \in 1 .. Len(source)
        BY <1>1, <2>5, <2>8, <3>1
      <4>. QED BY <1>1, <1>2, <2>5, <2>8, <4>1
    <3>2. CASE k = Len(source) + 1 /\ j <= Len(source)
      <4>1. j \in 1 .. Len(source)
        BY <1>1, <2>5, <3>2
      <4>2. source[j] <= source[Len(source)]
        BY <1>1, <1>2, <2>3, <4>1
      <4>3. source[j] \in Nat /\ source[Len(source)] \in Nat
        BY <1>1, <2>3, <4>1
      <4>. QED BY <2>4, <2>5, <3>2, <4>1, <4>2, <4>3
    <3>3. CASE j = Len(source) + 1
      <4>1. k = j
        BY <1>1, <2>5, <2>8, <3>3
      <4>. QED BY <2>4, <2>5, <3>3, <4>1
    <3>. QED BY <1>1, <2>5, <2>8, <3>1, <3>2, <3>3
  <2>9. ~ghost'.rewritten => source'[Copies + 1] = 2
    BY <1>1, <1>2, <2>2, <2>5
  <2>. QED BY <2>6, <2>7, <2>8, <2>9 DEF SourceFits
<1>5. CASE Rewrite
  <2>1. PICK k \in DOMAIN source :
          /\ k > Copies /\ Len(source) > Copies + 1
          /\ source' = [j \in 1 .. Len(source) - 1 |->
                            IF j < k THEN source[j] ELSE source[j + 1]]
    BY <1>5 DEF Rewrite
  <2>2. DOMAIN source' = 1 .. Len(source) - 1 /\ Len(source) - 1 \in Nat
    BY <1>1, <2>1
  <2>3. Len(source') = Len(source) - 1
    <3>1. \A j \in 1 .. Len(source) - 1 : source'[j] \in Nat
      BY <1>1, <2>1
    <3>2. source' \in [1 .. Len(source) - 1 -> Nat]
      BY <2>1, <3>1
    <3>3. source' \in Seq(Nat)
      BY <2>2, <3>2
    <3>. QED BY <2>2, <3>3
  <2>4. ASSUME NEW j \in DOMAIN source'
        PROVE  \/ j < k /\ source'[j] = source[j] /\ j \in DOMAIN source
               \/ j >= k /\ source'[j] = source[j + 1] /\ j + 1 \in DOMAIN source
    BY <1>1, <2>1, <2>2
  <2>5. ASSUME NEW j \in DOMAIN source', j <= Copies PROVE source'[j] = 1
    <3>1. j < k
      BY <1>1, <2>1, <2>2, <2>5
    <3>2. j \in Nat /\ k \in Nat
      BY <1>1, <2>2
    <3>3. source'[j] = source[j] /\ j \in DOMAIN source
      BY <2>4, <3>1, <3>2
    <3>. QED BY <1>2, <2>5, <3>3
  <2>6. ASSUME NEW i \in DOMAIN source', NEW j \in DOMAIN source', i <= j
        PROVE  source'[i] <= source'[j]
    <3>1. i \in Nat /\ j \in Nat /\ k \in Nat
      BY <1>1, <2>2
    <3>2. ASSUME NEW x \in DOMAIN source'
          PROVE  \E a \in DOMAIN source :
                    source'[x] = source[a] /\ ((x < k /\ a = x) \/ (x >= k /\ a = x + 1))
      <4>1. CASE x < k /\ source'[x] = source[x] /\ x \in DOMAIN source
        BY <4>1
      <4>2. CASE x >= k /\ source'[x] = source[x + 1] /\ x + 1 \in DOMAIN source
        BY <4>2
      <4>. QED BY <2>4, <4>1, <4>2
    <3>3. PICK a \in DOMAIN source :
            source'[i] = source[a] /\ ((i < k /\ a = i) \/ (i >= k /\ a = i + 1))
      BY <3>2
    <3>4. PICK b \in DOMAIN source :
            source'[j] = source[b] /\ ((j < k /\ b = j) \/ (j >= k /\ b = j + 1))
      BY <3>2
    <3>5. a <= b
      BY <2>6, <3>1, <3>3, <3>4
    <3>. QED BY <1>2, <3>3, <3>4, <3>5
  <2>7. ghost'.rewritten
    BY <1>5, HistoryNext
  <2>8. Len(source') > Copies
    BY <1>1, <2>1, <2>3
  <2>. QED BY <2>5, <2>6, <2>7, <2>8 DEF SourceFits
<1>6. ASSUME ~Grow, ~Rewrite PROVE source' = source
  <2>1. CASE UNCHANGED vars \/ OlderGone
    BY <2>1 DEF vars, OlderGone
  <2>2. CASE \E i \in Sids : Forge(i)
    BY <2>2, ForgeEffect
  <2>3. CASE \E p \in Procs : Step(p) \/ Again(p) \/ Crash(p) \/ WriteFails(p)
    BY <2>3, Frame
  <2>. QED BY <1>6, <2>1, <2>2, <2>3 DEF Next
<1>7. ASSUME ~Rewrite PROVE ~ghost'.rewritten => ~ghost.rewritten
  BY HistoryNext
<1>8. ASSUME ~Grow, ~Rewrite PROVE SourceFits'
  BY <1>2, <1>6, <1>7, <1>8 DEF SourceFits
<1>. QED BY <1>4, <1>5, <1>8

-----------------------------------------------------------------------------
(* Where sessions start: no later than the source's first own record, as long *)
(* as it was not taken out of the source.                                     *)
LEMMA EarliestFits ==
  ASSUME Typed, NEW p \in Procs
  PROVE  /\ EarliestStart(mem[p].priors) \in Nat
         /\ mem[p].priors # {} =>
              \E q \in mem[p].priors : EarliestStart(mem[p].priors) = q.started
         /\ \A q \in mem[p].priors : EarliestStart(mem[p].priors) <= q.started
<1>. DEFINE starts == {q.started : q \in mem[p].priors}
<1>1. \A q \in mem[p].priors : q.started \in Nat /\ q.started \in starts
  BY DEF Typed, Mems, Priors
<1>2. \A x \in starts : \E q \in mem[p].priors : x = q.started
  OBVIOUS
<1>3. CASE mem[p].priors = {}
  BY <1>3 DEF EarliestStart
<1>4. CASE mem[p].priors # {}
  <2>1. EarliestStart(mem[p].priors) = Min(starts)
    BY <1>4 DEF EarliestStart
  <2>. HIDE DEF starts
  <2>2. starts \in SUBSET Nat /\ starts # {}
    BY <1>1, <1>2, <1>4
  <2>3. Min(starts) \in starts /\ \A x \in starts : Min(starts) <= x
    BY <2>2, MinExists
  <2>. QED BY <1>1, <1>2, <2>1, <2>2, <2>3
<1>. QED BY <1>3, <1>4

LEMMA OwnStarts ==
  ASSUME Typed, SourceFits, ~ghost.rewritten, NEW p \in Procs,
         \A q \in mem[p].priors : q.started <= 2
  PROVE  /\ OwnOf(p) # {}
         /\ source[Min(OwnOf(p))] <= 2
         /\ OwnOf(p) # DOMAIN source => Copies > 0
<1>. DEFINE start == EarliestStart(mem[p].priors)
            own == OwnOf(p)
<1>1. /\ source \in Seq(Nat) /\ DOMAIN source = 1 .. Len(source) /\ Len(source) \in Nat
      /\ \A k \in DOMAIN source : source[k] \in Nat
      /\ Copies \in Nat
  BY BoundsNat DEF Typed
<1>2. /\ Len(source) > Copies
      /\ \A j, k \in DOMAIN source : j <= k => source[j] <= source[k]
      /\ source[Copies + 1] = 2
  BY DEF SourceFits
<1>3. start \in Nat /\ start <= 2
  <2>1. start \in Nat
    BY EarliestFits
  <2>2. CASE mem[p].priors = {}
    BY <2>2 DEF EarliestStart
  <2>3. CASE mem[p].priors # {}
    <3>1. PICK q \in mem[p].priors : start = q.started
      BY <2>3, EarliestFits
    <3>. QED BY <2>1, <3>1
  <2>. QED BY <2>1, <2>2, <2>3
<1>4. \A k \in DOMAIN source : k > Copies /\ source[k] >= start => k \in own
  BY <1>1 DEF OwnOf, Own
<1>5. own \in SUBSET DOMAIN source
  BY OwnFits
<1>. HIDE DEF own, start
<1>6. Copies + 1 \in DOMAIN source
  BY <1>1, <1>2
<1>7. Copies + 1 \in own
  BY <1>1, <1>2, <1>3, <1>4, <1>6
<1>8. Min(own) \in own /\ Min(own) <= Copies + 1
  BY <1>1, <1>5, <1>7, MinExists
<1>9. source[Min(own)] <= 2
  BY <1>1, <1>2, <1>5, <1>6, <1>8
<1>10. ASSUME own # DOMAIN source, ~(Copies > 0) PROVE FALSE
  <2>1. PICK k \in DOMAIN source : k \notin own
    BY <1>5, <1>10
  <2>2. Copies = 0 /\ k >= 1 /\ 1 \in DOMAIN source
    BY <1>1, <1>2, <1>10
  <2>3. source[1] = 2 /\ source[1] <= source[k]
    BY <1>1, <1>2, <2>2
  <2>. QED BY <1>1, <1>3, <1>4, <2>1, <2>2, <2>3
<1>. QED BY <1>7, <1>9, <1>10 DEF own

LEMMA StartsFitNext ==
  ASSUME Typed, CommandsFit, SourceFits, StartsFit, [Next]_vars
  PROVE  StartsFit'
<1>. DEFINE YamlStarts(i) == sessions'[i].yaml.started <= 2
            Starts(m) == /\ m.started <= 2 /\ m.yaml.started <= 2
                         /\ \A q \in m.priors : q.started <= 2
                         /\ m.leftOut => Copies > 0
<1>. SUFFICES ASSUME ~ghost'.rewritten
              PROVE  /\ \A i \in Sids : YamlStarts(i)
                     /\ \A p \in Procs : Starts(mem'[p])
  BY DEF StartsFit
<1>1. ~ghost.rewritten
  BY HistoryNext
<1>2. /\ \A i \in Sids : sessions[i].yaml.started <= 2
      /\ \A p \in Procs : Starts(mem[p])
  BY <1>1 DEF StartsFit
<1>3. NoSession.yaml.started <= 2 /\ NoYaml.started <= 2 /\ Starts(NoMem)
  BY DEF NoSession, NoYaml, NoMem
<1>4. ASSUME NEW p \in Procs, NEW events, NEW linked
      PROVE  YamlOf(p, events, linked).started <= 2
  BY <1>2 DEF YamlOf
<1>5. ASSUME NEW j \in Sids, \A k \in Sids \ {j} : sessions'[k] = sessions[k], YamlStarts(j)
      PROVE  \A i \in Sids : YamlStarts(i)
  BY <1>2, <1>5
<1>6. ASSUME NEW j \in Sids, NEW log \in Logs, Set(j, [sessions[j] EXCEPT !.log = log])
      PROVE  \A i \in Sids : YamlStarts(i)
  <2>1. YamlStarts(j)
    BY <1>2, <1>6, SetLog
  <2>2. \A k \in Sids \ {j} : sessions'[k] = sessions[k]
    BY <1>6, SetLog
  <2>. QED BY <1>5, <2>1, <2>2
<1>7. ASSUME NEW j \in Sids, NEW yaml \in Yamls, Set(j, [sessions[j] EXCEPT !.yaml = yaml]),
             yaml.started <= 2
      PROVE  \A i \in Sids : YamlStarts(i)
  <2>1. YamlStarts(j)
    BY <1>7, SetYaml
  <2>2. \A k \in Sids \ {j} : sessions'[k] = sessions[k]
    BY <1>7, SetYaml
  <2>. QED BY <1>5, <2>1, <2>2
<1>8. ASSUME NEW j \in Sids, Set(j, NoSession)
      PROVE  \A i \in Sids : YamlStarts(i)
  <2>1. YamlStarts(j)
    BY <1>3, <1>8, SetNothing
  <2>2. \A k \in Sids \ {j} : sessions'[k] = sessions[k]
    BY <1>8, SetNothing
  <2>. QED BY <1>5, <2>1, <2>2
<1>9. ASSUME NEW j \in Sids, Set(j, [NoSession EXCEPT !.dir = TRUE])
      PROVE  \A i \in Sids : YamlStarts(i)
  <2>1. YamlStarts(j)
    BY <1>3, <1>9, SetDirectory
  <2>2. \A k \in Sids \ {j} : sessions'[k] = sessions[k]
    BY <1>9, SetDirectory
  <2>. QED BY <1>5, <2>1, <2>2
<1>10. ASSUME sessions' = sessions PROVE \A i \in Sids : YamlStarts(i)
  BY <1>2, <1>10
<1>. DEFINE Goal == \A i \in Sids : YamlStarts(i)
<1>11. ASSUME NEW p \in Procs, Import(p) PROVE Goal
  <2>1. \A i \in mem[p].left : i \in Sids
    BY DEF Typed, Mems
  <2>2. ASSUME NEW i \in Sids, Set(i, NoSession) PROVE Goal
    BY <1>8, <2>2
  <2>3. ASSUME NEW i \in Sids, Set(i, [NoSession EXCEPT !.dir = TRUE]) PROVE Goal
    BY <1>9, <2>3
  <2>4. ASSUME NEW i \in Sids, NEW log \in Logs, Set(i, [sessions[i] EXCEPT !.log = log])
        PROVE  Goal
    BY <1>6, <2>4
  <2>5. ASSUME NEW i \in Sids, NEW events, YamlOf(p, events, FALSE) \in Yamls,
               Set(i, [sessions[i] EXCEPT !.yaml = YamlOf(p, events, FALSE)])
        PROVE  Goal
    BY <1>4, <1>7, <2>5
  <2>6. ASSUME sessions' = sessions PROVE Goal
    BY <1>10, <2>6
  <2>. HIDE DEF Goal
  <2>. QED BY <1>11, <2>1, <2>2, <2>3, <2>4, <2>5, <2>6, ImportWrites
<1>12. ASSUME NEW p \in Procs, InPlace(p) PROVE Goal
  <2>1. ASSUME NEW i \in Sids, NEW log \in Logs, Set(i, [sessions[i] EXCEPT !.log = log])
        PROVE  Goal
    BY <1>6, <2>1
  <2>2. ASSUME NEW i \in Sids, mem[p].yaml \in Yamls,
               Set(i, [sessions[i] EXCEPT !.yaml = mem[p].yaml])
        PROVE  Goal
    BY <1>2, <1>7, <2>2
  <2>3. ASSUME sessions' = sessions PROVE Goal
    BY <1>10, <2>3
  <2>. HIDE DEF Goal
  <2>. QED BY <1>12, <2>1, <2>2, <2>3, InPlaceWrites
<1>13. ASSUME NEW p \in Procs, Again(p) \/ Crash(p) \/ WriteFails(p) PROVE sessions' = sessions
  BY <1>13, AgainEffect, CrashEffect, WriteFailsEffect
<1>14. ASSUME NEW i \in Sids, Forge(i) PROVE Goal
  <2>1. ASSUME NEW log \in Logs, Set(i, [sessions[i] EXCEPT !.log = log]) PROVE Goal
    BY <1>6, <2>1
  <2>. HIDE DEF Goal
  <2>. QED BY <1>14, <2>1, ForgeWrites
<1>15. ASSUME Grow \/ Rewrite \/ OlderGone \/ UNCHANGED vars
       PROVE  sessions' = sessions /\ mem' = mem
  BY <1>15, SourceEffect DEF vars
<1>16. Goal
  <2>. HIDE DEF Goal
  <2>1. ASSUME sessions' = sessions PROVE Goal
    BY <1>10, <2>1 DEF Goal
  <2>. QED BY <1>11, <1>12, <1>13, <1>14, <1>15, <2>1 DEF Next, Step
<1>17. ASSUME mem' = mem PROVE \A q \in Procs : Starts(mem'[q])
  BY <1>2, <1>17
<1>18. ASSUME NEW p \in Procs, mem'[p] = NoMem \/ mem'[p] = mem[p] PROVE Starts(mem'[p])
  BY <1>2, <1>3, <1>18
<1>19. ASSUME NEW p \in Procs, NEW m, m \in Mems,
              m.started = mem[p].started, m.priors = mem[p].priors,
              m.leftOut = mem[p].leftOut, m.yaml = mem[p].yaml
       PROVE  Starts(m)
  BY <1>2, <1>19
<1>20. ASSUME NEW p \in Procs, Step(p) \/ Again(p) \/ Crash(p) \/ WriteFails(p)
       PROVE  Starts(mem'[p])
  <2>. DEFINE m == mem[p]
  <2>1. m \in Mems
    BY DEF Typed
  <2>2. Starts(m)
    BY <1>2
  <2>3. CASE Load(p)
    <3>1. mem'[p] = [m EXCEPT !.left = {i \in Sids : sessions[i].dir}]
      BY <2>3, LoadEffect
    <3>2. /\ mem'[p].started = m.started /\ mem'[p].priors = m.priors
          /\ mem'[p].leftOut = m.leftOut /\ mem'[p].yaml = m.yaml
      BY <2>1, <3>1 DEF Mems
    <3>. QED BY <2>2, <3>2
  <2>4. CASE Scan(p)
    <3>1. PICK i \in m.left :
            mem'[p] = [m EXCEPT
                  !.left = m.left \ {i},
                  !.priors = m.priors \cup
                      (IF sessions[i].yaml.there
                       THEN {[sid |-> i, size |-> sessions[i].yaml.size,
                              started |-> sessions[i].yaml.started]}
                       ELSE {})]
      BY <2>4, ScanEffect
    <3>2. i \in Sids
      BY <2>1 DEF Mems
    <3>3. /\ mem'[p].started = m.started /\ mem'[p].yaml = m.yaml /\ mem'[p].leftOut = m.leftOut
          /\ \A q \in mem'[p].priors : q \in m.priors \/ q.started = sessions[i].yaml.started
      BY <2>1, <3>1 DEF Mems
    <3>. QED BY <1>2, <2>2, <3>2, <3>3
  <2>5. CASE ScanEnds(p)
    <3>1. mem'[p] = [m EXCEPT !.older = older]
      BY <2>5, ScanEndsEffect
    <3>2. /\ mem'[p].started = m.started /\ mem'[p].priors = m.priors
          /\ mem'[p].leftOut = m.leftOut /\ mem'[p].yaml = m.yaml
      BY <2>1, <3>1 DEF Mems
    <3>. QED BY <2>2, <3>2
  <2>6. CASE Classify(p)
    <3>1. CASE mem'[p] = NoMem
      BY <1>18, <3>1
    <3>2. CASE mem'[p] = [m EXCEPT !.reason = Reason(p)]
      <4>1. /\ mem'[p].started = m.started /\ mem'[p].priors = m.priors
            /\ mem'[p].leftOut = m.leftOut /\ mem'[p].yaml = m.yaml
        BY <2>1, <3>2 DEF Mems
      <4>. QED BY <2>2, <4>1
    <3>. HIDE DEF Starts
    <3>. QED BY <2>6, <3>1, <3>2, ClassifyEffect
  <2>7. CASE Derive(p)
    <3>1. CASE mem'[p] = NoMem
      BY <1>18, <3>1
    <3>2. CASE mem'[p] = [NoMem EXCEPT
                     !.payload = Contents(source, OwnOf(p)),
                     !.size = Len(source),
                     !.started = source[Min(OwnOf(p))],
                     !.leftOut = (OwnOf(p) # DOMAIN source),
                     !.target = IF AgainFor(p) THEN PriorOf(p).sid ELSE 0,
                     !.left = IF AgainFor(p) THEN {} ELSE {q.sid : q \in mem[p].priors}]
      <4>1. /\ mem'[p].started = source[Min(OwnOf(p))] /\ mem'[p].priors = {}
            /\ mem'[p].leftOut = (OwnOf(p) # DOMAIN source) /\ mem'[p].yaml = NoYaml
        BY <3>2 DEF NoMem
      <4>2. source[Min(OwnOf(p))] <= 2 /\ (OwnOf(p) # DOMAIN source => Copies > 0)
        BY <1>1, <2>2, OwnStarts
      <4>. QED BY <1>3, <4>1, <4>2
    <3>. HIDE DEF Starts
    <3>. QED BY <2>7, <3>1, <3>2, DeriveEffect
  <2>8. CASE Remove(p)
    <3>1. \E i : mem'[p] = [m EXCEPT !.left = m.left \ {i}]
      BY <2>8, RemoveEffect
    <3>2. /\ mem'[p].started = m.started /\ mem'[p].priors = m.priors
          /\ mem'[p].leftOut = m.leftOut /\ mem'[p].yaml = m.yaml
      BY <2>1, <3>1 DEF Mems
    <3>. QED BY <2>2, <3>2
  <2>9. CASE MakeDirectory(p)
    <3>1. mem'[p] = [m EXCEPT !.target = made']
      BY <2>9, MakeDirectoryEffect
    <3>2. /\ mem'[p].started = m.started /\ mem'[p].priors = m.priors
          /\ mem'[p].leftOut = m.leftOut /\ mem'[p].yaml = m.yaml
      BY <2>1, <3>1 DEF Mems
    <3>. QED BY <2>2, <3>2
  <2>10. CASE Choose(p)
    <3>1. \E i : mem'[p] = [m EXCEPT !.target = i]
      BY <2>10, ChooseEffect
    <3>2. /\ mem'[p].started = m.started /\ mem'[p].priors = m.priors
          /\ mem'[p].leftOut = m.leftOut /\ mem'[p].yaml = m.yaml
      BY <2>1, <3>1 DEF Mems
    <3>. QED BY <2>2, <3>2
  <2>11. CASE Merge(p)
    <3>1. CASE mem' = mem
      BY <1>17, <3>1
    <3>. DEFINE merged == [NoMem EXCEPT
                     !.target = mem[p].target, !.started = mem[p].started,
                     !.leftOut = mem[p].leftOut,
                     !.next = ChainedLog(MergeOf(p, sessions[Target(p)])),
                     !.yaml = YamlOf(p, MergeOf(p, sessions[Target(p)]),
                                     sessions[Target(p)].yaml.linked),
                     !.raw = sessions[Target(p)].log]
    <3>2. CASE mem'[p] = merged
      <4>1. /\ merged.started = m.started /\ merged.priors = {}
            /\ merged.leftOut = m.leftOut
            /\ merged.yaml = YamlOf(p, MergeOf(p, sessions[Target(p)]),
                                    sessions[Target(p)].yaml.linked)
        BY DEF NoMem
      <4>. HIDE DEF merged
      <4>. QED BY <1>4, <2>2, <3>2, <4>1
    <3>3. mem' = mem \/ mem'[p] = merged
      BY <2>11, MergeEffect
    <3>. HIDE DEF Starts, merged
    <3>. QED BY <3>1, <3>2, <3>3
  <2>12. CASE Rechain(p)
    <3>. DEFINE s == sessions[Target(p)]
    <3>1. mem'[p] = [m EXCEPT
               !.next = ChainedLog(s.log.events),
               !.yaml = [s.yaml EXCEPT !.anchor = AnchorOf(s.log.events)],
               !.raw = s.log]
      BY <2>12, RechainEffect
    <3>2. Target(p) \in Sids
      <4>1. pc[p] = "merge"
        BY <2>12, RechainEffect
      <4>. QED BY <4>1, TargetIsSession, Places
    <3>3. s.yaml \in Yamls
      BY <3>2 DEF Typed, Sessions
    <3>. DEFINE yaml == [s.yaml EXCEPT !.anchor = AnchorOf(s.log.events)]
    <3>4. yaml.started = s.yaml.started
      BY <3>3 DEF Yamls
    <3>. HIDE DEF yaml
    <3>5. mem'[p].started = m.started /\ mem'[p].priors = m.priors
          /\ mem'[p].leftOut = m.leftOut /\ mem'[p].yaml = yaml
      BY <2>1, <3>1 DEF Mems, yaml
    <3>. QED BY <1>2, <2>2, <3>2, <3>4, <3>5
  <2>13. CASE \/ WriteBulk(p) \/ WriteEvents(p) \/ WriteYaml(p) \/ Restore(p) \/ RestoreFails(p)
              \/ Judge(p) \/ Again(p)
    <3>1. mem' = mem
      BY <2>13, WriteBulkEffect, WriteEventsEffect, WriteYamlEffect, RestoreEffect,
         RestoreFailsEffect, JudgeEffect, AgainEffect
    <3>. QED BY <1>18, <3>1
  <2>14. CASE LinkYaml(p) \/ Cleanup(p) \/ Lock(p) \/ Release(p) \/ Crash(p) \/ WriteFails(p)
    <3>1. mem'[p] = NoMem \/ mem' = mem
      BY <2>14, LinkYamlEffect, CleanupEffect, LockEffect, ReleaseEffect, CrashEffect,
         WriteFailsEffect
    <3>. QED BY <1>18, <3>1
  <2>. HIDE DEF Starts
  <2>. QED
    BY <1>20, <2>3, <2>4, <2>5, <2>6, <2>7, <2>8, <2>9, <2>10, <2>11, <2>12, <2>13, <2>14
       DEF Step, Import, InPlace
<1>21. \A q \in Procs : Starts(mem'[q])
  <2>1. ASSUME NEW p \in Procs, Step(p) \/ Again(p) \/ Crash(p) \/ WriteFails(p), NEW q \in Procs
        PROVE  Starts(mem'[q])
    <3>1. CASE q = p
      BY <1>20, <2>1, <3>1
    <3>2. CASE q # p
      <4>1. mem'[q] = mem[q]
        BY <2>1, <3>2, Frame
      <4>. QED BY <1>18, <4>1
    <3>. QED BY <3>1, <3>2
  <2>2. ASSUME NEW i \in Sids, Forge(i) PROVE mem' = mem
    BY <2>2, ForgeEffect
  <2>. QED BY <1>15, <1>17, <2>1, <2>2 DEF Next
<1>. QED BY <1>16, <1>21

-----------------------------------------------------------------------------
(* What a rewrite that is under way lets go.                                  *)
LEMMA MergeKeepsNext ==
  ASSUME Typed, CommandsFit, IdsFit, AllTidy, PayloadsFit, MergeKeeps, [Next]_vars
  PROVE  MergeKeeps'
<1>. DEFINE Keeps(m) == \A e \in m.raw.events :
                            \/ /\ e.says.kind = "middle"
                               /\ m.leftOut /\ e.says.at < m.started
                            \/ \E f \in m.next.events : f.id = e.id /\ Matches(e, f.says)
<1>1. ASSUME NEW q \in Procs, pc[q] = "events" PROVE Keeps(mem[q])
  BY <1>1 DEF MergeKeeps
<1>2. ASSUME NEW q \in Procs, pc'[q] = pc[q], mem'[q] = mem[q], pc'[q] = "events"
      PROVE  Keeps(mem'[q])
  BY <1>1, <1>2
<1>3. ASSUME NEW p \in Procs, Merge(p), pc'[p] = "events" PROVE Keeps(mem'[p])
  <2>. DEFINE m == mem[p]
              s == sessions[Target(p)]
              new == MergeOf(p, s)
              old == s.log.events
              merged == [NoMem EXCEPT
                     !.target = mem[p].target, !.started = mem[p].started,
                     !.leftOut = mem[p].leftOut,
                     !.next = ChainedLog(new),
                     !.yaml = YamlOf(p, new, s.yaml.linked),
                     !.raw = s.log]
  <2>1. pc[p] = "merge"
    BY <1>3, MergeEffect
  <2>2. Target(p) \in Sids
    BY <2>1, TargetIsSession, Places
  <2>3. Refused(Derived(old), m.payload, DropBefore(p)) = {} /\ mem'[p] = merged
    BY <1>3, MergeEffect
  <2>4. \A e \in old : \/ e \in Derived(old) /\ \A c \in m.payload : ~Matches(e, c)
                       \/ \E f \in new : f.id = e.id /\ Matches(e, f.says)
    BY <2>2, MergeOfFits
  <2>5. \A e \in old : e.says.at \in Nat
    BY <2>2 DEF Typed, Sessions, Logs, Events, Says
  <2>6. /\ merged.started = m.started /\ merged.leftOut = m.leftOut
        /\ merged.next = ChainedLog(new) /\ merged.raw = s.log
    BY DEF NoMem
  <2>7. ChainedLog(new).events = new
    BY ChainedEvents
  <2>8. ASSUME NEW e \in old, e \in Derived(old), \A c \in m.payload : ~Matches(e, c)
        PROVE  e.says.kind = "middle" /\ m.leftOut /\ e.says.at < m.started
    <3>1. e.says.kind = "middle" /\ e.says.at < DropBefore(p)
      BY <2>3, <2>8 DEF Refused
    <3>. QED BY <2>5, <3>1 DEF DropBefore
  <2>. HIDE DEF merged, new
  <2>. QED BY <2>3, <2>4, <2>6, <2>7, <2>8
<1>4. ASSUME NEW e PROVE Matches(e, e.says)
  BY DEF Matches
<1>5. ASSUME NEW p \in Procs, Rechain(p) PROVE Keeps(mem'[p])
  <2>. DEFINE s == sessions[Target(p)]
              next == ChainedLog(s.log.events)
              yaml == [s.yaml EXCEPT !.anchor = AnchorOf(s.log.events)]
  <2>1. mem'[p] = [mem[p] EXCEPT !.next = next, !.yaml = yaml, !.raw = s.log]
    BY <1>5, RechainEffect
  <2>2. next.events = s.log.events
    BY ChainedEvents
  <2>. HIDE DEF next, yaml
  <2>3. mem'[p].next = next /\ mem'[p].raw = s.log
    BY <2>1 DEF Typed, Mems
  <2>. QED BY <1>4, <2>2, <2>3
<1>6. ASSUME NEW p \in Procs, Step(p) \/ Again(p) \/ Crash(p) \/ WriteFails(p),
             ~Merge(p), ~Rechain(p)
      PROVE  pc'[p] # "events"
  <2>1. CASE Import(p)
    <3>1. pc'[p] # "events"
      BY <2>1, LoadEffect, ScanEffect, ScanEndsEffect, ClassifyEffect, DeriveEffect, RemoveEffect,
         MakeDirectoryEffect, WriteBulkEffect, LinkYamlEffect, CleanupEffect DEF Import
    <3>. QED BY <3>1
  <2>2. CASE InPlace(p)
    <3>1. CASE Release(p)
      BY <3>1, ReleaseEffect DEF Over
    <3>. QED BY <1>6, <2>2, <3>1, ChooseEffect, LockEffect, JudgeEffect, WriteEventsEffect,
             WriteYamlEffect, RestoreEffect, RestoreFailsEffect DEF InPlace
  <2>3. CASE Again(p) \/ Crash(p) \/ WriteFails(p)
    BY <2>3, AgainEffect, CrashEffect, WriteFailsEffect
  <2>. QED BY <1>6, <2>1, <2>2, <2>3 DEF Step
<1>7. ASSUME NEW p \in Procs, Step(p) \/ Again(p) \/ Crash(p) \/ WriteFails(p),
             NEW q \in Procs, pc'[q] = "events"
      PROVE  Keeps(mem'[q])
  <2>1. CASE q # p
    <3>1. pc'[q] = pc[q] /\ mem'[q] = mem[q]
      BY <1>7, <2>1, Frame
    <3>. QED BY <1>2, <1>7, <3>1
  <2>2. CASE q = p
    <3>. HIDE DEF Keeps
    <3>. QED BY <1>3, <1>5, <1>6, <1>7, <2>2
  <2>. QED BY <2>1, <2>2
<1>8. ASSUME \/ \E i \in Sids : Forge(i)
             \/ Grow \/ Rewrite \/ OlderGone \/ UNCHANGED vars
      PROVE  pc' = pc /\ mem' = mem
  BY <1>8, ForgeEffect, SourceEffect DEF vars
<1>9. ASSUME NEW q \in Procs, pc'[q] = "events" PROVE Keeps(mem'[q])
  <2>. HIDE DEF Keeps
  <2>. QED BY <1>2, <1>7, <1>8, <1>9 DEF Next
<1>. HIDE DEF Keeps
<1>10. \A q \in Procs : pc'[q] = "events" => Keeps(mem'[q])
  BY <1>9
<1>. QED BY <1>10 DEF MergeKeeps, Keeps

-----------------------------------------------------------------------------
(* What becomes of one session in a step.                                     *)
Stays(i) == sessions'[i] = sessions[i]
Vanishes(i) == sessions'[i] = NoSession
Begins(i) == i = made' /\ made' = made + 1 /\ sessions'[i].yaml = NoYaml /\ sessions'[i].log = NoLog
Filled(i, p) ==
    /\ WriteBulk(p) /\ Target(p) = i /\ sessions'[i].yaml = sessions[i].yaml
    /\ sessions'[i].dir = sessions[i].dir
    /\ sessions'[i].log = ChainedLog(NewEvents(p))
Linked(i, p) ==
    /\ LinkYaml(p) /\ Target(p) = i /\ sessions'[i].log = sessions[i].log
    /\ sessions'[i].dir = sessions[i].dir
    /\ sessions'[i].yaml = YamlOf(p, sessions[i].log.events, FALSE)
Relogged(i, p) ==
    /\ WriteEvents(p) /\ Target(p) = i /\ sessions[i].dir /\ sessions'[i].dir
    /\ sessions'[i].yaml = sessions[i].yaml /\ sessions'[i].log = mem[p].next
Reanchored(i, p) ==
    /\ WriteYaml(p) /\ Target(p) = i /\ sessions[i].dir /\ sessions'[i].dir
    /\ sessions'[i].yaml = mem[p].yaml /\ sessions'[i].log = sessions[i].log
Restored(i, p) ==
    /\ Restore(p) /\ Target(p) = i /\ sessions[i].dir /\ sessions'[i].dir
    /\ sessions'[i].yaml = sessions[i].yaml /\ sessions'[i].log = mem[p].raw
Forged(i) ==
    /\ Forge(i) /\ sessions'[i].dir = sessions[i].dir /\ sessions'[i].yaml = sessions[i].yaml
    /\ sessions'[i].log.events = sessions[i].log.events \cup {Mark(i)}
Becomes(i) ==
    \/ Stays(i) \/ Vanishes(i) \/ Begins(i) \/ Forged(i)
    \/ \E p \in Procs : \/ Filled(i, p) \/ Linked(i, p) \/ Relogged(i, p)
                        \/ Reanchored(i, p) \/ Restored(i, p)

LEMMA SessionNext ==
  ASSUME Typed, CommandsFit, [Next]_vars, NEW i \in Sids
  PROVE  Becomes(i)
<1>. USE DEF Becomes
<1>1. ASSUME NEW j \in Sids, Set(j, NoSession) PROVE Becomes(i)
  <2>1. Vanishes(i) \/ Stays(i)
    BY <1>1, SetNothing DEF Vanishes, Stays
  <2>. QED BY <2>1
<1>2. ASSUME made' = made + 1, made' \in Sids, Set(made', [NoSession EXCEPT !.dir = TRUE])
      PROVE  Becomes(i)
  <2>1. Begins(i) \/ Stays(i)
    BY <1>2, SetDirectory DEF Begins, Stays
  <2>. QED BY <2>1
<1>3. ASSUME sessions' = sessions PROVE Becomes(i)
  BY <1>3 DEF Stays
<1>4. ASSUME NEW p \in Procs, WriteBulk(p), Target(p) \in Sids, ChainedLog(NewEvents(p)) \in Logs,
             Set(Target(p), [sessions[Target(p)] EXCEPT !.log = ChainedLog(NewEvents(p))])
      PROVE  Becomes(i)
  <2>1. Filled(i, p) \/ Stays(i)
    BY <1>4, SetLog DEF Filled, Stays
  <2>. QED BY <2>1
<1>5. ASSUME NEW p \in Procs, LinkYaml(p), Target(p) \in Sids,
             YamlOf(p, sessions[Target(p)].log.events, FALSE) \in Yamls,
             Set(Target(p), [sessions[Target(p)] EXCEPT
                               !.yaml = YamlOf(p, sessions[Target(p)].log.events, FALSE)])
      PROVE  Becomes(i)
  <2>1. Linked(i, p) \/ Stays(i)
    BY <1>5, SetYaml DEF Linked, Stays
  <2>. QED BY <2>1
<1>6. ASSUME NEW p \in Procs, WriteEvents(p), Target(p) \in Sids, mem[p].next \in Logs,
             sessions[Target(p)].dir,
             Set(Target(p), [sessions[Target(p)] EXCEPT !.log = mem[p].next])
      PROVE  Becomes(i)
  <2>1. Relogged(i, p) \/ Stays(i)
    BY <1>6, SetLog DEF Relogged, Stays
  <2>. QED BY <2>1
<1>7. ASSUME NEW p \in Procs, WriteYaml(p), Target(p) \in Sids, mem[p].yaml \in Yamls,
             sessions[Target(p)].dir,
             Set(Target(p), [sessions[Target(p)] EXCEPT !.yaml = mem[p].yaml])
      PROVE  Becomes(i)
  <2>1. Reanchored(i, p) \/ Stays(i)
    BY <1>7, SetYaml DEF Reanchored, Stays
  <2>. QED BY <2>1
<1>8. ASSUME NEW p \in Procs, Restore(p), Target(p) \in Sids, mem[p].raw \in Logs,
             sessions[Target(p)].dir,
             Set(Target(p), [sessions[Target(p)] EXCEPT !.log = mem[p].raw])
      PROVE  Becomes(i)
  <2>1. Restored(i, p) \/ Stays(i)
    BY <1>8, SetLog DEF Restored, Stays
  <2>. QED BY <2>1
<1>9. ASSUME NEW j \in Sids, Forge(j) PROVE Becomes(i)
  <2>1. PICK log \in Logs : /\ log.events = sessions[j].log.events \cup {Mark(j)} /\ log.chained
                            /\ Set(j, [sessions[j] EXCEPT !.log = log])
    BY <1>9, ForgeWrites
  <2>2. Forged(i) \/ Stays(i)
    BY <1>9, <2>1, SetLog DEF Forged, Stays
  <2>. QED BY <2>2
<1>10. \A p \in Procs : \A j \in mem[p].left : j \in Sids
  BY DEF Typed, Mems
<1>. HIDE DEF Becomes
<1>11. ASSUME NEW p \in Procs, Import(p) PROVE Becomes(i)
  <2>1. pc[p] = "cleanup" => Target(p) \in Sids
    BY TargetIsSession, Places
  <2>. QED BY <1>1, <1>2, <1>3, <1>4, <1>5, <1>10, <1>11, ImportWrites
<1>12. ASSUME NEW p \in Procs, InPlace(p) PROVE Becomes(i)
  BY <1>3, <1>6, <1>7, <1>8, <1>12, InPlaceWrites
<1>13. ASSUME NEW p \in Procs, Again(p) \/ Crash(p) \/ WriteFails(p) PROVE sessions' = sessions
  BY <1>13, AgainEffect, CrashEffect, WriteFailsEffect
<1>14. ASSUME Grow \/ Rewrite \/ OlderGone \/ UNCHANGED vars PROVE sessions' = sessions
  BY <1>14, SourceEffect DEF vars
<1>. QED BY <1>3, <1>9, <1>11, <1>12, <1>13, <1>14 DEF Next, Step

-----------------------------------------------------------------------------
(* An import that runs alone.                                                 *)
LEMMA ReadableNext ==
  ASSUME Typed, CommandsFit, [Next]_vars, NEW i \in Sids, sessions'[i].yaml.there
  PROVE  sessions[i].yaml.there \/ \E p \in Procs : Linked(i, p)
<1>1. ~NoSession.yaml.there /\ ~NoYaml.there
  BY DEF NoSession, NoYaml
<1>2. ASSUME NEW p \in Procs, Reanchored(i, p) PROVE sessions[i].yaml.there
  <2>1. pc[p] = "yaml" /\ Target(p) = i /\ sessions[i].dir
    BY <1>2, WriteYamlEffect DEF Reanchored
  <2>2. Knows(p, i)
    BY <2>1, Places DEF Knows, KnowsTarget
  <2>. QED BY <2>1, <2>2 DEF CommandsFit, CommandFits
<1>3. Becomes(i)
  BY SessionNext
<1>. QED BY <1>1, <1>2, <1>3 DEF Becomes, Stays, Vanishes, Begins, Forged, Filled, Relogged, Restored

LEMMA ImportingNext ==
  ASSUME Typed, [Next]_vars, NEW q \in Procs, Importing(q)'
  PROVE  Importing(q) \/ Load(q)
<1>1. kind'[q] # "rechain" /\ pc'[q] \notin Over \cup {"load"}
  BY DEF Importing, Running
<1>2. ASSUME kind'[q] = kind[q], pc'[q] = pc[q] PROVE Importing(q)
  BY <1>1, <1>2 DEF Importing, Running
<1>3. ASSUME Step(q) \/ Again(q) \/ Crash(q) \/ WriteFails(q), ~Load(q)
      PROVE  kind'[q] = kind[q] /\ pc[q] \notin Over \cup {"load"}
  <2>1. kind'[q] = kind[q]
    BY <1>3, Frame
  <2>2. CASE Import(q)
    <3>1. pc[q] \in {"scan", "classify", "derive", "remove", "mkdir", "bulk", "link", "cleanup"}
      BY <1>3, <2>2, ScanEffect, ScanEndsEffect, ClassifyEffect, DeriveEffect, RemoveEffect,
         MakeDirectoryEffect, WriteBulkEffect, LinkYamlEffect, CleanupEffect DEF Import
    <3>. QED BY <2>1, <3>1, Places
  <2>3. CASE InPlace(q)
    <3>1. ~Choose(q)
      BY <1>1, <2>1, ChooseEffect
    <3>2. pc[q] \in {"lock", "judge", "merge", "events", "yaml", "restore", "release", "give_up",
                     "throw"}
      BY <2>3, <3>1, LockEffect, JudgeEffect, MergeEffect, RechainEffect, WriteEventsEffect,
         WriteYamlEffect, RestoreEffect, RestoreFailsEffect, ReleaseEffect DEF InPlace
    <3>. QED BY <2>1, <3>2, Places
  <2>4. CASE Again(q)
    BY <1>1, <2>4, AgainEffect
  <2>5. CASE Crash(q)
    BY <2>1, <2>5, CrashEffect
  <2>6. CASE WriteFails(q)
    <3>1. pc[q] \in {"mkdir", "bulk", "link", "events", "yaml"}
      BY <2>6, WriteFailsEffect
    <3>. QED BY <2>1, <3>1, Places
  <2>. QED BY <1>3, <2>2, <2>3, <2>4, <2>5, <2>6 DEF Step
<1>4. ASSUME NEW p \in Procs, Step(p) \/ Again(p) \/ Crash(p) \/ WriteFails(p), p # q
      PROVE  kind'[q] = kind[q] /\ pc'[q] = pc[q]
  BY <1>4, Frame
<1>5. ASSUME \/ \E i \in Sids : Forge(i)
             \/ Grow \/ Rewrite \/ OlderGone \/ UNCHANGED vars
      PROVE  kind' = kind /\ pc' = pc
  BY <1>5, ForgeEffect, SourceEffect DEF vars
<1>6. ASSUME ~Load(q), Step(q) \/ Again(q) \/ Crash(q) \/ WriteFails(q) PROVE Importing(q)
  BY <1>1, <1>3, <1>6 DEF Importing, Running
<1>. QED BY <1>2, <1>4, <1>5, <1>6 DEF Next

LEMMA AloneNext ==
  ASSUME Typed, CommandsFit, SessionsFit, Alone, [Next]_vars
  PROVE  Alone'
<1>. SUFFICES ASSUME ~ghost'.overlapped
              PROVE  /\ \A p, q \in Procs : Importing(p)' /\ Importing(q)' => p = q
                     /\ \A i, j \in Sids : Readable(i)' /\ Readable(j)' => i = j
                     /\ \A p \in Procs, i \in Sids : Readable(i)' => Sees(p, i)'
  BY DEF Alone
<1>1. ~ghost.overlapped /\ \A p, q \in Procs : Load(p) /\ Importing(q) => p = q
  BY HistoryNext
<1>2. /\ \A p, q \in Procs : Importing(p) /\ Importing(q) => p = q
      /\ \A i, j \in Sids : Readable(i) /\ Readable(j) => i = j
      /\ \A p \in Procs, i \in Sids : Readable(i) => Sees(p, i)
  BY <1>1 DEF Alone
<1>3. ASSUME NEW p \in Procs, NEW q \in Procs, Importing(p)', Importing(q)', p # q PROVE FALSE
  <2>1. /\ Importing(p) \/ Load(p)
        /\ Importing(q) \/ Load(q)
    BY <1>3, ImportingNext
  <2>2. ASSUME Load(p), Load(q) PROVE FALSE
    <3>1. pc'[q] = pc[q]
      BY <1>3, <2>2, Frame DEF Step, Import
    <3>. QED BY <2>2, <3>1, LoadEffect
  <2>. QED BY <1>1, <1>2, <1>3, <2>1, <2>2
<1>4. ASSUME NEW i \in Sids, Readable(i)'
      PROVE  Readable(i) \/ \E p \in Procs : Linked(i, p)
  BY <1>4, ReadableNext DEF Readable
<1>5. ASSUME NEW i \in Sids, NEW p \in Procs, Linked(i, p)
      PROVE  /\ \A j \in Sids : ~Readable(j)
             /\ \A q \in Procs \ {p} : ~Importing(q)
  <2>1. pc[p] = "link"
    BY <1>5, LinkYamlEffect DEF Linked
  <2>2. kind[p] # "rechain"
    BY <2>1, Places DEF CommandsFit, CommandFits
  <2>3. Importing(p)
    BY <2>1, <2>2, Places DEF Importing, Running
  <2>4. \A j \in Sids : ~Readable(j)
    BY <1>2, <2>1 DEF Sees
  <2>. QED BY <1>2, <2>3, <2>4
<1>6. ASSUME NEW i \in Sids, NEW j \in Sids, Readable(i)', Readable(j)', i # j PROVE FALSE
  <2>1. CASE \E p \in Procs : Linked(i, p)
    <3>1. PICK p \in Procs : Linked(i, p)
      BY <2>1
    <3>2. ~Readable(j)
      BY <1>5, <3>1
    <3>3. PICK q \in Procs : Linked(j, q)
      BY <1>4, <1>6, <3>2
    <3>4. pc[q] = "link" /\ Target(q) = j /\ pc[p] = "link" /\ Target(p) = i
      BY <3>1, <3>3, LinkYamlEffect DEF Linked
    <3>5. kind[q] # "rechain"
      BY <3>4, Places DEF CommandsFit, CommandFits
    <3>6. Importing(q)
      BY <3>4, <3>5, Places DEF Importing, Running
    <3>. QED BY <1>5, <1>6, <3>1, <3>4, <3>6
  <2>2. CASE \E p \in Procs : Linked(j, p)
    <3>1. PICK p \in Procs : Linked(j, p)
      BY <2>2
    <3>2. ~Readable(i)
      BY <1>5, <3>1
    <3>. QED BY <1>4, <1>6, <2>1, <3>2
  <2>. QED BY <1>2, <1>4, <1>6, <2>1, <2>2
<1>7. ASSUME NEW q \in Procs, NEW i \in Sids, Readable(i)', mem'[q] = mem[q], pc'[q] = pc[q]
      PROVE  Sees(q, i)'
  <2>1. CASE Readable(i)
    <3>1. Sees(q, i)
      BY <1>2, <2>1
    <3>. QED BY <1>7, <3>1 DEF Sees
  <2>2. CASE \E p \in Procs : Linked(i, p)
    <3>1. PICK p \in Procs : Linked(i, p)
      BY <2>2
    <3>2. CASE q = p
      <4>1. pc'[q] = "done"
        BY <3>1, <3>2, LinkYamlEffect DEF Linked
      <4>. QED BY <4>1 DEF Sees
    <3>3. CASE q # p
      <4>1. ~Importing(q)
        BY <1>5, <3>1, <3>3
      <4>2. ASSUME pc[q] \in Unlocked PROVE FALSE
        <5>1. kind[q] # "rechain"
          BY <4>2 DEF CommandsFit, CommandFits
        <5>2. pc[q] \notin Over \cup {"load"}
          BY <4>2, Places
        <5>. QED BY <4>1, <5>1, <5>2 DEF Importing, Running
      <4>3. pc[q] \notin {"scan", "classify", "derive", "remove", "mkdir", "bulk", "link"}
        BY <4>2, Places
      <4>. QED BY <1>7, <4>3 DEF Sees
    <3>. QED BY <3>2, <3>3
  <2>. QED BY <1>4, <1>7, <2>1, <2>2
<1>8. ASSUME NEW p \in Procs, NEW i \in Sids,
             pc'[p] \notin {"scan", "classify", "derive", "remove", "mkdir", "bulk", "link"}
      PROVE  Sees(p, i)'
  BY <1>8 DEF Sees
<1>9. ASSUME NEW p \in Procs, NEW i \in Sids, Readable(i)',
             Step(p) \/ Again(p) \/ Crash(p) \/ WriteFails(p)
      PROVE  Sees(p, i)'
  <2>. DEFINE m == mem[p]
              Goal == Sees(p, i)'
  <2>1. m \in Mems
    BY DEF Typed
  <2>2. ASSUME ~LinkYaml(p) PROVE Readable(i) /\ Sees(p, i)
    <3>1. CASE Readable(i)
      BY <1>2, <3>1
    <3>2. CASE \E q \in Procs : Linked(i, q)
      <4>1. PICK q \in Procs : Linked(i, q)
        BY <3>2
      <4>2. pc[q] = "link" /\ pc'[q] = "done" /\ p # q
        BY <2>2, <4>1, LinkYamlEffect DEF Linked
      <4>3. pc'[q] = pc[q]
        BY <1>9, <4>2, Frame
      <4>. QED BY <4>2, <4>3
    <3>. QED BY <1>4, <1>9, <3>1, <3>2
  <2>3. CASE Load(p)
    <3>1. /\ pc'[p] = "scan" /\ sessions' = sessions
          /\ mem'[p] = [m EXCEPT !.left = {j \in Sids : sessions[j].dir}]
      BY <2>3, LoadEffect
    <3>2. sessions[i].dir
      <4>1. sessions[i].yaml.there
        BY <1>9, <3>1 DEF Readable
      <4>. QED BY <4>1, ThereIsDir
    <3>3. mem'[p].left = {j \in Sids : sessions[j].dir}
      BY <2>1, <3>1 DEF Mems
    <3>. QED BY <3>1, <3>2, <3>3 DEF Sees
  <2>4. CASE Scan(p)
    <3>1. PICK j \in m.left :
            /\ pc[p] = "scan" /\ pc' = pc
            /\ sessions' = sessions
            /\ mem'[p] = [m EXCEPT
                  !.left = m.left \ {j},
                  !.priors = m.priors \cup
                      (IF sessions[j].yaml.there
                       THEN {[sid |-> j, size |-> sessions[j].yaml.size,
                              started |-> sessions[j].yaml.started]}
                       ELSE {})]
      BY <2>4, ScanEffect
    <3>2. Readable(i) /\ Sees(p, i)
      <4>1. ~LinkYaml(p)
        BY <3>1, LinkYamlEffect
      <4>. QED BY <2>2, <4>1
    <3>3. /\ mem'[p].left = m.left \ {j}
          /\ \A q \in m.priors : q \in mem'[p].priors
          /\ sessions[j].yaml.there => \E q \in mem'[p].priors : q.sid = j
      <4>. DEFINE seen == [sid |-> j, size |-> sessions[j].yaml.size,
                           started |-> sessions[j].yaml.started]
                  found == IF sessions[j].yaml.there THEN {seen} ELSE {}
      <4>1. seen.sid = j
        OBVIOUS
      <4>2. mem'[p] = [m EXCEPT !.left = m.left \ {j}, !.priors = m.priors \cup found]
        BY <3>1
      <4>3. sessions[j].yaml.there => seen \in found
        OBVIOUS
      <4>. HIDE DEF seen, found
      <4>4. mem'[p].left = m.left \ {j} /\ mem'[p].priors = m.priors \cup found
        BY <2>1, <4>2 DEF Mems
      <4>. QED BY <4>1, <4>3, <4>4
    <3>4. i \in mem'[p].left \/ \E q \in mem'[p].priors : q.sid = i
      BY <3>1, <3>2, <3>3 DEF Sees, Readable
    <3>5. pc'[p] = "scan"
      BY <3>1
    <3>. QED BY <3>4, <3>5 DEF Sees
  <2>5. CASE ScanEnds(p)
    <3>1. /\ pc[p] = "scan" /\ m.left = {} /\ pc'[p] = "classify"
          /\ mem'[p] = [m EXCEPT !.older = older]
      BY <2>5, ScanEndsEffect
    <3>2. Sees(p, i)
      BY <2>2, <3>1, LinkYamlEffect
    <3>3. mem'[p].priors = m.priors
      BY <2>1, <3>1 DEF Mems
    <3>. QED BY <3>1, <3>2, <3>3 DEF Sees
  <2>6. CASE Classify(p)
    <3>1. CASE pc'[p] = "skipped"
      BY <1>8, <3>1
    <3>2. CASE pc'[p] = "derive" /\ mem'[p] = [m EXCEPT !.reason = Reason(p)]
      <4>1. mem'[p].priors = m.priors
        BY <2>1, <3>2 DEF Mems
      <4>2. pc[p] = "classify"
        BY <2>6, ClassifyEffect
      <4>3. Sees(p, i)
        BY <2>2, <4>2, LinkYamlEffect
      <4>. QED BY <3>2, <4>1, <4>2, <4>3 DEF Sees
    <3>. HIDE DEF Goal
    <3>. QED BY <2>6, <3>1, <3>2, ClassifyEffect
  <2>7. CASE Derive(p)
    <3>1. pc[p] = "derive"
      BY <2>7, DeriveEffect
    <3>2. Sees(p, i)
      BY <2>2, <3>1, LinkYamlEffect
    <3>3. PICK q \in m.priors : q.sid = i
      BY <3>1, <3>2 DEF Sees
    <3>4. CASE pc'[p] \in {"skipped", "lock"}
      BY <1>8, <3>4
    <3>5. CASE ~AgainFor(p) /\ pc'[p] \notin {"skipped", "lock"}
      <4>1. kind[p] = "force"
        <5>1. m.reason \in Reasons \ {"none"}
          BY <2>1, <3>1 DEF Mems, CommandsFit, CommandFits
        <5>2. m.reason = "new"
          BY <3>5, <5>1 DEF AgainFor, Reasons
        <5>. QED BY <3>1, <3>3, <5>2 DEF CommandsFit, CommandFits
      <4>2. pc'[p] = "remove"
        BY <2>7, <3>3, <3>5, <4>1, DeriveEffect
      <4>3. mem'[p].left = {r.sid : r \in m.priors}
        <5>1. mem'[p] = [NoMem EXCEPT
                     !.payload = Contents(source, OwnOf(p)),
                     !.size = Len(source),
                     !.started = source[Min(OwnOf(p))],
                     !.leftOut = (OwnOf(p) # DOMAIN source),
                     !.target = IF AgainFor(p) THEN PriorOf(p).sid ELSE 0,
                     !.left = IF AgainFor(p) THEN {} ELSE {r.sid : r \in mem[p].priors}]
          BY <2>7, <4>2, DeriveEffect
        <5>. QED BY <3>5, <5>1 DEF NoMem
      <4>. QED BY <3>3, <4>2, <4>3 DEF Sees
    <3>6. CASE AgainFor(p) /\ pc'[p] \notin {"skipped", "lock"}
      BY <2>7, <3>6, DeriveEffect
    <3>. QED BY <3>4, <3>5, <3>6
  <2>8. CASE Remove(p)
    <3>1. PICK j \in m.left :
            /\ pc[p] = "remove" /\ Set(j, NoSession)
            /\ mem'[p] = [m EXCEPT !.left = m.left \ {j}]
            /\ pc'[p] = IF m.left = {j} THEN "mkdir" ELSE "remove"
      BY <2>8, RemoveEffect
    <3>2. i # j
      <4>1. j \in Sids
        BY <2>1 DEF Mems
      <4>. QED BY <1>9, <3>1, <4>1, SetNothing DEF Readable
    <3>3. i \in m.left
      <4>1. Sees(p, i)
        BY <2>2, <3>1, LinkYamlEffect
      <4>. QED BY <3>1, <4>1 DEF Sees
    <3>4. mem'[p].left = m.left \ {j} /\ pc'[p] = "remove"
      BY <2>1, <3>1, <3>2, <3>3 DEF Mems
    <3>. QED BY <3>2, <3>3, <3>4 DEF Sees
  <2>9. CASE MakeDirectory(p) \/ WriteBulk(p)
    <3>1. pc[p] \in {"mkdir", "bulk"}
      BY <2>9, MakeDirectoryEffect, WriteBulkEffect
    <3>2. Sees(p, i)
      BY <2>2, <3>1, LinkYamlEffect
    <3>. QED BY <3>1, <3>2 DEF Sees
  <2>10. CASE LinkYaml(p) \/ Cleanup(p) \/ InPlace(p) \/ Again(p) \/ Crash(p) \/ WriteFails(p)
    <3>1. CASE LinkYaml(p) \/ Cleanup(p) \/ Again(p) \/ Crash(p)
      <4>1. pc'[p] \notin {"scan", "classify", "derive", "remove", "mkdir", "bulk", "link"}
        BY <3>1, LinkYamlEffect, CleanupEffect, AgainEffect, CrashEffect
      <4>. QED BY <1>8, <4>1
    <3>2. CASE WriteFails(p)
      <4>1. pc'[p] \notin {"scan", "classify", "derive", "remove", "mkdir", "bulk", "link"}
        BY <3>2, WriteFailsEffect
      <4>. QED BY <1>8, <4>1
    <3>3. CASE Release(p)
      <4>1. pc'[p] \in Over
        BY <3>3, ReleaseEffect
      <4>2. pc'[p] \notin {"scan", "classify", "derive", "remove", "mkdir", "bulk", "link"}
        BY <4>1, Places
      <4>. QED BY <1>8, <4>2
    <3>4. CASE InPlace(p) /\ ~Release(p)
      <4>1. pc'[p] \in {"lock", "failed", "judge", "merge", "give_up", "throw", "events", "yaml",
                        "restore", "release"}
        <5>1. CASE Choose(p) \/ Lock(p) \/ Judge(p) \/ RestoreFails(p)
          BY <5>1, ChooseEffect, LockEffect, JudgeEffect, RestoreFailsEffect
        <5>2. CASE Merge(p) \/ Rechain(p)
          BY <5>2, MergeEffect, RechainEffect
        <5>3. CASE WriteEvents(p) \/ WriteYaml(p) \/ Restore(p)
          BY <5>3, WriteEventsEffect, WriteYamlEffect, RestoreEffect
        <5>. QED BY <3>4, <5>1, <5>2, <5>3 DEF InPlace
      <4>2. pc'[p] \notin {"scan", "classify", "derive", "remove", "mkdir", "bulk", "link"}
        BY <4>1
      <4>. QED BY <1>8, <4>2
    <3>. QED BY <2>10, <3>1, <3>2, <3>3, <3>4
  <2>. QED
    BY <1>9, <2>3, <2>4, <2>5, <2>6, <2>7, <2>8, <2>9, <2>10 DEF Step, Import
<1>10. ASSUME NEW q \in Procs, NEW i \in Sids, Readable(i)' PROVE Sees(q, i)'
  <2>1. ASSUME NEW p \in Procs, Step(p) \/ Again(p) \/ Crash(p) \/ WriteFails(p)
        PROVE  Sees(q, i)'
    <3>1. CASE q = p
      BY <1>9, <1>10, <2>1, <3>1
    <3>2. CASE q # p
      BY <1>7, <1>10, <2>1, <3>2, Frame
    <3>. QED BY <3>1, <3>2
  <2>2. ASSUME \/ \E j \in Sids : Forge(j)
               \/ Grow \/ Rewrite \/ OlderGone \/ UNCHANGED vars
        PROVE  mem' = mem /\ pc' = pc
    BY <2>2, ForgeEffect, SourceEffect DEF vars
  <2>. QED BY <1>7, <1>10, <2>1, <2>2 DEF Next
<1>. QED BY <1>3, <1>6, <1>10

-----------------------------------------------------------------------------
(* What a command knows of earlier sessions, and what it is to import.        *)
Same(p) ==
    /\ mem'[p].priors = mem[p].priors
    /\ mem'[p].payload = mem[p].payload /\ mem'[p].started = mem[p].started
Forgets(p) == mem'[p].priors = {} /\ mem'[p].payload = {}
Found(i) ==
    IF sessions[i].yaml.there
    THEN {[sid |-> i, size |-> sessions[i].yaml.size, started |-> sessions[i].yaml.started]}
    ELSE {}
Finds(p) ==
    /\ Scan(p) /\ pc' = pc /\ sessions' = sessions
    /\ mem'[p].payload = mem[p].payload /\ mem'[p].started = mem[p].started
    /\ \E i \in mem[p].left : mem'[p].priors = mem[p].priors \cup Found(i)
Classifies(p) == Classify(p) /\ pc'[p] = "derive" /\ mem'[p].reason = Reason(p) /\ Same(p)
Derives(p) ==
    /\ Derive(p) /\ OwnOf(p) # {}
    /\ mem'[p].priors = {} /\ mem'[p].payload = Contents(source, OwnOf(p))
    /\ mem'[p].started = source[Min(OwnOf(p))]
    /\ mem'[p].target = IF AgainFor(p) THEN PriorOf(p).sid ELSE 0
    /\ pc'[p] = IF AgainFor(p) THEN "lock"
                ELSE IF kind[p] = "force" /\ mem[p].priors # {} THEN "remove"
                ELSE "mkdir"

LEMMA Remembers ==
  ASSUME Typed, CommandsFit, NEW p \in Procs, Step(p) \/ Again(p) \/ Crash(p) \/ WriteFails(p)
  PROVE  \/ Forgets(p) \/ Finds(p) \/ Classifies(p) \/ Derives(p)
         \/ Same(p) /\ pc'[p] # "derive"
<1>. DEFINE m == mem[p]
            Goal == \/ Forgets(p) \/ Finds(p) \/ Classifies(p) \/ Derives(p)
                    \/ Same(p) /\ pc'[p] # "derive"
<1>. SUFFICES Goal
  OBVIOUS
<1>1. m \in Mems
  BY DEF Typed
<1>2. ASSUME mem'[p] = NoMem PROVE Goal
  BY <1>2 DEF Forgets, NoMem
<1>3. ASSUME mem' = mem, pc'[p] # "derive" PROVE Goal
  BY <1>3 DEF Same
<1>4. ASSUME NEW x, pc'[p] # "derive",
             \/ mem'[p] = [m EXCEPT !.left = x] \/ mem'[p] = [m EXCEPT !.older = x]
             \/ mem'[p] = [m EXCEPT !.target = x]
      PROVE  Goal
  BY <1>1, <1>4 DEF Same, Mems
<1>5. CASE Scan(p)
  <2>1. PICK i \in m.left :
            /\ pc[p] = "scan" /\ pc' = pc /\ sessions' = sessions
            /\ mem'[p] = [m EXCEPT !.left = m.left \ {i}, !.priors = m.priors \cup Found(i)]
    BY <1>5, ScanEffect DEF Found
  <2>2. /\ mem'[p].payload = m.payload /\ mem'[p].started = m.started
        /\ mem'[p].priors = m.priors \cup Found(i)
    BY <1>1, <2>1 DEF Mems
  <2>. QED BY <1>5, <2>1, <2>2 DEF Finds
<1>6. CASE Classify(p)
  <2>1. ASSUME pc'[p] = "derive", mem'[p] = [m EXCEPT !.reason = Reason(p)] PROVE Goal
    BY <1>1, <1>6, <2>1 DEF Classifies, Same, Mems
  <2>. HIDE DEF Goal
  <2>. QED BY <1>2, <1>6, <2>1, ClassifyEffect
<1>7. CASE Derive(p)
  <2>. DEFINE derived == [NoMem EXCEPT
                     !.payload = Contents(source, OwnOf(p)),
                     !.size = Len(source),
                     !.started = source[Min(OwnOf(p))],
                     !.leftOut = (OwnOf(p) # DOMAIN source),
                     !.target = IF AgainFor(p) THEN PriorOf(p).sid ELSE 0,
                     !.left = IF AgainFor(p) THEN {} ELSE {q.sid : q \in mem[p].priors}]
              label == IF AgainFor(p) THEN "lock"
                       ELSE IF kind[p] = "force" /\ mem[p].priors # {} THEN "remove"
                       ELSE "mkdir"
  <2>1. ASSUME OwnOf(p) # {}, mem'[p] = derived, pc'[p] = label PROVE Goal
    <3>1. /\ derived.priors = {} /\ derived.payload = Contents(source, OwnOf(p))
          /\ derived.started = source[Min(OwnOf(p))]
          /\ derived.target = IF AgainFor(p) THEN PriorOf(p).sid ELSE 0
      BY DEF NoMem
    <3>. HIDE DEF derived
    <3>2. Derives(p)
      BY <1>7, <2>1, <3>1 DEF Derives
    <3>. QED BY <3>2
  <2>2. \/ mem'[p] = NoMem
        \/ OwnOf(p) # {} /\ mem'[p] = derived /\ pc'[p] = label
    BY <1>7, DeriveEffect
  <2>. HIDE DEF Goal, derived, label
  <2>. QED BY <1>2, <2>1, <2>2
<1>8. CASE Merge(p)
  <2>. DEFINE s == sessions[Target(p)]
              merged == [NoMem EXCEPT
                     !.target = mem[p].target, !.started = mem[p].started,
                     !.leftOut = mem[p].leftOut,
                     !.next = ChainedLog(MergeOf(p, s)),
                     !.yaml = YamlOf(p, MergeOf(p, s), s.yaml.linked),
                     !.raw = s.log]
  <2>1. merged.priors = {} /\ merged.payload = {}
    BY DEF NoMem
  <2>2. mem' = mem \/ mem'[p] = merged
    BY <1>8, MergeEffect
  <2>3. pc'[p] # "derive"
    BY <1>8, MergeEffect
  <2>. HIDE DEF merged
  <2>. QED BY <1>3, <2>1, <2>2, <2>3 DEF Forgets
<1>9. CASE Rechain(p)
  <2>. DEFINE s == sessions[Target(p)]
              next == ChainedLog(s.log.events)
              yaml == [s.yaml EXCEPT !.anchor = AnchorOf(s.log.events)]
  <2>1. mem'[p] = [m EXCEPT !.next = next, !.yaml = yaml, !.raw = s.log] /\ pc'[p] = "events"
    BY <1>9, RechainEffect
  <2>. HIDE DEF next, yaml
  <2>. QED BY <1>1, <2>1 DEF Same, Mems
<1>10. CASE Load(p) \/ ScanEnds(p) \/ Choose(p) \/ MakeDirectory(p)
  <2>1. pc'[p] \in {"scan", "classify", "lock", "bulk"}
    BY <1>10, LoadEffect, ScanEndsEffect, ChooseEffect, MakeDirectoryEffect
  <2>2. \E x : \/ mem'[p] = [m EXCEPT !.left = x] \/ mem'[p] = [m EXCEPT !.older = x]
               \/ mem'[p] = [m EXCEPT !.target = x]
    <3>1. CASE Load(p)
      BY <3>1, LoadEffect
    <3>2. CASE ScanEnds(p)
      BY <3>2, ScanEndsEffect
    <3>3. CASE Choose(p)
      BY <3>3, ChooseEffect
    <3>4. CASE MakeDirectory(p)
      BY <3>4, MakeDirectoryEffect
    <3>. QED BY <1>10, <3>1, <3>2, <3>3, <3>4
  <2>. HIDE DEF Goal
  <2>. QED BY <1>4, <2>1, <2>2
<1>11. CASE Remove(p)
  <2>1. PICK i \in m.left :
            /\ mem'[p] = [m EXCEPT !.left = m.left \ {i}]
            /\ pc'[p] = IF m.left = {i} THEN "mkdir" ELSE "remove"
    BY <1>11, RemoveEffect
  <2>. QED BY <1>4, <2>1
<1>12. CASE LinkYaml(p) \/ Cleanup(p) \/ Release(p) \/ Crash(p)
  BY <1>2, <1>12, LinkYamlEffect, CleanupEffect, ReleaseEffect, CrashEffect
<1>13. CASE Lock(p)
  <2>1. mem'[p] = NoMem \/ (mem' = mem /\ pc'[p] = "judge")
    BY <1>13, LockEffect
  <2>. QED BY <1>2, <1>3, <2>1
<1>14. CASE WriteFails(p)
  <2>1. mem'[p] = NoMem \/ (mem' = mem /\ pc'[p] \in {"cleanup", "throw", "restore"})
    BY <1>14, WriteFailsEffect
  <2>. QED BY <1>2, <1>3, <2>1
<1>15. CASE WriteBulk(p) \/ Judge(p) \/ RestoreFails(p) \/ Again(p)
  <2>1. mem' = mem /\ pc'[p] \in {"link", "merge", "give_up", "throw", "load"}
    BY <1>15, WriteBulkEffect, JudgeEffect, RestoreFailsEffect, AgainEffect
  <2>. QED BY <1>3, <2>1
<1>16. CASE WriteEvents(p) \/ WriteYaml(p) \/ Restore(p)
  <2>1. mem' = mem /\ pc'[p] \in {"yaml", "throw", "release", "restore"}
    BY <1>16, WriteEventsEffect, WriteYamlEffect, RestoreEffect
  <2>. QED BY <1>3, <2>1
<1>. HIDE DEF Goal
<1>. QED
  BY <1>5, <1>6, <1>7, <1>8, <1>9, <1>10, <1>11, <1>12, <1>13, <1>14, <1>15, <1>16
     DEF Step, Import, InPlace

LEMMA ReasonSingle ==
  ASSUME NEW p \in Procs, IsFiniteSet(mem[p].priors), Reason(p) \notin {"none", "new"}
  PROVE  \A q, r \in mem[p].priors : q = r
<1>1. Cardinality(mem[p].priors) = 1
  BY DEF Reason
<1>2. \E x : mem[p].priors = {x}
  BY <1>1, FS_Singleton
<1>. QED BY <1>2

LEMMA PriorsFitNext ==
  ASSUME Typed, CommandsFit, PriorsFit, [Next]_vars
  PROVE  PriorsFit'
<1>. DEFINE Fit(p) == /\ IsFiniteSet(mem'[p].priors)
                      /\ pc'[p] = "derive" /\ mem'[p].reason # "new"
                           => \A q, r \in mem'[p].priors : q = r
<1>1. ASSUME NEW p \in Procs
      PROVE  /\ IsFiniteSet(mem[p].priors)
             /\ pc[p] = "derive" /\ mem[p].reason # "new" => \A q, r \in mem[p].priors : q = r
  BY DEF PriorsFit
<1>2. ASSUME NEW p \in Procs, mem'[p] = mem[p], pc'[p] = pc[p] PROVE Fit(p)
  BY <1>1, <1>2
<1>3. ASSUME NEW p \in Procs, Step(p) \/ Again(p) \/ Crash(p) \/ WriteFails(p) PROVE Fit(p)
  <2>1. CASE Forgets(p) \/ Derives(p)
    <3>1. mem'[p].priors = {}
      BY <2>1 DEF Forgets, Derives
    <3>. QED BY <3>1, FS_EmptySet
  <2>2. CASE Finds(p)
    <3>1. PICK i \in mem[p].left : mem'[p].priors = mem[p].priors \cup Found(i)
      BY <2>2 DEF Finds
    <3>2. IsFiniteSet(mem[p].priors \cup Found(i))
      <4>1. \E x : Found(i) = {} \/ Found(i) = {x}
        BY DEF Found
      <4>2. PICK x : Found(i) = {} \/ Found(i) = {x}
        BY <4>1
      <4>3. IsFiniteSet(mem[p].priors \cup {x})
        BY <1>1, FS_AddElement
      <4>4. CASE Found(i) = {}
        <5>1. mem[p].priors \cup Found(i) = mem[p].priors
          BY <4>4
        <5>. QED BY <1>1, <5>1
      <4>. QED BY <4>2, <4>3, <4>4
    <3>3. pc'[p] = "scan"
      BY <2>2, ScanEffect DEF Finds
    <3>. QED BY <3>1, <3>2, <3>3
  <2>3. CASE Classifies(p)
    <3>1. mem'[p].priors = mem[p].priors /\ mem'[p].reason = Reason(p)
      BY <2>3 DEF Classifies, Same
    <3>2. Reason(p) # "none"
      BY <2>3, ClassifyEffect DEF Classifies
    <3>. QED BY <1>1, <3>1, <3>2, ReasonSingle
  <2>4. CASE Same(p) /\ pc'[p] # "derive"
    BY <1>1, <2>4 DEF Same
  <2>. HIDE DEF Fit
  <2>. QED BY <1>3, <2>1, <2>2, <2>3, <2>4, Remembers
<1>4. ASSUME \/ \E j \in Sids : Forge(j)
             \/ Grow \/ Rewrite \/ OlderGone \/ UNCHANGED vars
      PROVE  mem' = mem /\ pc' = pc
  BY <1>4, ForgeEffect, SourceEffect DEF vars
<1>5. ASSUME NEW q \in Procs PROVE Fit(q)
  <2>1. ASSUME NEW p \in Procs, Step(p) \/ Again(p) \/ Crash(p) \/ WriteFails(p), p # q
        PROVE  mem'[q] = mem[q] /\ pc'[q] = pc[q]
    BY <2>1, Frame
  <2>. HIDE DEF Fit
  <2>. QED BY <1>2, <1>3, <1>4, <2>1 DEF Next
<1>. HIDE DEF Fit
<1>6. \A q \in Procs : Fit(q)
  BY <1>5
<1>. QED BY <1>6 DEF PriorsFit, Fit

-----------------------------------------------------------------------------
(* Times.                                                                     *)
LEMMA WritingNext ==
  ASSUME Typed, NEW p \in Procs, Step(p) \/ Again(p) \/ Crash(p) \/ WriteFails(p),
         pc'[p] \in Writing
  PROVE  \/ Merge(p) \/ Rechain(p)
         \/ /\ pc[p] \in Writing /\ mem' = mem
            /\ WriteEvents(p) \/ WriteYaml(p) \/ WriteFails(p)
<1>1. CASE Import(p) \/ Again(p) \/ Crash(p)
  <2>1. pc'[p] \notin Writing
    BY <1>1, LoadEffect, ScanEffect, ScanEndsEffect, ClassifyEffect, DeriveEffect, RemoveEffect,
       MakeDirectoryEffect, WriteBulkEffect, LinkYamlEffect, CleanupEffect, AgainEffect,
       CrashEffect, Places DEF Import
  <2>. QED BY <2>1
<1>2. CASE Choose(p) \/ Lock(p) \/ Judge(p) \/ Restore(p) \/ RestoreFails(p) \/ Release(p)
  <2>1. pc'[p] \notin Writing
    BY <1>2, ChooseEffect, LockEffect, JudgeEffect, RestoreEffect, RestoreFailsEffect,
       ReleaseEffect, Places
  <2>. QED BY <2>1
<1>3. CASE WriteEvents(p) \/ WriteYaml(p)
  <2>1. mem' = mem /\ pc[p] \in Writing
    BY <1>3, WriteEventsEffect, WriteYamlEffect, Places
  <2>. QED BY <1>3, <2>1
<1>4. CASE WriteFails(p)
  <2>1. CASE pc[p] \in {"events", "yaml"}
    <3>1. mem' = mem /\ pc[p] \in Writing
      BY <1>4, <2>1, WriteFailsEffect, Places
    <3>. QED BY <1>4, <3>1
  <2>2. CASE pc[p] \notin {"events", "yaml"}
    <3>1. pc'[p] \in {"failed", "cleanup"}
      BY <1>4, <2>2, WriteFailsEffect
    <3>2. pc'[p] \notin Writing
      BY <3>1, Places
    <3>. QED BY <3>2
  <2>. QED BY <2>1, <2>2
<1>. QED BY <1>1, <1>2, <1>3, <1>4 DEF Step, InPlace

LEMMA LinkNext ==
  ASSUME Typed, NEW p \in Procs, Step(p) \/ Again(p) \/ Crash(p) \/ WriteFails(p),
         pc'[p] = "link"
  PROVE  WriteBulk(p)
<1>1. CASE Import(p) \/ Again(p) \/ Crash(p)
  BY <1>1, LoadEffect, ScanEffect, ScanEndsEffect, ClassifyEffect, DeriveEffect, RemoveEffect,
     MakeDirectoryEffect, WriteBulkEffect, LinkYamlEffect, CleanupEffect, AgainEffect,
     CrashEffect DEF Import
<1>2. CASE InPlace(p)
  <2>1. CASE Release(p)
    <3>1. pc'[p] \in Over
      BY <2>1, ReleaseEffect
    <3>. QED BY <3>1, Places
  <2>. QED BY <1>2, <2>1, ChooseEffect, LockEffect, JudgeEffect, MergeEffect, RechainEffect,
           WriteEventsEffect, WriteYamlEffect, RestoreEffect, RestoreFailsEffect DEF InPlace
<1>3. CASE WriteFails(p)
  BY <1>3, WriteFailsEffect
<1>. QED BY <1>1, <1>2, <1>3 DEF Step

LEMMA TimesFitNext ==
  ASSUME Typed, CommandsFit, MakersAlone, SourceFits, TimesFit, [Next]_vars
  PROVE  TimesFit'
<1>. DEFINE Loaded(p) == \A c \in mem'[p].payload : c.at >= mem'[p].started
            LinkFits(p) == pc'[p] = "link" =>
                \A e \in Derived(sessions'[mem'[p].target].log.events) : e.says.at >= mem'[p].started
            KeepsStart(p) ==
                kind'[p] = "rechain" /\ pc'[p] \in Writing /\ sessions'[mem'[p].target].dir =>
                    mem'[p].yaml.started = sessions'[mem'[p].target].yaml.started
<1>1. ASSUME NEW p \in Procs
      PROVE  /\ \A c \in mem[p].payload : c.at >= mem[p].started
             /\ pc[p] = "link" =>
                  \A e \in Derived(sessions[mem[p].target].log.events) : e.says.at >= mem[p].started
             /\ kind[p] = "rechain" /\ pc[p] \in Writing /\ sessions[mem[p].target].dir =>
                  mem[p].yaml.started = sessions[mem[p].target].yaml.started
  BY DEF TimesFit, TimesFitOf
<1>2. ~NoSession.dir
  BY DEF NoSession
<1>3. ASSUME NEW q \in Procs, mem'[q] = mem[q], pc'[q] = pc[q], kind'[q] = kind[q],
             \/ \E p \in Procs \ {q} : Step(p)
             \/ \E p \in Procs : Again(p) \/ Crash(p) \/ WriteFails(p)
             \/ \E i \in Sids : Forge(i)
             \/ Grow \/ Rewrite \/ OlderGone \/ UNCHANGED vars
      PROVE  Loaded(q) /\ LinkFits(q) /\ KeepsStart(q)
  <2>1. Loaded(q)
    BY <1>1, <1>3
  <2>2. LinkFits(q)
    <3>1. CASE pc[q] = "link"
      <4>1. sessions'[mem[q].target] = sessions[mem[q].target]
        BY <1>3, <3>1, MakingLeftAlone, Places DEF Target
      <4>. QED BY <1>1, <1>3, <3>1, <4>1
    <3>. QED BY <1>3, <3>1
  <2>3. KeepsStart(q)
    <3>1. CASE kind[q] = "rechain" /\ pc[q] \in Writing
      <4>1. pc[q] \in Locked /\ KnowsTarget(q)
        BY <3>1, Places DEF KnowsTarget
      <4>2. sessions'[mem[q].target] \in {sessions[mem[q].target], NoSession}
        BY <1>3, <4>1, HeldLeftAlone DEF Target
      <4>. QED BY <1>1, <1>2, <1>3, <3>1, <4>2
    <3>. QED BY <1>3, <3>1
  <2>. QED BY <2>1, <2>2, <2>3
<1>4. ASSUME NEW p \in Procs, Step(p) \/ Again(p) \/ Crash(p) \/ WriteFails(p)
      PROVE  Loaded(p) /\ LinkFits(p) /\ KeepsStart(p)
  <2>1. Loaded(p)
    <3>1. CASE Forgets(p)
      BY <3>1 DEF Forgets
    <3>2. CASE Finds(p) \/ Classifies(p) \/ Same(p)
      <4>1. mem'[p].payload = mem[p].payload /\ mem'[p].started = mem[p].started
        BY <3>2 DEF Finds, Classifies, Same
      <4>. QED BY <1>1, <4>1
    <3>3. CASE Derives(p)
      <4>1. /\ mem'[p].payload = Contents(source, OwnOf(p)) /\ OwnOf(p) # {}
            /\ mem'[p].started = source[Min(OwnOf(p))]
        BY <3>3 DEF Derives
      <4>2. source \in Seq(Nat) /\ OwnOf(p) \in SUBSET DOMAIN source
        BY OwnFits DEF Typed
      <4>3. \A j, k \in DOMAIN source : j <= k => source[j] <= source[k]
        BY DEF SourceFits
      <4>4. \A c \in Contents(source, OwnOf(p)) : c.at >= source[Min(OwnOf(p))]
        BY <4>1, <4>2, <4>3, ContentsFit
      <4>. QED BY <4>1, <4>4
    <3>. HIDE DEF Loaded
    <3>. QED BY <1>4, <3>1, <3>2, <3>3, Remembers
  <2>2. LinkFits(p)
    <3>1. CASE pc'[p] = "link"
      <4>. DEFINE t == Target(p)
                  log == ChainedLog(NewEvents(p))
      <4>1. WriteBulk(p)
        BY <1>4, <3>1, LinkNext
      <4>2. /\ pc[p] = "bulk" /\ mem' = mem
            /\ Set(t, [sessions[t] EXCEPT !.log = log])
        BY <4>1, WriteBulkEffect
      <4>3. t \in Sids /\ NewEvents(p) \in SUBSET Events
        BY <4>2, TargetIsSession, PayloadTyped, Places
      <4>4. log \in Logs
        BY <4>3, WrittenTyped
      <4>5. log.events = NewEvents(p)
        BY ChainedEvents
      <4>. HIDE DEF log
      <4>6. sessions'[t].log = log
        BY <4>2, <4>3, <4>4, SetLog
      <4>7. \A e \in NewEvents(p) : e.says \in mem[p].payload
        BY PayloadTyped
      <4>. QED BY <1>1, <4>2, <4>5, <4>6, <4>7 DEF Target, Derived
    <3>. QED BY <3>1
  <2>3. KeepsStart(p)
    <3>1. CASE kind'[p] = "rechain" /\ pc'[p] \in Writing /\ sessions'[mem'[p].target].dir
      <4>1. kind'[p] = kind[p]
        BY <1>4, Frame
      <4>2. ~Merge(p)
        BY <3>1, <4>1, MergeEffect
      <4>. DEFINE t == Target(p)
                  s == sessions[t]
      <4>3. CASE Rechain(p)
        <5>. DEFINE next == ChainedLog(s.log.events)
                    yaml == [s.yaml EXCEPT !.anchor = AnchorOf(s.log.events)]
        <5>1. /\ mem'[p] = [mem[p] EXCEPT !.next = next, !.yaml = yaml, !.raw = s.log]
              /\ pc[p] = "merge" /\ sessions' = sessions
          BY <4>3, RechainEffect
        <5>2. t \in Sids
          BY <5>1, TargetIsSession, Places
        <5>3. yaml.started = s.yaml.started
          BY <5>2 DEF Typed, Sessions, Yamls
        <5>. HIDE DEF next, yaml
        <5>4. mem'[p].yaml = yaml /\ mem'[p].target = t
          BY <5>1 DEF Typed, Mems, Target
        <5>. QED BY <5>1, <5>3, <5>4
      <4>4. CASE pc[p] \in Writing /\ mem' = mem /\ WriteEvents(p)
        <5>1. t \in Sids
          BY <4>4, TargetIsSession, Places
        <5>2. \/ s.dir /\ Set(t, [s EXCEPT !.log = mem[p].next])
              \/ UNCHANGED sessions
          BY <4>4, WriteEventsEffect
        <5>3. mem[p].next \in Logs
          BY DEF Typed, Mems
        <5>4. sessions'[t].dir = s.dir /\ sessions'[t].yaml = s.yaml
          BY <5>1, <5>2, <5>3, SetLog
        <5>. QED BY <1>1, <3>1, <4>1, <4>4, <5>4 DEF Target
      <4>5. CASE pc[p] \in Writing /\ mem' = mem /\ (WriteYaml(p) \/ WriteFails(p))
        <5>1. sessions' = sessions
          <6>1. pc'[p] # "release"
            BY <3>1, Places
          <6>. QED BY <4>5, <6>1, WriteYamlEffect, WriteFailsEffect
        <5>. QED BY <1>1, <3>1, <4>1, <4>5, <5>1
      <4>. HIDE DEF KeepsStart
      <4>. QED BY <1>4, <3>1, <4>2, <4>3, <4>4, <4>5, WritingNext
    <3>. QED BY <3>1
  <2>. QED BY <2>1, <2>2, <2>3
<1>5. ASSUME NEW q \in Procs PROVE Loaded(q) /\ LinkFits(q) /\ KeepsStart(q)
  <2>. HIDE DEF Loaded, LinkFits, KeepsStart
  <2>1. ASSUME NEW p \in Procs, Step(p) \/ Again(p) \/ Crash(p) \/ WriteFails(p), p # q
        PROVE  /\ mem'[q] = mem[q] /\ pc'[q] = pc[q] /\ kind'[q] = kind[q]
               /\ \/ \E r \in Procs \ {q} : Step(r)
                  \/ \E r \in Procs : Again(r) \/ Crash(r) \/ WriteFails(r)
    BY <2>1, Frame
  <2>2. ASSUME \/ \E j \in Sids : Forge(j)
               \/ Grow \/ Rewrite \/ OlderGone \/ UNCHANGED vars
        PROVE  mem' = mem /\ pc' = pc /\ kind' = kind
    BY <2>2, ForgeEffect, SourceEffect DEF vars
  <2>3. ASSUME NEW p \in Procs, Step(p) \/ Again(p) \/ Crash(p) \/ WriteFails(p)
        PROVE  Loaded(q) /\ LinkFits(q) /\ KeepsStart(q)
    BY <1>3, <1>4, <2>1, <2>3
  <2>4. ASSUME \/ \E j \in Sids : Forge(j)
               \/ Grow \/ Rewrite \/ OlderGone \/ UNCHANGED vars
        PROVE  Loaded(q) /\ LinkFits(q) /\ KeepsStart(q)
    BY <1>3, <2>2, <2>4
  <2>. QED BY <2>3, <2>4 DEF Next
<1>. HIDE DEF Loaded, LinkFits, KeepsStart
<1>6. \A q \in Procs : Loaded(q) /\ LinkFits(q) /\ KeepsStart(q)
  BY <1>5
<1>. QED BY <1>6 DEF TimesFit, TimesFitOf, Loaded, LinkFits, KeepsStart

-----------------------------------------------------------------------------
(* What is left out stays out.                                                *)
LEMMA StartedStays ==
  ASSUME Typed, CommandsFit, MakersAlone, TimesFit, Alone, ~ghost.overlapped, [Next]_vars,
         NEW q \in Procs, Importing(q), NEW i \in Sids, Knows(q, i), sessions'[i].dir
  PROVE  /\ sessions[i].dir
         /\ pc[q] # "yaml" => sessions'[i].yaml.started = sessions[i].yaml.started
<1>1. ~NoSession.dir
  BY DEF NoSession
<1>2. i <= made /\ made \in Nat /\ i \in Nat
  BY BoundsNat DEF Typed, CommandsFit, CommandFits, Sids
<1>3. ASSUME NEW p \in Procs, pc[p] \in Making, Target(p) = i PROVE FALSE
  BY <1>3, KnownNotMade
<1>4. ASSUME NEW p \in Procs, Filled(i, p) \/ Linked(i, p) PROVE FALSE
  <2>1. pc[p] \in Making /\ Target(p) = i
    BY <1>4, WriteBulkEffect, LinkYamlEffect, Places DEF Filled, Linked
  <2>. QED BY <1>3, <2>1
<1>5. ASSUME NEW p \in Procs, Reanchored(i, p), pc[q] # "yaml"
      PROVE  sessions'[i].yaml.started = sessions[i].yaml.started
  <2>1. pc[p] = "yaml" /\ Target(p) = i /\ sessions[i].dir /\ sessions'[i].yaml = mem[p].yaml
    BY <1>5, WriteYamlEffect DEF Reanchored
  <2>2. kind[p] = "rechain"
    <3>1. p # q
      BY <1>5, <2>1
    <3>2. ~Importing(p)
      BY <3>1 DEF Alone
    <3>. QED BY <2>1, <3>2, Places DEF Importing, Running
  <2>3. mem[p].yaml.started = sessions[i].yaml.started
    BY <2>1, <2>2, Places DEF TimesFit, TimesFitOf, Target
  <2>. QED BY <2>1, <2>3
<1>6. ~Begins(i)
  BY <1>2 DEF Begins
<1>7. Becomes(i)
  BY SessionNext
<1>. QED BY <1>1, <1>4, <1>5, <1>6, <1>7
         DEF Becomes, Stays, Vanishes, Forged, Relogged, Reanchored, Restored

LEMMA ReadingNext ==
  ASSUME Typed, NEW p \in Procs, Step(p) \/ Again(p) \/ Crash(p) \/ WriteFails(p),
         pc'[p] \in {"scan", "classify", "derive"}
  PROVE  Load(p) \/ Scan(p) \/ ScanEnds(p) \/ Classify(p)
<1>1. CASE Import(p) \/ Again(p) \/ Crash(p)
  BY <1>1, DeriveEffect, RemoveEffect, MakeDirectoryEffect, WriteBulkEffect, LinkYamlEffect,
     CleanupEffect, AgainEffect, CrashEffect DEF Import
<1>2. CASE InPlace(p)
  <2>1. CASE Release(p)
    <3>1. pc'[p] \in Over
      BY <2>1, ReleaseEffect
    <3>. QED BY <3>1, Places
  <2>2. CASE Choose(p) \/ Lock(p) \/ Judge(p) \/ RestoreFails(p)
    BY <2>2, ChooseEffect, LockEffect, JudgeEffect, RestoreFailsEffect
  <2>3. CASE Merge(p) \/ Rechain(p)
    BY <2>3, MergeEffect, RechainEffect
  <2>4. CASE WriteEvents(p) \/ WriteYaml(p) \/ Restore(p)
    BY <2>4, WriteEventsEffect, WriteYamlEffect, RestoreEffect
  <2>. QED BY <1>2, <2>1, <2>2, <2>3, <2>4 DEF InPlace
<1>3. CASE WriteFails(p)
  BY <1>3, WriteFailsEffect
<1>. QED BY <1>1, <1>2, <1>3 DEF Step

LEMMA WaitingNext ==
  ASSUME Typed, NEW p \in Procs, Step(p) \/ Again(p) \/ Crash(p) \/ WriteFails(p),
         kind[p] # "rechain", pc'[p] \in {"lock", "judge", "merge"}
  PROVE  \/ Derive(p)
         \/ pc[p] \in {"lock", "judge"} /\ mem' = mem /\ sessions' = sessions
<1>1. CASE Import(p) \/ Again(p) \/ Crash(p)
  BY <1>1, LoadEffect, ScanEffect, ScanEndsEffect, ClassifyEffect, DeriveEffect, RemoveEffect,
     MakeDirectoryEffect, WriteBulkEffect, LinkYamlEffect, CleanupEffect, AgainEffect,
     CrashEffect DEF Import
<1>2. CASE InPlace(p)
  <2>1. CASE Release(p)
    <3>1. pc'[p] \in Over
      BY <2>1, ReleaseEffect
    <3>. QED BY <3>1, Places
  <2>2. CASE Choose(p) \/ Lock(p) \/ Judge(p) \/ RestoreFails(p)
    BY <2>2, ChooseEffect, LockEffect, JudgeEffect, RestoreFailsEffect
  <2>3. CASE Merge(p) \/ Rechain(p)
    BY <2>3, MergeEffect, RechainEffect
  <2>4. CASE WriteEvents(p) \/ WriteYaml(p) \/ Restore(p)
    BY <2>4, WriteEventsEffect, WriteYamlEffect, RestoreEffect
  <2>. QED BY <1>2, <2>1, <2>2, <2>3, <2>4 DEF InPlace
<1>3. CASE WriteFails(p)
  BY <1>3, WriteFailsEffect
<1>. QED BY <1>1, <1>2, <1>3 DEF Step

LEMMA OwnSessionNext ==
  ASSUME Typed, CommandsFit, MakersAlone, TimesFit, RewritesFit, [Next]_vars, NEW i \in Sids,
         OwnSession(i), \A p \in Procs : OwnCommand(p)
  PROVE  OwnSession(i)'
<1>. SUFFICES ASSUME sessions'[i].yaml.there, sessions'[i].yaml.started > CopyTime
              PROVE  OwnOnly(sessions'[i].log.events)
  BY DEF OwnSession, Readable, CopyTime
<1>1. ASSUME sessions'[i].yaml = sessions[i].yaml
      PROVE  sessions[i].yaml.started > CopyTime /\ OwnOnly(sessions[i].log.events)
  BY <1>1 DEF OwnSession, Readable
<1>2. ~NoSession.yaml.there /\ ~NoYaml.there
  BY DEF NoSession, NoYaml
<1>3. ASSUME Stays(i) PROVE OwnOnly(sessions'[i].log.events)
  BY <1>1, <1>3 DEF Stays
<1>4. ~Vanishes(i) /\ ~Begins(i)
  BY <1>2 DEF Vanishes, Begins
<1>5. ASSUME Forged(i) PROVE OwnOnly(sessions'[i].log.events)
  <2>1. sessions'[i].log.events = sessions[i].log.events \cup {Mark(i)}
    BY <1>5 DEF Forged
  <2>2. OwnOnly(sessions[i].log.events)
    BY <1>1, <1>5 DEF Forged
  <2>3. Mark(i).says.kind = "forged"
    BY MarkTyped
  <2>4. Mark(i).says.kind \notin DerivedKinds
    BY <2>3 DEF DerivedKinds, Roles
  <2>. QED BY <2>1, <2>2, <2>4 DEF OwnOnly, Derived
<1>6. ASSUME NEW p \in Procs, Filled(i, p) PROVE FALSE
  <2>1. pc[p] = "bulk" /\ Target(p) = i /\ sessions'[i].yaml = sessions[i].yaml
    BY <1>6, WriteBulkEffect DEF Filled
  <2>2. sessions[i].yaml = NoYaml
    BY <2>1, Places DEF MakersAlone
  <2>. QED BY <1>2, <2>1, <2>2
<1>7. ASSUME NEW p \in Procs, Linked(i, p) PROVE OwnOnly(sessions'[i].log.events)
  <2>1. /\ pc[p] = "link" /\ Target(p) = i /\ sessions'[i].log = sessions[i].log
        /\ sessions'[i].yaml = YamlOf(p, sessions[i].log.events, FALSE)
    BY <1>7, LinkYamlEffect DEF Linked
  <2>2. mem[p].started > CopyTime
    <3>1. YamlOf(p, sessions[i].log.events, FALSE).started = mem[p].started
      BY DEF YamlOf
    <3>. QED BY <2>1, <3>1
  <2>3. \A e \in Derived(sessions[i].log.events) : e.says.at >= mem[p].started
    BY <2>1 DEF TimesFit, TimesFitOf, Target
  <2>4. \A e \in Derived(sessions[i].log.events) : e.says.at \in Nat
    BY LogsTyped DEF Derived, Events, Says
  <2>5. mem[p].started \in Nat /\ CopyTime \in Nat
    BY DEF Typed, Mems, CopyTime
  <2>. QED BY <2>1, <2>2, <2>3, <2>4, <2>5 DEF OwnOnly
<1>8. ASSUME NEW p \in Procs, Relogged(i, p) PROVE OwnOnly(sessions'[i].log.events)
  <2>1. /\ pc[p] = "events" /\ Target(p) = i /\ sessions[i].dir
        /\ sessions'[i].yaml = sessions[i].yaml /\ sessions'[i].log = mem[p].next
    BY <1>8, WriteEventsEffect DEF Relogged
  <2>2. sessions[i].yaml.started > CopyTime
    BY <1>1, <2>1
  <2>. QED BY <2>1, <2>2, Places DEF OwnCommand, Target
<1>9. ASSUME NEW p \in Procs, Reanchored(i, p) PROVE OwnOnly(sessions'[i].log.events)
  <2>1. /\ pc[p] = "yaml" /\ Target(p) = i /\ sessions[i].dir
        /\ sessions'[i].yaml = mem[p].yaml /\ sessions'[i].log = sessions[i].log
    BY <1>9, WriteYamlEffect DEF Reanchored
  <2>2. OwnOnly(mem[p].next.events)
    BY <2>1, Places DEF OwnCommand, Target
  <2>3. sessions[i].log = mem[p].next
    BY <2>1, Places DEF RewritesFit, RewriteFits, Target
  <2>. QED BY <2>1, <2>2, <2>3
<1>10. ASSUME NEW p \in Procs, Restored(i, p) PROVE OwnOnly(sessions'[i].log.events)
  <2>1. /\ pc[p] = "restore" /\ Target(p) = i /\ sessions[i].dir
        /\ sessions'[i].yaml = sessions[i].yaml /\ sessions'[i].log = mem[p].raw
    BY <1>10, RestoreEffect DEF Restored
  <2>2. sessions[i].yaml.started > CopyTime
    BY <1>1, <2>1
  <2>. QED BY <2>1, <2>2, Places DEF OwnCommand, Target
<1>11. Becomes(i)
  BY SessionNext
<1>. QED BY <1>3, <1>4, <1>5, <1>6, <1>7, <1>8, <1>9, <1>10, <1>11 DEF Becomes

(* What a command found of the earlier sessions is still so.                  *)
PriorsHold(p) ==
    pc[p] \in {"scan", "classify", "derive"} =>
        \A q \in mem[p].priors : sessions[q.sid].dir => sessions[q.sid].yaml.started = q.started

LEMMA PriorsHoldNext ==
  ASSUME Typed, CommandsFit, MakersAlone, TimesFit, Alone, ~ghost.overlapped, [Next]_vars,
         NEW q \in Procs, PriorsHold(q)
  PROVE  PriorsHold(q)'
<1>1. ASSUME NEW r \in mem[q].priors PROVE r \in Priors /\ r.sid \in Sids
  BY DEF Typed, Mems, Priors
<1>2. ASSUME mem'[q] = mem[q], pc'[q] = pc[q] PROVE PriorsHold(q)'
  <2>1. SUFFICES ASSUME pc[q] \in {"scan", "classify", "derive"},
                        NEW r \in mem[q].priors, sessions'[r.sid].dir
                 PROVE  sessions'[r.sid].yaml.started = r.started
    BY <1>2 DEF PriorsHold
  <2>2. Importing(q)
    <3>1. kind[q] # "rechain"
      BY <2>1, Places DEF CommandsFit, CommandFits
    <3>. QED BY <2>1, <3>1, Places DEF Importing, Running
  <2>3. Knows(q, r.sid) /\ r.sid \in Sids
    BY <1>1 DEF Knows
  <2>4. sessions[r.sid].dir /\ sessions'[r.sid].yaml.started = sessions[r.sid].yaml.started
    BY <2>1, <2>2, <2>3, StartedStays
  <2>. QED BY <2>1, <2>4 DEF PriorsHold
<1>3. ASSUME Step(q) \/ Again(q) \/ Crash(q) \/ WriteFails(q),
             pc'[q] \in {"scan", "classify", "derive"}
      PROVE  /\ sessions' = sessions
             /\ \A r \in mem'[q].priors :
                   \/ r \in mem[q].priors /\ pc[q] \in {"scan", "classify"}
                   \/ r.started = sessions[r.sid].yaml.started
  <2>. DEFINE m == mem[q]
              Old == \A r \in mem'[q].priors :
                        \/ r \in mem[q].priors /\ pc[q] \in {"scan", "classify"}
                        \/ r.started = sessions[r.sid].yaml.started
  <2>1. m \in Mems
    BY DEF Typed
  <2>2. CASE Load(q)
    <3>1. /\ pc[q] = "load" /\ sessions' = sessions
          /\ mem'[q] = [m EXCEPT !.left = {i \in Sids : sessions[i].dir}]
      BY <2>2, LoadEffect
    <3>2. m.priors = {}
      BY <3>1 DEF CommandsFit, CommandFits, NoMem
    <3>3. mem'[q].priors = {}
      BY <2>1, <3>1, <3>2 DEF Mems
    <3>. QED BY <3>1, <3>3
  <2>3. CASE Scan(q)
    <3>1. PICK i \in m.left :
            /\ pc[q] = "scan" /\ sessions' = sessions
            /\ mem'[q] = [m EXCEPT !.left = m.left \ {i}, !.priors = m.priors \cup Found(i)]
      BY <2>3, ScanEffect DEF Found
    <3>2. mem'[q].priors = m.priors \cup Found(i)
      BY <2>1, <3>1 DEF Mems
    <3>3. \A r \in Found(i) : r.started = sessions[r.sid].yaml.started
      BY DEF Found
    <3>. QED BY <3>1, <3>2, <3>3
  <2>4. CASE ScanEnds(q)
    <3>1. /\ pc[q] = "scan" /\ sessions' = sessions
          /\ mem'[q] = [m EXCEPT !.older = older]
      BY <2>4, ScanEndsEffect
    <3>2. mem'[q].priors = m.priors
      BY <2>1, <3>1 DEF Mems
    <3>. QED BY <3>1, <3>2
  <2>5. CASE Classify(q)
    <3>1. pc[q] = "classify" /\ sessions' = sessions
      BY <2>5, ClassifyEffect
    <3>2. mem'[q].priors \subseteq m.priors
      <4>1. CASE mem'[q] = NoMem
        BY <4>1 DEF NoMem
      <4>2. CASE mem'[q] = [m EXCEPT !.reason = Reason(q)]
        BY <2>1, <4>2 DEF Mems
      <4>. QED BY <2>5, <4>1, <4>2, ClassifyEffect
    <3>. QED BY <3>1, <3>2
  <2>. HIDE DEF m
  <2>. QED BY <1>3, <2>2, <2>3, <2>4, <2>5, ReadingNext
<1>4. ASSUME Step(q) \/ Again(q) \/ Crash(q) \/ WriteFails(q) PROVE PriorsHold(q)'
  <2>1. CASE pc'[q] \in {"scan", "classify", "derive"}
    <3>1. ASSUME NEW r \in mem'[q].priors, sessions'[r.sid].dir
          PROVE  sessions'[r.sid].yaml.started = r.started
      BY <1>3, <1>4, <2>1, <3>1 DEF PriorsHold
    <3>. QED BY <3>1 DEF PriorsHold
  <2>2. CASE pc'[q] \notin {"scan", "classify", "derive"}
    BY <2>2 DEF PriorsHold
  <2>. QED BY <2>1, <2>2
<1>5. ASSUME NEW p \in Procs, Step(p) \/ Again(p) \/ Crash(p) \/ WriteFails(p), p # q
      PROVE  mem'[q] = mem[q] /\ pc'[q] = pc[q]
  BY <1>5, Frame
<1>6. ASSUME \/ \E j \in Sids : Forge(j)
             \/ Grow \/ Rewrite \/ OlderGone \/ UNCHANGED vars
      PROVE  mem' = mem /\ pc' = pc
  BY <1>6, ForgeEffect, SourceEffect DEF vars
<1>. QED BY <1>2, <1>4, <1>5, <1>6 DEF Next

(* What a command is to import into a session that holds no copies.           *)
PayloadHolds(p) ==
    LET s == sessions[mem[p].target] IN
    /\ kind[p] # "rechain" /\ pc[p] \in {"lock", "judge", "merge"}
    /\ s.dir /\ s.yaml.started > CopyTime
    => \A c \in mem[p].payload : c.at > CopyTime

LEMMA PayloadHoldsNext ==
  ASSUME Typed, CommandsFit, MakersAlone, SourceFits, TimesFit, PriorsFit, Alone,
         ~ghost.overlapped, [Next]_vars, NEW q \in Procs, PriorsHold(q), PayloadHolds(q)
  PROVE  PayloadHolds(q)'
<1>. SUFFICES ASSUME kind'[q] # "rechain", pc'[q] \in {"lock", "judge", "merge"},
                     sessions'[mem'[q].target].dir,
                     sessions'[mem'[q].target].yaml.started > CopyTime,
                     NEW c \in mem'[q].payload
              PROVE  c.at > CopyTime
  BY DEF PayloadHolds, CopyTime
<1>. DEFINE t == mem[q].target
<1>1. ASSUME mem'[q] = mem[q], pc'[q] = pc[q], kind'[q] = kind[q] PROVE c.at > CopyTime
  <2>1. Importing(q)
    BY <1>1, Places DEF Importing, Running
  <2>2. KnowsTarget(q) /\ t \in Sids
    BY <1>1, TargetIsSession, Places DEF KnowsTarget, Target
  <2>3. Knows(q, t)
    BY <2>2 DEF Knows, Target
  <2>4. sessions[t].dir /\ sessions'[t].yaml.started = sessions[t].yaml.started
    BY <1>1, <2>1, <2>2, <2>3, StartedStays
  <2>. QED BY <1>1, <2>4 DEF PayloadHolds
<1>2. ASSUME Derive(q) PROVE c.at > CopyTime
  <2>. DEFINE start == EarliestStart(mem[q].priors)
              own == OwnOf(q)
  <2>1. pc[q] = "derive" /\ sessions' = sessions
    BY <1>2, DeriveEffect
  <2>2. Derives(q)
    <3>1. CASE mem'[q] = NoMem
      BY <3>1 DEF NoMem
    <3>2. CASE mem'[q] # NoMem
      <4>1. ~Forgets(q)
        BY DEF Forgets
      <4>2. ~Scan(q) /\ ~Classify(q)
        BY <2>1, ScanEffect, ClassifyEffect
      <4>3. ~Same(q)
        <5>1. /\ own # {}
              /\ mem'[q] = [NoMem EXCEPT
                     !.payload = Contents(source, OwnOf(q)),
                     !.size = Len(source),
                     !.started = source[Min(OwnOf(q))],
                     !.leftOut = (OwnOf(q) # DOMAIN source),
                     !.target = IF AgainFor(q) THEN PriorOf(q).sid ELSE 0,
                     !.left = IF AgainFor(q) THEN {} ELSE {r.sid : r \in mem[q].priors}]
              /\ pc'[q] = IF AgainFor(q) THEN "lock"
                           ELSE IF kind[q] = "force" /\ mem[q].priors # {} THEN "remove"
                           ELSE "mkdir"
          BY <1>2, <3>2, DeriveEffect
        <5>2. mem'[q].priors = {}
          BY <5>1 DEF NoMem
        <5>3. mem[q].reason # "new"
          BY <5>1 DEF AgainFor
        <5>. QED BY <2>1, <5>2, <5>3 DEF Same, CommandsFit, CommandFits
      <4>. QED BY <1>2, <4>1, <4>2, <4>3, Remembers DEF Finds, Classifies, Step, Import
    <3>. QED BY <3>1, <3>2
  <2>3. /\ AgainFor(q) /\ own # {} /\ mem'[q].payload = Contents(source, own)
        /\ mem'[q].target = PriorOf(q).sid
    BY <2>2 DEF Derives
  <2>4. mem[q].reason # "new" /\ mem[q].priors # {}
    BY <2>1, <2>3 DEF AgainFor, CommandsFit, CommandFits
  <2>5. PriorOf(q) \in mem[q].priors /\ \A r \in mem[q].priors : r = PriorOf(q)
    BY <2>1, <2>4 DEF PriorsFit, PriorOf
  <2>6. start = PriorOf(q).started /\ start \in Nat
    BY <2>4, <2>5, EarliestFits
  <2>7. sessions[PriorOf(q).sid].yaml.started = start
    BY <2>1, <2>3, <2>5, <2>6 DEF PriorsHold
  <2>8. start > CopyTime
    BY <2>1, <2>3, <2>7
  <2>9. source \in Seq(Nat) /\ own \in SUBSET DOMAIN source
    BY OwnFits DEF Typed
  <2>10. \A j, k \in DOMAIN source : j <= k => source[j] <= source[k]
    BY DEF SourceFits
  <2>11. /\ Contents(source, own) \in SUBSET Says
         /\ Min(own) \in own /\ source[Min(own)] \in Nat /\ c.at >= source[Min(own)]
    BY <2>3, <2>9, <2>10, ContentsFit
  <2>12. source[Min(own)] >= start
    BY <2>11 DEF OwnOf, Own
  <2>13. c.at \in Nat /\ CopyTime \in Nat
    BY <2>3, <2>11 DEF Says, CopyTime
  <2>. HIDE DEF start, own
  <2>. QED BY <2>6, <2>8, <2>11, <2>12, <2>13
<1>3. ASSUME Step(q) \/ Again(q) \/ Crash(q) \/ WriteFails(q) PROVE c.at > CopyTime
  <2>1. kind'[q] = kind[q]
    BY <1>3, Frame
  <2>2. ASSUME pc[q] \in {"lock", "judge"}, mem' = mem, sessions' = sessions
        PROVE  c.at > CopyTime
    BY <2>1, <2>2 DEF PayloadHolds
  <2>. QED BY <1>2, <1>3, <2>1, <2>2, WaitingNext
<1>4. ASSUME NEW p \in Procs, Step(p) \/ Again(p) \/ Crash(p) \/ WriteFails(p), p # q
      PROVE  mem'[q] = mem[q] /\ pc'[q] = pc[q] /\ kind'[q] = kind[q]
  BY <1>4, Frame
<1>5. ASSUME \/ \E j \in Sids : Forge(j)
             \/ Grow \/ Rewrite \/ OlderGone \/ UNCHANGED vars
      PROVE  mem' = mem /\ pc' = pc /\ kind' = kind
  BY <1>5, ForgeEffect, SourceEffect DEF vars
<1>. QED BY <1>1, <1>3, <1>4, <1>5 DEF Next

(* What a rewrite of a session that holds no copies writes, and puts back.    *)
RewriteHolds(p) ==
    LET s == sessions[mem[p].target] IN
    pc[p] \in Writing /\ s.dir =>
        /\ s.yaml.started > CopyTime \/ mem[p].yaml.started > CopyTime
             => OwnOnly(mem[p].next.events)
        /\ s.yaml.started > CopyTime => OwnOnly(mem[p].raw.events)

LEMMA RewriteHoldsNext ==
  ASSUME Typed, CommandsFit, MakersAlone, SessionsFit, IdsFit, AllTidy, PayloadsFit, TimesFit,
         [Next]_vars,
         \A i \in Sids : OwnSession(i), NEW q \in Procs, PayloadHolds(q), RewriteHolds(q)
  PROVE  RewriteHolds(q)'
<1>. DEFINE t == mem[q].target
            s == sessions[t]
<1>1. ~NoSession.dir
  BY DEF NoSession
<1>2. ASSUME mem'[q] = mem[q], pc[q] \in Writing,
             sessions'[t].dir => sessions[t].dir /\ sessions'[t].yaml = sessions[t].yaml
      PROVE  RewriteHolds(q)'
  BY <1>2 DEF RewriteHolds, CopyTime, OwnOnly, Derived
<1>3. ASSUME pc'[q] \notin Writing PROVE RewriteHolds(q)'
  BY <1>3 DEF RewriteHolds
<1>4. ASSUME mem'[q] = mem[q], pc'[q] = pc[q],
             \/ \E p \in Procs \ {q} : Step(p)
             \/ \E p \in Procs : Again(p) \/ Crash(p) \/ WriteFails(p)
             \/ \E i \in Sids : Forge(i)
             \/ Grow \/ Rewrite \/ OlderGone \/ UNCHANGED vars
      PROVE  RewriteHolds(q)'
  <2>1. CASE pc[q] \in Writing
    <3>1. pc[q] \in Locked /\ KnowsTarget(q)
      BY <2>1, Places DEF KnowsTarget
    <3>2. sessions'[t] \in {sessions[t], NoSession}
      BY <1>4, <3>1, HeldLeftAlone DEF Target
    <3>. QED BY <1>1, <1>2, <1>4, <2>1, <3>2
  <2>. QED BY <1>3, <1>4, <2>1
<1>5. ASSUME NEW new, NEW raw, NEW started \in Nat,
             mem'[q].target = t, sessions' = sessions,
             mem'[q].next.events = new, mem'[q].raw.events = raw, mem'[q].yaml.started = started,
             s.yaml.started > CopyTime \/ started > CopyTime => OwnOnly(new),
             s.yaml.started > CopyTime => OwnOnly(raw)
      PROVE  RewriteHolds(q)'
  BY <1>5 DEF RewriteHolds, CopyTime, OwnOnly, Derived
<1>6. ASSUME pc[q] = "merge" PROVE t \in Sids /\ Target(q) = t
  BY <1>6, TargetIsSession, Places DEF Target
<1>7. ASSUME pc[q] = "merge", s.yaml.there, s.yaml.started > CopyTime PROVE OwnOnly(s.log.events)
  BY <1>6, <1>7 DEF OwnSession, Readable
<1>8. ASSUME Merge(q), pc'[q] \in Writing PROVE RewriteHolds(q)'
  <2>. DEFINE new == MergeOf(q, s)
              yaml == YamlOf(q, new, s.yaml.linked)
              merged == [NoMem EXCEPT
                     !.target = mem[q].target, !.started = mem[q].started,
                     !.leftOut = mem[q].leftOut,
                     !.next = ChainedLog(new), !.yaml = yaml, !.raw = s.log]
  <2>1. pc[q] = "merge" /\ kind[q] # "rechain" /\ sessions' = sessions
    BY <1>8, MergeEffect
  <2>2. s.yaml.there /\ mem'[q] = merged
    <3>1. Target(q) = t
      BY DEF Target
    <3>2. ~(pc'[q] \in {"give_up", "throw"})
      BY <1>8, Places
    <3>. QED BY <1>8, <3>1, <3>2, MergeEffect
  <2>3. /\ merged.target = t /\ merged.next = ChainedLog(new) /\ merged.raw = s.log
        /\ merged.yaml = yaml
    BY DEF NoMem
  <2>4. yaml.started = mem[q].started
    BY DEF YamlOf
  <2>5. ChainedLog(new).events = new
    BY ChainedEvents
  <2>6. \A e \in Derived(new) : e.says \in mem[q].payload
    BY <1>6, <2>1, MergeOfFits
  <2>7. mem[q].started \in Nat /\ CopyTime \in Nat /\ \A c \in mem[q].payload : c.at \in Nat
    BY DEF Typed, Mems, Says, CopyTime
  <2>8. ASSUME mem[q].started > CopyTime PROVE OwnOnly(new)
    <3>1. \A c \in mem[q].payload : c.at >= mem[q].started
      BY DEF TimesFit, TimesFitOf
    <3>2. \A c \in mem[q].payload : c.at > CopyTime
      BY <2>7, <2>8, <3>1
    <3>. QED BY <2>6, <3>2 DEF OwnOnly
  <2>9. ASSUME s.yaml.started > CopyTime PROVE OwnOnly(new)
    <3>1. s.dir
      BY <1>6, <2>1, <2>2, ThereIsDir
    <3>2. \A c \in mem[q].payload : c.at > CopyTime
      BY <2>1, <2>9, <3>1 DEF PayloadHolds
    <3>. QED BY <2>6, <3>2 DEF OwnOnly
  <2>. HIDE DEF merged, new, yaml
  <2>10. /\ mem'[q].target = t /\ mem'[q].next.events = new /\ mem'[q].raw.events = s.log.events
         /\ mem'[q].yaml.started = mem[q].started
    BY <2>2, <2>3, <2>4, <2>5
  <2>. QED BY <1>5, <1>7, <2>1, <2>2, <2>7, <2>8, <2>9, <2>10
<1>9. ASSUME Rechain(q) PROVE RewriteHolds(q)'
  <2>. DEFINE next == ChainedLog(s.log.events)
              yaml == [s.yaml EXCEPT !.anchor = AnchorOf(s.log.events)]
  <2>1. /\ mem'[q] = [mem[q] EXCEPT !.next = next, !.yaml = yaml, !.raw = s.log]
        /\ pc[q] = "merge" /\ sessions' = sessions
    BY <1>9, RechainEffect DEF Target
  <2>2. s.yaml \in Yamls
    BY <1>6, <2>1 DEF Typed, Sessions
  <2>3. yaml.started = s.yaml.started /\ s.yaml.started \in Nat
    BY <2>2 DEF Yamls
  <2>4. next.events = s.log.events
    BY ChainedEvents
  <2>. HIDE DEF next, yaml
  <2>5. /\ mem'[q].target = t /\ mem'[q].next = next /\ mem'[q].raw = s.log
        /\ mem'[q].yaml = yaml
    BY <2>1 DEF Typed, Mems
  <2>6. CASE s.yaml.there
    BY <1>5, <1>7, <2>1, <2>3, <2>4, <2>5, <2>6
  <2>7. CASE ~s.yaml.there
    <3>1. Knows(q, t)
      BY <2>1 DEF Knows, KnowsTarget, Target
    <3>2. ~s.dir
      BY <1>6, <2>1, <2>7, <3>1 DEF CommandsFit, CommandFits
    <3>. QED BY <2>1, <2>5, <3>2 DEF RewriteHolds
  <2>. QED BY <2>6, <2>7
<1>10. ASSUME pc[q] \in Writing, mem' = mem, pc'[q] \in Writing,
              WriteEvents(q) \/ WriteYaml(q) \/ WriteFails(q)
       PROVE  RewriteHolds(q)'
  <2>1. t \in Sids
    BY <1>10, TargetIsSession, Places DEF Target
  <2>2. mem[q].next \in Logs
    BY DEF Typed, Mems
  <2>3. pc'[q] # "release"
    BY <1>10, Places
  <2>4. CASE WriteEvents(q)
    <3>1. \/ Set(t, [s EXCEPT !.log = mem[q].next])
          \/ UNCHANGED sessions
      BY <2>4, WriteEventsEffect DEF Target
    <3>2. sessions'[t].dir = s.dir /\ sessions'[t].yaml = s.yaml
      BY <2>1, <2>2, <3>1, SetLog
    <3>. QED BY <1>2, <1>10, <3>2
  <2>5. CASE WriteYaml(q) \/ WriteFails(q)
    <3>1. sessions' = sessions
      BY <2>3, <2>5, WriteYamlEffect, WriteFailsEffect
    <3>. QED BY <1>2, <1>10, <3>1
  <2>. QED BY <1>10, <2>4, <2>5
<1>11. ASSUME Step(q) \/ Again(q) \/ Crash(q) \/ WriteFails(q) PROVE RewriteHolds(q)'
  BY <1>3, <1>8, <1>9, <1>10, <1>11, WritingNext
<1>12. ASSUME NEW p \in Procs, Step(p) \/ Again(p) \/ Crash(p) \/ WriteFails(p), p # q
       PROVE  RewriteHolds(q)'
  BY <1>4, <1>12, Frame
<1>13. ASSUME \/ \E j \in Sids : Forge(j)
              \/ Grow \/ Rewrite \/ OlderGone \/ UNCHANGED vars
       PROVE  RewriteHolds(q)'
  BY <1>4, <1>13, ForgeEffect, SourceEffect DEF vars
<1>. QED BY <1>11, <1>12, <1>13 DEF Next

LEMMA NoneCopiedNext ==
  ASSUME Typed, CommandsFit, MakersAlone, SessionsFit, IdsFit, AllTidy, PayloadsFit, SourceFits,
         RewritesFit, TimesFit, PriorsFit, Alone, NoneCopied, [Next]_vars
  PROVE  NoneCopied'
<1>. SUFFICES ASSUME ~ghost'.overlapped
              PROVE  (\A i \in Sids : OwnSession(i)') /\ \A p \in Procs : OwnCommand(p)'
  BY DEF NoneCopied
<1>1. ~ghost.overlapped
  BY HistoryNext
<1>2. (\A i \in Sids : OwnSession(i)) /\ \A p \in Procs : OwnCommand(p)
  BY <1>1 DEF NoneCopied
<1>3. \A p \in Procs : PriorsHold(p) /\ PayloadHolds(p) /\ RewriteHolds(p)
  BY <1>2 DEF OwnCommand, PriorsHold, PayloadHolds, RewriteHolds
<1>4. ASSUME NEW p \in Procs PROVE PriorsHold(p)' /\ PayloadHolds(p)' /\ RewriteHolds(p)'
  BY <1>1, <1>2, <1>3, PriorsHoldNext, PayloadHoldsNext, RewriteHoldsNext
<1>5. ASSUME NEW p \in Procs PROVE OwnCommand(p)'
  BY <1>4 DEF OwnCommand, PriorsHold, PayloadHolds, RewriteHolds
<1>6. ASSUME NEW i \in Sids PROVE OwnSession(i)'
  BY <1>2, OwnSessionNext
<1>. QED BY <1>5, <1>6

-----------------------------------------------------------------------------
(* The inductive invariant.                                                   *)
Fits ==
    /\ Typed /\ CommandsFit /\ MakersAlone /\ SessionsFit
    /\ IdsFit /\ AllTidy /\ PayloadsFit
    /\ StoreFits /\ MarksFit /\ RewritesFit /\ ForgedApart
    /\ SourceFits /\ StartsFit /\ MergeKeeps
    /\ Alone /\ PriorsFit /\ TimesFit /\ NoneCopied

LEMMA FitsNext ==
  ASSUME Fits, [Next]_vars
  PROVE  Fits'
<1>. USE DEF Fits
<1>1. Typed'
  BY TypedNext
<1>2. CommandsFit'
  BY CommandsFitNext
<1>3. MakersAlone' /\ SessionsFit'
  BY MakersAloneNext, SessionsFitNext
<1>4. IdsFit' /\ AllTidy' /\ PayloadsFit'
  BY <1>2, IdsFitNext, AllTidyNext, PayloadsFitNext
<1>5. StoreFits' /\ RewritesFit'
  BY <1>2, StoreFitsNext, RewritesFitNext
<1>6. MarksFit' /\ ForgedApart'
  BY <1>1, MarksFitNext, ForgedApartNext
<1>7. SourceFits' /\ StartsFit' /\ MergeKeeps'
  BY SourceFitsNext, StartsFitNext, MergeKeepsNext
<1>8. Alone' /\ PriorsFit' /\ TimesFit' /\ NoneCopied'
  BY AloneNext, PriorsFitNext, TimesFitNext, NoneCopiedNext
<1>. QED BY <1>1, <1>2, <1>3, <1>4, <1>5, <1>6, <1>7, <1>8

(* What earlier versions of basou left in the store.                          *)
LEMMA FormerFits ==
  ASSUME Init, NEW history \in {"new", "unchained", "unsized", "copies"},
         NEW s, s = Former(history)
  PROVE  /\ s \in Sessions
         /\ history = "new" => s = NoSession
         /\ history # "new" => /\ s.dir /\ s.yaml.there /\ Clean(s.log, s.yaml)
                               /\ s.yaml.started = source[1]
         /\ \A e \in s.log.events :
              /\ e.id[1] = 0 /\ e.id[2] = e.says /\ e.says.kind # "forged"
              /\ e \in Derived(s.log.events) => e.says \in Contents(source, DOMAIN source)
         /\ Tidy(s.log.events)
         /\ s.yaml.anchor.events \subseteq s.log.events
<1>. DEFINE contents == Contents(source, DOMAIN source)
            derived == {Event(0, c) : c \in contents}
            says == Content("human", source[1], 1)
            human == Event(0, says)
            all == derived \cup {human}
            Told(events) == /\ events \in SUBSET Events /\ events # {}
                            /\ \A e \in events :
                                  /\ e.id[1] = 0 /\ e.id[2] = e.says /\ e.says.kind # "forged"
                                  /\ e \in Derived(events) => e.says \in contents
                            /\ Tidy(events)
<1>1. /\ source \in Seq(Nat) /\ source # <<>> /\ Len(source) \in Nat
      /\ source[1] \in Nat /\ DOMAIN source # {}
  <2>1. source = [k \in 1 .. Copies + 1 |-> IF k <= Copies THEN 1 ELSE 2] /\ Copies \in Nat
    BY BoundsNat DEF Init
  <2>2. source \in [1 .. Copies + 1 -> Nat] /\ Copies + 1 \in Nat
    BY <2>1
  <2>3. source \in Seq(Nat) /\ 1 \in DOMAIN source
    BY <2>1, <2>2
  <2>. QED BY <2>1, <2>2, <2>3
<1>2. /\ contents \in SUBSET Says /\ contents # {} /\ PayloadFits(contents)
  BY <1>1, ContentsFit
<1>3. \A c \in contents : c.kind \in DerivedKinds /\ c.kind # "forged" /\ c \in Says
  BY <1>2 DEF PayloadFits, DerivedKinds, Roles
<1>4. \A c, d \in contents : c.kind \in Roles /\ c.kind = d.kind => c = d
  BY <1>2 DEF PayloadFits
<1>5. says \in Says /\ says.kind = "human" /\ says.kind \notin DerivedKinds
  BY <1>1 DEF Says, Content, EventKinds, DerivedKinds, Roles
<1>6. ASSUME NEW c \in Says
      PROVE  /\ Event(0, c) \in Events /\ Event(0, c).id[1] = 0 /\ Event(0, c).id[2] = c
             /\ Event(0, c).says = c
  BY DEF Event, Events
<1>. HIDE DEF contents, says
<1>7. \A e \in derived : \E c \in contents : e = Event(0, c)
  OBVIOUS
<1>8. derived # {}
  BY <1>2
<1>9. human = Event(0, says)
  OBVIOUS
<1>. HIDE DEF derived, human
<1>10. ASSUME NEW events, events = derived \/ events = all PROVE Told(events)
  <2>1. ASSUME NEW e \in events
        PROVE  /\ e = Event(0, e.says) /\ e.says \in Says
               /\ e.says \in contents \/ e.says = says
    <3>1. CASE e \in derived
      BY <1>3, <1>6, <1>7, <3>1
    <3>2. CASE e = human
      BY <1>5, <1>6, <1>9, <3>2
    <3>. QED BY <1>10, <3>1, <3>2
  <2>2. ASSUME NEW e \in events
        PROVE  e \in Events /\ e.id[1] = 0 /\ e.id[2] = e.says /\ e.says.kind # "forged"
    <3>1. e \in Events /\ e.id[1] = 0 /\ e.id[2] = e.says
      BY <1>6, <2>1
    <3>2. e.says.kind # "forged"
      BY <1>3, <1>5, <2>1
    <3>. QED BY <3>1, <3>2
  <2>3. ASSUME NEW e \in Derived(events) PROVE e \in events /\ e.says \in contents
    BY <1>5, <2>1 DEF Derived
  <2>4. ASSUME NEW e \in events, NEW f \in events, e.id = f.id PROVE e = f
    BY <2>1, <2>2, <2>4
  <2>5. ASSUME NEW e \in Derived(events), NEW f \in Derived(events), Matches(e, f.says)
        PROVE  e = f
    <3>1. e.says = f.says
      BY <1>4, <2>3, <2>5 DEF Matches
    <3>. QED BY <2>1, <2>3, <3>1
  <2>6. Tidy(events)
    BY <2>4, <2>5 DEF Tidy
  <2>7. events # {}
    BY <1>8, <1>10
  <2>. QED BY <2>2, <2>3, <2>6, <2>7
<1>11. Told(derived) /\ Told(all) /\ derived \in SUBSET Events /\ all \in SUBSET Events
  BY <1>10
<1>12. ASSUME NEW events, Told(events), NEW size \in Nat,
              s \in {Recorded(events, size, TRUE, TRUE), Recorded(events, size, FALSE, FALSE)}
       PROVE  /\ s \in Sessions /\ s.dir /\ s.yaml.there /\ Clean(s.log, s.yaml)
              /\ s.yaml.started = source[1] /\ s.log.events = events
              /\ s.yaml.anchor.events \subseteq s.log.events
  <2>1. events \in SUBSET Events /\ events # {}
    BY <1>12
  <2>. HIDE DEF Told
  <2>2. PICK chained \in BOOLEAN : s = Recorded(events, size, chained, chained)
    BY <1>12
  <2>. DEFINE log == [events |-> events, chained |-> chained, intact |-> TRUE]
              anchor == IF chained THEN AnchorOf(events) ELSE NoAnchor
              yaml == [there |-> TRUE, size |-> size, started |-> source[1], linked |-> TRUE,
                       anchor |-> anchor]
  <2>3. s = [dir |-> TRUE, log |-> log, yaml |-> yaml]
    BY <2>2 DEF Recorded
  <2>4. log \in Logs
    BY <2>1 DEF Logs
  <2>5. anchor \in Anchors /\ anchor.events \subseteq events
    BY <2>1 DEF Anchors, AnchorOf, NoAnchor
  <2>6. yaml \in Yamls
    BY <1>1, <1>12, <2>5 DEF Yamls
  <2>7. Clean(log, yaml)
    BY <2>1 DEF Clean
  <2>8. /\ log.events = events /\ yaml.there /\ yaml.started = source[1]
        /\ yaml.anchor.events \subseteq events
    BY <2>5
  <2>. HIDE DEF log, yaml
  <2>. QED BY <2>3, <2>4, <2>6, <2>7, <2>8 DEF Sessions
<1>13. CASE history = "new"
  <2>1. s = NoSession
    BY <1>13 DEF Former
  <2>2. NoSession \in Sessions /\ NoSession.log.events = {} /\ NoSession.yaml.anchor.events = {}
    BY NothingTyped DEF NoSession, NoLog, NoYaml, NoAnchor
  <2>. QED BY <1>13, <2>1, <2>2 DEF Tidy, Derived
<1>14. CASE history # "new"
  <2>1. PICK events \in SUBSET Events, size \in Nat :
          /\ Told(events)
          /\ s \in {Recorded(events, size, TRUE, TRUE), Recorded(events, size, FALSE, FALSE)}
    <3>1. NoSize \in Nat
      BY DEF NoSize
    <3>2. CASE history = "unchained"
      <4>1. s = Recorded(all, Len(source), FALSE, FALSE)
        BY <3>2 DEF Former, derived, human, contents, says
      <4>. HIDE DEF Told, all
      <4>. QED BY <1>1, <1>11, <4>1
    <3>3. CASE history = "unsized"
      <4>1. s = Recorded(derived, NoSize, TRUE, TRUE)
        BY <3>3 DEF Former, derived, contents
      <4>. HIDE DEF Told
      <4>. QED BY <1>11, <3>1, <4>1
    <3>4. CASE history = "copies"
      <4>1. s = Recorded(derived, Len(source), TRUE, TRUE)
        BY <3>4 DEF Former, derived, contents
      <4>. HIDE DEF Told
      <4>. QED BY <1>1, <1>11, <4>1
    <3>. HIDE DEF Told
    <3>. QED BY <1>14, <3>2, <3>3, <3>4
  <2>2. /\ s \in Sessions /\ s.dir /\ s.yaml.there /\ Clean(s.log, s.yaml)
        /\ s.yaml.started = source[1] /\ s.log.events = events
        /\ s.yaml.anchor.events \subseteq s.log.events
    BY <1>12, <2>1
  <2>. QED BY <1>14, <2>1, <2>2 DEF contents
<1>. QED BY <1>13, <1>14

(* At first there is what an earlier version left, and nobody has begun.      *)
LEMMA FirstFits ==
  ASSUME Init
  PROVE  /\ Typed
         /\ sessions[1].dir => /\ made = 1 /\ sessions[1].yaml.there
                               /\ Clean(sessions[1].log, sessions[1].yaml)
                               /\ sessions[1].yaml.started = source[1]
         /\ ~sessions[1].dir => sessions[1] = NoSession
         /\ \A e \in sessions[1].log.events :
              /\ e.id[1] = 0 /\ e.id[2] = e.says /\ e.says.kind # "forged"
              /\ e \in Derived(sessions[1].log.events) => e.says \in Contents(source, DOMAIN source)
         /\ Tidy(sessions[1].log.events)
         /\ sessions[1].yaml.anchor.events \subseteq sessions[1].log.events
         /\ \A i \in Sids : i # 1 => sessions[i] = NoSession
         /\ \A p \in Procs : pc[p] = "load" /\ mem[p] = NoMem
<1>1. /\ source = [k \in 1 .. Copies + 1 |-> IF k <= Copies THEN 1 ELSE 2]
      /\ source \in [1 .. Copies + 1 -> Nat] /\ Copies + 1 \in Nat
  BY BoundsNat DEF Init
<1>2. source \in Seq(Nat)
  BY <1>1
<1>3. PICK history \in Histories :
        /\ sessions = [i \in Sids |-> IF i = 1 THEN Former(history) ELSE NoSession]
        /\ made = IF history = "new" THEN 0 ELSE 1
  BY DEF Init
<1>4. history \in {"new", "unchained", "unsized", "copies"} /\ 1 \in Sids
  BY HistoriesKnown, BoundsNat DEF Sids
<1>5. sessions[1] = Former(history) /\ \A i \in Sids : i # 1 => sessions[i] = NoSession
  BY <1>3, <1>4
<1>. DEFINE s == sessions[1]
<1>6. /\ s \in Sessions
      /\ history = "new" => s = NoSession
      /\ history # "new" => /\ s.dir /\ s.yaml.there /\ Clean(s.log, s.yaml)
                            /\ s.yaml.started = source[1]
      /\ \A e \in s.log.events :
           /\ e.id[1] = 0 /\ e.id[2] = e.says /\ e.says.kind # "forged"
           /\ e \in Derived(s.log.events) => e.says \in Contents(source, DOMAIN source)
      /\ Tidy(s.log.events)
      /\ s.yaml.anchor.events \subseteq s.log.events
  BY <1>4, <1>5, FormerFits
<1>7. ~NoSession.dir
  BY DEF NoSession
<1>8. /\ s.dir => history # "new"
      /\ ~s.dir => s = NoSession
  BY <1>6, <1>7
<1>9. \A p \in Procs : pc[p] = "load" /\ mem[p] = NoMem
  BY DEF Init
<1>10. sessions \in [Sids -> Sessions]
  BY <1>3, <1>5, <1>6, NothingTyped
<1>11. /\ older \in BOOLEAN /\ locks \in [Sids -> Procs \cup {Free}]
       /\ pc \in [Procs -> PCs] /\ mem \in [Procs -> Mems]
  <2>1. NoMem \in Mems
    BY NothingTyped
  <2>. QED BY <2>1 DEF Init, PCs
<1>12. kind \in [Procs -> {"import", "force", "rechain"}]
  <2>1. PICK k \in [Others -> Kinds] :
          kind = [p \in Procs |-> IF p \in Importers THEN "import" ELSE k[p]]
    BY DEF Init
  <2>2. \A p \in Procs : p \in Importers \/ k[p] \in {"import", "force", "rechain"}
    BY KindsKnown DEF Procs
  <2>. QED BY <2>1, <2>2
<1>13. made \in 0 .. MaxSessions /\ stamp \in Nat \ {0} /\ ghost \in Ghosts
  BY <1>3, BoundsNat DEF Init, NoGhost, Ghosts
<1>14. Typed
  BY <1>2, <1>10, <1>11, <1>12, <1>13 DEF Typed
<1>. HIDE DEF s
<1>. QED BY <1>3, <1>5, <1>6, <1>8, <1>9, <1>14 DEF s

LEMMA NoneBegun ==
  ASSUME Init, NEW p \in Procs
  PROVE  /\ pc[p] = "load" /\ mem[p] = NoMem /\ Target(p) = 0 /\ Pending(p) = {}
         /\ mem[p].priors = {} /\ mem[p].payload = {} /\ mem[p].left = {}
         /\ mem[p].next.events = {} /\ mem[p].raw.events = {}
BY FirstFits DEF NoMem, NoLog, NoYaml, NoAnchor, Target, Pending

LEMMA NoSessionBut ==
  ASSUME Init, NEW i \in Sids, i # 1
  PROVE  /\ sessions[i] = NoSession /\ ~sessions[i].dir /\ ~sessions[i].yaml.there
         /\ sessions[i].log.events = {} /\ sessions[i].yaml.anchor.events = {}
         /\ sessions[i].yaml.started = 0
BY FirstFits DEF NoSession, NoLog, NoYaml, NoAnchor

LEMMA InitFits ==
  ASSUME Init
  PROVE  Fits
<1>1. Typed
  BY FirstFits
<1>2. /\ 1 \in Sids /\ \A i \in Sids : sessions[i].dir => i = 1 /\ sessions[i].yaml.there
      /\ \A i \in Sids : sessions[i].yaml.there => i = 1
      /\ \A i \in Sids : \A e \in sessions[i].log.events : i = 1
      /\ ghost = NoGhost /\ stamp = 1 /\ Marked = {}
  <2>1. 1 \in Sids
    BY BoundsNat DEF Sids
  <2>2. ghost = NoGhost /\ stamp = 1 /\ Marked = {}
    BY DEF Init, NoGhost, Marked
  <2>. QED BY <2>1, <2>2, FirstFits, NoSessionBut
<1>3. CommandsFit
  <2>. SUFFICES ASSUME NEW p \in Procs PROVE CommandFits(p)
    BY DEF CommandsFit
  <2>1. \A i \in Sids : ~Knows(p, i)
    BY NoneBegun DEF Knows, KnowsTarget, Locked, Writing, Replacing
  <2>2. mem[p].target = 0 /\ mem[p].left \subseteq 1 .. made /\ mem[p].next = NoLog
        /\ mem[p].raw = NoLog
    BY NoneBegun DEF NoMem
  <2>3. pc[p] \notin Locked \cup Making \cup Writing \cup Unlocked \cup {"lock"}
    BY NoneBegun, Places
  <2>4. pc[p] = "load" /\ mem[p] = NoMem
    BY NoneBegun
  <2>5. pc[p] \notin {"derive", "remove", "mkdir", "bulk", "lock", "judge", "merge"}
    BY <2>4
  <2>. QED BY <2>1, <2>2, <2>3, <2>4, <2>5 DEF CommandFits
<1>4. MakersAlone
  BY NoneBegun DEF MakersAlone, Making
<1>5. SessionsFit
  BY <1>2, FirstFits, NoSessionBut DEF SessionsFit
<1>6. IdsFit
  <2>1. ASSUME NEW i \in Sids, NEW e \in Owned(i)
        PROVE  i = 1 /\ e \in sessions[1].log.events
    BY <1>2, <2>1, OwnedMeans, NoneBegun
  <2>2. ASSUME NEW i \in Sids, NEW e \in Owned(i)
        PROVE  e.id[1] = 0 /\ e.id[2] = e.says /\ e.says.kind # "forged"
    BY <2>1, FirstFits
  <2>. QED BY <1>2, <2>1, <2>2 DEF IdsFit
<1>7. AllTidy /\ PayloadsFit
  <2>1. Tidy({})
    BY DEF Tidy, Derived
  <2>2. \A i \in Sids : Tidy(sessions[i].log.events)
    BY <2>1, FirstFits, NoSessionBut
  <2>. QED BY <2>1, <2>2, NoneBegun DEF AllTidy, PayloadsFit, PayloadFits
<1>8. StoreFits
  <2>1. sessions[1].yaml.there => Clean(sessions[1].log, sessions[1].yaml)
    BY FirstFits DEF NoSession, NoYaml
  <2>. QED BY <1>2, <2>1 DEF StoreFits, StoreFitsAt
<1>9. MarksFit
  BY <1>2 DEF MarksFit
<1>10. RewritesFit /\ MergeKeeps
  BY NoneBegun DEF RewritesFit, RewriteFits, MergeKeeps, Writing, Replacing
<1>11. ForgedApart
  <2>1. ASSUME NEW i \in Sids
        PROVE  /\ Mark(i) \notin sessions[i].log.events
               /\ Mark(i) \notin sessions[i].yaml.anchor.events
    <3>1. Mark(i) \notin sessions[i].log.events
      BY <1>2, FirstFits, MarkTyped
    <3>. QED BY <3>1, FirstFits, NoSessionBut
  <2>. QED BY <2>1, NoneBegun DEF ForgedApart, Writing, Replacing
<1>12. /\ source = [k \in 1 .. Copies + 1 |-> IF k <= Copies THEN 1 ELSE 2]
       /\ Copies \in Nat /\ source \in Seq(Nat)
  BY <1>1, BoundsNat DEF Init, Typed
<1>13. /\ DOMAIN source = 1 .. Copies + 1 /\ Len(source) = Copies + 1
       /\ DOMAIN source # {} /\ 1 \in DOMAIN source
  <2>1. DOMAIN source = 1 .. Copies + 1 /\ Len(source) = Copies + 1
    BY <1>12
  <2>2. 1 \in 1 .. Copies + 1
    BY BoundsNat
  <2>. QED BY <2>1, <2>2
<1>14. SourceFits
  <2>1. Len(source) > Copies
    BY <1>12, <1>13
  <2>2. \A k \in DOMAIN source : k <= Copies => source[k] = 1
    BY <1>12, <1>13
  <2>3. ASSUME NEW j \in DOMAIN source, NEW k \in DOMAIN source, j <= k
        PROVE  source[j] <= source[k]
    BY <1>12, <1>13, <2>3
  <2>4. source[Copies + 1] = 2
    BY <1>12
  <2>. QED BY <2>1, <2>2, <2>3, <2>4 DEF SourceFits
<1>15. source[1] \in Nat /\ source[1] <= 2
  BY <1>12
<1>16. StartsFit
  <2>1. \A i \in Sids : sessions[i].yaml.started <= 2
    <3>1. ~sessions[1].dir => sessions[1].yaml.started = 0
      BY FirstFits DEF NoSession, NoYaml
    <3>2. ASSUME NEW i \in Sids
          PROVE  sessions[i].yaml.started \in {0, source[1]}
      BY <3>1, FirstFits, NoSessionBut
    <3>. QED BY <1>15, <3>2
  <2>2. \A p \in Procs : mem[p].started = 0 /\ mem[p].yaml.started = 0 /\ ~mem[p].leftOut
    BY NoneBegun DEF NoMem, NoYaml
  <2>. QED BY <2>1, <2>2, NoneBegun DEF StartsFit
<1>17. Alone
  <2>1. \A p \in Procs : ~Importing(p)
    BY NoneBegun DEF Importing, Running
  <2>2. ASSUME NEW p \in Procs, NEW i \in Sids PROVE Sees(p, i)
    BY NoneBegun DEF Sees
  <2>3. \A i, j \in Sids : Readable(i) /\ Readable(j) => i = j
    BY <1>2 DEF Readable
  <2>. QED BY <2>1, <2>2, <2>3 DEF Alone
<1>18. PriorsFit /\ TimesFit
  BY NoneBegun, FS_EmptySet DEF PriorsFit, TimesFit, TimesFitOf, Writing, Replacing
<1>19. NoneCopied
  <2>1. \A p \in Procs : OwnCommand(p)
    BY NoneBegun DEF OwnCommand, Writing, Replacing
  <2>2. ASSUME NEW i \in Sids, Readable(i), sessions[i].yaml.started > CopyTime
        PROVE  OwnOnly(sessions[i].log.events)
    <3>1. i = 1 /\ sessions[1].dir /\ sessions[1].yaml.started = source[1]
      <4>1. i = 1
        BY <1>2, <2>2 DEF Readable
      <4>2. sessions[1].dir
        BY <2>2, <4>1, FirstFits DEF Readable, NoSession, NoYaml
      <4>. QED BY <4>1, <4>2, FirstFits
    <3>2. \A j, k \in DOMAIN source : j <= k => source[j] <= source[k]
      BY <1>14 DEF SourceFits
    <3>3. DOMAIN source # {} /\ 1 \in DOMAIN source
      BY <1>13
    <3>4. /\ Min(DOMAIN source) \in DOMAIN source
          /\ \A c \in Contents(source, DOMAIN source) : c.at >= source[Min(DOMAIN source)]
          /\ source[Min(DOMAIN source)] \in Nat
          /\ Contents(source, DOMAIN source) \in SUBSET Says
      BY <1>12, <3>2, <3>3, ContentsFit
    <3>5. source[1] <= source[Min(DOMAIN source)]
      BY <1>13, <1>12, <3>2, <3>3, <3>4
    <3>6. CopyTime \in Nat
      BY DEF CopyTime
    <3>7. ASSUME NEW e \in Derived(sessions[1].log.events) PROVE e.says.at > CopyTime
      <4>1. e.says \in Contents(source, DOMAIN source)
        BY FirstFits DEF Derived
      <4>2. e.says.at \in Nat
        BY <3>4, <4>1 DEF Says
      <4>. QED BY <1>15, <2>2, <3>1, <3>4, <3>5, <3>6, <4>1, <4>2
    <3>. QED BY <3>1, <3>7 DEF OwnOnly
  <2>. QED BY <2>1, <2>2 DEF NoneCopied, OwnSession
<1>. QED
  BY <1>1, <1>3, <1>4, <1>5, <1>6, <1>7, <1>8, <1>9, <1>10, <1>11, <1>14, <1>16, <1>17, <1>18,
     <1>19 DEF Fits

-----------------------------------------------------------------------------
(* What follows.                                                              *)

(* The inductive invariant holds in every reachable state.                    *)
THEOREM InvariantHolds == Spec => []Fits
<1>1. Init => Fits
  BY InitFits
<1>2. Fits /\ [Next]_vars => Fits'
  BY FitsNext
<1>. QED BY <1>1, <1>2, PTL DEF Spec

(* Commands hold only locks of their own, know only sessions there were, and  *)
(* a directory is there only for a session that was made.                     *)
THEOREM TypesHold == Spec => []TypeOK
<1>1. ASSUME Fits PROVE TypeOK
  <2>. USE DEF Fits
  <2>1. pc \in [Procs -> PCs] /\ locks \in [Sids -> Procs \cup {Free}] /\ made \in 0 .. MaxSessions
    BY <1>1 DEF Typed
  <2>2. \A i \in Sids : sessions[i].dir => i <= made
    BY <1>1 DEF SessionsFit
  <2>3. ASSUME NEW p \in Procs
        PROVE  mem[p].target \in 0 .. made /\ mem[p].left \subseteq 1 .. made
    <3>1. made \in Nat /\ CommandFits(p)
      BY <1>1, <2>1, BoundsNat DEF CommandsFit
    <3>2. mem[p].target = 0 \/ mem[p].target \in 1 .. made
      BY <3>1 DEF CommandFits
    <3>. QED BY <3>1, <3>2 DEF CommandFits
  <2>. QED BY <2>1, <2>2, <2>3 DEF TypeOK
<1>. QED BY <1>1, InvariantHolds, PTL

(* However often a source is imported, and whatever --force removes on the    *)
(* way, no two events of the store have one id (rekeyDerivedEvents,           *)
(* importSessionFromJson).                                                    *)
THEOREM NoTwoOfOneId == Spec => []IdsUnique
<1>1. ASSUME Fits PROVE IdsUnique
  <2>1. IdsFit /\ AllTidy
    BY <1>1 DEF Fits
  <2>2. ASSUME NEW i \in Sids, NEW e \in sessions[i].log.events PROVE e \in Owned(i)
    BY OwnedMeans
  <2>3. ASSUME NEW i \in Sids, NEW j \in Sids, NEW e \in sessions[i].log.events,
               NEW f \in sessions[j].log.events, e.id = f.id
        PROVE  i = j
    BY <2>1, <2>2, <2>3 DEF IdsFit
  <2>4. ASSUME NEW i \in Sids, NEW e \in sessions[i].log.events,
               NEW f \in sessions[i].log.events, e.id = f.id
        PROVE  e = f
    BY <2>1, <2>4 DEF AllTidy, Tidy
  <2>. QED BY <2>3, <2>4 DEF IdsUnique
<1>. QED BY <1>1, InvariantHolds, PTL

(* A session at rest reads as tampered if and only if its log was edited by   *)
(* hand or cut short between its two writes: no later import or rechain       *)
(* launders it, and none breaks a session that is sound                       *)
(* (assertSafeForReimport, verifyChain before rechainSessionInPlace).         *)
THEOREM VerdictsHold == Spec => []VerdictsTrue
<1>1. ASSUME Fits PROVE VerdictsTrue
  <2>. USE DEF Fits
  <2>1. ASSUME NEW i \in Sids, AtRest(i)
        PROVE  IF i \in Marked THEN Verdict(sessions[i]) = "tampered"
               ELSE Verdict(sessions[i]) \in {"verified", "unchained"}
    <3>1. sessions[i].yaml.there /\ sessions[i] \in Sessions
      BY <1>1, <2>1 DEF AtRest, Readable, Typed
    <3>2. ~BetweenWrites(i)
      <4>. SUFFICES ASSUME NEW p \in Procs, pc[p] \in Replacing, Target(p) = i PROVE FALSE
        BY DEF BetweenWrites
      <4>1. pc[p] \in Locked
        BY DEF Replacing, Locked
      <4>2. locks[i] = p
        BY <1>1, <4>1 DEF CommandsFit, CommandFits, Target
      <4>. QED BY <2>1, <4>1, <4>2 DEF AtRest, Available, Holds
    <3>3. IF i \in Marked THEN Broken(sessions[i].log, sessions[i].yaml)
          ELSE Clean(sessions[i].log, sessions[i].yaml)
      BY <1>1, <3>1, <3>2 DEF StoreFits, StoreFitsAt
    <3>. QED BY <3>1, <3>3, VerdictFits
  <2>2. ASSUME NEW i \in Marked PROVE i \in Sids
    BY <1>1 DEF Typed, Ghosts, Marked
  <2>. QED BY <2>1, <2>2 DEF VerdictsTrue, NoLaundering, FilesAgree, Marked
<1>. QED BY <1>1, InvariantHolds, PTL

(* Imports that run one after the other, with whatever else between them,     *)
(* make one session of one source (importClaudeCode and importCodex: the      *)
(* prior imports of a source, then its replacement or its re-import).         *)
THEOREM OneSessionEach == Spec => []OneSession
<1>1. ASSUME Fits PROVE OneSession
  <2>. DEFINE S == {i \in Sids : Readable(i)}
  <2>. SUFFICES ASSUME ~ghost.overlapped PROVE Cardinality(S) <= 1
    BY DEF OneSession
  <2>1. \A i, j \in S : i = j
    BY <1>1 DEF Fits, Alone
  <2>2. CASE S = {}
    BY <2>2, FS_EmptySet
  <2>3. CASE S # {}
    <3>1. PICK only \in S : TRUE
      BY <2>3
    <3>2. S = {only}
      BY <2>1, <3>1
    <3>. HIDE DEF S
    <3>3. Cardinality(S) = 1
      BY <3>2, FS_Singleton
    <3>. QED BY <3>3
  <2>. QED BY <2>2, <2>3
<1>. QED BY <1>1, InvariantHolds, PTL

LEMMA KeptNext ==
  ASSUME Fits, [Next]_vars, NEW i \in Sids, sessions[i].dir, sessions'[i].dir,
         \A p \in Procs : ~(pc[p] = "restore" /\ Target(p) = i)
  PROVE  /\ sessions[i].yaml.linked => sessions'[i].yaml.linked
         /\ \A e \in sessions[i].log.events :
              \/ LetGo(i, e)
              \/ \E f \in sessions'[i].log.events : f.id = e.id /\ Matches(e, f.says)
<1>. DEFINE log == sessions[i].log
            yaml == sessions[i].yaml
            Goal == /\ yaml.linked => sessions'[i].yaml.linked
                    /\ \A e \in log.events :
                         \/ LetGo(i, e)
                         \/ \E f \in sessions'[i].log.events : f.id = e.id /\ Matches(e, f.says)
<1>. SUFFICES Goal
  OBVIOUS
<1>1. Typed /\ CommandsFit /\ MakersAlone /\ SessionsFit /\ RewritesFit /\ StartsFit /\ MergeKeeps
  BY DEF Fits
<1>2. ASSUME log.events \subseteq sessions'[i].log.events,
             yaml.linked => sessions'[i].yaml.linked
      PROVE  Goal
  BY <1>2 DEF Matches
<1>3. Becomes(i)
  BY <1>1, SessionNext
<1>4. CASE Stays(i) \/ Forged(i)
  BY <1>2, <1>4 DEF Stays, Forged
<1>5. ~Vanishes(i)
  BY DEF Vanishes, NoSession
<1>6. ~Begins(i)
  <2>1. i <= made /\ made \in Nat
    BY <1>1, BoundsNat DEF SessionsFit, Typed
  <2>. QED BY <2>1 DEF Begins
<1>7. ASSUME NEW p \in Procs, Filled(i, p) PROVE Goal
  <2>1. pc[p] = "bulk" /\ Target(p) = i
    BY <1>1, <1>7, WriteBulkEffect DEF Filled
  <2>2. yaml = NoYaml /\ log = NoLog
    BY <1>1, <2>1, Places DEF MakersAlone
  <2>. QED BY <1>2, <2>2 DEF NoYaml, NoLog
<1>8. ASSUME NEW p \in Procs, Linked(i, p) PROVE Goal
  <2>1. pc[p] = "link" /\ Target(p) = i /\ sessions'[i].log = log
    BY <1>1, <1>8, LinkYamlEffect DEF Linked
  <2>2. yaml = NoYaml
    BY <1>1, <2>1, Places DEF MakersAlone
  <2>. QED BY <1>2, <2>1, <2>2 DEF NoYaml
<1>9. ASSUME NEW p \in Procs, Relogged(i, p) PROVE Goal
  <2>1. pc[p] = "events" /\ Target(p) = i /\ mem[p].target = i
    BY <1>1, <1>9, WriteEventsEffect DEF Relogged, Target
  <2>2. sessions'[i].yaml = yaml /\ sessions'[i].log = mem[p].next
    BY <1>9 DEF Relogged
  <2>3. log = mem[p].raw
    BY <1>1, <2>1, Places DEF RewritesFit, RewriteFits
  <2>4. ASSUME NEW e \in log.events,
               e.says.kind = "middle", mem[p].leftOut, e.says.at < mem[p].started
        PROVE  LetGo(i, e)
    <3>1. e.says.at <= CopyTime \/ ghost.rewritten
      <4>1. e.says.at \in Nat /\ mem[p].started \in Nat
        BY <1>1, LogsTyped DEF Typed, Mems, Events, Says
      <4>2. ghost.rewritten \/ (mem[p].started <= 2 /\ CopyTime = 1)
        BY <1>1, <2>4, BoundsNat DEF StartsFit, CopyTime
      <4>. QED BY <2>4, <4>1, <4>2
    <3>. QED BY <2>1, <2>4, <3>1 DEF LetGo
  <2>5. ASSUME NEW e \in log.events
        PROVE  \/ LetGo(i, e)
               \/ \E f \in mem[p].next.events : f.id = e.id /\ Matches(e, f.says)
    BY <1>1, <2>1, <2>3, <2>4 DEF MergeKeeps
  <2>. QED BY <2>2, <2>5
<1>10. ASSUME NEW p \in Procs, Reanchored(i, p) PROVE Goal
  <2>1. pc[p] = "yaml" /\ Target(p) = i /\ mem[p].target = i
    BY <1>1, <1>10, WriteYamlEffect DEF Reanchored, Target
  <2>2. sessions'[i].yaml = mem[p].yaml /\ sessions'[i].log = log
    BY <1>10 DEF Reanchored
  <2>3. mem[p].yaml.linked = yaml.linked
    BY <1>1, <2>1, Places DEF RewritesFit, RewriteFits
  <2>. QED BY <1>2, <2>2, <2>3
<1>11. ASSUME NEW p \in Procs PROVE ~Restored(i, p)
  BY <1>1, RestoreEffect DEF Restored
<1>. HIDE DEF Goal
<1>. QED BY <1>3, <1>4, <1>5, <1>6, <1>7, <1>8, <1>9, <1>10, <1>11 DEF Becomes

(* However often the source is imported again, what was recorded of it keeps  *)
(* its id and its session, and the session its task; only what the source     *)
(* copied from an older transcript is let go (rekeyDerivedEvents,             *)
(* reimportPreservingId).                                                     *)
THEOREM IdsHold == Spec => IdsKept
<1>1. Fits /\ [Next]_vars =>
        [\A i \in Sids :
            \/ ~sessions[i].dir \/ ~sessions'[i].dir
            \/ \E p \in Procs : pc[p] = "restore" /\ Target(p) = i
            \/ /\ sessions[i].yaml.linked => sessions'[i].yaml.linked
               /\ \A e \in sessions[i].log.events :
                    \/ LetGo(i, e)
                    \/ \E f \in sessions'[i].log.events :
                        f.id = e.id /\ Matches(e, f.says)]_vars
  BY KeptNext
<1>. QED BY <1>1, InvariantHolds, PTL DEF Spec, IdsKept

LEMMA OwnNext ==
  ASSUME Fits, [Next]_vars, NEW i \in Sids, ~ghost.overlapped, sessions[i].yaml.there,
         sessions[i].yaml.started > CopyTime, sessions'[i].dir
  PROVE  OwnOnly(sessions'[i].log.events)
<1>. DEFINE log == sessions[i].log
            Goal == OwnOnly(sessions'[i].log.events)
<1>. SUFFICES Goal
  OBVIOUS
<1>1. Typed /\ CommandsFit /\ MakersAlone /\ SessionsFit
  BY DEF Fits
<1>2. OwnOnly(log.events) /\ \A p \in Procs : OwnCommand(p)
  BY DEF Fits, NoneCopied, OwnSession, Readable
<1>3. Becomes(i)
  BY <1>1, SessionNext
<1>4. sessions[i].dir /\ i <= made /\ made \in Nat
  BY <1>1, ThereIsDir, BoundsNat DEF Typed
<1>5. ~Vanishes(i) /\ ~Begins(i)
  BY <1>4 DEF Vanishes, Begins, NoSession
<1>6. CASE Stays(i)
  BY <1>2, <1>6 DEF Stays
<1>7. CASE Forged(i)
  <2>1. Mark(i).says.kind \notin DerivedKinds
    BY MarkTyped DEF DerivedKinds, Roles
  <2>2. Derived(sessions'[i].log.events) = Derived(log.events)
    BY <1>7, <2>1 DEF Forged, Derived
  <2>. QED BY <1>2, <2>2 DEF OwnOnly
<1>8. ASSUME NEW p \in Procs PROVE ~Filled(i, p) /\ ~Linked(i, p)
  <2>1. Filled(i, p) \/ Linked(i, p) => pc[p] \in {"bulk", "link"} /\ Target(p) = i
    BY <1>1, WriteBulkEffect, LinkYamlEffect DEF Filled, Linked
  <2>2. pc[p] \in {"bulk", "link"} /\ Target(p) = i => sessions[i].yaml = NoYaml
    BY <1>1 DEF MakersAlone, Making
  <2>. QED BY <2>1, <2>2 DEF NoYaml
<1>9. ASSUME NEW p \in Procs, Relogged(i, p) \/ Reanchored(i, p) \/ Restored(i, p) PROVE Goal
  <2>1. pc[p] \in {"events", "yaml", "restore"} /\ mem[p].target = i
    BY <1>1, <1>9, WriteEventsEffect, WriteYamlEffect, RestoreEffect
       DEF Relogged, Reanchored, Restored, Target
  <2>2. OwnOnly(mem[p].next.events) /\ OwnOnly(mem[p].raw.events)
    BY <1>2, <1>4, <2>1, Places DEF OwnCommand
  <2>3. sessions'[i].log \in {mem[p].next, log, mem[p].raw}
    BY <1>9 DEF Relogged, Reanchored, Restored
  <2>. QED BY <1>2, <2>2, <2>3
<1>. HIDE DEF Goal
<1>. QED BY <1>3, <1>5, <1>6, <1>7, <1>8, <1>9 DEF Becomes

(* A session imported without what its source copied from an older transcript *)
(* stays without it, also when that transcript is gone, as long as imports    *)
(* run one after the other (claudeTranscriptOwnRecords: not before the start  *)
(* of the session imported before).                                           *)
THEOREM CopiesHold == Spec => CopiesStayOut
<1>1. Fits /\ [Next]_vars =>
        [\A i \in Sids :
            /\ ~ghost.overlapped
            /\ sessions[i].yaml.there /\ sessions[i].yaml.started > CopyTime
            /\ sessions'[i].dir
            => \A e \in Derived(sessions'[i].log.events) : e.says.at > CopyTime]_vars
  BY OwnNext DEF OwnOnly
<1>. QED BY <1>1, InvariantHolds, PTL DEF Spec, CopiesStayOut

=============================================================================
