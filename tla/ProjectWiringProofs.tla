------------------------- MODULE ProjectWiringProofs -------------------------
(* What ProjectWiring's commands keep of what the user wrote and of what is    *)
(* other repositories', for any repositories, names and commands, any number   *)
(* of processes and any bounds.                                                *)
EXTENDS ProjectWiring, FiniteSetTheorems, TLAPS

(* What is at the path of an instruction file.                                 *)
Files == [kind : Kinds, texts : SUBSET Nat]

(* A text is in a canonical, about to be put back into one, or lost in one of  *)
(* the two windows: no command can lose it any more.                           *)
Safe(t) ==
    \/ \E n \in Names : t \in canon[n].texts
    \/ \E p \in Procs : pc[p] = "torn" /\ t \in mem[p].doc.texts
    \/ t \in gone

(* Only files hold texts, and the block of a canonical is one rendered for a   *)
(* place of its name.                                                          *)
Plain ==
    /\ \A x \in Places : agents[x].kind # "file" => agents[x].texts = {}
    /\ \A n \in Names :
        /\ canon[n].kind \in {"none", "foreign"} => canon[n].texts = {}
        /\ canon[n].of # None => canon[n].of \in Hubs \cup {View} /\ Name[canon[n].of] = n

(* Of those that were there when the command looked, x alone has its name.     *)
MayRender(m, x) ==
    /\ x \in Hubs \cup {View}
    /\ \A y \in ((m.here \cap Hubs) \cup {View}) \ {x} : Name[y] # Name[x]

(* What a command at a step has planned: to render what it may, to remove what *)
(* nobody else needs.                                                          *)
Fits(label, c, m) ==
    /\ m.here \subseteq m.roster
    /\ label \notin Over => c \in Commands
    /\ label \in {"prune", "unlink_entry"} => c[1] = "prune"
    /\ label \in {"teardown", "identity", "remove", "truncate", "torn"} => c[1] = "teardown"
    /\ label \in {"read", "write"} => \A x \in m.todo : MayRender(m, x)
    /\ label = "write" => MayRender(m, m.target) /\ m.next = Rendered(m.doc, m.target)
    /\ label = "entry" => m.todo \subseteq Repos
    /\ label \in {"identity", "remove"} /\ m.todo \cap {"entry", "canon"} # {} =>
        ~NameTaken(c[2], m.roster)
    /\ label \in {"truncate", "torn"} => ~NameTaken(c[2], m.roster)

(* What was copied from a file about to be unlinked is safe.                   *)
Copied(p) == pc[p] = "unlink" => \A t \in mem[p].doc.texts : Safe(t)

IInv ==
    /\ TypeOK /\ Plain /\ ProseKept
    /\ \A p \in Procs : Fits(pc[p], cmd[p], mem[p]) /\ Copied(p)

-----------------------------------------------------------------------------
LEMMA FirstIn == ASSUME NEW S, S # {} PROVE First(S) \in S
BY DEF First

LEMMA NamesIn == \A x \in Places : Name[x] \in Names
BY DEF Names

LEMMA ItemsIn ==
    /\ Places \subseteq Items /\ Repos \subseteq Items /\ Names \subseteq Items
    /\ Places \X {"agents", "spoke"} \subseteq Items
    /\ {"agents", "spoke", "entry", "canon"} \subseteq Items
BY DEF Items, Places

LEMMA FilesIn ==
    /\ Nothing \in Files /\ Ours \in Files
    /\ [Nothing EXCEPT !.kind = "foreign"] \in Files
    /\ [kind |-> "file", texts |-> {}] \in Files
    /\ \A f \in Files : f.texts \in SUBSET Nat
    /\ \A f \in Files, t \in Nat : [kind |-> "file", texts |-> f.texts \cup {t}] \in Files
BY DEF Files, Nothing, Ours, Kinds

LEMMA CanonsIn ==
    /\ NoCanon \in Canons /\ Emptied \in Canons
    /\ \A T \in SUBSET Nat : Prose(T) \in Canons
    /\ \A doc \in Canons : /\ doc.texts \in SUBSET Nat
                           /\ Unmarked(doc) \in Canons
                           /\ \A x \in Places : Rendered(doc, x) \in Canons
BY DEF Canons, CanonKinds, NoCanon, Emptied, Prose, Unmarked, Rendered

LEMMA TextsIn == \A T, U \in SUBSET Nat : T \cup U \in SUBSET Nat /\ T \ U \in SUBSET Nat
OBVIOUS

LEMMA MemIn ==
    ASSUME NEW m \in Memories
    PROVE  /\ m.roster \in SUBSET Repos /\ m.here \in SUBSET Repos
           /\ m.manifest \in Manifests /\ m.todo \in SUBSET Items
           /\ m.target \in Places \cup {None} /\ m.doc \in Canons /\ m.next \in Canons
BY DEF Memories

LEMMA NoMemIn == NoMem \in Memories
BY DEF NoMem, Memories, NoCanon, Canons, CanonKinds, Manifests

(* The files.                                                                  *)
DiskOK ==
    /\ manifest \in Manifests /\ reachable \subseteq Repos
    /\ agents \in [Places -> Files]
    /\ spoke \in [Places -> {"none", "ours", "file"}]
    /\ canon \in [Names -> Canons]
    /\ view \in [Names -> Repos \cup {None, Foreign}]
    /\ texts \in Nat /\ gone \in SUBSET Nat /\ alone \subseteq Procs

(* Where a command writes, and for whom.                                       *)
Aimed(p) ==
    /\ mem[p] \in Memories
    /\ pc[p] \notin Over => On(p) \in Hubs \cup Selves
    /\ pc[p] = "write" => Target(p) \in Places
    /\ pc[p] = "entry" => mem[p].todo \subseteq Repos

LEMMA Known ==
    ASSUME DiskOK, NEW p \in Procs, Aimed(p)
    PROVE  /\ mem[p].doc \in Canons /\ mem[p].doc.texts \in SUBSET Nat
           /\ mem[p].next \in Canons /\ mem[p].manifest \in Manifests
           /\ pc[p] \notin Over =>
                /\ On(p) \in Places /\ Name[On(p)] \in Names
                /\ Canon(On(p)) \in Canons /\ Canon(On(p)).texts \in SUBSET Nat
                /\ agents[On(p)] \in Files /\ agents[On(p)].texts \in SUBSET Nat
           /\ pc[p] = "write" => Name[Target(p)] \in Names /\ Canon(Target(p)).texts \in SUBSET Nat
<1>1. mem[p].doc \in Canons /\ mem[p].next \in Canons /\ mem[p].manifest \in Manifests
  BY MemIn DEF Aimed
<1>2. mem[p].doc.texts \in SUBSET Nat
  BY <1>1, CanonsIn
<1>3. ASSUME NEW x \in Places
      PROVE  /\ Name[x] \in Names /\ Canon(x) \in Canons /\ Canon(x).texts \in SUBSET Nat
             /\ agents[x] \in Files /\ agents[x].texts \in SUBSET Nat
  BY NamesIn, CanonsIn, FilesIn DEF DiskOK, Canon
<1> QED
  BY <1>1, <1>2, <1>3 DEF Aimed, Places, Repos

LEMMA TornIn ==
    ASSUME DiskOK, NEW p \in Procs, Aimed(p)
    PROVE  Torn(p) \in SUBSET Nat
BY Known, TextsIn DEF Torn, Over

LEMMA CanonSet ==
    ASSUME DiskOK, NEW n \in Names, NEW c \in Canons, canon' = [canon EXCEPT ![n] = c]
    PROVE  canon' \in [Names -> Canons]
BY DEF DiskOK

LEMMA DiskNext ==
    ASSUME DiskOK, \A p \in Procs : Aimed(p), [Next]_vars
    PROVE  DiskOK'
<1>1. ASSUME NEW p \in Procs, Begin(p) PROVE DiskOK'
  <2>1. alone' \subseteq Procs
    BY <1>1 DEF DiskOK, Begin
  <2> QED
    BY <1>1, <2>1 DEF DiskOK, Begin, disk
<1>2. ASSUME NEW p \in Procs, WriteManifest(p) PROVE DiskOK'
  <2>1. manifest' \in Manifests
    BY <1>2, Known DEF DiskOK, WriteManifest
  <2>2. alone' \subseteq Procs
    BY <1>2 DEF DiskOK, WriteManifest, Changes
  <2> QED
    BY <1>2, <2>1, <2>2 DEF DiskOK, WriteManifest, disk
<1>3. ASSUME NEW p \in Procs, WriteCanon(p) PROVE DiskOK'
  <2>1. canon' \in [Names -> Canons]
    BY <1>3, CanonsIn, Known DEF DiskOK, WriteCanon, SetCanon
  <2>2. gone' \in SUBSET Nat
    BY <1>3, TextsIn, Known DEF DiskOK, WriteCanon
  <2>3. alone' \subseteq Procs
    BY <1>3 DEF DiskOK, WriteCanon, Changes
  <2> QED
    BY <1>3, <2>1, <2>2, <2>3 DEF DiskOK, WriteCanon, disk
<1>4. ASSUME NEW p \in Procs, Seed(p) PROVE DiskOK'
  <2>1. agents' \in [Places -> Files]
    BY <1>4, FilesIn DEF DiskOK, Seed
  <2>2. alone' \subseteq Procs
    BY <1>4 DEF DiskOK, Seed, Changes
  <2> QED
    BY <1>4, <2>1, <2>2 DEF DiskOK, Seed, disk
<1>5. ASSUME NEW p \in Procs, MakeLink(p) PROVE DiskOK'
  <2>1. agents' \in [Places -> Files]
    BY <1>5, FilesIn DEF DiskOK, MakeLink
  <2>2. spoke' \in [Places -> {"none", "ours", "file"}]
    BY <1>5 DEF DiskOK, MakeLink
  <2>3. alone' \subseteq Procs
    BY <1>5 DEF DiskOK, MakeLink, Changes
  <2> QED
    BY <1>5, <2>1, <2>2, <2>3 DEF DiskOK, MakeLink, disk
<1>6. ASSUME NEW p \in Procs, MakeEntry(p) PROVE DiskOK'
  <2>1. view' \in [Names -> Repos \cup {None, Foreign}]
    BY <1>6, FirstIn DEF DiskOK, MakeEntry, Aimed
  <2>2. alone' \subseteq Procs
    BY <1>6 DEF DiskOK, MakeEntry, Changes
  <2> QED
    BY <1>6, <2>1, <2>2 DEF DiskOK, MakeEntry, disk
<1>7. ASSUME NEW p \in Procs, UnlinkEntry(p) PROVE DiskOK'
  <2>1. view' \in [Names -> Repos \cup {None, Foreign}]
    BY <1>7 DEF DiskOK, UnlinkEntry
  <2>2. alone' \subseteq Procs
    BY <1>7 DEF DiskOK, UnlinkEntry, Changes
  <2> QED
    BY <1>7, <2>1, <2>2 DEF DiskOK, UnlinkEntry, disk
<1>8. ASSUME NEW p \in Procs, Copy(p) PROVE DiskOK'
  <2>1. canon' \in [Names -> Canons]
    <3>1. Name[On(p)] \in Names /\ Prose(agents[On(p)].texts) \in Canons
      BY <1>8, Known, CanonsIn DEF Copy, Over
    <3>2. UNCHANGED canon \/ canon' = [canon EXCEPT ![Name[On(p)]] = Prose(agents[On(p)].texts)]
      BY <1>8 DEF Copy, SetCanon
    <3> QED
      BY <3>1, <3>2, CanonSet DEF DiskOK
  <2>2. alone' \subseteq Procs
    BY <1>8 DEF DiskOK, Copy, Changes
  <2> QED
    BY <1>8, <2>1, <2>2 DEF DiskOK, Copy, disk
<1>9. ASSUME NEW p \in Procs, Unlink(p) PROVE DiskOK'
  <2>1. agents' \in [Places -> Files]
    BY <1>9, FilesIn DEF DiskOK, Unlink
  <2>2. gone' \in SUBSET Nat
    BY <1>9, TextsIn, Known DEF DiskOK, Unlink, Over
  <2>3. alone' \subseteq Procs
    BY <1>9 DEF DiskOK, Unlink, Changes
  <2> QED
    BY <1>9, <2>1, <2>2, <2>3 DEF DiskOK, Unlink, disk
<1>10. ASSUME NEW p \in Procs, Relink(p) PROVE DiskOK'
  <2>1. agents' \in [Places -> Files]
    BY <1>10, FilesIn DEF DiskOK, Relink
  <2>2. alone' \subseteq Procs
    BY <1>10 DEF DiskOK, Relink, Changes
  <2> QED
    BY <1>10, <2>1, <2>2 DEF DiskOK, Relink, disk
<1>11. ASSUME NEW p \in Procs, RemoveLink(p) PROVE DiskOK'
  <2>1. agents' \in [Places -> Files]
    BY <1>11, FilesIn DEF DiskOK, RemoveLink
  <2>2. spoke' \in [Places -> {"none", "ours", "file"}]
    BY <1>11 DEF DiskOK, RemoveLink
  <2>3. view' \in [Names -> Repos \cup {None, Foreign}]
    BY <1>11 DEF DiskOK, RemoveLink
  <2>4. alone' \subseteq Procs
    BY <1>11 DEF DiskOK, RemoveLink, Changes
  <2> QED
    BY <1>11, <2>1, <2>2, <2>3, <2>4 DEF DiskOK, RemoveLink, disk
<1>12. ASSUME NEW p \in Procs, Truncate(p) PROVE DiskOK'
  <2>1. canon' \in [Names -> Canons]
    BY <1>12, CanonsIn DEF DiskOK, Truncate, SetCanon
  <2>2. gone' \in SUBSET Nat
    BY <1>12, TextsIn, Known DEF DiskOK, Truncate, Over
  <2>3. alone' \subseteq Procs
    BY <1>12 DEF DiskOK, Truncate, Changes
  <2> QED
    BY <1>12, <2>1, <2>2, <2>3 DEF DiskOK, Truncate, disk
<1>13. ASSUME NEW p \in Procs, WriteRest(p) PROVE DiskOK'
  <2>1. canon' \in [Names -> Canons]
    <3>1. Name[On(p)] \in Names /\ Unmarked(mem[p].doc) \in Canons
      BY <1>13, Known, CanonsIn DEF WriteRest, Over
    <3>2. UNCHANGED canon \/ canon' = [canon EXCEPT ![Name[On(p)]] = Unmarked(mem[p].doc)]
      BY <1>13 DEF WriteRest, SetCanon
    <3> QED
      BY <3>1, <3>2, CanonSet DEF DiskOK
  <2>2. gone' \in SUBSET Nat
    BY <1>13, TextsIn, Known DEF DiskOK, WriteRest, Over
  <2>3. alone' \subseteq Procs
    BY <1>13 DEF DiskOK, WriteRest, Changes
  <2> QED
    BY <1>13, <2>1, <2>2, <2>3 DEF DiskOK, WriteRest, disk
<1>14. ASSUME NEW p \in Procs, Crash(p) PROVE DiskOK'
  <2>1. gone' \in SUBSET Nat
    BY <1>14, TextsIn, Known, TornIn DEF DiskOK, Crash
  <2>2. alone' \subseteq Procs
    BY <1>14 DEF DiskOK, Crash
  <2> QED
    BY <1>14, <2>1, <2>2 DEF DiskOK, Crash, disk
<1>15. ASSUME NEW p \in Procs, WriteFails(p) PROVE DiskOK'
  <2>1. gone' \in SUBSET Nat
    BY <1>15, TextsIn, Known, TornIn DEF DiskOK, WriteFails
  <2>2. alone' \subseteq Procs
    BY <1>15 DEF DiskOK, WriteFails
  <2> QED
    BY <1>15, <2>1, <2>2 DEF DiskOK, WriteFails, disk
<1>16. ASSUME NEW n \in Names, EditCanon(n) PROVE DiskOK'
  <2>1. canon' \in [Names -> Canons]
    <3> DEFINE c == [canon[n] EXCEPT !.kind = IF canon[n].kind = "none" THEN "prose"
                                              ELSE canon[n].kind,
                              !.texts = canon[n].texts \cup {texts'}]
    <3>1. texts' \in Nat
      BY <1>16 DEF DiskOK, EditCanon
    <3>2. canon[n] \in Canons
      BY DEF DiskOK
    <3>3. c \in Canons
      BY <3>1, <3>2 DEF Canons, CanonKinds
    <3>4. canon' = [canon EXCEPT ![n] = c]
      BY <1>16 DEF EditCanon
    <3> QED
      BY <3>3, <3>4, CanonSet
  <2>2. texts' \in Nat
    BY <1>16 DEF DiskOK, EditCanon
  <2>3. alone' \subseteq Procs
    BY <1>16 DEF DiskOK, EditCanon, People
  <2> QED
    BY <1>16, <2>1, <2>2, <2>3 DEF DiskOK, EditCanon, People, untouched
<1>17. ASSUME NEW n \in Names, SpoilCanon(n) PROVE DiskOK'
  <2>1. canon' \in [Names -> Canons]
    <3>2. canon[n] \in Canons
      BY DEF DiskOK
    <3>3. /\ [canon[n] EXCEPT !.kind = "malformed"] \in Canons
          /\ [NoCanon EXCEPT !.kind = "foreign"] \in Canons
      BY <3>2 DEF Canons, CanonKinds, NoCanon
    <3>4. \/ canon' = [canon EXCEPT ![n] = [canon[n] EXCEPT !.kind = "malformed"]]
          \/ canon' = [canon EXCEPT ![n] = [NoCanon EXCEPT !.kind = "foreign"]]
      BY <1>17 DEF SpoilCanon
    <3> QED
      BY <3>3, <3>4, CanonSet
  <2>2. alone' \subseteq Procs
    BY <1>17 DEF DiskOK, SpoilCanon, People
  <2> QED
    BY <1>17, <2>1, <2>2 DEF DiskOK, SpoilCanon, People, untouched
<1>18. ASSUME NEW n \in Names, SetEntry(n) PROVE DiskOK'
  <2>1. view' \in [Names -> Repos \cup {None, Foreign}]
    BY <1>18 DEF DiskOK, SetEntry, Repos
  <2>2. alone' \subseteq Procs
    BY <1>18 DEF DiskOK, SetEntry, People
  <2> QED
    BY <1>18, <2>1, <2>2 DEF DiskOK, SetEntry, People, untouched
<1>19. ASSUME NEW x \in Hubs \cup Selves, WriteAgents(x) PROVE DiskOK'
  <2>1. agents' \in [Places -> Files]
    <3>1. agents[x] \in Files /\ texts' \in Nat
      BY <1>19 DEF DiskOK, WriteAgents, Places, Repos
    <3>2. [kind |-> "file", texts |-> agents[x].texts \cup {texts'}] \in Files
      BY <3>1, FilesIn
    <3>3. agents'
            = [agents EXCEPT ![x] = [kind |-> "file", texts |-> agents[x].texts \cup {texts'}]]
      BY <1>19 DEF WriteAgents
    <3> QED
      BY <3>2, <3>3 DEF DiskOK
  <2>2. texts' \in Nat
    BY <1>19 DEF DiskOK, WriteAgents
  <2>3. alone' \subseteq Procs
    BY <1>19 DEF DiskOK, WriteAgents, People
  <2> QED
    BY <1>19, <2>1, <2>2, <2>3 DEF DiskOK, WriteAgents, People, untouched
<1>20. ASSUME NEW x \in Hubs \cup Selves, RelinkAgents(x) PROVE DiskOK'
  <2>1. agents' \in [Places -> Files]
    BY <1>20, FilesIn DEF DiskOK, RelinkAgents
  <2>2. alone' \subseteq Procs
    BY <1>20 DEF DiskOK, RelinkAgents, People
  <2> QED
    BY <1>20, <2>1, <2>2 DEF DiskOK, RelinkAgents, People, untouched
<1>21. ASSUME NEW x \in Hubs \cup Selves, WriteSpoke(x) PROVE DiskOK'
  <2>1. spoke' \in [Places -> {"none", "ours", "file"}]
    BY <1>21 DEF DiskOK, WriteSpoke
  <2>2. alone' \subseteq Procs
    BY <1>21 DEF DiskOK, WriteSpoke, People
  <2> QED
    BY <1>21, <2>1, <2>2 DEF DiskOK, WriteSpoke, People, untouched
<1>22. ASSUME NEW x \in Hubs \cup Selves, MoveRepo(x) PROVE DiskOK'
  <2>1. reachable' \subseteq Repos
    BY <1>22 DEF DiskOK, MoveRepo, Repos
  <2>2. alone' \subseteq Procs
    BY <1>22 DEF DiskOK, MoveRepo, People
  <2> QED
    BY <1>22, <2>1, <2>2 DEF DiskOK, MoveRepo, People, untouched
<1>23. ASSUME NEW x \in Hubs \cup Selves, Declare(x) PROVE DiskOK'
  <2>1. manifest' \in Manifests
    BY <1>23 DEF DiskOK, Declare, Manifests, Repos
  <2>2. alone' \subseteq Procs
    BY <1>23 DEF DiskOK, Declare, People
  <2> QED
    BY <1>23, <2>1, <2>2 DEF DiskOK, Declare, People, untouched
<1>24. ASSUME NEW p \in Procs,
            Sync(p) \/ Preset(p) \/ PresetView(p) \/ ReadCanon(p) \/ ReadEnds(p)
            \/ Symlinks(p) \/ SymlinksView(p) \/ LinkEnds(p) \/ Workspace(p)
            \/ EntriesEnd(p) \/ Archive(p) \/ Prune(p) \/ SeedView(p) \/ Retrofit(p)
            \/ Teardown(p) \/ Identity(p) \/ OpenCanon(p)
     PROVE  DiskOK'
  BY <1>24 DEF DiskOK, Sync, Preset, PresetView, ReadCanon, ReadEnds, Symlinks, SymlinksView,
       LinkEnds, Workspace, EntriesEnd, Archive, Prune, SeedView, Retrofit, Teardown,
       Identity, OpenCanon, disk
<1>25. CASE UNCHANGED vars
  BY <1>25 DEF DiskOK, vars, disk
<1> QED
  BY <1>1, <1>2, <1>3, <1>4, <1>5, <1>6, <1>7, <1>8, <1>9, <1>10, <1>11, <1>12, <1>13, <1>14,
       <1>15, <1>16, <1>17, <1>18, <1>19, <1>20, <1>21, <1>22, <1>23, <1>24, <1>25 DEF Next,
       Derive, Other

-----------------------------------------------------------------------------
(* Where a command is and what it has read.                                    *)
Local == pc \in [Procs -> PCs] /\ mem \in [Procs -> Memories]

(* A command goes on to a step that fits what it has read.                     *)
Goes(p, label, m) ==
    /\ pc' = [pc EXCEPT ![p] = label] /\ mem' = [mem EXCEPT ![p] = m]
    /\ label \in PCs /\ m \in Memories
    /\ Fits(label, cmd[p], m)

Stepped(p) == UNCHANGED cmd /\ \E label, m : Goes(p, label, m)

LEMMA Arrives ==
    ASSUME Local, \A q \in Procs : Fits(pc[q], cmd[q], mem[q]),
           NEW p \in Procs, Stepped(p)
    PROVE  Local' /\ \A q \in Procs : Fits(pc'[q], cmd'[q], mem'[q])
<1> PICK label, m : Goes(p, label, m)
  BY DEF Stepped
<1> QED
  BY DEF Local, Stepped, Goes

LEMMA NothingFits ==
    ASSUME NEW label \in Over, NEW c PROVE Fits(label, c, NoMem)
BY DEF Fits, NoMem, Over

LEMMA Ends ==
    ASSUME Local, NEW p \in Procs, NEW label \in Over, End(p, label), UNCHANGED cmd
    PROVE  Stepped(p)
<1>1. Goes(p, label, NoMem)
  BY NothingFits, NoMemIn DEF Goes, End, Goto, PCs
<1> QED
  BY <1>1 DEF Stepped

LEMMA IsDone ==
    ASSUME Local, NEW p \in Procs, Done(p), UNCHANGED cmd
    PROVE  Stepped(p)
BY Ends DEF Done, Over

LEMMA Moves ==
    ASSUME Local, NEW p \in Procs, NEW label \in PCs, Goto(p, label), UNCHANGED <<mem, cmd>>,
           Fits(label, cmd[p], mem[p])
    PROVE  Stepped(p)
<1>1. Goes(p, label, mem[p])
  BY DEF Goes, Goto, Local
<1> QED
  BY <1>1 DEF Stepped

LEMMA Plans ==
    ASSUME Local, NEW p \in Procs, NEW label \in PCs,
           NEW roster \in SUBSET Repos, NEW todo \in SUBSET Items,
           Plan(p, roster, todo, label), UNCHANGED cmd,
           Fits(label, cmd[p], [NoMem EXCEPT !.roster = roster, !.todo = todo,
                                             !.here = roster \cap reachable])
    PROVE  Stepped(p)
<1> DEFINE m == [NoMem EXCEPT !.roster = roster, !.todo = todo, !.here = roster \cap reachable]
<1>1. m \in Memories
  BY NoMemIn DEF Memories
<1>2. Goes(p, label, m)
  BY <1>1 DEF Goes, Plan, Goto
<1> QED
  BY <1>2 DEF Stepped

(* What is left of a plan fits as the plan did.                                *)
LEMMA Drops ==
    ASSUME Local, NEW p \in Procs, NEW item, Drop(p, item), UNCHANGED <<pc, cmd>>,
           Fits(pc[p], cmd[p], mem[p])
    PROVE  Stepped(p)
<1> DEFINE m == [mem[p] EXCEPT !.todo = @ \ {item}]
<1>0. mem[p] \in Memories /\ pc[p] \in PCs
  BY DEF Local
<1>1. m \in Memories
  BY <1>0 DEF Memories
<1>2. /\ m.here = mem[p].here /\ m.roster = mem[p].roster /\ m.target = mem[p].target
      /\ m.doc = mem[p].doc /\ m.next = mem[p].next /\ m.todo \subseteq mem[p].todo
  BY <1>0 DEF Memories
<1>3. Fits(pc[p], cmd[p], m)
  <2> HIDE DEF m
  <2> QED
    BY <1>2 DEF Fits, MayRender
<1>4. Goes(p, pc[p], m)
  BY <1>0, <1>1, <1>3 DEF Goes, Drop, Local
<1> QED
  BY <1>4 DEF Stepped

-----------------------------------------------------------------------------
(* Every step of a command is one that fits.                                   *)
LEMMA Commanded ==
    ASSUME TypeOK, NEW p \in Procs, Fits(pc[p], cmd[p], mem[p]), Derive(p) \/ Other(p)
    PROVE  Stepped(p)
<1>0. Local /\ mem[p] \in Memories /\ manifest.repos \in SUBSET Repos
  BY DEF TypeOK, Local, Manifests
<1>00. pc[p] \notin Over /\ cmd[p] \in Commands
  BY DEF Fits, Derive, Other, Over, Sync, Preset, PresetView, ReadCanon, WriteCanon, ReadEnds,
         Seed, Symlinks, SymlinksView, MakeLink, LinkEnds, Workspace, MakeEntry, EntriesEnd,
         Archive, WriteManifest, Prune, UnlinkEntry, SeedView, Retrofit, Copy, Unlink, Relink,
         Teardown, Identity, RemoveLink, OpenCanon, Truncate, WriteRest
<1>1. CASE Sync(p)
  <2>1. CASE manifest.repos \subseteq manifest.roots
    <3>1. Fits("preset", cmd[p], mem[p])
      BY <1>00 DEF Fits, Over
    <3> QED
      BY <1>0, <1>1, <2>1, <3>1, Moves DEF Sync, PCs
  <2>2. CASE ~(manifest.repos \subseteq manifest.roots)
    <3> DEFINE m == [mem[p] EXCEPT !.manifest = [manifest EXCEPT !.roots = @ \cup manifest.repos]]
    <3>1. m \in Memories
      BY <1>0 DEF TypeOK, Memories, Manifests
    <3>2. Fits("manifest", cmd[p], m)
      BY <1>0, <1>00 DEF Fits, Over, Memories
    <3>3. Goes(p, "manifest", m)
      BY <1>1, <2>2, <3>1, <3>2 DEF Sync, Goes, Goto, PCs
    <3> QED
      BY <1>1, <3>3 DEF Stepped, Sync
  <2> QED
    BY <2>1, <2>2
<1>2. CASE Preset(p)
  <2> DEFINE roster == manifest.repos
             m == [NoMem EXCEPT !.roster = roster, !.todo = PresetPlan(roster),
                                !.here = roster \cap reachable]
  <2>1. PresetPlan(roster) \in SUBSET Items
    BY <1>0, ItemsIn DEF PresetPlan, Here
  <2>2. m.here = roster \cap reachable /\ m.todo = PresetPlan(roster) /\ m.roster = roster
    BY DEF NoMem
  <2>3. \A x \in PresetPlan(roster) : MayRender(m, x)
    BY <2>2 DEF PresetPlan, PresetShared, Here, MayRender
  <2>4. Fits("read", cmd[p], m)
    <3> HIDE DEF m
    <3> QED
      BY <1>00, <2>2, <2>3 DEF Fits, Over
  <2> QED
    BY <1>0, <1>2, <2>1, <2>4, Plans DEF Preset, PCs
<1>3. CASE PresetView(p)
  <2> DEFINE todo == IF ~ViewShared(mem[p].roster) /\ Renderable(View) THEN {View} ELSE {}
             m == [mem[p] EXCEPT !.viewed = TRUE, !.todo = todo]
  <2>1. todo \in SUBSET Items
    BY ItemsIn DEF Places
  <2>2. m \in Memories
    BY <1>0, <2>1 DEF Memories
  <2>3. m.here = mem[p].here /\ m.todo = todo /\ m.roster = mem[p].roster
    BY <1>0 DEF Memories
  <2>4. mem[p].here \subseteq mem[p].roster
    BY DEF Fits
  <2>5. \A x \in todo : MayRender(m, x)
    BY <2>3, <2>4 DEF ViewShared, MayRender
  <2>6. Fits("read", cmd[p], m)
    <3> HIDE DEF m
    <3> QED
      BY <1>00, <2>3, <2>4, <2>5 DEF Fits, Over
  <2>7. Goes(p, "read", m)
    BY <1>0, <1>3, <2>2, <2>6 DEF PresetView, Goes, Local, PCs
  <2> QED
    BY <1>3, <2>7 DEF Stepped, PresetView
<1>4. CASE ReadCanon(p)
  <2> DEFINE x == First(mem[p].todo)
             m == [mem[p] EXCEPT !.todo = @ \ {x}, !.target = x, !.doc = Canon(x),
                                 !.next = Rendered(Canon(x), x)]
  <2>1. x \in mem[p].todo /\ MayRender(mem[p], x)
    BY <1>4, FirstIn DEF ReadCanon, Fits
  <2>2. x \in Places /\ Canon(x) \in Canons
    BY <2>1, NamesIn DEF MayRender, Places, Repos, Canon, TypeOK
  <2>3. Rendered(Canon(x), x) \in Canons
    BY <2>2, CanonsIn
  <2>4. m \in Memories
    BY <1>0, <2>2, <2>3 DEF Memories
  <2>5. /\ m.here = mem[p].here /\ m.todo \subseteq mem[p].todo /\ m.roster = mem[p].roster
        /\ m.target = x /\ m.next = Rendered(m.doc, x)
    BY <1>0 DEF Memories
  <2>6. Fits("write", cmd[p], m)
    <3> HIDE DEF m, x
    <3> QED
      BY <1>4, <1>00, <2>1, <2>5 DEF Fits, Over, MayRender, ReadCanon
  <2>7. mem' = [mem EXCEPT ![p] = m] /\ Goto(p, "write") => Goes(p, "write", m)
    BY <2>4, <2>6 DEF Goes, Goto, PCs
  <2>8. \/ mem' = [mem EXCEPT ![p] = m] /\ Goto(p, "write")
        \/ Drop(p, x) /\ UNCHANGED pc
    BY <1>4, Zenon DEF ReadCanon
  <2> QED
    BY <1>0, <1>4, <2>7, <2>8, Drops DEF Stepped, ReadCanon
<1>5. CASE WriteCanon(p)
  <2>1. Fits("read", cmd[p], mem[p])
    BY <1>5 DEF WriteCanon, Fits, Over
  <2> QED
    BY <1>0, <1>5, <2>1, Moves DEF WriteCanon, PCs
<1>6. CASE ReadEnds(p)
  <2>1. Fits("seed", cmd[p], mem[p])
    BY <1>00 DEF Fits, Over
  <2> QED
    BY <1>0, <1>6, <2>1, Moves, IsDone DEF ReadEnds, PCs
<1>7. CASE Seed(p)
  <2>1. Fits("symlinks", cmd[p], mem[p])
    BY <1>00 DEF Fits, Over
  <2> QED
    BY <1>0, <1>7, <2>1, Moves DEF Seed, PCs
<1>8. CASE Symlinks(p)
  <2> DEFINE roster == manifest.repos
  <2>1. LinkPlan(roster) \in SUBSET Items
    BY <1>0, ItemsIn DEF LinkPlan, Missing, Here, Places
  <2>2. Fits("link", cmd[p], [NoMem EXCEPT !.roster = roster, !.todo = LinkPlan(roster),
                                           !.here = roster \cap reachable])
    BY <1>00 DEF Fits, NoMem, Over
  <2> QED
    BY <1>0, <1>8, <2>1, <2>2, Plans DEF Symlinks, PCs
<1>9. CASE SymlinksView(p)
  <2> DEFINE m == [mem[p] EXCEPT !.viewed = TRUE, !.todo = ViewLinkPlan(mem[p].roster)]
  <2>1. ViewLinkPlan(mem[p].roster) \in SUBSET Items
    BY ItemsIn DEF ViewLinkPlan, Missing, Places
  <2>2. m \in Memories
    BY <1>0, <2>1 DEF Memories
  <2>3. m.here = mem[p].here /\ m.roster = mem[p].roster
    BY <1>0 DEF Memories
  <2>4. Fits("link", cmd[p], m)
    <3> HIDE DEF m
    <3> QED
      BY <1>00, <2>3 DEF Fits, Over
  <2>5. Goes(p, "link", m)
    BY <1>0, <1>9, <2>2, <2>4 DEF SymlinksView, Goes, Local, PCs
  <2> QED
    BY <1>9, <2>5 DEF Stepped, SymlinksView
<1>10. CASE MakeLink(p)
  BY <1>0, <1>10, Drops DEF MakeLink
<1>11. CASE LinkEnds(p)
  <2>1. Fits("workspace", cmd[p], mem[p])
    BY <1>00 DEF Fits, Over
  <2> QED
    BY <1>0, <1>11, <2>1, Moves DEF LinkEnds, PCs
<1>12. CASE Workspace(p)
  <2> DEFINE roster == manifest.repos
  <2>1. EntryPlan(roster) \in SUBSET Repos
    BY <1>0 DEF EntryPlan, Here
  <2>2. Fits("entry", cmd[p], [NoMem EXCEPT !.roster = roster, !.todo = EntryPlan(roster),
                                            !.here = roster \cap reachable])
    BY <1>00, <2>1 DEF Fits, NoMem, Over
  <2> QED
    BY <1>0, <1>12, <2>1, <2>2, ItemsIn, Plans DEF Workspace, PCs
<1>13. CASE MakeEntry(p)
  BY <1>0, <1>13, Drops DEF MakeEntry
<1>14. CASE EntriesEnd(p)
  BY <1>0, <1>14, IsDone DEF EntriesEnd
<1>15. CASE Archive(p)
  <2> DEFINE m == [mem[p] EXCEPT !.manifest = [repos |-> manifest.repos \ {On(p)},
                                               roots |-> manifest.roots \ {On(p)}]]
  <2>1. m \in Memories
    BY <1>0 DEF TypeOK, Memories, Manifests
  <2>2. Fits("manifest", cmd[p], m)
    BY <1>0, <1>00 DEF Fits, Over, Memories
  <2>3. mem' = [mem EXCEPT ![p] = m] /\ Goto(p, "manifest") => Goes(p, "manifest", m)
    BY <2>1, <2>2 DEF Goes, Goto, PCs
  <2>4. \/ mem' = [mem EXCEPT ![p] = m] /\ Goto(p, "manifest")
        \/ Done(p)
    BY <1>15, Zenon DEF Archive
  <2> QED
    BY <1>0, <1>15, <2>3, <2>4, IsDone DEF Archive, Stepped
<1>16. CASE WriteManifest(p)
  <2>1. Fits("preset", cmd[p], mem[p])
    BY <1>00 DEF Fits, Over
  <2> QED
    BY <1>0, <1>16, <2>1, Moves, IsDone DEF WriteManifest, PCs
<1>17. CASE Prune(p)
  <2> DEFINE roster == manifest.repos
             todo == IF roster \subseteq reachable
                     THEN {n \in Names : Stray(n, roster) /\ StrayRepo(n, roster)} ELSE {}
  <2>1. todo \in SUBSET Items
    BY ItemsIn
  <2>2. Fits("unlink_entry", cmd[p], [NoMem EXCEPT !.roster = roster, !.todo = todo,
                                                   !.here = roster \cap reachable])
    BY <1>17, <1>00 DEF Fits, NoMem, Over, Prune
  <2> QED
    BY <1>0, <1>17, <2>1, <2>2, Plans DEF Prune, PCs
<1>18. CASE UnlinkEntry(p)
  BY <1>0, <1>18, Drops DEF UnlinkEntry
<1>19. CASE SeedView(p)
  <2> DEFINE roster == manifest.repos
             todo == IF ~ViewShared(roster) /\ Canon(View).kind = "prose" THEN {View} ELSE {}
             m == [NoMem EXCEPT !.roster = roster, !.todo = todo, !.here = roster \cap reachable]
  <2>1. todo \in SUBSET Items
    BY ItemsIn DEF Places
  <2>2. m.here = roster \cap reachable /\ m.todo = todo /\ m.roster = roster
    BY DEF NoMem
  <2>3. \A x \in todo : MayRender(m, x)
    BY <2>2 DEF ViewShared, MayRender
  <2>4. Fits("read", cmd[p], m)
    <3> HIDE DEF m
    <3> QED
      BY <1>00, <2>2, <2>3 DEF Fits, Over
  <2> QED
    BY <1>0, <1>19, <2>1, <2>4, Plans DEF SeedView, PCs
<1>20. CASE Retrofit(p)
  <2>1. Fits("copy", cmd[p], mem[p])
    BY <1>00 DEF Fits, Over
  <2> QED
    BY <1>0, <1>20, <2>1, Moves, IsDone DEF Retrofit, PCs
<1>21. CASE Copy(p)
  <2> DEFINE m == [mem[p] EXCEPT !.doc = Prose(agents[On(p)].texts)]
  <2>1. On(p) \in Places
    BY <1>00, CommandsKnown DEF On, Places, Repos
  <2>2. agents[On(p)].texts \in SUBSET Nat
    BY <2>1 DEF TypeOK
  <2>3. m \in Memories
    BY <1>0, <2>2, CanonsIn DEF Memories
  <2>4. Fits("unlink", cmd[p], m)
    BY <1>0, <1>00 DEF Fits, Over, Memories
  <2>5. mem' = [mem EXCEPT ![p] = m] /\ Goto(p, "unlink") => Goes(p, "unlink", m)
    BY <2>3, <2>4 DEF Goes, Goto, PCs
  <2>6. \/ mem' = [mem EXCEPT ![p] = m] /\ Goto(p, "unlink")
        \/ Done(p)
    BY <1>21, Zenon DEF Copy
  <2> QED
    BY <1>0, <1>21, <2>5, <2>6, IsDone DEF Copy, Stepped
<1>22. CASE Unlink(p)
  <2>1. Fits("relink", cmd[p], mem[p])
    BY <1>00 DEF Fits, Over
  <2> QED
    BY <1>0, <1>22, <2>1, Moves, IsDone DEF Unlink, PCs
<1>23. CASE Relink(p)
  BY <1>0, <1>23, IsDone DEF Relink
<1>24. CASE Teardown(p)
  <2> DEFINE roster == manifest.repos
             todo == Removable(On(p), roster)
             target == IF On(p) \in reachable THEN On(p) ELSE None
             m == [NoMem EXCEPT !.roster = roster, !.todo = todo, !.target = target]
  <2>1. todo \in SUBSET Items
    BY ItemsIn DEF Removable
  <2>2. target \in Places \cup {None}
    BY DEF TypeOK, Places
  <2>3. m \in Memories
    BY <1>0, <2>1, <2>2, NoMemIn DEF Memories
  <2>4. m.here = {} /\ m.todo = todo /\ m.roster = roster
    BY DEF NoMem
  <2>5. todo \cap {"entry", "canon"} # {} => ~NameTaken(cmd[p][2], roster)
    BY DEF Removable, On
  <2>6. Fits("identity", cmd[p], m)
    <3> HIDE DEF m
    <3> QED
      BY <1>24, <1>00, <2>4, <2>5 DEF Fits, Over, Teardown
  <2>7. \/ Done(p)
        \/ mem' = [mem EXCEPT ![p] = m] /\ Goto(p, "identity")
    BY <1>24, Zenon DEF Teardown
  <2>8. mem' = [mem EXCEPT ![p] = m] /\ Goto(p, "identity") => Goes(p, "identity", m)
    BY <2>3, <2>6 DEF Goes, Goto, PCs
  <2> QED
    BY <1>0, <1>24, <2>7, <2>8, IsDone DEF Teardown, Stepped
<1>25. CASE Identity(p)
  <2>1. Fits("remove", cmd[p], mem[p])
    BY <1>25 DEF Identity, Fits, Over
  <2> QED
    BY <1>0, <1>25, <2>1, Moves, IsDone DEF Identity, PCs
<1>26. CASE RemoveLink(p)
  BY <1>0, <1>26, Drops DEF RemoveLink
<1>27. CASE OpenCanon(p)
  <2> DEFINE m == [mem[p] EXCEPT !.doc = Canon(On(p))]
  <2>1. On(p) \in Places
    BY <1>00, CommandsKnown DEF On, Places, Repos
  <2>2. Canon(On(p)) \in Canons
    BY <2>1, NamesIn DEF TypeOK, Canon
  <2>3. m \in Memories
    BY <1>0, <2>2 DEF Memories
  <2>4. m.here = mem[p].here /\ m.roster = mem[p].roster
    BY <1>0 DEF Memories
  <2>5. \/ Done(p)
        \/ "canon" \in mem[p].todo /\ mem' = [mem EXCEPT ![p] = m] /\ Goto(p, "truncate")
    BY <1>27, Zenon DEF OpenCanon
  <2>6. "canon" \in mem[p].todo => Fits("truncate", cmd[p], m)
    <3> HIDE DEF m
    <3> QED
      BY <1>27, <2>4 DEF Fits, Over, OpenCanon
  <2>7. "canon" \in mem[p].todo /\ mem' = [mem EXCEPT ![p] = m] /\ Goto(p, "truncate")
        => Goes(p, "truncate", m)
    BY <2>3, <2>6 DEF Goes, Goto, PCs
  <2> QED
    BY <1>0, <1>27, <2>5, <2>7, IsDone DEF OpenCanon, Stepped
<1>28. CASE Truncate(p)
  <2>1. Fits("torn", cmd[p], mem[p])
    BY <1>28 DEF Truncate, Fits, Over
  <2> QED
    BY <1>0, <1>28, <2>1, Moves, IsDone DEF Truncate, PCs
<1>29. CASE WriteRest(p)
  BY <1>0, <1>29, IsDone DEF WriteRest
<1> QED
  BY <1>1, <1>2, <1>3, <1>4, <1>5, <1>6, <1>7, <1>8, <1>9, <1>10, <1>11, <1>12, <1>13, <1>14,
     <1>15, <1>16, <1>17, <1>18, <1>19, <1>20, <1>21, <1>22, <1>23, <1>24, <1>25, <1>26, <1>27,
     <1>28, <1>29 DEF Derive, Other

LEMMA Failing ==
    ASSUME TypeOK, NEW p \in Procs, Fits(pc[p], cmd[p], mem[p]), Crash(p) \/ WriteFails(p)
    PROVE  Stepped(p)
<1>0. Local
  BY DEF TypeOK, Local
<1>1. CASE Crash(p)
  BY <1>0, <1>1, Ends DEF Crash, Over
<1>2. CASE WriteFails(p)
  <2>1. CASE pc[p] = "write"
    <3>1. Fits("read", cmd[p], mem[p])
      BY <2>1 DEF Fits, Over
    <3> QED
      BY <1>0, <1>2, <2>1, <3>1, Moves DEF WriteFails, PCs
  <2>2. CASE pc[p] = "seed"
    <3>1. Fits("symlinks", cmd[p], mem[p])
      BY <2>2 DEF Fits, Over
    <3> QED
      BY <1>0, <1>2, <2>2, <3>1, Moves DEF WriteFails, PCs
  <2>3. CASE pc[p] \in {"link", "entry", "unlink_entry", "remove"}
    BY <1>0, <1>2, <2>3, Drops DEF WriteFails
  <2>4. CASE pc[p] \in {"manifest", "copy", "unlink", "relink", "truncate", "torn"}
    BY <1>0, <1>2, <2>4, IsDone DEF WriteFails
  <2> QED
    BY <1>2, <2>1, <2>2, <2>3, <2>4 DEF WriteFails
<1> QED
  BY <1>1, <1>2

(* What people do to the files.                                                *)
Peopled ==
    \/ \E n \in Names : EditCanon(n) \/ SpoilCanon(n) \/ SetEntry(n)
    \/ \E x \in Hubs \cup Selves :
        WriteAgents(x) \/ RelinkAgents(x) \/ WriteSpoke(x) \/ MoveRepo(x) \/ Declare(x)

LEMMA Untouched ==
    ASSUME Peopled PROVE UNCHANGED <<pc, cmd, mem, gone>>
BY DEF Peopled, EditCanon, SpoilCanon, SetEntry, WriteAgents, RelinkAgents, WriteSpoke, MoveRepo,
       Declare, untouched

LEMMA Splits ==
    ASSUME [Next]_vars
    PROVE  \/ \E p \in Procs : Begin(p) \/ Derive(p) \/ Other(p) \/ Crash(p) \/ WriteFails(p)
           \/ Peopled
           \/ UNCHANGED vars
BY DEF Next, Peopled

CmdOK == cmd \in [Procs -> (Operations \cup {"none"}) \X (Repos \cup {None})]

(* Every command goes from step to step as it should.                          *)
LEMMA StepsNext ==
    ASSUME TypeOK, \A q \in Procs : Fits(pc[q], cmd[q], mem[q]), [Next]_vars
    PROVE  Local' /\ CmdOK' /\ \A q \in Procs : Fits(pc'[q], cmd'[q], mem'[q])
<1>0. Local /\ CmdOK
  BY DEF TypeOK, Local, CmdOK
<1>1. ASSUME NEW p \in Procs, Begin(p)
      PROVE  Local' /\ CmdOK' /\ \A q \in Procs : Fits(pc'[q], cmd'[q], mem'[q])
  <2>1. PICK c \in Commands :
            /\ cmd' = [cmd EXCEPT ![p] = c]
            /\ Goto(p, IF c[1] = "derive" THEN "sync" ELSE c[1])
    BY <1>1 DEF Begin
  <2>2. c[1] \in Operations /\ c \in (Operations \cup {"none"}) \X (Repos \cup {None})
    BY CommandsKnown DEF Repos
  <2> DEFINE label == IF c[1] = "derive" THEN "sync" ELSE c[1]
  <2>3. label \in {"sync", "prune", "retrofit", "seed_view", "archive", "teardown"}
    BY <2>2 DEF Operations
  <2>4. mem[p].here \subseteq mem[p].roster
    BY DEF Fits
  <2>5. Fits(label, c, mem[p])
    BY <2>2, <2>3, <2>4 DEF Fits, Over
  <2>6. pc' = [pc EXCEPT ![p] = label] /\ label \in PCs /\ mem' = mem
    BY <1>1, <2>1, <2>3 DEF Begin, Goto, PCs, Operations
  <2> HIDE DEF label
  <2> QED
    BY <1>0, <2>1, <2>2, <2>5, <2>6 DEF Local, CmdOK
<1>2. ASSUME NEW p \in Procs, Derive(p) \/ Other(p) \/ Crash(p) \/ WriteFails(p)
      PROVE  Local' /\ CmdOK' /\ \A q \in Procs : Fits(pc'[q], cmd'[q], mem'[q])
  <2>1. Stepped(p)
    BY <1>2, Commanded, Failing
  <2> QED
    BY <1>0, <2>1, Arrives DEF Stepped, CmdOK
<1>3. CASE Peopled \/ UNCHANGED vars
  BY <1>0, <1>3, Untouched DEF vars, Local, CmdOK
<1> QED
  BY <1>1, <1>2, <1>3, Splits

LEMMA TypeNext ==
    ASSUME TypeOK, \A q \in Procs : Fits(pc[q], cmd[q], mem[q]), [Next]_vars
    PROVE  TypeOK'
<1>1. DiskOK
  BY DEF TypeOK, DiskOK, Files
<1>2. ASSUME NEW p \in Procs PROVE Aimed(p)
  <2>1. cmd[p] \in Commands => On(p) \in Hubs \cup Selves
    BY CommandsKnown DEF On
  <2> QED
    BY <2>1 DEF Aimed, Fits, MayRender, Target, Places, Repos, TypeOK
<1>3. DiskOK'
  BY <1>1, <1>2, DiskNext
<1> QED
  BY <1>3, StepsNext DEF TypeOK, DiskOK, Files, Local, CmdOK

-----------------------------------------------------------------------------
(* No text that is safe is lost.                                               *)
LEMMA OthersStay ==
    ASSUME Local, NEW p \in Procs, Stepped(p), NEW q \in Procs \ {p}
    PROVE  pc'[q] = pc[q] /\ mem'[q] = mem[q] /\ cmd' = cmd
BY DEF Local, Stepped, Goes

LEMMA SafeElsewhere ==
    ASSUME Local, NEW p \in Procs, Stepped(p), NEW t, Safe(t), gone \subseteq gone',
           \A n \in Names : t \in canon[n].texts => Safe(t)',
           pc[p] = "torn" /\ t \in mem[p].doc.texts => Safe(t)'
    PROVE  Safe(t)'
BY OthersStay DEF Safe

Rewrites(p) ==
    WriteCanon(p) \/ Copy(p) \/ Truncate(p) \/ WriteRest(p)

Quiet(p) ==
    \/ Sync(p) \/ Preset(p) \/ PresetView(p) \/ ReadCanon(p) \/ ReadEnds(p) \/ Seed(p)
    \/ Symlinks(p) \/ SymlinksView(p) \/ MakeLink(p) \/ LinkEnds(p) \/ Workspace(p)
    \/ MakeEntry(p) \/ EntriesEnd(p) \/ Archive(p) \/ WriteManifest(p) \/ Prune(p)
    \/ UnlinkEntry(p) \/ SeedView(p) \/ Retrofit(p) \/ Unlink(p) \/ Relink(p) \/ Teardown(p)
    \/ Identity(p) \/ RemoveLink(p) \/ OpenCanon(p)

LEMMA QuietlySafe ==
    ASSUME NEW p \in Procs, Quiet(p)
    PROVE  UNCHANGED canon /\ gone \subseteq gone' /\ pc[p] # "torn"
BY DEF Quiet, Sync, Preset, PresetView, ReadCanon, ReadEnds, Seed, Symlinks, SymlinksView,
       MakeLink, LinkEnds, Workspace, MakeEntry, EntriesEnd, Archive, WriteManifest, Prune,
       UnlinkEntry, SeedView, Retrofit, Unlink, Relink, Teardown, Identity, RemoveLink,
       OpenCanon, disk

LEMMA Placed ==
    ASSUME TypeOK, NEW p \in Procs, Fits(pc[p], cmd[p], mem[p])
    PROVE  /\ pc[p] \notin Over => On(p) \in Hubs \cup Selves /\ Name[On(p)] \in Names
           /\ pc[p] = "write" => Target(p) \in Places /\ Name[Target(p)] \in Names
           /\ mem[p].doc \in Canons /\ mem[p] \in Memories
<1>1. cmd[p] \in Commands => On(p) \in Hubs \cup Selves
  BY CommandsKnown DEF On
<1>2. \A x \in Hubs \cup Selves : x \in Places
  BY DEF Places, Repos
<1> QED
  BY <1>1, <1>2, NamesIn, MemIn DEF Fits, MayRender, Target, Places, Repos, TypeOK

LEMMA SafeStays ==
    ASSUME IInv, [Next]_vars, NEW t, Safe(t)
    PROVE  Safe(t)'
<1>0. Local
  BY DEF IInv, TypeOK, Local
<1>1. ASSUME NEW p \in Procs, Quiet(p) PROVE Safe(t)'
  <2>1. Stepped(p)
    BY <1>1, Commanded DEF Quiet, Derive, Other, IInv
  <2>2. UNCHANGED canon /\ gone \subseteq gone' /\ pc[p] # "torn"
    BY <1>1, QuietlySafe
  <2>3. \A n \in Names : t \in canon[n].texts => Safe(t)'
    BY <2>2 DEF Safe
  <2> QED
    BY <1>0, <2>1, <2>2, <2>3, SafeElsewhere
<1>2. ASSUME NEW p \in Procs, Rewrites(p) PROVE Safe(t)'
  <2>1. Stepped(p)
    BY <1>2, Commanded DEF Rewrites, Derive, Other, IInv
  <2>2. On(p) \in Hubs \cup Selves /\ Name[On(p)] \in Names
        /\ (pc[p] = "write" => Name[Target(p)] \in Names)
    BY <1>2, Placed DEF IInv, Rewrites, WriteCanon, Copy, Truncate, WriteRest, Over
  <2>3. canon \in [Names -> Canons] /\ mem \in [Procs -> Memories] /\ pc \in [Procs -> PCs]
    BY DEF IInv, TypeOK
  <2>4. CASE WriteCanon(p)
    <3>1. gone' = gone \cup (canon[Name[Target(p)]].texts \ mem[p].doc.texts) /\ pc[p] = "write"
          /\ canon' = [canon EXCEPT ![Name[Target(p)]] = mem[p].next]
      BY <2>4 DEF WriteCanon, Canon, SetCanon
    <3>2. mem[p].next.texts = mem[p].doc.texts
      <4>1. mem[p].next = Rendered(mem[p].doc, mem[p].target)
        BY <3>1 DEF IInv, Fits
      <4> QED
        BY <2>3, <4>1, Placed DEF Rendered, Canons
    <3>3. \A n \in Names : t \in canon[n].texts => Safe(t)'
      BY <2>2, <2>3, <3>1, <3>2 DEF Safe
    <3> QED
      BY <1>0, <2>1, <3>1, <3>3, SafeElsewhere
  <2>5. CASE Copy(p)
    <3>1. pc[p] = "copy" /\ gone' = gone
      BY <2>5 DEF Copy
    <3>2. \/ canon' = canon
          \/ /\ canon[Name[On(p)]].kind = "none"
             /\ canon' = [canon EXCEPT ![Name[On(p)]] = Prose(agents[On(p)].texts)]
      BY <2>5 DEF Copy, SetCanon, Canon
    <3>3. canon[Name[On(p)]].kind = "none" => canon[Name[On(p)]].texts = {}
      BY <2>2 DEF IInv, Plain
    <3>4. \A n \in Names : t \in canon[n].texts => t \in canon'[n].texts
      BY <2>2, <2>3, <3>2, <3>3
    <3> QED
      BY <1>0, <2>1, <3>1, <3>4, SafeElsewhere DEF Safe
  <2>6. CASE Truncate(p)
    <3>1. pc[p] = "truncate" /\ gone \subseteq gone'
      BY <2>6 DEF Truncate
    <3>2. CASE /\ canon' = [canon EXCEPT ![Name[On(p)]] = Emptied]
               /\ gone' = gone \cup (canon[Name[On(p)]].texts \ mem[p].doc.texts)
               /\ Goto(p, "torn") /\ UNCHANGED mem
      <4>1. pc'[p] = "torn" /\ mem'[p].doc.texts = mem[p].doc.texts
        BY <2>3, <3>2 DEF Goto
      <4>2. \A n \in Names : t \in canon[n].texts => Safe(t)'
        BY <2>2, <2>3, <3>2, <4>1 DEF Safe
      <4> QED
        BY <1>0, <2>1, <3>1, <4>2, SafeElsewhere
    <3>3. CASE canon' = canon
      BY <1>0, <2>1, <3>1, <3>3, SafeElsewhere DEF Safe
    <3> QED
      BY <2>6, <3>2, <3>3 DEF Truncate, SetCanon, Canon
  <2>7. CASE WriteRest(p)
    <3>1. CASE /\ canon[Name[On(p)]] = Emptied /\ UNCHANGED gone
               /\ canon' = [canon EXCEPT ![Name[On(p)]] = Unmarked(mem[p].doc)]
      <4>1. canon'[Name[On(p)]].texts = mem[p].doc.texts /\ canon[Name[On(p)]].texts = {}
        BY <2>2, <2>3, <3>1 DEF Unmarked, Prose, Emptied
      <4>2. \A n \in Names : t \in canon[n].texts => t \in canon'[n].texts
        BY <2>2, <2>3, <3>1, <4>1
      <4> QED
        BY <1>0, <2>1, <2>2, <3>1, <4>1, <4>2, SafeElsewhere DEF Safe
    <3>2. CASE /\ canon' = canon
               /\ gone' = gone \cup (mem[p].doc.texts \ canon[Name[On(p)]].texts)
      BY <1>0, <2>1, <2>2, <3>2, SafeElsewhere DEF Safe
    <3> QED
      BY <2>7, <3>1, <3>2 DEF WriteRest, SetCanon, Canon
  <2> QED
    BY <1>2, <2>4, <2>5, <2>6, <2>7 DEF Rewrites
<1>3. ASSUME NEW p \in Procs, Crash(p) \/ WriteFails(p) PROVE Safe(t)'
  <2>1. Stepped(p)
    BY <1>3, Failing DEF IInv
  <2>2. canon' = canon /\ gone' = gone \cup Torn(p)
    BY <1>3 DEF Crash, WriteFails, disk
  <2>3. pc[p] = "torn" => Name[On(p)] \in Names
    BY Placed DEF IInv, Over
  <2> QED
    BY <1>0, <2>1, <2>2, <2>3, SafeElsewhere DEF Safe, Torn, Canon
<1>4. CASE Peopled
  <2>1. UNCHANGED <<pc, mem, gone>>
    BY <1>4, Untouched
  <2>2. canon \in [Names -> Canons]
    BY DEF IInv, TypeOK
  <2>3. ASSUME NEW n \in Names, EditCanon(n) PROVE Safe(t)'
    BY <2>1, <2>2, <2>3 DEF EditCanon, Safe, Canons
  <2>4. ASSUME NEW n \in Names, SpoilCanon(n) PROVE Safe(t)'
    BY <2>1, <2>2, <2>4 DEF SpoilCanon, Safe, Canons
  <2>5. ASSUME UNCHANGED canon PROVE Safe(t)'
    BY <2>1, <2>5 DEF Safe
  <2> QED
    BY <1>4, <2>3, <2>4, <2>5 DEF Peopled, SetEntry, WriteAgents, RelinkAgents, WriteSpoke,
                                   MoveRepo, Declare
<1>5. ASSUME NEW p \in Procs, Begin(p) PROVE Safe(t)'
  <2>1. UNCHANGED <<canon, gone, mem>> /\ pc[p] # "torn"
        /\ \A q \in Procs \ {p} : pc'[q] = pc[q]
    BY <1>0, <1>5 DEF Begin, disk, Goto, Over, Local
  <2> QED
    BY <2>1 DEF Safe
<1>6. CASE UNCHANGED vars
  BY <1>6 DEF vars, disk, Safe
<1>7. \A p \in Procs : Derive(p) \/ Other(p) => Quiet(p) \/ Rewrites(p)
  BY DEF Derive, Other, Quiet, Rewrites
<1> QED
  BY <1>1, <1>2, <1>3, <1>4, <1>5, <1>6, <1>7, Splits

-----------------------------------------------------------------------------
(* What the files hold, and how they change.                                   *)
Filed(f) == f.kind # "file" => f.texts = {}

(* Nothing a changed instruction file held is lost.                            *)
Changed(x, f) ==
    /\ x \in Places /\ agents' = [agents EXCEPT ![x] = f]
    /\ Filed(f)
    /\ \A t \in agents[x].texts : t \in f.texts \/ Safe(t)'

LEMMA OursFiled ==
    /\ Filed(Nothing) /\ Filed(Ours) /\ Filed([Nothing EXCEPT !.kind = "foreign"])
    /\ \A T : Filed([kind |-> "file", texts |-> T])
BY DEF Filed, Nothing, Ours

LEMMA Agents ==
    ASSUME IInv, [Next]_vars
    PROVE  UNCHANGED agents \/ \E x, f : Changed(x, f)
<1>0. /\ Anchor \in Places /\ Hubs \cup Selves \subseteq Places
      /\ \A x \in Places : agents[x].kind # "file" => agents[x].texts = {}
  BY DEF Places, Repos, IInv, Plain
<1>1. ASSUME NEW p \in Procs, Seed(p) PROVE UNCHANGED agents \/ \E x, f : Changed(x, f)
  <2>1. ASSUME ~UNCHANGED agents PROVE Changed(Anchor, [kind |-> "file", texts |-> {}])
    BY <1>0, <1>1, <2>1, OursFiled DEF Seed, Changed
  <2> QED
    BY <2>1
<1>2. ASSUME NEW p \in Procs, MakeLink(p) PROVE UNCHANGED agents \/ \E x, f : Changed(x, f)
  <2> DEFINE x == First(mem[p].todo)[1]
  <2>1. ASSUME ~UNCHANGED agents
        PROVE  agents' = [agents EXCEPT ![x] = Ours] /\ <<x, "agents">> \in Missing(x)
               /\ x \in reachable \cup {View}
    BY <1>2, <2>1 DEF MakeLink, Missing
  <2>2. ASSUME ~UNCHANGED agents PROVE x \in Places /\ agents[x].texts = {}
    <3>1. x \in Places
      BY <2>1, <2>2 DEF IInv, TypeOK, Places
    <3>2. agents[x].kind = "none"
      BY <2>1, <2>2 DEF Missing
    <3> QED
      BY <1>0, <3>1, <3>2
  <2>3. ASSUME ~UNCHANGED agents PROVE Changed(x, Ours)
    BY <2>1, <2>2, <2>3, OursFiled DEF Changed
  <2> QED
    BY <2>3
<1>3. ASSUME NEW p \in Procs, Unlink(p) PROVE UNCHANGED agents \/ \E x, f : Changed(x, f)
  <2>1. pc[p] = "unlink" /\ On(p) \in Places
    BY <1>0, <1>3, Placed DEF IInv, Unlink, Over
  <2>2. ASSUME ~UNCHANGED agents
        PROVE  /\ agents' = [agents EXCEPT ![On(p)] = Nothing]
               /\ gone' = gone \cup (agents[On(p)].texts \ mem[p].doc.texts)
    BY <1>3, <2>2 DEF Unlink
  <2>3. \A t \in mem[p].doc.texts : Safe(t)'
    BY <2>1, SafeStays DEF IInv, Copied
  <2>4. ASSUME ~UNCHANGED agents PROVE Changed(On(p), Nothing)
    BY <2>1, <2>2, <2>3, <2>4, OursFiled DEF Changed, Safe
  <2> QED
    BY <2>4
<1>4. ASSUME NEW p \in Procs, Relink(p) PROVE UNCHANGED agents \/ \E x, f : Changed(x, f)
  <2>1. On(p) \in Places
    BY <1>0, <1>4, Placed DEF IInv, Relink, Over
  <2>2. ASSUME ~UNCHANGED agents PROVE Changed(On(p), Ours)
    BY <1>0, <1>4, <2>1, <2>2, OursFiled DEF Relink, Changed
  <2> QED
    BY <2>2
<1>5. ASSUME NEW p \in Procs, RemoveLink(p) PROVE UNCHANGED agents \/ \E x, f : Changed(x, f)
  <2>1. On(p) \in Places
    BY <1>0, <1>5, Placed DEF IInv, RemoveLink, Over
  <2>2. ASSUME ~UNCHANGED agents PROVE Changed(On(p), Nothing)
    BY <1>0, <1>5, <2>1, <2>2, OursFiled DEF RemoveLink, Changed
  <2> QED
    BY <2>2
<1>6. ASSUME NEW x \in Hubs \cup Selves, WriteAgents(x)
      PROVE  UNCHANGED agents \/ \E y, f : Changed(y, f)
  <2>1. agents' = [agents EXCEPT ![x] = [kind |-> "file", texts |-> agents[x].texts \cup {texts'}]]
    BY <1>6 DEF WriteAgents
  <2>2. Changed(x, [kind |-> "file", texts |-> agents[x].texts \cup {texts'}])
    BY <1>0, <2>1, OursFiled DEF Changed
  <2> QED
    BY <2>2
<1>7. ASSUME NEW x \in Hubs \cup Selves, RelinkAgents(x)
      PROVE  UNCHANGED agents \/ \E y, f : Changed(y, f)
  <2>1. Changed(x, [Nothing EXCEPT !.kind = "foreign"])
    BY <1>0, <1>7, OursFiled DEF RelinkAgents, Changed
  <2> QED
    BY <2>1
<1>8. ASSUME NEW p \in Procs,
             Derive(p) \/ Other(p) \/ Begin(p) \/ Crash(p) \/ WriteFails(p),
             ~Seed(p), ~MakeLink(p), ~Unlink(p), ~Relink(p), ~RemoveLink(p)
      PROVE  UNCHANGED agents
  <2>1. ASSUME Sync(p) \/ Preset(p) \/ PresetView(p) \/ ReadCanon(p) \/ WriteCanon(p)
               \/ ReadEnds(p) \/ Symlinks(p) \/ SymlinksView(p) \/ LinkEnds(p)
               \/ Workspace(p) \/ MakeEntry(p) \/ EntriesEnd(p)
        PROVE  UNCHANGED agents
    BY <2>1 DEF Sync, Preset, PresetView, ReadCanon, WriteCanon, ReadEnds, Symlinks, SymlinksView,
                LinkEnds, Workspace, MakeEntry, EntriesEnd, disk
  <2>2. ASSUME Archive(p) \/ WriteManifest(p) \/ Prune(p) \/ UnlinkEntry(p) \/ SeedView(p)
               \/ Retrofit(p) \/ Copy(p) \/ Teardown(p) \/ Identity(p) \/ OpenCanon(p)
               \/ Truncate(p) \/ WriteRest(p)
        PROVE  UNCHANGED agents
    BY <2>2 DEF Archive, WriteManifest, Prune, UnlinkEntry, SeedView, Retrofit, Copy, Teardown,
                Identity, OpenCanon, Truncate, WriteRest, disk
  <2>3. ASSUME Begin(p) \/ Crash(p) \/ WriteFails(p) PROVE UNCHANGED agents
    BY <2>3 DEF Begin, Crash, WriteFails, disk
  <2> QED
    BY <1>8, <2>1, <2>2, <2>3 DEF Derive, Other
<1>9. CASE UNCHANGED vars
  BY <1>9 DEF vars, disk
<1>10. ASSUME Peopled, ~\E x \in Hubs \cup Selves : WriteAgents(x) \/ RelinkAgents(x)
       PROVE  UNCHANGED agents
  BY <1>10 DEF Peopled, EditCanon, SpoilCanon, SetEntry, WriteSpoke, MoveRepo, Declare
<1> QED
  BY <1>1, <1>2, <1>3, <1>4, <1>5, <1>6, <1>7, <1>8, <1>9, <1>10, Splits

(* A canonical that is not a file of ours holds no text, and one that has a    *)
(* block has it for a place of its name.                                       *)
Lawful(n, c) ==
    /\ c.kind \in {"none", "foreign"} => c.texts = {}
    /\ c.of # None => c.of \in Hubs \cup {View} /\ Name[c.of] = n

LEMMA ProseLawful ==
    /\ \A n, T : Lawful(n, Prose(T))
    /\ \A n : Lawful(n, Emptied) /\ Lawful(n, [NoCanon EXCEPT !.kind = "foreign"])
    /\ \A n, doc : Lawful(n, Unmarked(doc))
    /\ \A doc, x : x \in Hubs \cup {View} => Lawful(Name[x], Rendered(doc, x))
BY DEF Lawful, Prose, Emptied, NoCanon, Unmarked, Rendered

LEMMA CanonLaw ==
    ASSUME IInv, NEW n \in Names, NEW c, Lawful(n, c), canon' = [canon EXCEPT ![n] = c]
    PROVE  \A m \in Names : Lawful(m, canon'[m])
BY DEF IInv, TypeOK, Plain, Lawful

LEMMA CanonsNext ==
    ASSUME IInv, [Next]_vars
    PROVE  \A m \in Names : Lawful(m, canon'[m])
<1>0. /\ \A m \in Names : Lawful(m, canon[m])
      /\ canon \in [Names -> Canons]
  BY DEF IInv, Plain, Lawful, TypeOK
<1>1. ASSUME NEW p \in Procs, WriteCanon(p) PROVE \A m \in Names : Lawful(m, canon'[m])
  <2>1. pc[p] = "write" /\ canon' = [canon EXCEPT ![Name[Target(p)]] = mem[p].next]
    BY <1>1 DEF WriteCanon, SetCanon
  <2>2. MayRender(mem[p], mem[p].target) /\ mem[p].next = Rendered(mem[p].doc, mem[p].target)
    BY <2>1 DEF IInv, Fits
  <2>3. Name[Target(p)] \in Names /\ Lawful(Name[Target(p)], mem[p].next)
    BY <2>1, <2>2, ProseLawful, Placed DEF IInv, MayRender, Target
  <2> QED
    BY <2>1, <2>3, CanonLaw
<1>2. ASSUME NEW p \in Procs, Copy(p) \/ Truncate(p) \/ WriteRest(p)
      PROVE  \A m \in Names : Lawful(m, canon'[m])
  <2>1. Name[On(p)] \in Names
    BY <1>2, Placed DEF IInv, Copy, Truncate, WriteRest, Over
  <2>2. \/ UNCHANGED canon
        \/ canon' = [canon EXCEPT ![Name[On(p)]] = Prose(agents[On(p)].texts)]
        \/ canon' = [canon EXCEPT ![Name[On(p)]] = Emptied]
        \/ canon' = [canon EXCEPT ![Name[On(p)]] = Unmarked(mem[p].doc)]
    BY <1>2 DEF Copy, Truncate, WriteRest, SetCanon
  <2> QED
    BY <1>0, <2>1, <2>2, ProseLawful, CanonLaw
<1>3. ASSUME NEW n \in Names, EditCanon(n) PROVE \A m \in Names : Lawful(m, canon'[m])
  <2> DEFINE c == [canon[n] EXCEPT !.kind = IF canon[n].kind = "none" THEN "prose"
                                            ELSE canon[n].kind,
                            !.texts = canon[n].texts \cup {texts'}]
  <2>1. canon' = [canon EXCEPT ![n] = c] /\ canon[n].kind # "foreign"
    BY <1>3 DEF EditCanon
  <2>2. c.kind \notin {"none", "foreign"} /\ c.of = canon[n].of
    BY <1>0, <2>1 DEF Canons
  <2>3. Lawful(n, c)
    <3> HIDE DEF c
    <3> QED
      BY <1>0, <2>2 DEF Lawful
  <2> QED
    BY <2>1, <2>3, CanonLaw
<1>4. ASSUME NEW n \in Names, SpoilCanon(n) PROVE \A m \in Names : Lawful(m, canon'[m])
  <2> DEFINE c == [canon[n] EXCEPT !.kind = "malformed"]
  <2>1. \/ canon' = [canon EXCEPT ![n] = c]
        \/ canon' = [canon EXCEPT ![n] = [NoCanon EXCEPT !.kind = "foreign"]]
    BY <1>4 DEF SpoilCanon
  <2>2. c.kind = "malformed" /\ c.of = canon[n].of
    BY <1>0 DEF Canons
  <2>3. Lawful(n, c)
    <3> HIDE DEF c
    <3> QED
      BY <1>0, <2>2 DEF Lawful
  <2> QED
    BY <2>1, <2>3, CanonLaw, ProseLawful
<1>5. ASSUME NEW p \in Procs, Quiet(p) \/ Begin(p) \/ Crash(p) \/ WriteFails(p)
      PROVE  UNCHANGED canon
  BY <1>5, QuietlySafe DEF Begin, Crash, WriteFails, disk
<1>6. CASE UNCHANGED vars
  BY <1>0, <1>6 DEF vars, disk
<1>7. ASSUME Peopled, ~\E n \in Names : EditCanon(n) \/ SpoilCanon(n) PROVE UNCHANGED canon
  BY <1>7 DEF Peopled, SetEntry, WriteAgents, RelinkAgents, WriteSpoke, MoveRepo, Declare
<1>8. \A p \in Procs : Derive(p) \/ Other(p) => Quiet(p) \/ Rewrites(p)
  BY DEF Derive, Other, Quiet, Rewrites
<1> QED
  BY <1>0, <1>1, <1>2, <1>3, <1>4, <1>5, <1>6, <1>7, <1>8, Splits DEF Rewrites

LEMMA PlainNext ==
    ASSUME IInv, [Next]_vars
    PROVE  Plain'
<1>1. \A x \in Places : agents'[x].kind # "file" => agents'[x].texts = {}
  <2>1. agents \in [Places -> [kind : Kinds, texts : SUBSET Nat]]
        /\ \A x \in Places : Filed(agents[x])
    BY DEF IInv, TypeOK, Plain, Filed
  <2>2. ASSUME NEW x, NEW f, Changed(x, f) PROVE \A y \in Places : Filed(agents'[y])
    BY <2>1, <2>2 DEF Changed
  <2> QED
    BY <2>1, <2>2, Agents DEF Filed
<1> QED
  BY <1>1, CanonsNext DEF Plain, Lawful

(* Texts are numbered in turn, each new one into a file of its own.            *)
LEMMA Written ==
    ASSUME IInv, [Next]_vars
    PROVE  \/ texts' = texts
           \/ /\ texts' = texts + 1
              /\ \/ \E x \in Places : texts' \in agents'[x].texts
                 \/ \E n \in Names : texts' \in canon'[n].texts
<1>0. texts \in Nat /\ canon \in [Names -> Canons]
      /\ agents \in [Places -> [kind : Kinds, texts : SUBSET Nat]]
  BY DEF IInv, TypeOK
<1>1. ASSUME NEW n \in Names, EditCanon(n) PROVE texts' = texts + 1 /\ texts' \in canon'[n].texts
  <2> DEFINE c == [canon[n] EXCEPT !.kind = IF canon[n].kind = "none" THEN "prose"
                                            ELSE canon[n].kind,
                            !.texts = canon[n].texts \cup {texts'}]
  <2>1. canon' = [canon EXCEPT ![n] = c] /\ texts' = texts + 1
    BY <1>1 DEF EditCanon
  <2>2. texts' \in c.texts
    BY <1>0 DEF Canons
  <2> QED
    BY <1>0, <2>1, <2>2
<1>2. ASSUME NEW x \in Hubs \cup Selves, WriteAgents(x)
      PROVE  texts' = texts + 1 /\ x \in Places /\ texts' \in agents'[x].texts
  BY <1>0, <1>2 DEF WriteAgents, Places, Repos
<1>3. ASSUME NEW p \in Procs, Begin(p) \/ Derive(p) \/ Other(p) \/ Crash(p) \/ WriteFails(p)
      PROVE  UNCHANGED texts
  BY <1>3 DEF Derive, Other, Begin, Crash, WriteFails, Sync, Preset, PresetView, ReadCanon,
       WriteCanon, ReadEnds, Seed, Symlinks, SymlinksView, MakeLink, LinkEnds, Workspace,
       MakeEntry, EntriesEnd, Archive, WriteManifest, Prune, UnlinkEntry, SeedView, Retrofit,
       Copy, Unlink, Relink, Teardown, Identity, RemoveLink, OpenCanon, Truncate, WriteRest
<1>4. CASE UNCHANGED vars
  BY <1>4 DEF vars
<1>5. ASSUME Peopled, ~\E n \in Names : EditCanon(n),
             ~\E x \in Hubs \cup Selves : WriteAgents(x)
      PROVE  UNCHANGED texts
  BY <1>5 DEF Peopled, SpoilCanon, SetEntry, RelinkAgents, WriteSpoke, MoveRepo, Declare
<1> QED
  BY <1>1, <1>2, <1>3, <1>4, <1>5, Splits

LEMMA ProseNext ==
    ASSUME IInv, [Next]_vars
    PROVE  ProseKept'
<1> SUFFICES ASSUME NEW t \in 1 .. texts'
             PROVE  (\E x \in Places : t \in agents'[x].texts) \/ Safe(t)'
  BY DEF ProseKept, Safe
<1>0. texts \in Nat /\ agents \in [Places -> [kind : Kinds, texts : SUBSET Nat]]
  BY DEF IInv, TypeOK
<1>1. t \in 1 .. texts \/ (t = texts' /\ texts' = texts + 1)
  BY <1>0, Written
<1>2. CASE t = texts' /\ texts' = texts + 1
  BY <1>0, <1>2, Written DEF Safe
<1>3. CASE t \in 1 .. texts
  <2>1. (\E x \in Places : t \in agents[x].texts) \/ Safe(t)
    BY <1>3 DEF IInv, ProseKept, Safe
  <2>2. CASE Safe(t)
    BY <2>2, SafeStays
  <2>3. ASSUME NEW x \in Places, t \in agents[x].texts
        PROVE  (\E y \in Places : t \in agents'[y].texts) \/ Safe(t)'
    <3>1. ASSUME NEW y, NEW f, Changed(y, f) PROVE t \in agents'[x].texts \/ Safe(t)'
      BY <1>0, <2>3, <3>1 DEF Changed
    <3> QED
      BY <2>3, <3>1, Agents
  <2> QED
    BY <2>1, <2>2, <2>3
<1> QED
  BY <1>1, <1>2, <1>3

(* Only what was just copied is unlinked.                                      *)
LEMMA UnlinksCopied ==
    ASSUME IInv, [Next]_vars, NEW q \in Procs, pc'[q] = "unlink"
    PROVE  Copy(q) \/ (pc[q] = "unlink" /\ mem'[q] = mem[q])
<1>0. Local
  BY DEF IInv, TypeOK, Local
<1>1. ASSUME NEW p \in Procs \ {q}, Derive(p) \/ Other(p) \/ Crash(p) \/ WriteFails(p)
      PROVE  pc[q] = "unlink" /\ mem'[q] = mem[q]
  <2>1. Stepped(p)
    BY <1>1, Commanded, Failing DEF IInv
  <2> QED
    BY <1>0, <2>1, OthersStay
<1>2. ASSUME NEW p \in Procs, Begin(p) PROVE pc[q] = "unlink" /\ mem'[q] = mem[q]
  <2>1. PICK c \in Commands : Goto(p, IF c[1] = "derive" THEN "sync" ELSE c[1])
    BY <1>2 DEF Begin
  <2>2. c[1] \in Operations
    BY CommandsKnown
  <2> QED
    BY <1>0, <1>2, <2>1, <2>2 DEF Begin, Goto, Operations, Local
<1>3. ASSUME Derive(q) PROVE FALSE
  <2>1. CASE Sync(q) \/ Preset(q) \/ PresetView(q) \/ ReadCanon(q) \/ WriteCanon(q)
             \/ ReadEnds(q) \/ Seed(q)
    BY <1>0, <2>1 DEF Sync, Preset, PresetView, ReadCanon, WriteCanon, ReadEnds, Seed, Done, End,
                      Goto, Plan, Local
  <2>2. CASE Symlinks(q) \/ SymlinksView(q) \/ MakeLink(q) \/ LinkEnds(q) \/ Workspace(q)
             \/ MakeEntry(q) \/ EntriesEnd(q)
    BY <1>0, <2>2 DEF Symlinks, SymlinksView, MakeLink, LinkEnds, Workspace, MakeEntry,
                      EntriesEnd, Done, End, Goto, Plan, Local
  <2> QED
    BY <1>3, <2>1, <2>2 DEF Derive
<1>4. ASSUME Other(q), ~Copy(q) PROVE FALSE
  <2>1. CASE Archive(q) \/ WriteManifest(q) \/ Prune(q) \/ UnlinkEntry(q) \/ SeedView(q)
             \/ Retrofit(q) \/ Unlink(q) \/ Relink(q)
    BY <1>0, <2>1 DEF Archive, WriteManifest, Prune, UnlinkEntry, SeedView, Retrofit, Unlink,
                      Relink, Done, End, Goto, Plan, Local
  <2>2. CASE Teardown(q) \/ Identity(q) \/ RemoveLink(q) \/ OpenCanon(q) \/ Truncate(q)
             \/ WriteRest(q)
    BY <1>0, <2>2 DEF Teardown, Identity, RemoveLink, OpenCanon, Truncate, WriteRest, Done, End,
                      Goto, Local
  <2> QED
    BY <1>4, <2>1, <2>2 DEF Other
<1>5. ASSUME Crash(q) \/ WriteFails(q) PROVE FALSE
  BY <1>0, <1>5 DEF Crash, WriteFails, Done, End, Goto, Local
<1>6. CASE Peopled \/ UNCHANGED vars
  BY <1>6, Untouched DEF vars
<1> QED
  BY <1>1, <1>2, <1>3, <1>4, <1>5, <1>6, Splits

LEMMA CopiedNext ==
    ASSUME IInv, [Next]_vars, NEW q \in Procs
    PROVE  Copied(q)'
<1>1. ASSUME Copy(q), pc'[q] = "unlink" PROVE \A t \in mem'[q].doc.texts : Safe(t)'
  <2>0. canon \in [Names -> Canons] /\ Local /\ Name[On(q)] \in Names /\ mem[q] \in Memories
    BY <1>1, Placed DEF IInv, TypeOK, Local, Copy, Over
  <2> DEFINE doc == Prose(agents[On(q)].texts)
  <2>1. /\ mem' = [mem EXCEPT ![q] = [mem[q] EXCEPT !.doc = doc]]
        /\ canon' = [canon EXCEPT ![Name[On(q)]] = doc]
    BY <1>1, <2>0 DEF Copy, Done, End, Goto, SetCanon, Local
  <2>2. mem'[q].doc = doc /\ canon'[Name[On(q)]] = doc
    BY <2>0, <2>1 DEF Local, Memories
  <2> QED
    BY <2>0, <2>2 DEF Safe
<1> QED
  BY <1>1, UnlinksCopied, SafeStays DEF Copied, IInv

-----------------------------------------------------------------------------
LEMMA OwnerIn ==
    ASSUME NEW n, NEW S, Owner(n, S) # None
    PROVE  Owner(n, S) \in S /\ Name[Owner(n, S)] = n
<1> DEFINE owners == {x \in S : Name[x] = n}
<1>1. Cardinality(owners) = 1
  BY DEF Owner
<1>2. owners # {}
  BY <1>1, FS_EmptySet
<1>3. (CHOOSE x \in owners : TRUE) \in owners
  BY <1>2
<1> QED
  BY <1>1, <1>3 DEF Owner

LEMMA InitInv ==
    ASSUME Init
    PROVE  IInv
<1> PICK declared \in SUBSET (Hubs \cup Selves), fresh \in Starts, author \in Repos \cup {None} :
        LET wired == (declared \cup {Anchor, View}) \ fresh
            block(n) == Owner(n, {x \in wired : x \in Hubs \cup {View}})
        IN
        /\ author \in fresh \cup {None}
        /\ manifest = [repos |-> declared \cup {Anchor}, roots |-> {Anchor}]
        /\ reachable = Repos
        /\ agents = [x \in Places |->
                       IF x = author THEN [kind |-> "file", texts |-> {1}]
                       ELSE IF x \notin wired THEN Nothing
                       ELSE IF x \in Selves \cup {Anchor} THEN [kind |-> "file", texts |-> {}]
                       ELSE IF block(Name[x]) = x THEN Ours ELSE Nothing]
        /\ spoke = [x \in Places |->
                      IF x \in wired /\ (x \in Hubs => block(Name[x]) = x)
                      THEN "ours" ELSE "none"]
        /\ canon = [n \in Names |->
                      IF block(n) = None THEN NoCanon
                      ELSE [kind |-> "marked", of |-> block(n), texts |-> {}]]
        /\ view = [n \in Names |-> Owner(n, wired \cap Repos)]
        /\ texts = IF author = None THEN 0 ELSE 1
        /\ pc = [p \in Procs |-> "idle"]
        /\ cmd = [p \in Procs |-> <<"none", None>>]
        /\ mem = [p \in Procs |-> NoMem]
        /\ gone = {} /\ alone = {}
        /\ begun = 0 /\ troubles = 0
  BY Zenon DEF Init
<1> DEFINE wired == (declared \cup {Anchor, View}) \ fresh
           block(n) == Owner(n, {x \in wired : x \in Hubs \cup {View}})
<1>1. \A n : block(n) # None => block(n) \in Hubs \cup {View} /\ Name[block(n)] = n
  BY OwnerIn
<1>2. \A n : Owner(n, wired \cap Repos) \in Repos \cup {None}
  BY OwnerIn
<1>3. \A x \in Places : agents[x] \in Files /\ (agents[x].kind # "file" => agents[x].texts = {})
  BY FilesIn DEF Files, Nothing, Ours, Kinds
<1>4. ASSUME NEW n \in Names
      PROVE  /\ canon[n] \in Canons
             /\ canon[n].kind \in {"none", "foreign"} => canon[n].texts = {}
             /\ canon[n].of # None => canon[n].of \in Hubs \cup {View} /\ Name[canon[n].of] = n
  <2>1. CASE block(n) = None
    BY <2>1, CanonsIn DEF NoCanon
  <2>2. CASE block(n) # None
    <3>1. canon[n] = [kind |-> "marked", of |-> block(n), texts |-> {}]
      BY <2>2
    <3>2. block(n) \in Hubs \cup {View} /\ block(n) \in Places /\ Name[block(n)] = n
      BY <1>1, <2>2 DEF Places, Repos
    <3>3. \A x \in Places : [kind |-> "marked", of |-> x, texts |-> {}] \in Canons
      BY DEF Canons, CanonKinds
    <3> HIDE DEF block
    <3> QED
      BY <3>1, <3>2, <3>3
  <2> QED
    BY <2>1, <2>2
<1>5. TypeOK
  <2>1. manifest \in Manifests /\ reachable \subseteq Repos
    BY DEF Manifests, Repos
  <2>2. agents \in [Places -> [kind : Kinds, texts : SUBSET Nat]]
    BY <1>3 DEF Files
  <2>3. spoke \in [Places -> {"none", "ours", "file"}]
    OBVIOUS
  <2>4. canon \in [Names -> Canons]
    BY <1>4
  <2>5. view \in [Names -> Repos \cup {None, Foreign}]
    BY <1>2
  <2>6. /\ pc \in [Procs -> PCs] /\ mem \in [Procs -> Memories]
        /\ cmd \in [Procs -> (Operations \cup {"none"}) \X (Repos \cup {None})]
    BY NoMemIn DEF PCs, Over
  <2>7. texts \in Nat /\ gone \subseteq Nat /\ alone \subseteq Procs
    OBVIOUS
  <2> QED
    BY <2>1, <2>2, <2>3, <2>4, <2>5, <2>6, <2>7 DEF TypeOK
<1>6. Plain
  BY <1>3, <1>4 DEF Plain
<1>7. ProseKept
  <2>1. ASSUME author # None PROVE author \in Places /\ 1 \in agents[author].texts
    BY <2>1 DEF Places
  <2>2. \A t \in 1 .. texts : author # None /\ t = 1
    OBVIOUS
  <2> QED
    BY <2>1, <2>2 DEF ProseKept
<1>8. \A p \in Procs : Fits(pc[p], cmd[p], mem[p]) /\ Copied(p)
  BY NothingFits DEF Copied, Over
<1> QED
  BY <1>5, <1>6, <1>7, <1>8 DEF IInv

THEOREM Invariant == Spec => []IInv
<1>1. IInv /\ [Next]_vars => IInv'
  <2> SUFFICES ASSUME IInv, [Next]_vars PROVE IInv'
    OBVIOUS
  <2>1. TypeOK' /\ \A p \in Procs : Fits(pc'[p], cmd'[p], mem'[p])
    BY TypeNext, StepsNext DEF IInv
  <2> QED
    BY <2>1, PlainNext, ProseNext, CopiedNext DEF IInv
<1> QED
  BY <1>1, InitInv, PTL DEF Spec

(* Every command goes from step to step of its own plan, with a memory and a   *)
(* disk of the right shape.                                                    *)
THEOREM TypesHold == Spec => []TypeOK
BY Invariant, PTL DEF IInv

(* Whatever commands run at once, fail or die, and whatever people do to the   *)
(* files meanwhile, what the user wrote is lost only in the windows between a  *)
(* look and the write it leads to.                                             *)
THEOREM ProseHolds == Spec => []ProseKept
BY Invariant, PTL DEF IInv

-----------------------------------------------------------------------------
(* Who has a name a command needs for itself alone.                            *)
LEMMA Alone ==
    ASSUME NEW p
    PROVE  Shares(p, Name[On(p)], On(p)) <=> NameTaken(On(p), mem[p].roster)
BY DEF Shares, NameTaken

(* What a step may do to an entry of the view and to the block of a canonical. *)
Leaves(n) ==
    /\ view[n] # None /\ view'[n] = None =>
        \E p \in Procs :
            \/ Op(p) = "prune" /\ view[n] \notin mem[p].roster
            \/ Op(p) = "teardown" /\ On(p) = view[n] /\ ~Shares(p, n, On(p))
    /\ canon[n].kind = "marked" /\ canon'[n].kind = "prose" =>
        \E p \in Procs :
            /\ Op(p) = "teardown" /\ Name[On(p)] = n /\ ~Shares(p, n, On(p))
    /\ canon[n].of # None /\ canon'[n].kind = "marked" /\ canon'[n].of # canon[n].of =>
        \E p \in Procs :
            /\ pc[p] = "write" /\ Target(p) = canon'[n].of
            /\ canon[n].of \notin mem[p].here \cup {View}

LEMMA EntryLeft ==
    ASSUME IInv, Next, NEW n \in Names, view[n] # None, view'[n] = None
    PROVE  \E p \in Procs :
            \/ Op(p) = "prune" /\ view[n] \notin mem[p].roster
            \/ Op(p) = "teardown" /\ On(p) = view[n] /\ ~Shares(p, n, On(p))
<1>0. view \in [Names -> Repos \cup {None, Foreign}] /\ \A p \in Procs : Fits(pc[p], cmd[p], mem[p])
  BY DEF IInv, TypeOK
<1>1. ASSUME NEW p \in Procs, MakeEntry(p) PROVE FALSE
  <2> DEFINE x == First(mem[p].todo)
  <2>1. x \in Repos
    BY <1>0, <1>1, FirstIn DEF MakeEntry, Fits
  <2>2. x # None
    BY <2>1, PlacesDistinct DEF Places
  <2>3. view' = view \/ view' = [view EXCEPT ![Name[x]] = x]
    BY <1>1 DEF MakeEntry
  <2> QED
    BY <1>0, <2>2, <2>3
<1>2. ASSUME NEW p \in Procs, UnlinkEntry(p) PROVE Op(p) = "prune" /\ view[n] \notin mem[p].roster
  <2>1. Op(p) = "prune"
    BY <1>0, <1>2 DEF UnlinkEntry, Fits, Op
  <2> QED
    BY <1>0, <1>2, <2>1 DEF UnlinkEntry, StrayRepo
<1>3. ASSUME NEW p \in Procs, RemoveLink(p)
      PROVE  Op(p) = "teardown" /\ On(p) = view[n] /\ ~Shares(p, n, On(p))
  <2>1. /\ pc[p] = "remove" /\ "entry" = First(mem[p].todo \ {"canon"})
        /\ view[Name[On(p)]] = On(p) /\ n = Name[On(p)]
        /\ mem[p].todo \ {"canon"} # {}
    BY <1>0, <1>3 DEF RemoveLink
  <2>2. "entry" \in mem[p].todo
    BY <2>1, FirstIn
  <2>3. Op(p) = "teardown" /\ ~NameTaken(On(p), mem[p].roster)
    BY <1>0, <2>1, <2>2 DEF Fits, Op, On
  <2> QED
    BY <2>1, <2>3, Alone
<1>4. ASSUME NEW m \in Names, SetEntry(m) PROVE FALSE
  BY <1>0, <1>4, PlacesDistinct DEF SetEntry, Places, Repos
<1>5. ASSUME NEW p \in Procs,
             Sync(p) \/ Preset(p) \/ PresetView(p) \/ ReadCanon(p) \/ WriteCanon(p)
             \/ ReadEnds(p) \/ Seed(p) \/ Symlinks(p) \/ SymlinksView(p) \/ MakeLink(p)
             \/ LinkEnds(p) \/ Workspace(p) \/ EntriesEnd(p)
      PROVE  FALSE
  BY <1>5 DEF Sync, Preset, PresetView, ReadCanon, WriteCanon, ReadEnds, Seed, Symlinks,
              SymlinksView, MakeLink, LinkEnds, Workspace, EntriesEnd, disk
<1>6. ASSUME NEW p \in Procs,
             Archive(p) \/ WriteManifest(p) \/ Prune(p) \/ SeedView(p) \/ Retrofit(p) \/ Copy(p)
             \/ Unlink(p) \/ Relink(p) \/ Teardown(p) \/ Identity(p) \/ OpenCanon(p)
             \/ Truncate(p) \/ WriteRest(p) \/ Begin(p) \/ Crash(p) \/ WriteFails(p)
      PROVE  FALSE
  BY <1>6 DEF Archive, WriteManifest, Prune, SeedView, Retrofit, Copy, Unlink, Relink, Teardown,
              Identity, OpenCanon, Truncate, WriteRest, Begin, Crash, WriteFails, disk
<1>7. ASSUME NEW m \in Names, EditCanon(m) \/ SpoilCanon(m) PROVE FALSE
  BY <1>7 DEF EditCanon, SpoilCanon
<1>8. ASSUME NEW x \in Hubs \cup Selves,
             WriteAgents(x) \/ RelinkAgents(x) \/ WriteSpoke(x) \/ MoveRepo(x) \/ Declare(x)
      PROVE  FALSE
  BY <1>8 DEF WriteAgents, RelinkAgents, WriteSpoke, MoveRepo, Declare
<1> QED
  BY <1>1, <1>2, <1>3, <1>4, <1>5, <1>6, <1>7, <1>8 DEF Next, Derive, Other

(* Blocks: a marked canonical becomes prose only by teardown, and another's    *)
(* block only by rendering.                                                    *)
LEMMA BlockLeft ==
    ASSUME IInv, Next, NEW n \in Names, canon'[n] # canon[n]
    PROVE  \/ canon[n].kind # "marked" /\ canon'[n].kind # "marked"
           \/ canon'[n].kind \notin {"marked", "prose"}
           \/ canon'[n].kind = canon[n].kind /\ canon'[n].of = canon[n].of
           \/ \E p \in Procs : /\ canon'[n].kind # "marked"
                               /\ Op(p) = "teardown" /\ Name[On(p)] = n /\ ~Shares(p, n, On(p))
           \/ \E p \in Procs : /\ pc[p] = "write" /\ Target(p) = canon'[n].of
                               /\ canon'[n].kind = "marked" /\ n = Name[Target(p)]
                               /\ MayRender(mem[p], Target(p))
<1>0. canon \in [Names -> Canons] /\ \A p \in Procs : Fits(pc[p], cmd[p], mem[p])
  BY DEF IInv, TypeOK
<1>1. ASSUME NEW p \in Procs, WriteCanon(p)
      PROVE  /\ pc[p] = "write" /\ Target(p) = canon'[n].of
             /\ canon'[n].kind = "marked" /\ n = Name[Target(p)]
             /\ MayRender(mem[p], Target(p))
  <2>1. pc[p] = "write" /\ n = Name[Target(p)] /\ canon'[n] = mem[p].next
    BY <1>0, <1>1 DEF WriteCanon, SetCanon
  <2>2. MayRender(mem[p], Target(p)) /\ mem[p].next = Rendered(mem[p].doc, Target(p))
    BY <1>0, <2>1 DEF Fits, Target
  <2> QED
    BY <2>1, <2>2 DEF Rendered
<1>2. ASSUME NEW p \in Procs, Copy(p) PROVE canon[n].kind # "marked" /\ canon'[n].kind # "marked"
  <2>1. n = Name[On(p)] /\ canon[n].kind = "none" /\ canon'[n] = Prose(agents[On(p)].texts)
    BY <1>0, <1>2 DEF Copy, SetCanon, Canon
  <2> QED
    BY <2>1 DEF Prose
<1>3. ASSUME NEW p \in Procs, Truncate(p)
      PROVE  /\ canon'[n].kind # "marked"
             /\ Op(p) = "teardown" /\ Name[On(p)] = n /\ ~Shares(p, n, On(p))
  <2>1. pc[p] = "truncate" /\ n = Name[On(p)] /\ canon'[n] = Emptied
    BY <1>0, <1>3 DEF Truncate, SetCanon
  <2>2. Op(p) = "teardown" /\ ~NameTaken(On(p), mem[p].roster)
    BY <1>0, <2>1 DEF Fits, Op, On
  <2> QED
    BY <2>1, <2>2, Alone DEF Emptied, Prose
<1>4. ASSUME NEW p \in Procs, WriteRest(p)
      PROVE  canon[n].kind # "marked" /\ canon'[n].kind # "marked"
  <2>1. n = Name[On(p)] /\ canon[n] = Emptied /\ canon'[n] = Unmarked(mem[p].doc)
    BY <1>0, <1>4 DEF WriteRest, SetCanon, Canon
  <2> QED
    BY <2>1 DEF Emptied, Unmarked, Prose
<1>5. ASSUME NEW m \in Names, EditCanon(m)
      PROVE  \/ canon[n].kind # "marked" /\ canon'[n].kind # "marked"
             \/ canon'[n].kind = canon[n].kind /\ canon'[n].of = canon[n].of
  <2> DEFINE c == [canon[m] EXCEPT !.kind = IF canon[m].kind = "none" THEN "prose"
                                            ELSE canon[m].kind,
                            !.texts = canon[m].texts \cup {texts'}]
  <2>1. canon' = [canon EXCEPT ![m] = c]
    BY <1>5 DEF EditCanon
  <2>2. c.of = canon[m].of
        /\ c.kind = IF canon[m].kind = "none" THEN "prose" ELSE canon[m].kind
    BY <1>0 DEF Canons
  <2> HIDE DEF c
  <2> QED
    BY <1>0, <2>1, <2>2
<1>6. ASSUME NEW m \in Names, SpoilCanon(m) PROVE canon'[n].kind \notin {"marked", "prose"}
  <2> DEFINE c == [canon[m] EXCEPT !.kind = "malformed"]
             d == [NoCanon EXCEPT !.kind = "foreign"]
  <2>1. canon' = [canon EXCEPT ![m] = c] \/ canon' = [canon EXCEPT ![m] = d]
    BY <1>6 DEF SpoilCanon
  <2>2. c.kind = "malformed" /\ d.kind = "foreign"
    BY <1>0 DEF Canons, NoCanon
  <2> HIDE DEF c, d
  <2> QED
    BY <1>0, <2>1, <2>2
<1>7. ASSUME NEW p \in Procs, Quiet(p) \/ Begin(p) \/ Crash(p) \/ WriteFails(p) PROVE FALSE
  BY <1>7, QuietlySafe DEF Begin, Crash, WriteFails, disk
<1>8. ASSUME Peopled, ~\E m \in Names : EditCanon(m) \/ SpoilCanon(m) PROVE FALSE
  BY <1>8 DEF Peopled, SetEntry, WriteAgents, RelinkAgents, WriteSpoke, MoveRepo, Declare
<1>9. \A p \in Procs : Derive(p) \/ Other(p) => Quiet(p) \/ Rewrites(p)
  BY DEF Derive, Other, Quiet, Rewrites
<1>10. Peopled \/ \E p \in Procs : Begin(p) \/ Derive(p) \/ Other(p) \/ Crash(p) \/ WriteFails(p)
  BY DEF Next, Peopled
<1> QED
  BY <1>1, <1>2, <1>3, <1>4, <1>5, <1>6, <1>7, <1>8, <1>9, <1>10 DEF Rewrites

LEMMA LeavesOthers ==
    ASSUME IInv, Next, NEW n \in Names
    PROVE  Leaves(n)
<1>1. ASSUME canon[n].kind = "marked", canon'[n].kind = "prose"
      PROVE  \E p \in Procs : Op(p) = "teardown" /\ Name[On(p)] = n /\ ~Shares(p, n, On(p))
  BY <1>1, BlockLeft
<1>2. ASSUME canon[n].of # None, canon'[n].kind = "marked", canon'[n].of # canon[n].of
      PROVE  \E p \in Procs : /\ pc[p] = "write" /\ Target(p) = canon'[n].of
                              /\ canon[n].of \notin mem[p].here \cup {View}
  <2>1. PICK p \in Procs : /\ pc[p] = "write" /\ Target(p) = canon'[n].of
                           /\ n = Name[Target(p)] /\ MayRender(mem[p], Target(p))
    BY <1>2, BlockLeft
  <2>2. canon[n].of \in Hubs \cup {View} /\ Name[canon[n].of] = n
    BY <1>2 DEF IInv, Plain
  <2> QED
    BY <1>2, <2>1, <2>2 DEF MayRender
<1> QED
  BY <1>1, <1>2, EntryLeft DEF Leaves

(* Teardown takes no entry and no block that a declared repository of the same *)
(* name still needs, prune none of a declared repository's, and only the block *)
(* of one that was not there to be asked is rendered over.                     *)
THEOREM OthersHold == Spec => OthersKept
<1>1. IInv /\ [Next]_vars => [\A n \in Names : Leaves(n)]_vars
  BY LeavesOthers
<1> QED
  BY <1>1, Invariant, PTL DEF Spec, OthersKept, Leaves

-----------------------------------------------------------------------------
(* A derive that nothing disturbed.                                            *)

(* The places whose instructions are a canonical.                              *)
Wires == (manifest.repos \cap Hubs) \cup {View}

DeriveSteps == {"sync", "manifest", "preset", "read", "write", "seed", "symlinks", "link",
                "workspace", "entry", "done"}

(* From the presets on the block of a place is its own, or is yet to be        *)
(* rendered, or the canonical has no place for one.                            *)
Rendering(p, x) ==
    pc[p] \in DeriveSteps \ {"sync", "manifest", "preset"} =>
        \/ UpToDate(x)
        \/ pc[p] \in {"read", "write"} /\ x \in mem[p].todo
        \/ pc[p] = "write" /\ Target(p) = x
        \/ pc[p] \in {"read", "write"} /\ x = View /\ ~mem[p].viewed

(* From the symlinks on a link is there, or is yet to be made.                 *)
Linking(p, x, link) ==
    pc[p] \in {"link", "workspace", "entry", "done"} =>
        \/ IF link = "agents" THEN agents[x].kind # "none" ELSE spoke[x] # "none"
        \/ pc[p] = "link" /\ <<x, link>> \in mem[p].todo
        \/ pc[p] = "link" /\ x = View /\ ~mem[p].viewed

Entering(p, x) ==
    pc[p] \in {"entry", "done"} =>
        view[Name[x]] # None \/ (pc[p] = "entry" /\ x \in mem[p].todo)

(* What a derive has gone by is what there is.                                 *)
Current(p) ==
    /\ pc[p] \in DeriveSteps
    /\ pc[p] = "manifest" => /\ mem[p].manifest.repos = manifest.repos
                             /\ manifest.repos \subseteq mem[p].manifest.roots
    /\ pc[p] \notin {"sync", "manifest"} => manifest.repos \subseteq manifest.roots
    /\ pc[p] \in {"read", "write", "link", "entry"} => mem[p].roster = manifest.repos
    /\ pc[p] \in {"read", "write"} => mem[p].todo \subseteq Wires
    /\ pc[p] = "write" => Target(p) \in Wires

Wiring(p, x) ==
    /\ Rendering(p, x) /\ Linking(p, x, "agents") /\ Linking(p, x, "spoke")
    /\ x # View => Entering(p, x)

Healing(p) ==
    /\ Current(p)
    /\ \A x \in Wires : Wireable(x) => Wiring(p, x)
    /\ \A x \in manifest.repos \ Hubs :
        agents[x].kind # "none" /\ x \in reachable => Linking(p, x, "spoke")

HInv == IInv /\ \A p \in alone : Op(p) = "derive" => Healing(p)

(* A step of another process leaves a derive that stays alone where it was,    *)
(* and the files as they were.                                                 *)
Idles(p) ==
    UNCHANGED disk /\ pc'[p] = pc[p] /\ cmd'[p] = cmd[p] /\ mem'[p] = mem[p] /\ p \in alone

LEMMA OthersAlone ==
    ASSUME NEW p, p \in alone', NEW q, q # p, Derive(q) \/ Other(q) \/ Crash(q) \/ WriteFails(q)
    PROVE  UNCHANGED disk /\ p \in alone
<1>1. CASE Sync(q) \/ Preset(q) \/ PresetView(q) \/ ReadCanon(q) \/ ReadEnds(q) \/ Symlinks(q)
           \/ SymlinksView(q) \/ LinkEnds(q) \/ Workspace(q) \/ EntriesEnd(q) \/ Archive(q)
           \/ Prune(q) \/ SeedView(q) \/ Retrofit(q) \/ Teardown(q) \/ Identity(q) \/ OpenCanon(q)
  BY <1>1 DEF Sync, Preset, PresetView, ReadCanon, ReadEnds, Symlinks, SymlinksView, LinkEnds,
              Workspace, EntriesEnd, Archive, Prune, SeedView, Retrofit, Teardown, Identity,
              OpenCanon
<1>2. CASE WriteCanon(q) \/ Seed(q) \/ MakeLink(q) \/ MakeEntry(q)
  BY <1>2 DEF WriteCanon, Seed, MakeLink, MakeEntry, Changes, disk
<1>3. CASE WriteManifest(q) \/ UnlinkEntry(q) \/ Copy(q) \/ Unlink(q) \/ Relink(q)
           \/ RemoveLink(q) \/ Truncate(q) \/ WriteRest(q)
  BY <1>3 DEF WriteManifest, UnlinkEntry, Copy, Unlink, Relink, RemoveLink, Truncate,
              WriteRest, Changes, disk
<1>4. CASE Crash(q) \/ WriteFails(q)
  BY <1>4 DEF Crash, WriteFails
<1>. QED BY <1>1, <1>2, <1>3, <1>4 DEF Derive, Other

LEMMA Undisturbed ==
    ASSUME IInv, [Next]_vars, NEW p \in Procs, p \in alone'
    PROVE  \/ Begin(p)
           \/ p \in alone /\ (Derive(p) \/ Other(p))
           \/ Idles(p)
<1>0. Local /\ \A q \in Procs : Fits(pc[q], cmd[q], mem[q])
  BY DEF IInv, TypeOK, Local
<1>1. ASSUME NEW q \in Procs \ {p}, Begin(q) PROVE Idles(p)
  <2>1. /\ UNCHANGED disk /\ mem' = mem /\ p \in alone
        /\ \E c : cmd' = [cmd EXCEPT ![q] = c]
        /\ \E label : pc' = [pc EXCEPT ![q] = label]
    BY <1>1 DEF Begin, Goto
  <2>2. cmd'[p] = cmd[p] /\ pc'[p] = pc[p]
    BY <2>1, <1>0 DEF IInv, TypeOK
  <2>. QED BY <2>1, <2>2 DEF Idles
<1>2. ASSUME NEW q \in Procs \ {p}, Derive(q) \/ Other(q) \/ Crash(q) \/ WriteFails(q)
      PROVE  Idles(p)
  <2>1. UNCHANGED disk /\ p \in alone
    BY <1>2, OthersAlone
  <2>2. Stepped(q)
    BY <1>0, <1>2, Commanded, Failing DEF IInv
  <2>. QED BY <1>0, <2>1, <2>2, OthersStay DEF Idles
<1>3. ASSUME Derive(p) \/ Other(p) PROVE p \in alone
  BY <1>3 DEF Derive, Other, Sync, Preset, PresetView, ReadCanon, WriteCanon, ReadEnds, Seed,
              Symlinks, SymlinksView, MakeLink, LinkEnds, Workspace, MakeEntry, EntriesEnd,
              Archive, WriteManifest, Prune, UnlinkEntry, SeedView, Retrofit, Copy, Unlink,
              Relink, Teardown, Identity, RemoveLink, OpenCanon, Truncate, WriteRest, Changes
<1>4. ~Crash(p) /\ ~WriteFails(p)
  BY DEF Crash, WriteFails
<1>5. ~Peopled
  BY DEF Peopled, People, EditCanon, SpoilCanon, SetEntry, WriteAgents, RelinkAgents, WriteSpoke,
         MoveRepo, Declare
<1>6. CASE UNCHANGED vars
  BY <1>6 DEF vars, Idles
<1>. QED BY <1>1, <1>2, <1>3, <1>4, <1>5, <1>6, Splits

LEMMA OnlyDerives ==
    ASSUME NEW p, Derive(p) \/ Other(p), Op(p) = "derive", pc[p] \in DeriveSteps
    PROVE  Derive(p) \/ WriteManifest(p)
BY DEF Other, DeriveSteps, Archive, Prune, UnlinkEntry, SeedView, Retrofit, Copy, Unlink, Relink,
       Teardown, Identity, RemoveLink, OpenCanon, Truncate, WriteRest

LEMMA IdlesHeal ==
    ASSUME NEW p \in Procs, Healing(p), Idles(p)
    PROVE  Healing(p)'
<1>1. /\ Wires' = Wires /\ manifest' = manifest /\ reachable' = reachable /\ agents' = agents
      /\ pc'[p] = pc[p] /\ mem'[p] = mem[p]
  BY DEF Idles, disk, Wires
<1>2. Current(p)'
  BY <1>1 DEF Healing, Current, Target
<1>3. \A x : /\ Wireable(x)' = Wireable(x) /\ Wiring(p, x)' = Wiring(p, x)
             /\ Linking(p, x, "spoke")' = Linking(p, x, "spoke")
  BY DEF Idles, disk, Wireable, Wiring, Linking, Rendering, Entering, InSync, UpToDate,
         Canon, Target
<1>. QED BY <1>1, <1>2, <1>3 DEF Healing

(* What was planned, and what is left of it.                                   *)
LEMMA Planned ==
    ASSUME Local, NEW p \in Procs, NEW roster, NEW todo, NEW label, Plan(p, roster, todo, label)
    PROVE  /\ pc'[p] = label /\ mem'[p].roster = roster /\ mem'[p].todo = todo
           /\ mem'[p].viewed = FALSE
<1>1. pc'[p] = label
  BY DEF Local, Plan, Goto
<1>2. mem'[p] = [NoMem EXCEPT !.roster = roster, !.todo = todo, !.here = roster \cap reachable]
  BY DEF Local, Plan
<1>. QED BY <1>1, <1>2 DEF NoMem

LEMMA Dropped ==
    ASSUME Local, NEW p \in Procs, NEW item, Drop(p, item)
    PROVE  /\ mem'[p].todo = mem[p].todo \ {item} /\ mem'[p].roster = mem[p].roster
           /\ mem'[p].viewed = mem[p].viewed /\ mem'[p].target = mem[p].target
<1>1. mem[p] \in Memories /\ mem'[p] = [mem[p] EXCEPT !.todo = @ \ {item}]
  BY DEF Local, Drop
<1>. QED BY <1>1 DEF Memories

(* At the first steps nothing is owed yet.                                     *)
LEMMA NothingOwed ==
    ASSUME NEW p \in Procs, pc'[p] \in {"sync", "manifest", "preset"}, Current(p)'
    PROVE  Healing(p)'
BY DEF Healing, Wiring, Rendering, Linking, Entering

LEMMA BeginHeals ==
    ASSUME IInv, NEW p \in Procs, Begin(p), Op(p)' = "derive"
    PROVE  Healing(p)'
<1>1. pc \in [Procs -> PCs] /\ cmd \in [Procs -> (Operations \cup {"none"}) \X (Repos \cup {None})]
  BY DEF IInv, TypeOK
<1>2. pc'[p] = "sync"
  BY <1>1 DEF Begin, Goto, Op
<1>. QED BY <1>2, NothingOwed DEF Current, DeriveSteps

LEMMA SyncHeals ==
    ASSUME IInv, NEW p \in Procs, Healing(p), Op(p) = "derive", Sync(p) \/ WriteManifest(p)
    PROVE  Healing(p)'
<1>1. pc \in [Procs -> PCs] /\ mem \in [Procs -> Memories] /\ mem[p] \in Memories
      /\ manifest \in Manifests
  BY DEF IInv, TypeOK
<1>2. CASE Sync(p) /\ manifest.repos \subseteq manifest.roots
  <2>1. pc'[p] = "preset" /\ manifest' = manifest
    BY <1>1, <1>2 DEF Sync, Goto, disk
  <2>. QED BY <1>2, <2>1, NothingOwed DEF Current, DeriveSteps
<1>3. CASE Sync(p) /\ ~(manifest.repos \subseteq manifest.roots)
  <2>1. /\ pc'[p] = "manifest" /\ manifest' = manifest
        /\ mem'[p].manifest = [manifest EXCEPT !.roots = @ \cup manifest.repos]
    BY <1>1, <1>3 DEF Sync, Goto, disk, Memories
  <2>2. mem'[p].manifest.repos = manifest.repos /\ manifest.repos \subseteq mem'[p].manifest.roots
    BY <1>1, <2>1 DEF Manifests
  <2>. QED BY <2>1, <2>2, NothingOwed DEF Current, DeriveSteps
<1>4. CASE WriteManifest(p)
  <2>1. /\ pc[p] = "manifest" /\ pc'[p] = "preset" /\ manifest' = mem[p].manifest
    BY <1>1, <1>4 DEF WriteManifest, Goto
  <2>2. manifest'.repos \subseteq manifest'.roots
    BY <2>1 DEF Healing, Current
  <2>. QED BY <2>1, <2>2, NothingOwed DEF Current, DeriveSteps
<1>. QED BY <1>2, <1>3, <1>4

(* Two places that can be wired have no name in common with another.           *)
LEMMA WiredAlone ==
    ASSUME NEW x \in Wires, NEW y \in Wires, Name[x] = Name[y], Wireable(y)
    PROVE  x = y
BY DEF Wireable, Wires

LEMMA PresetHeals ==
    ASSUME IInv, NEW p \in Procs, Healing(p), Op(p) = "derive", Preset(p)
    PROVE  Healing(p)'
<1>1. Local
  BY DEF IInv, TypeOK, Local
<1>2. /\ pc[p] = "preset" /\ UNCHANGED <<manifest, reachable, canon, agents>>
      /\ pc'[p] = "read" /\ mem'[p].roster = manifest.repos
      /\ mem'[p].todo = PresetPlan(manifest.repos) /\ mem'[p].viewed = FALSE
  BY <1>1, Planned DEF Preset, disk
<1>3. Wires' = Wires /\ manifest.repos \subseteq manifest.roots
  BY <1>2 DEF Wires, Healing, Current
<1>4. Current(p)'
  BY <1>2, <1>3 DEF Current, DeriveSteps, PresetPlan, Here, Wires
<1>5. ASSUME NEW x \in Wires, Wireable(x), x # View
      PROVE  UpToDate(x) \/ x \in PresetPlan(manifest.repos)
  BY <1>5 DEF Wires, Wireable, UpToDate, PresetPlan, PresetShared, Renderable, Here
<1>6. ASSUME NEW x \in Wires, Wireable(x) PROVE Wiring(p, x)'
  <2>1. Rendering(p, x)'
    BY <1>2, <1>5, <1>6 DEF Rendering, InSync, UpToDate, Canon
  <2>. QED BY <1>2, <2>1 DEF Wiring, Linking, Entering
<1>7. \A x : Wireable(x)' = Wireable(x)
  BY <1>2 DEF Wireable, Canon
<1>8. \A x : Linking(p, x, "spoke")'
  BY <1>2 DEF Linking
<1>. QED BY <1>3, <1>4, <1>6, <1>7, <1>8 DEF Healing

LEMMA PresetViewHeals ==
    ASSUME IInv, NEW p \in Procs, Healing(p), Op(p) = "derive", PresetView(p)
    PROVE  Healing(p)'
<1>1. Local /\ mem \in [Procs -> Memories] /\ mem[p] \in Memories
  BY DEF IInv, TypeOK, Local
<1>. DEFINE left == IF ~ViewShared(mem[p].roster) /\ Renderable(View) THEN {View} ELSE {}
<1>2. /\ pc[p] = "read" /\ mem[p].todo = {} /\ ~mem[p].viewed
      /\ UNCHANGED <<manifest, reachable, canon, agents>> /\ pc' = pc
      /\ mem' = [mem EXCEPT ![p].viewed = TRUE, ![p].todo = left]
  BY DEF PresetView, disk
<1>3. mem'[p].todo = left /\ mem'[p].viewed = TRUE /\ mem'[p].roster = mem[p].roster
  <2>. HIDE DEF left
  <2>1. mem'[p] = [mem[p] EXCEPT !.viewed = TRUE, !.todo = left]
    BY <1>1, <1>2
  <2>. QED BY <1>1, <2>1 DEF Memories
<1>4. Wires' = Wires /\ manifest.repos \subseteq manifest.roots /\ mem[p].roster = manifest.repos
  BY <1>2 DEF Wires, Healing, Current
<1>5. Current(p)'
  BY <1>2, <1>3, <1>4 DEF Current, DeriveSteps, Wires
<1>6. Wireable(View) => UpToDate(View) \/ View \in left
  <2>1. Wireable(View) => ~ViewShared(manifest.repos)
    BY PlacesDistinct, <1>1 DEF Wireable, ViewShared, IInv, TypeOK, Manifests
  <2>. QED BY <1>4, <2>1 DEF UpToDate, Renderable
<1>7. ASSUME NEW x \in Wires, Wireable(x) PROVE Wiring(p, x)'
  <2>1. Rendering(p, x)
    BY <1>7 DEF Healing, Wiring
  <2>2. UpToDate(x) \/ (x = View)
    BY <1>2, <2>1 DEF Rendering, DeriveSteps
  <2>3. Rendering(p, x)'
    BY <1>2, <1>3, <1>6, <1>7, <2>2 DEF Rendering, InSync, UpToDate, Canon
  <2>. QED BY <1>2, <2>3 DEF Wiring, Linking, Entering
<1>8. \A x : Wireable(x)' = Wireable(x)
  BY <1>2 DEF Wireable, Canon
<1>9. \A x : Linking(p, x, "spoke")'
  BY <1>2 DEF Linking
<1>. QED BY <1>4, <1>5, <1>7, <1>8, <1>9 DEF Healing

LEMMA ReadHeals ==
    ASSUME IInv, NEW p \in Procs, Healing(p), Op(p) = "derive", ReadCanon(p)
    PROVE  Healing(p)'
<1>1. Local /\ pc \in [Procs -> PCs] /\ mem \in [Procs -> Memories] /\ mem[p] \in Memories
  BY DEF IInv, TypeOK, Local
<1>. DEFINE t == First(mem[p].todo)
<1>2. /\ pc[p] = "read" /\ mem[p].todo # {} /\ UNCHANGED <<manifest, reachable, canon, agents>>
  BY DEF ReadCanon, disk
<1>3. t \in mem[p].todo /\ t \in Wires
  BY <1>2, FirstIn DEF Healing, Current
<1>4. \/ /\ Canon(t).kind \in {"none", "marked"} /\ pc'[p] = "write" /\ mem'[p].target = t
         /\ mem'[p].todo = mem[p].todo \ {t}
         /\ mem'[p].roster = mem[p].roster /\ mem'[p].viewed = mem[p].viewed
      \/ /\ Canon(t).kind \notin {"none", "marked"} /\ pc'[p] = "read"
         /\ mem'[p].todo = mem[p].todo \ {t}
         /\ mem'[p].roster = mem[p].roster /\ mem'[p].viewed = mem[p].viewed
  <2>1. CASE Canon(t).kind \in {"none", "marked"}
    <3>1. pc'[p] = "write"
      BY <1>1, <2>1 DEF ReadCanon, Goto
    <3>2. mem' = [mem EXCEPT ![p].todo = @ \ {t}, ![p].target = t,
                             ![p].doc = Canon(t), ![p].next = Rendered(Canon(t), t)]
      BY <2>1 DEF ReadCanon
    <3>3. mem'[p] = [mem[p] EXCEPT !.todo = @ \ {t}, !.target = t,
                                   !.doc = Canon(t), !.next = Rendered(Canon(t), t)]
      BY <1>1, <3>2
    <3>. HIDE DEF t
    <3>4. /\ mem'[p].target = t /\ mem'[p].todo = mem[p].todo \ {t}
          /\ mem'[p].roster = mem[p].roster /\ mem'[p].viewed = mem[p].viewed
      BY <1>1, <3>3 DEF Memories
    <3>. QED BY <2>1, <3>1, <3>4
  <2>2. CASE Canon(t).kind \notin {"none", "marked"}
    <3>1. pc' = pc /\ Drop(p, t)
      BY <2>2 DEF ReadCanon
    <3>. HIDE DEF t
    <3>. QED BY <1>1, <1>2, <2>2, <3>1, Dropped
  <2>. QED BY <2>1, <2>2
<1>. HIDE DEF t
<1>5. /\ Wires' = Wires /\ manifest.repos \subseteq manifest.roots
      /\ mem[p].roster = manifest.repos /\ mem[p].todo \subseteq Wires
  BY <1>2 DEF Wires, Healing, Current
<1>6. Current(p)'
  BY <1>2, <1>3, <1>4, <1>5 DEF Current, DeriveSteps, Target
<1>7. ASSUME NEW x \in Wires, Wireable(x) PROVE Wiring(p, x)'
  <2>1. Rendering(p, x)
    BY <1>7 DEF Healing, Wiring
  <2>2. UpToDate(x) \/ x \in mem[p].todo \/ (x = View /\ ~mem[p].viewed)
    BY <1>2, <2>1 DEF Rendering, DeriveSteps
  <2>3. Rendering(p, x)'
    BY <1>2, <1>4, <2>2 DEF Rendering, InSync, UpToDate, Canon, Target
  <2>. QED BY <1>4, <2>3 DEF Wiring, Linking, Entering
<1>8. \A x : Wireable(x)' = Wireable(x)
  BY <1>2 DEF Wireable, Canon
<1>9. \A x : Linking(p, x, "spoke")'
  BY <1>4 DEF Linking
<1>. QED BY <1>2, <1>5, <1>6, <1>7, <1>8, <1>9 DEF Healing

LEMMA WriteHeals ==
    ASSUME IInv, NEW p \in Procs, Healing(p), Op(p) = "derive", WriteCanon(p)
    PROVE  Healing(p)'
<1>1. /\ pc \in [Procs -> PCs] /\ canon \in [Names -> Canons] /\ Fits(pc[p], cmd[p], mem[p])
      /\ mem[p].doc \in Canons
  BY MemIn DEF IInv, TypeOK
<1>. DEFINE t == Target(p)
<1>2. /\ pc[p] = "write" /\ pc'[p] = "read" /\ mem' = mem
      /\ UNCHANGED <<manifest, reachable, agents>>
      /\ canon' = [canon EXCEPT ![Name[t]] = Rendered(mem[p].doc, t)]
  BY <1>1 DEF WriteCanon, Goto, SetCanon, Fits, Target
<1>3. t \in Wires /\ t \in Places /\ Name[t] \in Names
  <2>1. t \in Wires
    BY <1>2 DEF Healing, Current
  <2>2. Wires \subseteq Places
    BY DEF Wires, IInv, TypeOK, Manifests, Places
  <2>. QED BY <2>1, <2>2, NamesIn
<1>4. /\ Wires' = Wires /\ manifest.repos \subseteq manifest.roots
      /\ mem[p].roster = manifest.repos /\ mem[p].todo \subseteq Wires
  BY <1>2 DEF Wires, Healing, Current
<1>5. Current(p)'
  BY <1>2, <1>4 DEF Current, DeriveSteps
<1>6. canon'[Name[t]].kind = "marked" /\ canon'[Name[t]].of = t
  BY <1>1, <1>2, <1>3 DEF Rendered
<1>7. ASSUME NEW x \in Wires, Wireable(x)' PROVE Wiring(p, x)'
  <2>1. CASE x = t
    <3>1. UpToDate(x)'
      BY <1>6, <2>1 DEF InSync, UpToDate, Canon
    <3>. QED BY <1>2, <3>1 DEF Wiring, Rendering, Linking, Entering
  <2>2. CASE x # t
    <3>1. Name[x] # Name[t]
      BY <1>2, <1>3, <1>7, <2>2 DEF Wireable, Wires
    <3>2. canon'[Name[x]] = canon[Name[x]]
      BY <1>1, <1>2, <1>3, <3>1
    <3>3. Wireable(x) /\ UpToDate(x)' = UpToDate(x)
      BY <1>2, <1>7, <3>2 DEF Wireable, Canon, InSync, UpToDate
    <3>4. Rendering(p, x)
      BY <3>3 DEF Healing, Wiring
    <3>5. UpToDate(x) \/ x \in mem[p].todo \/ (x = View /\ ~mem[p].viewed)
      BY <1>2, <2>2, <3>4 DEF Rendering, DeriveSteps
    <3>6. Rendering(p, x)'
      BY <1>2, <3>3, <3>5 DEF Rendering
    <3>. QED BY <1>2, <3>6 DEF Wiring, Linking, Entering
  <2>. QED BY <2>1, <2>2
<1>8. \A x : Linking(p, x, "spoke")'
  BY <1>2 DEF Linking
<1>. QED BY <1>4, <1>5, <1>7, <1>8 DEF Healing

(* The presets are through: the blocks of all that can be wired are their own. *)
Blocked(p) ==
    /\ \A x \in Wires : Wireable(x) => UpToDate(x)
    /\ manifest.repos \subseteq manifest.roots

LEMMA AfterPresets ==
    ASSUME NEW p \in Procs, Healing(p),
           \/ pc[p] \in {"seed", "symlinks", "link", "workspace", "entry", "done"}
           \/ pc[p] = "read" /\ mem[p].todo = {} /\ mem[p].viewed
    PROVE  Blocked(p)
<1>1. ASSUME NEW x \in Wires, Wireable(x) PROVE UpToDate(x)
  <2>1. Rendering(p, x)
    BY <1>1 DEF Healing, Wiring
  <2>. QED BY <2>1 DEF Rendering, DeriveSteps
<1>. QED BY <1>1 DEF Blocked, Healing, Current

LEMMA SeedHeals ==
    ASSUME IInv, NEW p \in Procs, Healing(p), Op(p) = "derive", ReadEnds(p) \/ Seed(p)
    PROVE  Healing(p)'
<1>1. pc \in [Procs -> PCs]
  BY DEF IInv, TypeOK
<1>2. /\ pc'[p] \in {"seed", "symlinks"} /\ UNCHANGED <<manifest, reachable, canon>>
  BY <1>1 DEF ReadEnds, Seed, Goto, disk
<1>3. Blocked(p)
  BY AfterPresets DEF ReadEnds, Seed
<1>4. Wires' = Wires /\ \A x : Wireable(x)' = Wireable(x) /\ UpToDate(x)' = UpToDate(x)
  BY <1>2 DEF Wires, Wireable, InSync, UpToDate, Canon
<1>5. Current(p)'
  BY <1>2, <1>3 DEF Blocked, Current, DeriveSteps
<1>6. ASSUME NEW x \in Wires, Wireable(x) PROVE Wiring(p, x)'
  BY <1>2, <1>3, <1>4, <1>6 DEF Blocked, Wiring, Rendering, Linking, Entering
<1>7. \A x : Linking(p, x, "spoke")'
  BY <1>2 DEF Linking
<1>. QED BY <1>4, <1>5, <1>6, <1>7 DEF Healing

LEMMA SymlinksHeals ==
    ASSUME IInv, NEW p \in Procs, Healing(p), Op(p) = "derive", Symlinks(p)
    PROVE  Healing(p)'
<1>1. Local
  BY DEF IInv, TypeOK, Local
<1>. DEFINE todo == LinkPlan(manifest.repos)
<1>2. /\ pc[p] = "symlinks" /\ UNCHANGED <<manifest, reachable, canon, agents, spoke>>
      /\ pc'[p] = "link" /\ mem'[p].roster = manifest.repos
      /\ mem'[p].todo = todo /\ mem'[p].viewed = FALSE
  BY <1>1, Planned DEF Symlinks, disk
<1>3. Blocked(p)
  BY <1>2, AfterPresets
<1>4. Wires' = Wires /\ \A x : Wireable(x)' = Wireable(x) /\ UpToDate(x)' = UpToDate(x)
  BY <1>2 DEF Wires, Wireable, InSync, UpToDate, Canon
<1>5. Current(p)'
  BY <1>2, <1>3 DEF Blocked, Current, DeriveSteps
<1>6. ASSUME NEW x \in Here(manifest.repos), Instructed(x), ~LinkShared(x, manifest.repos)
      PROVE  Missing(x) \subseteq todo
  BY <1>6 DEF LinkPlan
<1>. HIDE DEF todo
<1>7. ASSUME NEW x \in Wires, Wireable(x) PROVE Wiring(p, x)'
  <2>1. UpToDate(x)
    BY <1>3, <1>7 DEF Blocked
  <2>2. CASE x = View
    BY <1>2, <1>4, <2>1, <2>2 DEF Wiring, Rendering, Linking, Entering
  <2>3. CASE x # View
    <3>1. x \in Here(manifest.repos) /\ x \in Hubs
      BY <1>7, <2>3 DEF Wires, Wireable, Here
    <3>2. Instructed(x) /\ ~LinkShared(x, manifest.repos)
      BY <1>7, <2>1, <3>1 DEF Instructed, InSync, UpToDate, LinkShared, Here, Wireable
    <3>3. /\ agents[x].kind = "none" => <<x, "agents">> \in todo
          /\ spoke[x] = "none" => <<x, "spoke">> \in todo
      BY <1>6, <3>1, <3>2 DEF Missing
    <3>4. Linking(p, x, "agents")' /\ Linking(p, x, "spoke")'
      BY <1>2, <3>3 DEF Linking
    <3>. QED BY <1>2, <1>4, <2>1, <3>4 DEF Wiring, Rendering, Entering
  <2>. QED BY <2>2, <2>3
<1>8. ASSUME NEW x \in manifest.repos \ Hubs, agents[x].kind # "none", x \in reachable
      PROVE  Linking(p, x, "spoke")'
  <2>1. x # View
    BY <1>8, PlacesDistinct DEF IInv, TypeOK, Manifests
  <2>2. Instructed(x) /\ ~LinkShared(x, manifest.repos) /\ x \in Here(manifest.repos)
    BY <1>8, <2>1 DEF Instructed, LinkShared, Here
  <2>3. spoke[x] = "none" => <<x, "spoke">> \in todo
    BY <1>6, <2>2 DEF Missing
  <2>. QED BY <1>2, <2>3 DEF Linking
<1>. QED BY <1>2, <1>4, <1>5, <1>7, <1>8 DEF Healing

LEMMA SymlinksViewHeals ==
    ASSUME IInv, NEW p \in Procs, Healing(p), Op(p) = "derive", SymlinksView(p)
    PROVE  Healing(p)'
<1>1. mem \in [Procs -> Memories] /\ mem[p] \in Memories /\ View \notin manifest.repos
  BY PlacesDistinct DEF IInv, TypeOK, Manifests
<1>. DEFINE left == ViewLinkPlan(mem[p].roster)
<1>2. /\ pc[p] = "link" /\ mem[p].todo = {} /\ ~mem[p].viewed
      /\ UNCHANGED <<manifest, reachable, canon, agents, spoke>> /\ pc' = pc
      /\ mem' = [mem EXCEPT ![p].viewed = TRUE, ![p].todo = left]
  BY DEF SymlinksView, disk
<1>3. mem'[p].todo = left /\ mem'[p].viewed = TRUE /\ mem'[p].roster = mem[p].roster
  <2>. HIDE DEF left
  <2>1. mem'[p] = [mem[p] EXCEPT !.viewed = TRUE, !.todo = left]
    BY <1>1, <1>2
  <2>. QED BY <1>1, <2>1 DEF Memories
<1>4. Blocked(p) /\ mem[p].roster = manifest.repos
  BY <1>2, AfterPresets DEF Healing, Current
<1>5. Wires' = Wires /\ \A x : Wireable(x)' = Wireable(x) /\ UpToDate(x)' = UpToDate(x)
  BY <1>2 DEF Wires, Wireable, InSync, UpToDate, Canon
<1>6. Current(p)'
  BY <1>2, <1>3, <1>4 DEF Blocked, Current, DeriveSteps
<1>7. Wireable(View) /\ UpToDate(View) =>
        /\ agents[View].kind = "none" => <<View, "agents">> \in left
        /\ spoke[View] = "none" => <<View, "spoke">> \in left
  <2>1. Wireable(View) => ~ViewShared(manifest.repos)
    BY <1>1 DEF Wireable, ViewShared
  <2>2. UpToDate(View) => Instructed(View)
    BY DEF InSync, UpToDate, Instructed
  <2>. QED BY <1>4, <2>1, <2>2 DEF ViewLinkPlan, Missing
<1>. HIDE DEF left
<1>8. ASSUME NEW x \in Wires, Wireable(x) PROVE Wiring(p, x)'
  <2>1. UpToDate(x) /\ Linking(p, x, "agents") /\ Linking(p, x, "spoke")
    BY <1>4, <1>8 DEF Blocked, Healing, Wiring
  <2>2. Linking(p, x, "agents")' /\ Linking(p, x, "spoke")'
    BY <1>2, <1>3, <1>7, <1>8, <2>1 DEF Linking
  <2>. QED BY <1>2, <1>5, <2>1, <2>2 DEF Wiring, Rendering, Entering
<1>9. ASSUME NEW x \in manifest.repos \ Hubs, agents[x].kind # "none", x \in reachable
      PROVE  Linking(p, x, "spoke")'
  <2>1. Linking(p, x, "spoke") /\ x # View
    BY <1>1, <1>9 DEF Healing
  <2>. QED BY <1>2, <1>3, <2>1 DEF Linking
<1>. QED BY <1>2, <1>5, <1>6, <1>8, <1>9 DEF Healing

(* What a link that is made changes: an absent file comes to be a link.        *)
LEMMA LinkMade ==
    ASSUME IInv, NEW p \in Procs, MakeLink(p)
    PROVE  LET t == First(mem[p].todo) IN
           /\ t \in mem[p].todo
           /\ \A x : agents[x].kind # "none" => agents'[x].kind # "none"
           /\ \A x : spoke[x] # "none" => spoke'[x] # "none"
           /\ \A x \in Places \ (Hubs \cup {View}) : agents'[x] = agents[x]
           /\ \A x \in (reachable \cup {View}) \cap Places :
                /\ t = <<x, "spoke">> => spoke'[x] # "none"
                /\ t = <<x, "agents">> /\ x \in Hubs \cup {View} => agents'[x].kind # "none"
<1>1. /\ agents \in [Places -> [kind : Kinds, texts : SUBSET Nat]]
      /\ spoke \in [Places -> {"none", "ours", "file"}]
  BY DEF IInv, TypeOK
<1>. DEFINE t == First(mem[p].todo)
            y == t[1]
            makes == y \in reachable \cup {View} /\ t \in Missing(y)
<1>2. t \in mem[p].todo
  BY FirstIn DEF MakeLink
<1>3. /\ makes => /\ agents' = IF t[2] = "agents" THEN [agents EXCEPT ![y] = Ours] ELSE agents
                  /\ spoke' = IF t[2] = "spoke" THEN [spoke EXCEPT ![y] = "ours"] ELSE spoke
      /\ ~makes => UNCHANGED <<agents, spoke>>
  BY DEF MakeLink
<1>4. t \in Missing(y) =>
        /\ t = <<y, "agents">> \/ t = <<y, "spoke">>
        /\ t[2] = "spoke" => spoke[y] = "none"
        /\ t[2] # "spoke" => y \in Hubs \cup {View} /\ agents[y].kind = "none"
  BY DEF Missing
<1>5. Ours.kind # "none"
  BY DEF Ours
<1>6. ASSUME NEW x \in (reachable \cup {View}) \cap Places, t = <<x, "spoke">>
      PROVE  spoke'[x] # "none"
  <2>1. y = x /\ t[2] = "spoke"
    BY <1>6
  <2>2. spoke[x] = "none" => t \in Missing(y)
    BY <1>6, <2>1 DEF Missing
  <2>3. CASE spoke[x] = "none"
    <3>1. makes
      BY <2>1, <2>2, <2>3
    <3>2. spoke' = [spoke EXCEPT ![x] = "ours"]
      BY <1>3, <2>1, <3>1
    <3>. QED BY <1>1, <3>2
  <2>4. CASE spoke[x] # "none"
    <3>1. ~makes
      BY <1>4, <2>1, <2>4
    <3>. QED BY <1>3, <2>4, <3>1
  <2>. QED BY <2>3, <2>4
<1>7. ASSUME NEW x \in (reachable \cup {View}) \cap Places, t = <<x, "agents">>,
             x \in Hubs \cup {View}
      PROVE  agents'[x].kind # "none"
  <2>1. y = x /\ t[2] = "agents"
    BY <1>7
  <2>2. agents[x].kind = "none" => t \in Missing(y)
    BY <1>7, <2>1 DEF Missing
  <2>3. CASE agents[x].kind = "none"
    <3>1. makes
      BY <2>1, <2>2, <2>3
    <3>2. agents' = [agents EXCEPT ![x] = Ours]
      BY <1>3, <2>1, <3>1
    <3>. QED BY <1>1, <1>5, <3>2
  <2>4. CASE agents[x].kind # "none"
    <3>1. ~makes
      BY <1>4, <2>1, <2>4
    <3>. QED BY <1>3, <2>4, <3>1
  <2>. QED BY <2>3, <2>4
<1>8. \A x \in Places \ (Hubs \cup {View}) : agents'[x] = agents[x]
  BY <1>1, <1>3, <1>4
<1>9. \A x : agents[x].kind # "none" => agents'[x].kind # "none"
  <2>1. CASE agents' = agents
    BY <2>1
  <2>2. CASE agents' = [agents EXCEPT ![y] = Ours] /\ y \in Places
    BY <1>1, <1>5, <2>2
  <2>3. CASE agents' = [agents EXCEPT ![y] = Ours] /\ y \notin Places
    BY <1>1, <2>3
  <2>. QED BY <1>3, <2>1, <2>2, <2>3
<1>10. \A x : spoke[x] # "none" => spoke'[x] # "none"
  <2>1. CASE spoke' = spoke
    BY <2>1
  <2>2. CASE spoke' = [spoke EXCEPT ![y] = "ours"] /\ y \in Places
    BY <1>1, <2>2
  <2>3. CASE spoke' = [spoke EXCEPT ![y] = "ours"] /\ y \notin Places
    BY <1>1, <2>3
  <2>. QED BY <1>3, <2>1, <2>2, <2>3
<1>. HIDE DEF t, makes, y
<1>11. /\ t \in mem[p].todo
       /\ \A x \in (reachable \cup {View}) \cap Places :
                /\ t = <<x, "spoke">> => spoke'[x] # "none"
                /\ t = <<x, "agents">> /\ x \in Hubs \cup {View} => agents'[x].kind # "none"
  BY <1>2, <1>6, <1>7
<1>. QED BY <1>8, <1>9, <1>10, <1>11 DEF t

LEMMA MakeLinkHeals ==
    ASSUME IInv, NEW p \in Procs, Healing(p), Op(p) = "derive", MakeLink(p)
    PROVE  Healing(p)'
<1>1. Local /\ View \notin manifest.repos /\ manifest.repos \subseteq Places
  BY PlacesDistinct DEF IInv, TypeOK, Local, Manifests, Places
<1>2. PICK t : /\ t = First(mem[p].todo) /\ t \in mem[p].todo
               /\ \A x : agents[x].kind # "none" => agents'[x].kind # "none"
               /\ \A x : spoke[x] # "none" => spoke'[x] # "none"
               /\ \A x \in Places \ (Hubs \cup {View}) : agents'[x] = agents[x]
               /\ \A x \in (reachable \cup {View}) \cap Places :
                    /\ t = <<x, "spoke">> => spoke'[x] # "none"
                    /\ t = <<x, "agents">> /\ x \in Hubs \cup {View} => agents'[x].kind # "none"
  BY LinkMade
<1>3. /\ pc[p] = "link" /\ pc' = pc /\ UNCHANGED <<manifest, reachable, canon>>
      /\ mem'[p].todo = mem[p].todo \ {t} /\ mem'[p].roster = mem[p].roster
      /\ mem'[p].viewed = mem[p].viewed
  BY <1>1, <1>2, Dropped DEF MakeLink
<1>4. Blocked(p) /\ mem[p].roster = manifest.repos
  BY <1>3, AfterPresets DEF Healing, Current
<1>5. Wires' = Wires /\ \A x : Wireable(x)' = Wireable(x) /\ UpToDate(x)' = UpToDate(x)
  BY <1>3 DEF Wires, Wireable, InSync, UpToDate, Canon
<1>6. Current(p)'
  BY <1>3, <1>4 DEF Blocked, Current, DeriveSteps
<1>7. ASSUME NEW x \in (reachable \cup {View}) \cap Places, Linking(p, x, "spoke")
      PROVE  Linking(p, x, "spoke")'
  BY <1>2, <1>3, <1>7 DEF Linking
<1>8. ASSUME NEW x \in Wires, Wireable(x) PROVE Wiring(p, x)'
  <2>1. UpToDate(x) /\ Linking(p, x, "agents") /\ Linking(p, x, "spoke")
    BY <1>4, <1>8 DEF Blocked, Healing, Wiring
  <2>2. x \in (reachable \cup {View}) \cap Places /\ x \in Hubs \cup {View}
    BY <1>1, <1>8 DEF Wires, Wireable, Places
  <2>3. Linking(p, x, "agents")'
    BY <1>2, <1>3, <2>1, <2>2 DEF Linking
  <2>. QED BY <1>3, <1>5, <1>7, <2>1, <2>2, <2>3 DEF Wiring, Rendering, Entering
<1>9. ASSUME NEW x \in manifest.repos \ Hubs, agents'[x].kind # "none", x \in reachable
      PROVE  Linking(p, x, "spoke")'
  <2>1. x \in Places \ (Hubs \cup {View})
    BY <1>1, <1>9
  <2>2. agents[x].kind # "none"
    BY <1>2, <1>9, <2>1
  <2>3. Linking(p, x, "spoke")
    BY <1>9, <2>2 DEF Healing
  <2>. QED BY <1>7, <1>9, <2>1, <2>3
<1>. QED BY <1>3, <1>5, <1>6, <1>8, <1>9 DEF Healing

(* The links are through.                                                      *)
Linked(p) ==
    /\ Blocked(p)
    /\ \A x \in Wires : Wireable(x) => agents[x].kind # "none" /\ spoke[x] # "none"
    /\ \A x \in manifest.repos \ Hubs :
        agents[x].kind # "none" /\ x \in reachable => spoke[x] # "none"

LEMMA AfterLinks ==
    ASSUME NEW p \in Procs, Healing(p),
           \/ pc[p] \in {"workspace", "entry", "done"}
           \/ pc[p] = "link" /\ mem[p].todo = {} /\ mem[p].viewed
    PROVE  Linked(p)
<1>1. Blocked(p)
  BY AfterPresets
<1>2. ASSUME NEW x, NEW link, Linking(p, x, link)
      PROVE  IF link = "agents" THEN agents[x].kind # "none" ELSE spoke[x] # "none"
  BY <1>2 DEF Linking
<1>3. ASSUME NEW x \in Wires, Wireable(x) PROVE agents[x].kind # "none" /\ spoke[x] # "none"
  <2>1. Linking(p, x, "agents") /\ Linking(p, x, "spoke")
    BY <1>3 DEF Healing, Wiring
  <2>. QED BY <1>2, <2>1
<1>4. ASSUME NEW x \in manifest.repos \ Hubs, agents[x].kind # "none", x \in reachable
      PROVE  spoke[x] # "none"
  <2>1. Linking(p, x, "spoke")
    BY <1>4 DEF Healing
  <2>. QED BY <1>2, <2>1
<1>. QED BY <1>1, <1>3, <1>4 DEF Linked

(* What is linked stays so while the instruction files stay as they are.       *)
LEMMA LinkedStays ==
    ASSUME NEW p \in Procs, Linked(p), UNCHANGED <<manifest, reachable, canon, agents, spoke>>,
           \A x \in Wires : x # View /\ Wireable(x) => Entering(p, x)',
           pc'[p] \in {"workspace", "entry", "done"},
           pc'[p] = "entry" => mem'[p].roster = manifest.repos
    PROVE  Healing(p)'
<1>1. Wires' = Wires /\ \A x : Wireable(x)' = Wireable(x) /\ UpToDate(x)' = UpToDate(x)
  BY DEF Wires, Wireable, InSync, UpToDate, Canon
<1>2. Current(p)'
  BY DEF Linked, Blocked, Current, DeriveSteps
<1>3. ASSUME NEW x \in Wires, Wireable(x) PROVE Wiring(p, x)'
  BY <1>1, <1>3 DEF Linked, Blocked, Wiring, Rendering, Linking
<1>4. ASSUME NEW x \in manifest.repos \ Hubs, agents[x].kind # "none", x \in reachable
      PROVE  Linking(p, x, "spoke")'
  BY <1>4 DEF Linked, Linking
<1>. QED BY <1>1, <1>2, <1>3, <1>4 DEF Healing

LEMMA WorkspaceHeals ==
    ASSUME IInv, NEW p \in Procs, Healing(p), Op(p) = "derive",
           LinkEnds(p) \/ Workspace(p) \/ MakeEntry(p) \/ EntriesEnd(p)
    PROVE  Healing(p)'
<1>1. /\ Local /\ pc \in [Procs -> PCs] /\ view \in [Names -> Repos \cup {None, Foreign}]
      /\ mem[p].roster \subseteq Repos /\ Fits(pc[p], cmd[p], mem[p])
  BY MemIn DEF IInv, TypeOK, Local
<1>2. UNCHANGED <<manifest, reachable, canon, agents, spoke>>
  BY DEF LinkEnds, Workspace, MakeEntry, EntriesEnd, disk
<1>3. Linked(p)
  BY AfterLinks DEF LinkEnds, Workspace, MakeEntry, EntriesEnd, Healing, Current, DeriveSteps
<1>4. CASE LinkEnds(p)
  <2>1. pc'[p] = "workspace"
    BY <1>1, <1>4 DEF LinkEnds, Goto
  <2>. QED BY <1>2, <1>3, <2>1, LinkedStays DEF Entering
<1>5. CASE Workspace(p)
  <2>1. /\ pc'[p] = "entry" /\ mem'[p].roster = manifest.repos
        /\ mem'[p].todo = EntryPlan(manifest.repos) /\ view' = view
    BY <1>1, <1>5, Planned DEF Workspace, disk
  <2>2. ASSUME NEW x \in Wires, x # View, Wireable(x) PROVE Entering(p, x)'
    <3>1. x \in Here(manifest.repos) /\ ~EntryShared(x, manifest.repos)
      BY <2>2 DEF Wires, Wireable, Here, EntryShared
    <3>2. view[Name[x]] # None \/ x \in EntryPlan(manifest.repos)
      BY <3>1 DEF EntryPlan
    <3>. QED BY <2>1, <3>2 DEF Entering
  <2>. QED BY <1>2, <1>3, <2>1, <2>2, LinkedStays
<1>6. CASE MakeEntry(p)
  <2>. DEFINE t == First(mem[p].todo)
  <2>1. /\ pc[p] = "entry" /\ pc' = pc /\ mem'[p].todo = mem[p].todo \ {t}
        /\ mem'[p].roster = mem[p].roster /\ mem[p].roster = manifest.repos
    BY <1>1, <1>6, Dropped DEF MakeEntry, Healing, Current
  <2>2. t \in Repos
    BY <1>1, <1>6, FirstIn DEF MakeEntry, Fits
  <2>3. t # None /\ Name[t] \in Names
    BY <2>2, NamesIn, PlacesDistinct DEF Places
  <2>4. (view' = view /\ view[Name[t]] # None) \/ view' = [view EXCEPT ![Name[t]] = t]
    BY <1>6 DEF MakeEntry
  <2>. HIDE DEF t
  <2>5. view'[Name[t]] # None
    BY <1>1, <2>3, <2>4
  <2>6. ASSUME NEW n \in Names, view[n] # None PROVE view'[n] # None
    BY <1>1, <2>3, <2>4, <2>6
  <2>7. ASSUME NEW x \in Wires, x # View, Wireable(x) PROVE Entering(p, x)'
    <3>1. Entering(p, x) /\ Name[x] \in Names
      BY <2>7, NamesIn DEF Healing, Wiring, Wires, IInv, TypeOK, Manifests, Places
    <3>2. view[Name[x]] # None \/ x \in mem[p].todo
      BY <2>1, <3>1 DEF Entering
    <3>. QED BY <2>1, <2>5, <2>6, <3>1, <3>2 DEF Entering
  <2>. QED BY <1>2, <1>3, <2>1, <2>7, LinkedStays
<1>7. CASE EntriesEnd(p)
  <2>1. pc[p] = "entry" /\ mem[p].todo = {} /\ pc'[p] = "done" /\ view' = view
    BY <1>1, <1>7 DEF EntriesEnd, Done, End, Goto, disk, Healing, Current, DeriveSteps
  <2>2. ASSUME NEW x \in Wires, x # View, Wireable(x) PROVE Entering(p, x)'
    <3>1. Entering(p, x)
      BY <2>2 DEF Healing, Wiring
    <3>. QED BY <2>1, <3>1 DEF Entering
  <2>. QED BY <1>2, <1>3, <2>1, <2>2, LinkedStays
<1>. QED BY <1>4, <1>5, <1>6, <1>7

LEMMA NextHInv == HInv /\ [Next]_vars => HInv'
<1>. SUFFICES ASSUME HInv, [Next]_vars PROVE HInv'
  OBVIOUS
<1>1. IInv /\ alone \subseteq Procs
  BY DEF HInv, IInv, TypeOK
<1>2. IInv'
  <2>1. TypeOK' /\ \A p \in Procs : Fits(pc'[p], cmd'[p], mem'[p])
    BY <1>1, TypeNext, StepsNext DEF IInv
  <2>. QED BY <1>1, <2>1, PlainNext, ProseNext, CopiedNext DEF IInv
<1>3. ASSUME NEW p \in Procs, p \in alone', Op(p)' = "derive" PROVE Healing(p)'
  <2>1. CASE Begin(p)
    BY <1>1, <1>3, <2>1, BeginHeals
  <2>2. CASE Idles(p)
    <3>1. Op(p) = "derive" /\ p \in alone
      BY <1>3, <2>2 DEF Idles, Op
    <3>. QED BY <2>2, <3>1, IdlesHeal DEF HInv
  <2>3. CASE p \in alone /\ (Derive(p) \/ Other(p))
    <3>1. cmd' = cmd
      BY <1>1, <2>3, Commanded DEF IInv, Stepped
    <3>2. Op(p) = "derive" /\ Healing(p)
      BY <1>3, <2>3, <3>1 DEF Op, HInv
    <3>3. Derive(p) \/ WriteManifest(p)
      BY <2>3, <3>2, OnlyDerives DEF Healing, Current
    <3>. QED BY <1>1, <3>2, <3>3, SyncHeals, PresetHeals, PresetViewHeals, ReadHeals, WriteHeals,
                SeedHeals, SymlinksHeals, SymlinksViewHeals, MakeLinkHeals, WorkspaceHeals
             DEF Derive
  <2>. QED BY <1>1, <1>3, <2>1, <2>2, <2>3, Undisturbed
<1>4. alone' \subseteq Procs
  BY <1>2 DEF IInv, TypeOK
<1>. QED BY <1>2, <1>3, <1>4 DEF HInv

(* Whatever an earlier command left undone or a death cut short, a derive      *)
(* through which nobody else touched the files leaves every place wired that   *)
(* nothing is in the way of: each stage of `project derive` owes what the one  *)
(* before it planned, and drops nothing of it that can still be done.          *)
THEOREM DeriveWires == Spec => []DeriveHeals
<1>1. Init => HInv
  <2>. SUFFICES ASSUME Init PROVE HInv
    OBVIOUS
  <2>1. alone = {}
    BY DEF Init
  <2>. QED BY <2>1, InitInv DEF HInv
<1>2. HInv => DeriveHeals
  <2>. SUFFICES ASSUME HInv, NEW p \in alone, Op(p) = "derive", pc[p] = "done"
       PROVE  /\ manifest.repos \subseteq manifest.roots
              /\ \A x \in (manifest.repos \cap Hubs) \cup {View} : Wireable(x) =>
                  /\ UpToDate(x)
                  /\ agents[x].kind # "none" /\ spoke[x] # "none"
                  /\ x # View => view[Name[x]] # None
              /\ \A x \in manifest.repos \ Hubs : agents[x].kind # "none" /\ x \in reachable =>
                  spoke[x] # "none"
    BY DEF DeriveHeals
  <2>1. Healing(p) /\ p \in Procs
    BY DEF HInv, IInv, TypeOK
  <2>2. Linked(p)
    BY <2>1, AfterLinks
  <2>3. ASSUME NEW x \in Wires, Wireable(x), x # View PROVE view[Name[x]] # None
    <3>1. Entering(p, x)
      BY <2>1, <2>3 DEF Healing, Wiring
    <3>. QED BY <3>1 DEF Entering
  <2>. QED BY <2>2, <2>3 DEF Linked, Blocked, Wires
<1>. QED BY <1>1, <1>2, NextHInv, PTL DEF Spec
=============================================================================
