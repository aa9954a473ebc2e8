---------------------------- MODULE ProjectWiring ----------------------------
(* The wiring of a project: the repositories the manifest declares, the        *)
(* canonical instruction files under agents/ in the anchor, the links of each  *)
(* repository to its canonical, and the links of the workspace view.  `basou   *)
(* project` commands look at what there is, plan, and change one file or link  *)
(* after the other; no lock is taken, and the files are the user's as much as  *)
(* basou's.  A step is one change with the checks the code makes right before. *)
EXTENDS Naturals, FiniteSets

CONSTANTS
    Procs,        \* the processes, each one command after the other
    Hubs,         \* the repositories whose AGENTS.md links to a canonical
    Selves,       \* those declared `instructions: self`
    Anchor,       \* the repository the manifest and the canonicals are in
    View,         \* the workspace view
    Name,         \* the basename of each of them
    Commands,     \* what may be run: pairs of an operation and a repository
    Starts,       \* what may not be wired at first: sets of places
    None,         \* no repository, no entry
    Foreign,      \* an entry of the view that basou did not make
    MaxCommands,  \* bound on the commands
    MaxTroubles   \* bound on crashes, failed writes and what people do meanwhile

Repos == Hubs \cup Selves \cup {Anchor}
Places == Repos \cup {View}
Names == {Name[x] : x \in Places}
Operations ==
    {"derive", "prune", "retrofit", "seed_view", "archive", "teardown"}

ASSUME PlacesDistinct ==
    /\ Hubs \cap Selves = {} /\ Anchor \notin Hubs \cup Selves /\ View \notin Repos
    /\ None \notin Places /\ Foreign \notin Places \cup {None}
ASSUME NamesKnown == DOMAIN Name = Places
ASSUME CommandsKnown == Commands \subseteq Operations \X (Hubs \cup Selves)
ASSUME StartsKnown == Starts # {} /\ Starts \subseteq SUBSET Places
ASSUME BoundsNat == MaxCommands \in Nat /\ MaxTroubles \in Nat

(* At the path of an instruction file is the link basou makes, a link to       *)
(* something else, a file, or nothing.                                         *)
Kinds == {"none", "ours", "foreign", "file"}
Nothing == [kind |-> "none", texts |-> {}]
Ours == [kind |-> "ours", texts |-> {}]

(* A canonical: without markers ("prose"), with a pair, with a broken pair, or *)
(* a link; whose block it holds; and the texts the user wrote around that.     *)
CanonKinds == {"none", "prose", "marked", "malformed", "foreign"}
NoCanon == [kind |-> "none", of |-> None, texts |-> {}]
Prose(texts) == [kind |-> "prose", of |-> None, texts |-> texts]
Emptied == Prose({})

VARIABLES
    manifest,  \* the declared repositories and the source roots
    reachable, \* the repositories whose path resolves to a git repository
    agents,    \* the AGENTS.md of each place
    spoke,     \* its CLAUDE.md and its copilot-instructions.md
    canon,     \* the canonical of each name
    view,      \* the entries of the view
    pc,        \* what each command does next
    cmd,       \* the command of each process
    mem,       \* what it has read
    texts,     \* the number of the newest text the user wrote
    gone,      \* history: texts lost in a window no check can close
    alone,     \* history: the commands nothing disturbed
    begun,     \* the commands so far
    troubles   \* what MaxTroubles bounds, so far

disk == <<manifest, reachable, agents, spoke, canon, view>>
bounds == <<begun, troubles>>
vars == <<disk, pc, cmd, mem, texts, gone, alone, bounds>>

NoMem == [roster |-> {}, here |-> {}, manifest |-> [repos |-> {}, roots |-> {}], todo |-> {},
          viewed |-> FALSE, target |-> None, doc |-> NoCanon, next |-> NoCanon]

Over == {"idle", "done", "dead"}
PCs == Over \cup Operations \cup
    {"sync", "manifest", "preset", "read", "write", "seed", "symlinks", "link",
     "workspace", "entry", "unlink_entry", "copy", "unlink", "relink",
     "identity", "remove", "truncate", "torn"}

Op(p) == cmd[p][1]
On(p) == cmd[p][2]
Target(p) == mem[p].target
Canon(x) == canon[Name[x]]
SetCanon(x, c) == canon' = [canon EXCEPT ![Name[x]] = c]
Goto(p, label) == pc' = [pc EXCEPT ![p] = label]

(* A command that ends forgets what it has read.                               *)
End(p, label) == Goto(p, label) /\ mem' = [mem EXCEPT ![p] = NoMem]
Done(p) == End(p, "done")
Plan(p, roster, todo, label) ==
    /\ mem' = [mem EXCEPT ![p] = [NoMem EXCEPT !.roster = roster, !.todo = todo,
                                              !.here = roster \cap reachable]]
    /\ Goto(p, label)
Drop(p, item) == mem' = [mem EXCEPT ![p].todo = @ \ {item}]

(* The order of the roster is not told apart: any fixed one will do.           *)
First(todo) == CHOOSE item \in todo : TRUE

(* Who changes something disturbs the other commands.                          *)
Changes(p) == alone' = alone \cap {p}

-----------------------------------------------------------------------------
Owner(n, candidates) ==
    LET owners == {x \in candidates : Name[x] = n} IN
    IF Cardinality(owners) = 1 THEN CHOOSE x \in owners : TRUE ELSE None

(* A project wired by an earlier derive but for some places, in one of which   *)
(* the user may have written an AGENTS.md.                                     *)
Init ==
    \E declared \in SUBSET (Hubs \cup Selves), fresh \in Starts, author \in Repos \cup {None} :
        LET wired == (declared \cup {Anchor, View}) \ fresh
            block(n) == Owner(n, {x \in wired : x \in Hubs \cup {View}})
        IN
        /\ author \in fresh \cup {None}
        /\ manifest = [repos |-> declared \cup {Anchor}, roots |-> {Anchor}]
        /\ reachable = Repos
        /\ agents = [x \in Places |->
                       IF x = author THEN [kind |-> "file", texts |-> {1}]
                       ELSE IF x \notin wired THEN Nothing
                       ELSE IF x \in Selves \cup {Anchor} THEN [kind |-> "file", texts |-> {}]
                       ELSE IF block(Name[x]) = x THEN Ours ELSE Nothing]
        /\ spoke = [x \in Places |->
                      IF x \in wired /\ (x \in Hubs => block(Name[x]) = x)
                      THEN "ours" ELSE "none"]
        /\ canon = [n \in Names |->
                      IF block(n) = None THEN NoCanon
                      ELSE [kind |-> "marked", of |-> block(n), texts |-> {}]]
        /\ view = [n \in Names |-> Owner(n, wired \cap Repos)]
        /\ texts = IF author = None THEN 0 ELSE 1
        /\ pc = [p \in Procs |-> "idle"]
        /\ cmd = [p \in Procs |-> <<"none", None>>]
        /\ mem = [p \in Procs |-> NoMem]
        /\ gone = {} /\ alone = {}
        /\ begun = 0 /\ troubles = 0

Begin(p) ==
    /\ pc[p] \in Over
    /\ begun < MaxCommands /\ begun' = begun + 1
    /\ \E c \in Commands :
        /\ cmd' = [cmd EXCEPT ![p] = c]
        /\ Goto(p, IF c[1] = "derive" THEN "sync" ELSE c[1])
    /\ alone' = alone \cup {p}
    /\ UNCHANGED <<disk, mem, texts, gone, troubles>>

-----------------------------------------------------------------------------
(* The manifest is read, changed and written as a whole.                       *)

(* reconcileSourceRoots only adds.                                             *)
Sync(p) ==
    /\ pc[p] = "sync"
    /\ IF manifest.repos \subseteq manifest.roots
       THEN Goto(p, "preset") /\ UNCHANGED mem
       ELSE /\ mem' = [mem EXCEPT ![p].manifest =
                         [manifest EXCEPT !.roots = @ \cup manifest.repos]]
            /\ Goto(p, "manifest")
    /\ UNCHANGED <<disk, cmd, texts, gone, alone, bounds>>

Archive(p) ==
    /\ pc[p] = "archive"
    /\ IF On(p) \in manifest.repos
       THEN /\ mem' = [mem EXCEPT ![p].manifest =
                         [repos |-> manifest.repos \ {On(p)},
                          roots |-> manifest.roots \ {On(p)}]]
            /\ Goto(p, "manifest")
       ELSE Done(p)
    /\ UNCHANGED <<disk, cmd, texts, gone, alone, bounds>>

WriteManifest(p) ==
    /\ pc[p] = "manifest"
    /\ manifest' = mem[p].manifest
    /\ IF Op(p) = "derive" THEN Goto(p, "preset") /\ UNCHANGED mem ELSE Done(p)
    /\ Changes(p)
    /\ UNCHANGED <<reachable, agents, spoke, canon, view, cmd, texts, gone, bounds>>

-----------------------------------------------------------------------------
(* `project preset`: the generated blocks of the canonicals.                   *)

Here(roster) == roster \cap reachable

(* Two reachable hubs of one name, or a hub named like the view.               *)
PresetShared(x, roster) ==
    \/ \E y \in (Here(roster) \cap Hubs) \ {x} : Name[y] = Name[x]
    \/ Name[x] = Name[View]

InSync(x) == Canon(x).kind = "marked" /\ Canon(x).of = x
Renderable(x) == Canon(x).kind \in {"none", "marked"} /\ ~InSync(x)

PresetPlan(roster) ==
    {x \in Here(roster) \cap Hubs : ~PresetShared(x, roster) /\ Renderable(x)}

(* viewCanonicalCollision counts every declared repository, reachable or not.  *)
ViewShared(roster) == \E y \in roster : Name[y] = Name[View]

Preset(p) ==
    /\ pc[p] = "preset"
    /\ Plan(p, manifest.repos, PresetPlan(manifest.repos), "read")
    /\ UNCHANGED <<disk, cmd, texts, gone, alone, bounds>>

(* After the repositories', the view's.                                        *)
PresetView(p) ==
    /\ pc[p] = "read" /\ Op(p) = "derive"
    /\ mem[p].todo = {} /\ ~mem[p].viewed
    /\ mem' = [mem EXCEPT ![p].viewed = TRUE,
                          ![p].todo = IF ~ViewShared(mem[p].roster) /\ Renderable(View)
                                      THEN {View} ELSE {}]
    /\ UNCHANGED <<disk, pc, cmd, texts, gone, alone, bounds>>

(* `project retrofit` without a repository: markers for the view's canonical.  *)
SeedView(p) ==
    /\ pc[p] = "seed_view"
    /\ Plan(p, manifest.repos,
            IF ~ViewShared(manifest.repos) /\ Canon(View).kind = "prose"
            THEN {View} ELSE {}, "read")
    /\ UNCHANGED <<disk, cmd, texts, gone, alone, bounds>>

(* Mutant: the canonical is rendered anew, with nothing of what is there.      *)
RenderedAnew(doc, x) == [kind |-> "marked", of |-> x, texts |-> {}]

(* renderWithMarkers and seedMarkers: what is around the markers is kept.      *)
Rendered(doc, x) == [kind |-> "marked", of |-> x, texts |-> doc.texts]

(* A link is refused, and so are markers that are broken or, but for           *)
(* seed_view, missing.                                                         *)
ReadCanon(p) ==
    /\ pc[p] = "read" /\ mem[p].todo # {}
    /\ LET x == First(mem[p].todo)
           doc == Canon(x)
           usable == {"none", "marked"} \cup (IF Op(p) = "derive" THEN {} ELSE {"prose"})
       IN
       IF doc.kind \in usable
       THEN /\ mem' = [mem EXCEPT ![p].todo = @ \ {x}, ![p].target = x,
                                  ![p].doc = doc, ![p].next = Rendered(doc, x)]
            /\ Goto(p, "write")
       ELSE Drop(p, x) /\ UNCHANGED pc
    /\ UNCHANGED <<disk, cmd, texts, gone, alone, bounds>>

(* What came into the file since it was read is lost.                          *)
WriteCanon(p) ==
    /\ pc[p] = "write"
    /\ SetCanon(Target(p), mem[p].next)
    /\ gone' = gone \cup (Canon(Target(p)).texts \ mem[p].doc.texts)
    /\ Goto(p, "read")
    /\ Changes(p)
    /\ UNCHANGED <<manifest, reachable, agents, spoke, view, cmd, mem, texts, bounds>>

ReadEnds(p) ==
    /\ pc[p] = "read" /\ mem[p].todo = {}
    /\ Op(p) = "derive" => mem[p].viewed
    /\ IF Op(p) = "derive" THEN Goto(p, "seed") /\ UNCHANGED mem ELSE Done(p)
    /\ UNCHANGED <<disk, cmd, texts, gone, alone, bounds>>

(* The anchor's own AGENTS.md is only ever created.                            *)
Seed(p) ==
    /\ pc[p] = "seed"
    /\ IF agents[Anchor].kind = "none"
       THEN /\ agents' = [agents EXCEPT ![Anchor] = [kind |-> "file", texts |-> {}]]
            /\ Changes(p)
       ELSE UNCHANGED <<agents, alone>>
    /\ Goto(p, "symlinks")
    /\ UNCHANGED <<manifest, reachable, spoke, canon, view, cmd, mem, texts, gone, bounds>>

-----------------------------------------------------------------------------
(* `project symlinks`: the links of each place to its instructions.            *)

(* What a place's spokes link to: its own AGENTS.md or, through that, the      *)
(* canonical.                                                                  *)
Instructed(x) ==
    IF x \in Hubs \cup {View} THEN Canon(x).kind # "none" ELSE agents[x].kind # "none"

(* Only reachable hubs that have a canonical count.                            *)
LinkShared(x, roster) ==
    x \in Hubs /\ \E y \in (Here(roster) \cap Hubs) \ {x} : Name[y] = Name[x]

Missing(x) ==
    {link \in {<<x, "agents">>, <<x, "spoke">>} :
        IF link[2] = "spoke" THEN spoke[x] = "none"
        ELSE x \in Hubs \cup {View} /\ agents[x].kind = "none"}

(* Mutant: a repository that has one of its links is taken for wired.          *)
LinkPlanWhole(roster) ==
    UNION {Missing(x) : x \in {y \in Here(roster) :
        Instructed(y) /\ ~LinkShared(y, roster) /\ agents[y].kind # "ours" /\ spoke[y] # "ours"}}

LinkPlan(roster) ==
    UNION {Missing(x) : x \in {y \in Here(roster) : Instructed(y) /\ ~LinkShared(y, roster)}}

ViewLinkPlan(roster) ==
    IF ViewShared(roster) \/ ~Instructed(View) THEN {} ELSE Missing(View)

Symlinks(p) ==
    /\ pc[p] = "symlinks"
    /\ Plan(p, manifest.repos, LinkPlan(manifest.repos), "link")
    /\ UNCHANGED <<disk, cmd, texts, gone, alone, bounds>>

SymlinksView(p) ==
    /\ pc[p] = "link" /\ mem[p].todo = {} /\ ~mem[p].viewed
    /\ mem' = [mem EXCEPT ![p].viewed = TRUE, ![p].todo = ViewLinkPlan(mem[p].roster)]
    /\ UNCHANGED <<disk, pc, cmd, texts, gone, alone, bounds>>

(* A link is made only where there is nothing, whatever was planned.           *)
MakeLink(p) ==
    /\ pc[p] = "link" /\ mem[p].todo # {}
    /\ LET link == First(mem[p].todo)
           x == link[1]
       IN
       /\ Drop(p, link)
       /\ IF x \in reachable \cup {View} /\ link \in Missing(x)
          THEN /\ agents' = IF link[2] = "agents" THEN [agents EXCEPT ![x] = Ours] ELSE agents
               /\ spoke' = IF link[2] = "spoke" THEN [spoke EXCEPT ![x] = "ours"] ELSE spoke
               /\ Changes(p)
          ELSE UNCHANGED <<agents, spoke, alone>>
    /\ UNCHANGED <<manifest, reachable, canon, view, pc, cmd, texts, gone, bounds>>

LinkEnds(p) ==
    /\ pc[p] = "link" /\ mem[p].todo = {} /\ mem[p].viewed
    /\ Goto(p, "workspace")
    /\ UNCHANGED <<disk, cmd, mem, texts, gone, alone, bounds>>

-----------------------------------------------------------------------------
(* `project workspace`: the entries of the view.                               *)

EntryShared(x, roster) == \E y \in Here(roster) \ {x} : Name[y] = Name[x]

EntryPlan(roster) ==
    {x \in Here(roster) : ~EntryShared(x, roster) /\ view[Name[x]] = None}

(* Links to repositories that are not declared, under a name no declared       *)
(* repository has.                                                             *)
StrayRepo(n, roster) == view[n] \in reachable \ roster
Stray(n, roster) ==
    view[n] \notin roster \cup {None} /\ \A y \in roster : Name[y] # n

Workspace(p) ==
    /\ pc[p] = "workspace"
    /\ Plan(p, manifest.repos, EntryPlan(manifest.repos), "entry")
    /\ UNCHANGED <<disk, cmd, texts, gone, alone, bounds>>

MakeEntry(p) ==
    /\ pc[p] = "entry" /\ mem[p].todo # {}
    /\ LET x == First(mem[p].todo) IN
        /\ Drop(p, x)
        /\ IF view[Name[x]] = None
           THEN view' = [view EXCEPT ![Name[x]] = x] /\ Changes(p)
           ELSE UNCHANGED <<view, alone>>
    /\ UNCHANGED <<manifest, reachable, agents, spoke, canon, pc, cmd, texts, gone, bounds>>

(* `project derive` ends with the .gitignore files, which are left out.        *)
EntriesEnd(p) ==
    /\ pc[p] \in {"entry", "unlink_entry"} /\ mem[p].todo = {}
    /\ Done(p)
    /\ UNCHANGED <<disk, cmd, texts, gone, alone, bounds>>

(* `--prune`, unless a declared repository is away.                            *)
Prune(p) ==
    /\ pc[p] = "prune"
    /\ LET roster == manifest.repos IN
        Plan(p, roster,
             IF roster \subseteq reachable
             THEN {n \in Names : Stray(n, roster) /\ StrayRepo(n, roster)}
             ELSE {}, "unlink_entry")
    /\ UNCHANGED <<disk, cmd, texts, gone, alone, bounds>>

UnlinkEntry(p) ==
    /\ pc[p] = "unlink_entry" /\ mem[p].todo # {}
    /\ LET n == First(mem[p].todo) IN
        /\ Drop(p, n)
        /\ IF StrayRepo(n, mem[p].roster)
           THEN view' = [view EXCEPT ![n] = None] /\ Changes(p)
           ELSE UNCHANGED <<view, alone>>
    /\ UNCHANGED <<manifest, reachable, agents, spoke, canon, pc, cmd, texts, gone, bounds>>

-----------------------------------------------------------------------------
(* `project retrofit`: an AGENTS.md becomes the canonical.                     *)

Retrofit(p) ==
    /\ pc[p] = "retrofit"
    /\ LET x == On(p) IN
        IF /\ x \in manifest.repos \cap Hubs \cap reachable
           /\ agents[x].kind = "file"
           /\ Name[x] # Name[View]
           /\ Canon(x).kind = "none"
        THEN Goto(p, "copy") /\ UNCHANGED mem
        ELSE Done(p)
    /\ UNCHANGED <<disk, cmd, texts, gone, alone, bounds>>

(* COPYFILE_EXCL: nothing is copied over a canonical that has come to be there;*)
(* of a link, what it leads to is copied.                                      *)
Copy(p) ==
    /\ pc[p] = "copy"
    /\ LET x == On(p) IN
        IF Canon(x).kind = "none" /\ agents[x].kind \in {"file", "foreign"} /\ x \in reachable
        THEN /\ mem' = [mem EXCEPT ![p].doc = Prose(agents[x].texts)]
             /\ SetCanon(x, Prose(agents[x].texts))
             /\ Goto(p, "unlink")
             /\ Changes(p)
        ELSE Done(p) /\ UNCHANGED <<canon, alone>>
    /\ UNCHANGED <<manifest, reachable, agents, spoke, view, cmd, texts, gone, bounds>>

Unlink(p) ==
    /\ pc[p] = "unlink"
    /\ LET x == On(p) IN
        IF agents[x].kind # "none" /\ x \in reachable
        THEN /\ agents' = [agents EXCEPT ![x] = Nothing]
             /\ gone' = gone \cup (agents[x].texts \ mem[p].doc.texts)
             /\ Goto(p, "relink") /\ UNCHANGED mem
             /\ Changes(p)
        ELSE Done(p) /\ UNCHANGED <<agents, gone, alone>>
    /\ UNCHANGED <<manifest, reachable, spoke, canon, view, cmd, texts, bounds>>

Relink(p) ==
    /\ pc[p] = "relink"
    /\ LET x == On(p) IN
        IF agents[x].kind = "none" /\ x \in reachable
        THEN agents' = [agents EXCEPT ![x] = Ours] /\ Changes(p)
        ELSE UNCHANGED <<agents, alone>>
    /\ Done(p)
    /\ UNCHANGED <<manifest, reachable, spoke, canon, view, cmd, texts, gone, bounds>>

-----------------------------------------------------------------------------
(* `project teardown`: what derive made for one repository is removed, also    *)
(* when it is declared no more.                                                *)

(* Mutant: a repository that is away does not count.                           *)
NameTakenHere(x, roster) == \E y \in Here(roster) \ {x} : Name[y] = Name[x]

NameTaken(x, roster) == \E y \in roster \ {x} : Name[y] = Name[x]

(* What is a repository's own is kept only while it is declared so.            *)
Removable(x, roster) ==
    {what \in {"agents", "spoke", "entry", "canon"} :
        CASE what = "agents" -> /\ x \in reachable /\ x \notin Selves \cap roster
                                /\ agents[x].kind = "ours"
          [] what = "spoke"  -> /\ x \in reachable /\ x \notin Selves \cap roster
                                /\ spoke[x] = "ours"
          [] what = "entry"  -> view[Name[x]] = x /\ ~NameTaken(x, roster)
          [] what = "canon"  -> /\ x \in reachable /\ ~NameTaken(x, roster)
                                /\ Canon(x).kind = "marked"}

(* The target is known by its path, or as the repository it led to.            *)
Teardown(p) ==
    /\ pc[p] = "teardown"
    /\ LET todo == Removable(On(p), manifest.repos) IN
        IF todo = {} THEN Done(p)
        ELSE /\ mem' = [mem EXCEPT ![p] =
                          [NoMem EXCEPT !.roster = manifest.repos, !.todo = todo,
                             !.target = IF On(p) \in reachable THEN On(p) ELSE None]]
             /\ Goto(p, "identity")
    /\ UNCHANGED <<disk, cmd, texts, gone, alone, bounds>>

Identity(p) ==
    /\ pc[p] = "identity"
    /\ IF Target(p) = None \/ Target(p) \in reachable
       THEN Goto(p, "remove") /\ UNCHANGED mem
       ELSE Done(p)
    /\ UNCHANGED <<disk, cmd, texts, gone, alone, bounds>>

(* The links first, each looked at once more.                                  *)
RemoveLink(p) ==
    /\ pc[p] = "remove" /\ mem[p].todo \ {"canon"} # {}
    /\ LET what == First(mem[p].todo \ {"canon"})
           x == On(p)
           there == x \in reachable
       IN
       /\ Drop(p, what)
       /\ agents' = IF what = "agents" /\ there /\ agents[x].kind = "ours"
                    THEN [agents EXCEPT ![x] = Nothing] ELSE agents
       /\ spoke' = IF what = "spoke" /\ there /\ spoke[x] = "ours"
                   THEN [spoke EXCEPT ![x] = "none"] ELSE spoke
       /\ view' = IF what = "entry" /\ view[Name[x]] = x /\ (Target(p) = None \/ there)
                  THEN [view EXCEPT ![Name[x]] = None] ELSE view
    /\ Changes(p)
    /\ UNCHANGED <<manifest, reachable, canon, pc, cmd, texts, gone, bounds>>

(* Then the generated block: opened, and read through the descriptor.          *)
OpenCanon(p) ==
    /\ pc[p] = "remove" /\ mem[p].todo \subseteq {"canon"}
    /\ IF "canon" \in mem[p].todo /\ Canon(On(p)).kind = "marked"
       THEN /\ mem' = [mem EXCEPT ![p].doc = Canon(On(p))]
            /\ Goto(p, "truncate")
       ELSE Done(p)
    /\ UNCHANGED <<disk, cmd, texts, gone, alone, bounds>>

(* Who changed the file meanwhile replaced it, and the descriptor is that of   *)
(* the old one, or an editor wrote into it.                                    *)
Truncate(p) ==
    /\ pc[p] = "truncate"
    /\ LET x == On(p) IN
        \/ /\ Canon(x).of = mem[p].doc.of
           /\ SetCanon(x, Emptied)
           /\ gone' = gone \cup (Canon(x).texts \ mem[p].doc.texts)
           /\ Goto(p, "torn") /\ UNCHANGED mem
           /\ Changes(p)
        \/ /\ Canon(x) # mem[p].doc
           /\ Done(p)
           /\ UNCHANGED <<canon, gone, alone>>
    /\ UNCHANGED <<manifest, reachable, agents, spoke, view, cmd, texts, bounds>>

(* removeMarkerSection.                                                        *)
Unmarked(doc) == Prose(doc.texts)

(* What is read goes back into the file, unless that was replaced: then what   *)
(* the one who did so never saw is lost.                                       *)
WriteRest(p) ==
    /\ pc[p] = "torn"
    /\ LET x == On(p)
           rest == Unmarked(mem[p].doc)
       IN
       IF Canon(x) = Emptied THEN SetCanon(x, rest) /\ Changes(p) /\ UNCHANGED gone
       ELSE /\ gone' = gone \cup (mem[p].doc.texts \ Canon(x).texts)
            /\ UNCHANGED <<canon, alone>>
    /\ Done(p)
    /\ UNCHANGED <<manifest, reachable, agents, spoke, view, cmd, texts, bounds>>

-----------------------------------------------------------------------------
Trouble == troubles < MaxTroubles /\ troubles' = troubles + 1
Torn(p) == IF pc[p] = "torn" THEN mem[p].doc.texts \ Canon(On(p)).texts ELSE {}

Crash(p) ==
    /\ pc[p] \notin Over
    /\ End(p, "dead")
    /\ gone' = gone \cup Torn(p)
    /\ alone' = alone \ {p}
    /\ UNCHANGED <<disk, cmd, texts, begun>>
    /\ Trouble

(* A write fails; the plan goes on with what is left of it, the other commands *)
(* end.                                                                        *)
WriteFails(p) ==
    /\ \/ pc[p] = "write" /\ Goto(p, "read") /\ UNCHANGED mem
       \/ pc[p] = "seed" /\ Goto(p, "symlinks") /\ UNCHANGED mem
       \/ /\ pc[p] \in {"link", "entry", "unlink_entry"} /\ mem[p].todo # {}
          /\ Drop(p, First(mem[p].todo)) /\ UNCHANGED pc
       \/ /\ pc[p] = "remove" /\ mem[p].todo \ {"canon"} # {}
          /\ Drop(p, First(mem[p].todo \ {"canon"})) /\ UNCHANGED pc
       \/ pc[p] \in {"manifest", "copy", "unlink", "relink", "truncate", "torn"} /\ Done(p)
    /\ gone' = gone \cup Torn(p)
    /\ alone' = alone \ {p}
    /\ UNCHANGED <<disk, cmd, texts, begun>>
    /\ Trouble

-----------------------------------------------------------------------------
(* What people do to their files, at any time.                                 *)

untouched == <<pc, cmd, mem, gone, begun>>
People == Trouble /\ alone' = {}

EditCanon(n) ==
    /\ canon[n].kind \in {"none", "prose", "marked"}
    /\ texts' = texts + 1
    /\ canon' = [canon EXCEPT ![n].kind = IF @ = "none" THEN "prose" ELSE @,
                              ![n].texts = @ \cup {texts'}]
    /\ People
    /\ UNCHANGED <<manifest, reachable, agents, spoke, view, untouched>>

(* A marker line is lost, or the file moved away and linked to.                *)
SpoilCanon(n) ==
    /\ \/ canon[n].kind = "marked" /\ canon' = [canon EXCEPT ![n].kind = "malformed"]
       \/ /\ canon[n].kind \notin {"none", "foreign"} /\ canon[n].texts = {}
          /\ canon' = [canon EXCEPT ![n] = [NoCanon EXCEPT !.kind = "foreign"]]
    /\ People
    /\ UNCHANGED <<manifest, reachable, agents, spoke, view, texts, untouched>>

(* The user writes an AGENTS.md, also in place of a link.                      *)
WriteAgents(x) ==
    /\ texts' = texts + 1
    /\ agents' = [agents EXCEPT ![x] = [kind |-> "file", texts |-> @.texts \cup {texts'}]]
    /\ People
    /\ UNCHANGED <<manifest, reachable, spoke, canon, view, untouched>>

RelinkAgents(x) ==
    /\ agents[x].texts = {} /\ agents[x].kind # "foreign"
    /\ agents' = [agents EXCEPT ![x] = [Nothing EXCEPT !.kind = "foreign"]]
    /\ People
    /\ UNCHANGED <<manifest, reachable, spoke, canon, view, texts, untouched>>

WriteSpoke(x) ==
    /\ spoke[x] # "file"
    /\ spoke' = [spoke EXCEPT ![x] = "file"]
    /\ People
    /\ UNCHANGED <<manifest, reachable, agents, canon, view, texts, untouched>>

SetEntry(n) ==
    /\ \E entry \in (Hubs \cup {Foreign}) \ {view[n]} : view' = [view EXCEPT ![n] = entry]
    /\ People
    /\ UNCHANGED <<manifest, reachable, agents, spoke, canon, texts, untouched>>

MoveRepo(x) ==
    /\ reachable' = IF x \in reachable THEN reachable \ {x} ELSE reachable \cup {x}
    /\ People
    /\ UNCHANGED <<manifest, agents, spoke, canon, view, texts, untouched>>

Declare(x) ==
    /\ x \notin manifest.repos
    /\ manifest' = [manifest EXCEPT !.repos = @ \cup {x}]
    /\ People
    /\ UNCHANGED <<reachable, agents, spoke, canon, view, texts, untouched>>

-----------------------------------------------------------------------------
Derive(p) ==
    \/ Sync(p) \/ Preset(p) \/ PresetView(p) \/ ReadCanon(p) \/ WriteCanon(p)
    \/ ReadEnds(p) \/ Seed(p) \/ Symlinks(p) \/ SymlinksView(p) \/ MakeLink(p)
    \/ LinkEnds(p) \/ Workspace(p) \/ MakeEntry(p) \/ EntriesEnd(p)

Other(p) ==
    \/ Archive(p) \/ WriteManifest(p) \/ Prune(p) \/ UnlinkEntry(p) \/ SeedView(p)
    \/ Retrofit(p) \/ Copy(p) \/ Unlink(p) \/ Relink(p)
    \/ Teardown(p) \/ Identity(p) \/ RemoveLink(p) \/ OpenCanon(p) \/ Truncate(p)
    \/ WriteRest(p)

Next ==
    \/ \E p \in Procs : Begin(p) \/ Derive(p) \/ Other(p) \/ Crash(p) \/ WriteFails(p)
    \/ \E n \in Names : EditCanon(n) \/ SpoilCanon(n) \/ SetEntry(n)
    \/ \E x \in Hubs \cup Selves :
        WriteAgents(x) \/ RelinkAgents(x) \/ WriteSpoke(x) \/ MoveRepo(x) \/ Declare(x)

Spec == Init /\ [][Next]_vars

-----------------------------------------------------------------------------
Manifests == [repos : SUBSET Repos, roots : SUBSET Repos]
Canons == [kind : CanonKinds, of : Places \cup {None}, texts : SUBSET Nat]
Items == Places \cup (Places \X {"agents", "spoke"}) \cup Names
         \cup {"agents", "spoke", "entry", "canon"}
Memories ==
    [roster : SUBSET Repos, here : SUBSET Repos, manifest : Manifests, todo : SUBSET Items,
     viewed : BOOLEAN, target : Places \cup {None}, doc : Canons, next : Canons]

TypeOK ==
    /\ manifest \in Manifests /\ reachable \subseteq Repos
    /\ agents \in [Places -> [kind : Kinds, texts : SUBSET Nat]]
    /\ spoke \in [Places -> {"none", "ours", "file"}]
    /\ canon \in [Names -> Canons]
    /\ view \in [Names -> Repos \cup {None, Foreign}]
    /\ pc \in [Procs -> PCs]
    /\ cmd \in [Procs -> (Operations \cup {"none"}) \X (Repos \cup {None})]
    /\ mem \in [Procs -> Memories]
    /\ texts \in Nat /\ gone \subseteq Nat
    /\ alone \subseteq Procs

(* What the user wrote into an instruction file is never lost but in the two   *)
(* windows between a look and the write it leads to, and between truncating a  *)
(* canonical and writing the rest of it back.                                  *)
ProseKept ==
    \A t \in 1 .. texts :
        \/ \E x \in Places : t \in agents[x].texts
        \/ \E n \in Names : t \in canon[n].texts
        \/ \E p \in Procs : pc[p] = "torn" /\ t \in mem[p].doc.texts
        \/ t \in gone

(* A command leaves alone what it sees to belong to another declared           *)
(* repository: teardown of x takes no entry and no block a repository of the   *)
(* same name still needs, reachable or not; prune takes no entry of a declared *)
(* repository; and a block is rendered over that of another only if that one   *)
(* is not there to be asked.                                                   *)
Shares(p, n, owner) == \E y \in mem[p].roster \ {owner} : Name[y] = n

OthersKept ==
    [][\A n \in Names :
        /\ view[n] # None /\ view'[n] = None =>
            \E p \in Procs :
                \/ Op(p) = "prune" /\ view[n] \notin mem[p].roster
                \/ Op(p) = "teardown" /\ On(p) = view[n] /\ ~Shares(p, n, On(p))
        /\ canon[n].kind = "marked" /\ canon'[n].kind = "prose" =>
            \E p \in Procs :
                /\ Op(p) = "teardown" /\ Name[On(p)] = n /\ ~Shares(p, n, On(p))
        /\ canon[n].of # None /\ canon'[n].kind = "marked" /\ canon'[n].of # canon[n].of =>
            \E p \in Procs :
                /\ pc[p] = "write" /\ Target(p) = canon'[n].of
                /\ canon[n].of \notin mem[p].here \cup {View}]_vars

(* A derive that nothing disturbed leaves everything wired that nothing is in  *)
(* the way of: no file or link of the user's, no name two want.  A canonical   *)
(* without markers, or with broken ones, is left as it is and linked to all    *)
(* the same; so a derive makes up for whatever an earlier command left undone, *)
(* a retrofit that ended between its unlink and its link included.             *)
Wireable(x) ==
    /\ x \in reachable \/ x = View
    /\ \A y \in (manifest.repos \cup {View}) \ {x} : Name[y] # Name[x]
    /\ Canon(x).kind # "foreign"

UpToDate(x) == Canon(x).kind \in {"none", "marked"} => InSync(x)

DeriveHeals ==
    \A p \in alone : Op(p) = "derive" /\ pc[p] = "done" =>
        /\ manifest.repos \subseteq manifest.roots
        /\ \A x \in (manifest.repos \cap Hubs) \cup {View} : Wireable(x) =>
            /\ UpToDate(x)
            /\ agents[x].kind # "none" /\ spoke[x] # "none"
            /\ x # View => view[Name[x]] # None
        /\ \A x \in manifest.repos \ Hubs : agents[x].kind # "none" /\ x \in reachable =>
            spoke[x] # "none"
=============================================================================
