--------------------------- MODULE TaskStoreProofs --------------------------
(* What listings show and what becomes of task files, for any number of       *)
(* processes and tasks and any bounds.                                        *)
EXTENDS TaskStore, FiniteSetTheorems, WellFoundedInduction, TLAPS

Changes == Operations \ (Creates \cup {"list"})

(* Which command is at which label.                                           *)
Labels ==
    \A p \in Procs :
        /\ pc[p] \notin Over \cup {"idle"} => cmd[p] \in Command
        /\ pc[p] \in Over \cup {"idle"} => cmd[p] = NoCommand
        /\ Op(p) = "create" => pc[p] \in {"record", "write", "index", "save", "release", "throw"}
        /\ Op(p) = "attach" => pc[p] \in {"lock", "link", "second", "write", "index", "save",
                                          "release", "throw"}
        /\ Op(p) \in Changes => pc[p] \in {"lock"} \cup Inside
        /\ Op(p) = "list" => pc[p] \in {"replay", "ids", "dir", "scan", "rebuild",
             "archived", "answer"}
        /\ pc[p] \in {"look", "probe"} => Op(p) \in {"reconcile", "refresh"}
        /\ pc[p] = "move" => Op(p) \in {"archive", "delete"}
        /\ pc[p] = "write" => Op(p) # "delete"

(* Whoever is changing a task holds its lock.                                 *)
Exclusion ==
    \A p \in Procs : Op(p) \in Changes /\ pc[p] \in Inside => locks[Task(p)] = p

(* A file has a trail, and one whose deletion is recorded and made is gone.   *)
Traced ==
    \A t \in Tasks :
        /\ landed[t] \subseteq DOMAIN trail[t]
        /\ files[t].place # "none" => trail[t] # <<>>
        /\ files[t].place = "none" => files[t] = NoFile
        /\ \A i \in landed[t] : trail[t][i].to = "deleted" => files[t] = NoFile

(* Between its read and its write the file is where it was, in the status it  *)
(* was in, from which the task may go where the command says.                 *)
Standing(p) ==
    Op(p) \in Changes /\ pc[p] \in {"look", "record", "probe", "write", "move"} =>
        /\ files[Task(p)].place = "live"
        /\ files[Task(p)].status = mem[p].doc.status
        /\ Op(p) = "status" => <<mem[p].doc.status, cmd[p].to>> \in AllowedTransitions

(* A task is created once, and nobody finds it before its file is written.    *)
Fresh(p) ==
    Op(p) \in Creates =>
        /\ \A q \in Procs : Op(q) \in Creates /\ Task(q) = Task(p) => q = p
        /\ pc[p] \in {"lock", "record", "link", "second", "write"} =>
            files[Task(p)] = NoFile /\ landed[Task(p)] = {}
        /\ pc[p] \in {"link", "second", "write"} => trail[Task(p)] # <<>>

(* What is in the trail when the file is changed: the events of the command,  *)
(* and the deletion of a task only if that is the command.                    *)
Pending(p) ==
    /\ pc[p] \in Over \cup {"idle", "lock", "read"} => mem[p].events = {}
    /\ pc[p] \in {"link", "second", "probe", "write", "move"} =>
         \A i \in mem[p].events :
            /\ i \in DOMAIN trail[Task(p)]
            /\ trail[Task(p)][i].to = "deleted" => Op(p) = "delete"

(* The text that reconcile and refresh write is the file's, or was edited     *)
(* after they looked again.                                                   *)
Untouched(p) ==
    pc[p] = "write" /\ Op(p) \in {"reconcile", "refresh"} =>
        files[Task(p)].text = mem[p].doc.text \/ mem[p].late

(* What a listing has to show is on disk, and what only the archive has is    *)
(* there.                                                                     *)
Listing(p) ==
    /\ pc[p] \in {"ids", "dir", "scan", "rebuild", "archived", "answer"} =>
        mem[p].present \subseteq Live /\ mem[p].kept \ mem[p].present \subseteq Archived
    /\ pc[p] \in {"scan", "rebuild", "archived", "answer"} /\ ~mem[p].blind =>
        mem[p].present \subseteq mem[p].seen
    /\ pc[p] = "archived" /\ ~mem[p].blind => mem[p].seen = {}
    /\ mem[p].none => pc[p] = "answer"
    /\ mem[p].none /\ ~mem[p].blind => mem[p].kept = {}

Sound(p) == Standing(p) /\ Fresh(p) /\ Pending(p) /\ Untouched(p) /\ Listing(p)

IInv == TypeOK /\ Labels /\ Exclusion /\ Traced /\ \A p \in Procs : Sound(p)

-----------------------------------------------------------------------------
(* A step of one process.                                                     *)

(* The others are where they were.                                            *)
Others(p) ==
    \A q \in Procs \ {p} : pc'[q] = pc[q] /\ cmd'[q] = cmd[q] /\ mem'[q] = mem[q]

(* Events are only added.                                                     *)
Grows ==
    \A t \in Tasks : /\ DOMAIN trail[t] \subseteq DOMAIN trail'[t]
                     /\ trail[t] # <<>> => trail'[t] # <<>>
                     /\ \A i \in DOMAIN trail[t] : trail'[t][i] = trail[t][i]

-----------------------------------------------------------------------------
(* Types.                                                                     *)

LEMMA PcIn ==
    ASSUME pc \in [Procs -> PCs], NEW p \in Procs, NEW label \in PCs, Goto(p, label)
    PROVE  pc' \in [Procs -> PCs]
BY DEF Goto

LEMMA Truths == TRUE \in BOOLEAN /\ FALSE \in BOOLEAN
OBVIOUS

LEMMA NothingRead == NoFile \in File /\ NoRows \in Rows /\ NoMem \in Mem
<1>1. NoFile \in File /\ NoRows \in Rows
  BY DEF NoFile, File, NoRows, Rows, NoSession, Statuses
<1> QED
  BY <1>1, Truths DEF NoMem, Mem, NoSession

LEMMA EndIn ==
    ASSUME TypeOK, NEW p \in Procs, NEW label \in PCs, End(p, label)
    PROVE  /\ pc' \in [Procs -> PCs] /\ mem' \in [Procs -> Mem]
           /\ cmd' \in [Procs -> Command \cup {NoCommand}]
BY PcIn, NothingRead DEF TypeOK, End

(* The fields of what is read, one by one.                                    *)
LEMMA Memo ==
    ASSUME NEW m \in Mem
    PROVE  /\ \A x \in File : [m EXCEPT !.doc = x] \in Mem
           /\ \A x \in SUBSET Nat : [m EXCEPT !.found = x] \in Mem
           /\ \A x \in SUBSET Nat : [m EXCEPT !.events = x] \in Mem
           /\ \A s \in Nat, x \in SUBSET Nat : [m EXCEPT !.ses = s, !.events = x] \in Mem
           /\ \A x \in Rows : [m EXCEPT !.rows = x] \in Mem
           /\ [m EXCEPT !.late = TRUE] \in Mem
           /\ [m EXCEPT !.blind = TRUE] \in Mem
           /\ \A x \in BOOLEAN : [m EXCEPT !.none = x] \in Mem
           /\ \A x, y \in SUBSET Tasks, b \in BOOLEAN :
                [m EXCEPT !.created = b, !.present = x, !.kept = y] \in Mem
           /\ \A x, y \in SUBSET Tasks : [m EXCEPT !.present = x, !.kept = y] \in Mem
           /\ \A x \in SUBSET Tasks, b \in BOOLEAN : [m EXCEPT !.valid = b, !.seen = x] \in Mem
           /\ \A x, y \in SUBSET Tasks, r \in Rows :
                [m EXCEPT !.seen = x, !.left = y, !.rows = r] \in Mem
           /\ \A x \in SUBSET Tasks, r \in Rows : [m EXCEPT !.left = x, !.rows = r] \in Mem
BY Truths DEF Mem

LEMMA Fields ==
    ASSUME NEW m \in Mem
    PROVE  /\ m.doc \in File /\ m.found \in SUBSET Nat /\ m.ses \in Nat /\ m.events \in SUBSET Nat
           /\ m.rows \in Rows /\ m.left \in SUBSET Tasks /\ m.seen \in SUBSET Tasks
           /\ m.present \in SUBSET Tasks /\ m.kept \in SUBSET Tasks
BY DEF Mem


LEMMA Grown ==
    ASSUME trail \in [Tasks -> Seq(Event)], NEW t \in Tasks
    PROVE  /\ \A es \in Seq(Event) : [trail EXCEPT ![t] = @ \o es] \in [Tasks -> Seq(Event)]
           /\ \A e \in Event : [trail EXCEPT ![t] = Append(@, e)] \in [Tasks -> Seq(Event)]
<1>1. \A es \in Seq(Event) : trail[t] \o es \in Seq(Event)
  OBVIOUS
<1>2. \A e \in Event : Append(trail[t], e) \in Seq(Event)
  OBVIOUS
<1> QED
  BY <1>1, <1>2

LEMMA Edited ==
    ASSUME NEW f \in File
    PROVE  /\ f.text \in Nat /\ f.status \in Statuses
           /\ \A x \in Nat : [f EXCEPT !.text = x] \in File
           /\ [f EXCEPT !.place = "archive"] \in File
           /\ [f EXCEPT !.text = f.text + 1] \in File
<1>1. f.text \in Nat /\ f.status \in Statuses
  BY DEF File
<1>2. \A x \in Nat : [f EXCEPT !.text = x] \in File
  BY DEF File
<1>3. [f EXCEPT !.place = "archive"] \in File
  BY DEF File
<1>4. f.text + 1 \in Nat
  BY <1>1
<1> QED
  BY <1>1, <1>2, <1>3, <1>4

LEMMA CommandIn ==
    ASSUME TypeOK, Labels, NEW p \in Procs, pc[p] \notin Over \cup {"idle"}
    PROVE  Task(p) \in Tasks /\ Op(p) \in Operations /\ cmd[p].to \in Statuses
BY DEF Labels, Command, Task, Op

LEMMA NewFileIn ==
    ASSUME TypeOK, Labels, NEW p \in Procs, pc[p] \notin Over \cup {"idle"}
    PROVE  NewFile(p) \in File
<1>1. mem[p].doc \in File /\ mem[p].found \in SUBSET Nat /\ mem[p].ses \in Nat
  BY Fields DEF TypeOK
<1> HIDE DEF Mem
<1>2. NewLinks(p) \in SUBSET Nat
  BY <1>1 DEF NewLinks, File
<1> QED
  BY <1>1, <1>2, CommandIn DEF NewFile, File

LEMMA RecordedIn ==
    ASSUME TypeOK, Labels, NEW p \in Procs, pc[p] \notin Over \cup {"idle"}, NEW s \in Nat
    PROVE  Recorded(p, s) \in Seq(Event)
<1>1. cmd[p].to \in Statuses /\ mem[p].doc.status \in Statuses
  BY CommandIn, Fields DEF File, TypeOK
<1>2. \A from \in Lives, to \in Lives : To(from, to, s) \in Event
  BY DEF To, Event
<1>3. \A e \in Event, d \in Event : <<>> \in Seq(Event) /\ <<e>> \in Seq(Event)
      /\ <<e>> \o <<d>> \in Seq(Event) /\ <<e>> \o <<>> \in Seq(Event)
  OBVIOUS
<1>4. CreatedEvent(p, s) \in Event
  BY <1>1, <1>2 DEF CreatedEvent, Lives, Statuses
<1> QED
  BY <1>1, <1>2, <1>3, <1>4 DEF Recorded, Lives, Statuses

LEMMA Appended ==
    ASSUME NEW s \in Seq(Event), NEW e \in Event
    PROVE  /\ DOMAIN s \subseteq DOMAIN Append(s, e)
           /\ \A i \in DOMAIN s : Append(s, e)[i] = s[i]
           /\ Append(s, e) # <<>>
           /\ Len(Append(s, e)) \in DOMAIN Append(s, e)
           /\ Append(s, e)[Len(Append(s, e))] = e
<1>1. Len(Append(s, e)) = Len(s) + 1 /\ Len(s) \in Nat
  OBVIOUS
<1>2. DOMAIN s = 1 .. Len(s) /\ DOMAIN Append(s, e) = 1 .. Len(s) + 1
  OBVIOUS
<1>3. \A i \in DOMAIN s : Append(s, e)[i] = s[i]
  OBVIOUS
<1>4. Append(s, e)[Len(s) + 1] = e
  OBVIOUS
<1>5. Append(s, e) # <<>>
  OBVIOUS
<1> QED
  BY <1>1, <1>2, <1>3, <1>4, <1>5

(* Every step keeps the types.                                                *)
LEMMA TypeNext ==
    ASSUME TypeOK, Labels, Next
    PROVE  TypeOK'
<1> USE BoundsNat DEF store, bounds
<1>a. /\ files \in [Tasks -> File] /\ index \in [valid : BOOLEAN, rows : Rows]
      /\ trail \in [Tasks -> Seq(Event)] /\ dirs \subseteq Nat /\ damaged \subseteq Nat
      /\ pins \subseteq Nat \X Tasks /\ minted \in Nat /\ locks \in [Tasks -> Procs \cup {Free}]
      /\ pc \in [Procs -> PCs] /\ cmd \in [Procs -> Command \cup {NoCommand}]
      /\ mem \in [Procs -> Mem] /\ landed \in [Tasks -> SUBSET Nat] /\ told \subseteq Nat
      /\ begun \in 0 .. MaxCommands /\ troubles \in 0 .. MaxTroubles
  BY DEF TypeOK
<1>b. {"idle", "lock", "link", "second", "replay", "ids", "dir", "scan",
        "rebuild", "archived", "answer", "read", "look", "record", "probe", "write",
          "move", "index", "save",
           "release", "throw", "done", "failed", "dead"} \subseteq PCs
  BY DEF PCs, Inside, Over
<1>c. \A p \in Procs : mem[p] \in Mem
  BY <1>a
<1>d. TRUE \in BOOLEAN OBVIOUS
<1>e. \A p \in Procs : pc[p] \notin {"idle", "done", "failed", "dead"} =>
        pc[p] \notin Over \cup {"idle"}
  BY DEF Over
<1>1. ASSUME NEW p \in Procs, Start(p) PROVE TypeOK'
  <2>1. pc' \in [Procs -> PCs]
    BY <1>1, <1>a, <1>b DEF Start, Goto, Begin
  <2>2. \A c \in Commands, to \in Targets \cup {"planned"} :
          [op |-> c[1], task |-> c[2], to |-> to] \in Command
    BY <1>1, <1>a, CommandsKnown, TargetsKnown DEF Start, Command, Statuses
  <2>3. cmd' \in [Procs -> Command \cup {NoCommand}]
    BY <1>1, <1>a, <2>2 DEF Start
  <2> QED
    BY <2>1, <2>2, <2>3, <1>1, <1>a DEF TypeOK, Start
<1>2. ASSUME NEW p \in Procs, Lock(p) PROVE TypeOK'
  BY <1>2, <1>a, <1>b, <1>c, <1>d, <1>e, PcIn, EndIn, CommandIn DEF TypeOK, Lock
<1>3. ASSUME NEW p \in Procs, Release(p) PROVE TypeOK'
  BY <1>3, <1>a, <1>b, <1>c, <1>d, <1>e, EndIn DEF TypeOK, Release
<1>4. ASSUME NEW p \in Procs, Read(p) PROVE TypeOK'
  <2>1. Task(p) \in Tasks
    BY <1>4, <1>a, <1>e, CommandIn DEF Read
  <2>2. AfterRead(p) \in PCs
    BY <1>4, <1>a, <1>b DEF Read, AfterRead
  <2>3. pc' \in [Procs -> PCs]
    BY <1>4, <1>a, <1>b, <2>2 DEF Read, Goto
  <2>4. [mem[p] EXCEPT !.doc = files[Task(p)]] \in Mem
    BY <1>4, <1>a, <1>c, <2>1, Memo DEF Read
  <2>5. mem' \in [Procs -> Mem]
    BY <1>4, <1>a, <2>4 DEF Read
  <2> QED
    BY <2>1, <2>2, <2>3, <2>4, <2>5, <1>4, <1>a DEF TypeOK, Read
<1>5. ASSUME NEW p \in Procs, Look(p) PROVE TypeOK'
  <2>1. pc' \in [Procs -> PCs]
    BY <1>5, <1>a, <1>b DEF Look, Goto
  <2>2. FinalLinked(Task(p), mem[p].doc) \in SUBSET Nat /\ Broken(mem[p].doc) \in SUBSET Nat
    BY <1>5, <1>a, <1>c, Fields DEF Look, FinalLinked, PinnedTo, Broken, File
  <2>3. \A x \in SUBSET Nat : [mem[p] EXCEPT !.found = x] \in Mem
    BY <1>5, <1>a, <1>c, Memo DEF Look
  <2>4. mem' \in [Procs -> Mem]
    BY <1>5, <1>a, <2>2, <2>3 DEF Look
  <2>5. told' \subseteq Nat
    BY <1>5, <1>a DEF Look, Refreshed, PinnedTo
  <2> QED
    BY <2>1, <2>2, <2>3, <2>4, <2>5, <1>5, <1>a DEF TypeOK, Look
<1>6. ASSUME NEW p \in Procs, Record(p) PROVE TypeOK'
  <2>1. Task(p) \in Tasks
    BY <1>6, <1>a, <1>e, CommandIn DEF Record
  <2>2. pc' \in [Procs -> PCs]
    BY <1>6, <1>a, <1>b DEF Record, Goto, AfterRecord
  <2>3. minted' \in Nat /\ dirs' \subseteq Nat /\ pins' \subseteq Nat \X Tasks
    BY <1>6, <1>a, <2>1 DEF Record, Mint
  <2>4. trail' \in [Tasks -> Seq(Event)]
    BY <1>6, <1>a, <1>e, <2>1, <2>3, RecordedIn, Grown DEF Record, Mint
  <2>5. DOMAIN trail'[Task(p)] \ DOMAIN trail[Task(p)] \in SUBSET Nat
    BY <1>6, <1>a, <2>4, <2>1 DEF Record
  <2>6. mem' \in [Procs -> Mem]
    BY <1>6, <1>a, <1>c, Memo, <2>3, <2>5 DEF Record, Remember
  <2> QED
    BY <2>1, <2>2, <2>3, <2>4, <2>5, <2>6, <1>6, <1>a DEF TypeOK, Record
<1>7. ASSUME NEW p \in Procs, RecordAttached(p) PROVE TypeOK'
  <2>1. Task(p) \in Tasks
    BY <1>7, <1>a, <1>e, CommandIn DEF RecordAttached
  <2>2. pc' \in [Procs -> PCs]
    BY <1>7, <1>a, <1>b DEF RecordAttached, Goto, AfterRecord
  <2>3. trail' \in [Tasks -> Seq(Event)]
    <3>1. \A s \in RunningSessions : s \in Nat /\ Recorded(p, s) \in Seq(Event)
      BY <1>7, <1>e, RecordedIn DEF RecordAttached, RunningSessions
    <3>2. CASE UNCHANGED trail
      BY <3>2, <1>a
    <3>3. ASSUME NEW s \in RunningSessions,
                   trail' = [trail EXCEPT ![Task(p)] = @ \o Recorded(p, s)]
          PROVE  trail' \in [Tasks -> Seq(Event)]
      BY <3>1, <3>3, <2>1, <1>a, Grown
    <3> QED
      BY <3>2, <3>3, <1>7 DEF RecordAttached
  <2>4. DOMAIN trail'[Task(p)] \ DOMAIN trail[Task(p)] \in SUBSET Nat
    BY <1>7, <1>a, <2>3, <2>1 DEF RecordAttached
  <2>5. \A s \in Nat : [mem[p] EXCEPT !.ses = s,
          !.events = DOMAIN trail'[Task(p)] \ DOMAIN trail[Task(p)]] \in Mem
    BY <1>7, <1>a, <1>c, <2>4, Memo DEF RecordAttached
  <2>6. mem' \in [Procs -> Mem]
    <3>1. CASE UNCHANGED mem
      BY <3>1, <1>a
    <3>2. ASSUME NEW s \in RunningSessions, Remember(p, s) PROVE mem' \in [Procs -> Mem]
      <4>1. s \in Nat
        BY DEF RunningSessions
      <4>2. [mem[p] EXCEPT !.ses = s,
              !.events = DOMAIN trail'[Task(p)] \ DOMAIN trail[Task(p)]] \in Mem
        BY <4>1, <2>5
      <4> QED
        BY <3>2, <4>2, <1>a DEF Remember
    <3> QED
      BY <3>1, <3>2, <1>7 DEF RecordAttached
  <2> QED
    BY <2>1, <2>2, <2>3, <2>4, <2>5, <2>6, <1>7, <1>a DEF TypeOK, RecordAttached
<1>8. ASSUME NEW p \in Procs, Attach(p) PROVE TypeOK'
  <2>1. Task(p) \in Tasks
    BY <1>8, <1>a, <1>e, CommandIn DEF Attach
  <2>2. Unlinked \in Nat /\ Recorded(p, Unlinked) \in Seq(Event)
    BY <1>8, <1>a, <1>e, RecordedIn DEF Attach, Unlinked
  <2>3. trail' \in [Tasks -> Seq(Event)]
    <3>1. CASE UNCHANGED trail
      BY <3>1, <1>a
    <3>2. CASE trail' = [trail EXCEPT ![Task(p)] = @ \o Recorded(p, Unlinked)]
      BY <3>2, <2>1, <2>2, <1>a, Grown
    <3> QED
      BY <3>1, <3>2, <1>8 DEF Attach
  <2>4. DOMAIN trail'[Task(p)] \ DOMAIN trail[Task(p)] \in SUBSET Nat
    BY <1>8, <1>a, <2>3, <2>1 DEF Attach
  <2>5. [mem[p] EXCEPT !.ses = Unlinked,
          !.events = DOMAIN trail'[Task(p)] \ DOMAIN trail[Task(p)]] \in Mem
    BY <1>8, <1>a, <1>c, <2>2, <2>4, Memo DEF Attach
  <2>6. pc' \in [Procs -> PCs] /\ mem' \in [Procs -> Mem]
        /\ cmd' \in [Procs -> Command \cup {NoCommand}]
    <3>1. CASE End(p, "failed")
      BY <3>1, <1>b, EndIn
    <3>2. CASE Remember(p, Unlinked) /\ Goto(p, AfterRecord(p)) /\ UNCHANGED cmd
      <4>1. AfterRecord(p) \in PCs
        BY <1>b DEF AfterRecord
      <4> QED
        BY <3>2, <4>1, <2>5, <1>a, PcIn DEF Remember
    <3> QED
      BY <3>1, <3>2, <1>8 DEF Attach
  <2> QED
    BY <2>1, <2>2, <2>3, <2>4, <2>5, <2>6, <1>8, <1>a DEF TypeOK, Attach
<1>9. ASSUME NEW p \in Procs, Link(p) PROVE TypeOK'
  <2>1. Task(p) \in Tasks
    BY <1>9, <1>a, <1>e, CommandIn DEF Link
  <2>2. pc' \in [Procs -> PCs]
    BY <1>9, <1>a, <1>b DEF Link, Goto
  <2>3. pins' \subseteq Nat \X Tasks
    BY <1>9, <1>a, <2>1 DEF Link, Unlinked
  <2> QED
    BY <2>1, <2>2, <2>3, <1>9, <1>a DEF TypeOK, Link
<1>10. ASSUME NEW p \in Procs, Second(p) PROVE TypeOK'
  <2>1. Task(p) \in Tasks
    BY <1>10, <1>a, <1>e, CommandIn DEF Second
  <2>2. pc' \in [Procs -> PCs]
    BY <1>10, <1>a, <1>b DEF Second, Goto
  <2>3. To("planned", cmd[p].to, Unlinked) \in Event
    BY <1>10, <1>a, <1>e, CommandIn DEF Second, To, Event, Lives, Statuses, Unlinked
  <2>4. trail' \in [Tasks -> Seq(Event)]
    <3>1. CASE UNCHANGED trail
      BY <3>1, <1>a
    <3>2. CASE Unlinked \in dirs
      <4>1. [trail EXCEPT ![Task(p)] = Append(@, To("planned", cmd[p].to,
              Unlinked))] \in [Tasks -> Seq(Event)]
        BY <2>1, <2>3, <1>a, Grown
      <4> QED
        BY <3>2, <4>1, <1>10 DEF Second
    <3> QED
      BY <3>1, <3>2, <1>10 DEF Second
  <2>5. mem[p].events \cup {Len(trail'[Task(p)])} \in SUBSET Nat
    BY <1>10, <1>a, <1>c, <2>1, <2>4, Fields DEF Second
  <2>6. [mem[p] EXCEPT !.events = mem[p].events \cup {Len(trail'[Task(p)])}] \in Mem
    BY <1>10, <1>a, <1>c, <2>5, Memo DEF Second
  <2>7. mem' \in [Procs -> Mem]
    BY <1>10, <1>a, <2>6 DEF Second
  <2> QED
    BY <2>1, <2>2, <2>3, <2>4, <2>5, <2>6, <2>7, <1>10, <1>a DEF TypeOK, Second
<1>11. ASSUME NEW p \in Procs, Probe(p) PROVE TypeOK'
  BY <1>11, <1>a, <1>b, <1>c, <1>d, <1>e, PcIn DEF TypeOK, Probe
<1>12. ASSUME NEW p \in Procs, Write(p) PROVE TypeOK'
  <2>1. Task(p) \in Tasks
    BY <1>12, <1>a, <1>e, CommandIn DEF Write
  <2>2. pc' \in [Procs -> PCs]
    BY <1>12, <1>a, <1>b DEF Write, Goto
  <2>3. files' \in [Tasks -> File]
    BY <1>12, <1>a, <2>1, <1>e, NewFileIn DEF Write
  <2>4. told' \subseteq Nat
    BY <1>12, <1>a, <1>c, Fields DEF Write, Refreshed, PinnedTo
  <2>5. mem[p].events \in SUBSET Nat
    BY <1>12, <1>a, <1>c, Fields DEF Write
  <2>6. landed' \in [Tasks -> SUBSET Nat]
    BY <1>12, <1>a, <2>1, <2>5 DEF Write, Land
  <2> QED
    BY <2>1, <2>2, <2>3, <2>4, <2>5, <2>6, <1>12, <1>a DEF TypeOK, Write
<1>13. ASSUME NEW p \in Procs, Move(p) PROVE TypeOK'
  <2>1. Task(p) \in Tasks
    BY <1>13, <1>a, <1>e, CommandIn DEF Move
  <2>2. pc' \in [Procs -> PCs]
    BY <1>13, <1>a, <1>b DEF Move, Goto
  <2>3. [files[Task(p)] EXCEPT !.place = "archive"] \in File
    BY <1>13, <1>a, <2>1 DEF Move, File
  <2>4. files' \in [Tasks -> File]
    BY <1>13, <1>a, <2>1, <2>3, NothingRead DEF Move
  <2>5. landed' \in [Tasks -> SUBSET Nat]
    BY <1>13, <1>a, <2>1, <1>c, Fields DEF Move, Land
  <2>6. \A q \in Procs : mem[q].present \in SUBSET Tasks /\ mem[q].kept \in SUBSET Tasks
    BY <1>13, <1>a, <1>c, Fields DEF Move
  <2>7. mem' \in [Procs -> Mem]
    BY <1>13, <1>a, <1>c, Memo, <2>6 DEF Move
  <2> QED
    BY <2>1, <2>2, <2>3, <2>4, <2>5, <2>6, <2>7, <1>13, <1>a DEF TypeOK, Move
<1>14. ASSUME NEW p \in Procs, ReadIndex(p) PROVE TypeOK'
  <2>1. pc' \in [Procs -> PCs]
    BY <1>14, <1>a, <1>b DEF ReadIndex, Goto
  <2>2. mem' \in [Procs -> Mem]
    BY <1>14, <1>a, <1>c, Memo, NothingRead DEF ReadIndex
  <2> QED
    BY <2>1, <2>2, <1>14, <1>a DEF TypeOK, ReadIndex
<1>15. ASSUME NEW p \in Procs, SaveIndex(p) PROVE TypeOK'
  <2>1. Task(p) \in Tasks
    BY <1>15, <1>a, <1>e, CommandIn DEF SaveIndex
  <2>2. pc' \in [Procs -> PCs]
    BY <1>15, <1>a, <1>b DEF SaveIndex, Goto
  <2>3. NewFile(p).status \in Statuses
    BY <1>15, <1>a, <1>e, NewFileIn DEF SaveIndex, File
  <2>4. mem[p].rows \in Rows
    BY <1>15, <1>a, <1>c, Fields DEF SaveIndex
  <2>5. index' \in [valid : BOOLEAN, rows : Rows]
    BY <1>15, <1>a, <1>d, <2>1, <2>3, <2>4 DEF SaveIndex, Rows
  <2> QED
    BY <2>1, <2>2, <2>3, <2>4, <2>5, <1>15, <1>a DEF TypeOK, SaveIndex
<1>16. ASSUME NEW p \in Procs, Replay(p) PROVE TypeOK'
  <2>1. pc' \in [Procs -> PCs]
    BY <1>16, <1>a, <1>b DEF Replay, Goto
  <2>2. mem' \in [Procs -> Mem]
    BY <1>16, <1>a, <1>c, Memo DEF Replay, Live, Archived
  <2> QED
    BY <2>1, <2>2, <1>16, <1>a DEF TypeOK, Replay
<1>17. ASSUME NEW p \in Procs, ReadIds(p) PROVE TypeOK'
  <2>1. pc' \in [Procs -> PCs]
    BY <1>17, <1>a, <1>b DEF ReadIds, Goto
  <2>2. Listed(index.rows) \in SUBSET Tasks
    BY <1>17, <1>a DEF ReadIds, Listed
  <2>3. mem' \in [Procs -> Mem]
    BY <1>17, <1>a, <1>c, Memo, <2>2 DEF ReadIds
  <2> QED
    BY <2>1, <2>2, <2>3, <1>17, <1>a DEF TypeOK, ReadIds
<1>18. ASSUME NEW p \in Procs, ReadDirectory(p) PROVE TypeOK'
  <2>1. pc' \in [Procs -> PCs]
    BY <1>18, <1>a, <1>b DEF ReadDirectory, Goto, AfterListing
  <2>2. mem' \in [Procs -> Mem]
    BY <1>18, <1>a, <1>c, Memo, NothingRead DEF ReadDirectory, Live
  <2> QED
    BY <2>1, <2>2, <1>18, <1>a DEF TypeOK, ReadDirectory
<1>19. ASSUME NEW p \in Procs, Scan(p) PROVE TypeOK'
  <2>1. pc' \in [Procs -> PCs]
    BY <1>19, <1>a, <1>b DEF Scan, Goto
  <2>2. \A r \in Rows, t \in Tasks, x \in Statuses \cup {Absent} : [r EXCEPT ![t] = x] \in Rows
    BY <1>19, <1>a DEF Scan, Rows
  <2>3. mem[p].rows \in Rows /\ mem[p].left \in SUBSET Tasks
        /\ \A t \in Tasks : files[t].status \in Statuses
    BY <1>19, <1>a, <1>c, Fields, Edited DEF Scan
  <2>4. \A t \in mem[p].left, x \in Statuses \cup {Absent} :
          [mem[p] EXCEPT !.left = mem[p].left \ {t},
            !.rows = [mem[p].rows EXCEPT ![t] = x]] \in Mem
    BY <1>19, <1>a, <1>c, <2>2, <2>3, Memo DEF Scan
  <2>5. mem' \in [Procs -> Mem]
    <3>1. PICK t \in mem[p].left :
            mem' = [mem EXCEPT ![p].left = @ \ {t},
                               ![p].rows[t] = IF t \in Live THEN files[t].status ELSE Absent]
      BY <1>19 DEF Scan
    <3>2. [mem[p] EXCEPT !.left = mem[p].left \ {t},
             !.rows = [mem[p].rows EXCEPT ![t] = IF t \in Live THEN files[t].status
               ELSE Absent]] \in Mem
      BY <2>3, <2>4
    <3> QED
      BY <3>1, <3>2, <1>a
  <2> QED
    BY <2>1, <2>2, <2>3, <2>4, <2>5, <1>19, <1>a DEF TypeOK, Scan
<1>20. ASSUME NEW p \in Procs, Rebuild(p) PROVE TypeOK'
  BY <1>20, <1>a, <1>b, <1>c, <1>d, <1>e, PcIn, Fields DEF TypeOK, Rebuild
<1>21. ASSUME NEW p \in Procs, ListArchive(p) PROVE TypeOK'
  <2>1. pc' \in [Procs -> PCs]
    BY <1>21, <1>a, <1>b DEF ListArchive, Goto
  <2>2. mem' \in [Procs -> Mem]
    BY <1>21, <1>a, <1>c, Memo DEF ListArchive
  <2> QED
    BY <2>1, <2>2, <1>21, <1>a DEF TypeOK, ListArchive
<1>22. ASSUME NEW p \in Procs, Answer(p) PROVE TypeOK'
  BY <1>22, <1>a, <1>b, <1>c, <1>d, <1>e, EndIn DEF TypeOK, Answer
<1>23. ASSUME NEW p \in Procs, RecordFails(p) PROVE TypeOK'
  <2>1. Task(p) \in Tasks
    BY <1>23, <1>a, <1>e, CommandIn DEF RecordFails
  <2>2. pc' \in [Procs -> PCs]
    BY <1>23, <1>a, <1>b DEF RecordFails, Goto
  <2>3. minted' \in Nat /\ dirs' \subseteq Nat /\ pins' \subseteq Nat \X Tasks
    <3>1. CASE UNCHANGED <<minted, dirs, pins>>
      BY <3>1, <1>a
    <3>2. CASE Mint(p)
      BY <3>2, <1>a, <2>1 DEF Mint
    <3> QED
      BY <3>1, <3>2, <1>23 DEF RecordFails
  <2>4. trail' \in [Tasks -> Seq(Event)]
    <3>1. CASE UNCHANGED trail
      BY <3>1, <1>a
    <3>2. CASE Mint(p) /\ pc[p] = "record"
      <4>1. Recorded(p, minted') \in Seq(Event)
        BY <3>2, <2>3, <1>e, RecordedIn
      <4> QED
        BY <3>2, <4>1, <2>1, <1>a, Grown DEF Mint
    <3> QED
      BY <3>1, <3>2, <1>23 DEF RecordFails
  <2> QED
    BY <2>1, <2>2, <2>3, <2>4, <1>23, <1>a DEF TypeOK, RecordFails, Trouble
<1>24. ASSUME NEW p \in Procs, WriteFails(p) PROVE TypeOK'
  BY <1>24, <1>a, <1>b, <1>c, <1>d, <1>e, PcIn DEF TypeOK, WriteFails, Trouble
<1>25. ASSUME NEW p \in Procs, SaveFails(p) PROVE TypeOK'
  BY <1>25, <1>a, <1>b, <1>c, <1>d, <1>e, PcIn DEF TypeOK, SaveFails, Trouble
<1>26. ASSUME NEW p \in Procs, DirectoryFails(p) PROVE TypeOK'
  <2>1. [mem[p] EXCEPT !.blind = TRUE] \in Mem
    BY <1>26, <1>a, <1>c, Memo DEF DirectoryFails
  <2>2. pc' \in [Procs -> PCs] /\ mem' \in [Procs -> Mem]
        /\ cmd' \in [Procs -> Command \cup {NoCommand}]
    BY <1>26, <1>a, <1>b, <2>1, EndIn DEF DirectoryFails, AfterListing, Goto
  <2> QED
    BY <2>1, <2>2, <1>26, <1>a DEF TypeOK, DirectoryFails, Trouble
<1>27. ASSUME NEW p \in Procs, Crash(p) PROVE TypeOK'
  BY <1>27, <1>a, <1>b, <1>c, <1>d, <1>e, EndIn DEF TypeOK, Crash, Trouble
<1>28. ASSUME NEW t \in Tasks, EditByHand(t) PROVE TypeOK'
  <2>0. files[t] \in File
    BY <1>a
  <2>1. [files[t] EXCEPT !.text = files[t].text + 1] \in File
    BY <2>0, Edited
  <2>2. mem' \in [Procs -> Mem]
    BY <1>28, <1>a, <1>c, Memo DEF EditByHand
  <2> QED
    BY <1>28, <2>1, <2>2, <1>a DEF TypeOK, EditByHand, Trouble
<1>29. ASSUME NEW s \in dirs \cup damaged, RemoveSession(s) \/ DamageSession(s) PROVE TypeOK'
  <2>1. CASE RemoveSession(s)
    BY <2>1, <1>a DEF TypeOK, RemoveSession, Trouble
  <2>2. CASE DamageSession(s)
    <3>1. s \in Nat
      BY <2>2, <1>a DEF DamageSession
    <3>2. dirs' \subseteq Nat /\ damaged' \subseteq Nat
      BY <2>2, <3>1, <1>a DEF DamageSession
    <3> QED
      BY <2>2, <3>2, <1>a DEF TypeOK, DamageSession, Trouble
  <2> QED
    BY <1>29, <2>1, <2>2
<1>30. CASE LoseIndex
  BY <1>30, <1>a, <1>d, Truths, NothingRead DEF TypeOK, LoseIndex, Trouble
<1> QED
  BY <1>1, <1>2, <1>3, <1>4, <1>5, <1>6, <1>7, <1>8, <1>9, <1>10, <1>11, <1>12, <1>13,
     <1>14, <1>15, <1>16, <1>17, <1>18, <1>19, <1>20, <1>21, <1>22, <1>23, <1>24, <1>25,
     <1>26, <1>27, <1>28, <1>29, <1>30
  DEF Next, Step, Change, List, Fails

-----------------------------------------------------------------------------
(* Labels and locks.                                                          *)

(* A command goes where its operation takes it.                               *)
LEMMA LabelsNext ==
    ASSUME TypeOK, Labels, Exclusion, NEW p \in Procs, Start(p) \/ Step(p) \/ Fails(p)
    PROVE  Labels'
<1>a. /\ locks \in [Tasks -> Procs \cup {Free}]
      /\ pc \in [Procs -> PCs] /\ cmd \in [Procs -> Command \cup {NoCommand}]
  BY DEF TypeOK
<1>b. \A q \in Procs : pc[q] \notin Over \cup {"idle"} =>
        Task(q) \in Tasks /\ Op(q) \in Operations /\ cmd[q] \in Command
  BY CommandIn DEF Labels
<1> USE <1>a, <1>b DEF Goto, End, NoCommand, Op, Over, Inside, Changes, Creates, Operations
<1>1. CASE Start(p)
  <2>1. \A q \in Procs \ {p} : pc'[q] = pc[q] /\ cmd'[q] = cmd[q]
    BY <1>1 DEF Start
  <2>2. PICK c \in Commands, to \in Targets \cup {"planned"} :
          cmd'[p] = [op |-> c[1], task |-> c[2], to |-> to] /\ pc'[p] = Begin(c[1])
    BY <1>1 DEF Start
  <2>3. c[1] \in Operations /\ c[2] \in Tasks /\ to \in Statuses
    <3>1. c \in Operations \X Tasks
      BY CommandsKnown
    <3>2. c[1] \in Operations /\ c[2] \in Tasks
      BY <3>1
    <3> QED
      BY <3>2, TargetsKnown DEF Statuses
  <2>4. cmd'[p] \in Command /\ cmd'[p].op = c[1]
    BY <2>2, <2>3 DEF Command
  <2>5. /\ c[1] = "create" => pc'[p] = "record"
        /\ c[1] = "list" => pc'[p] = "replay"
        /\ c[1] \notin {"create", "list"} => pc'[p] = "lock"
    BY <2>2, <2>3 DEF Begin
  <2>6. pc'[p] \in {"record", "replay", "lock"}
    BY <2>3, <2>5
  <2> QED
    BY <2>1, <2>3, <2>4, <2>5, <2>6 DEF Labels
<1>2. CASE Lock(p)
  BY <1>2 DEF Labels, Lock, Available
<1>3. CASE Release(p)
  BY <1>3 DEF Labels, Release
<1>4. CASE Read(p)
  BY <1>4 DEF Labels, Read, AfterRead
<1>5. CASE Look(p)
  BY <1>5 DEF Labels, Look
<1>6. CASE Record(p)
  BY <1>6 DEF Labels, Record, AfterRecord
<1>7. CASE RecordAttached(p)
  BY <1>7 DEF Labels, RecordAttached, AfterRecord
<1>8. CASE Attach(p)
  BY <1>8 DEF Labels, Attach, AfterRecord
<1>9. CASE Link(p)
  BY <1>9 DEF Labels, Link
<1>10. CASE Second(p)
  <2>1. UNCHANGED cmd /\ pc[p] = "second" /\ pc'[p] \in {"write", "throw"}
        /\ \A q \in Procs \ {p} : pc'[q] = pc[q]
    BY <1>10 DEF Second
  <2>2. Op(p) = "attach"
    BY <2>1 DEF Labels
  <2> QED
    BY <2>1, <2>2 DEF Labels
<1>11. CASE Probe(p)
  BY <1>11 DEF Labels, Probe
<1>12. CASE Write(p)
  BY <1>12 DEF Labels, Write
<1>13. CASE Move(p)
  BY <1>13 DEF Labels, Move
<1>14. CASE ReadIndex(p)
  BY <1>14 DEF Labels, ReadIndex
<1>15. CASE SaveIndex(p)
  BY <1>15 DEF Labels, SaveIndex
<1>16. CASE Replay(p)
  BY <1>16 DEF Labels, Replay
<1>17. CASE ReadIds(p)
  BY <1>17 DEF Labels, ReadIds
<1>18. CASE ReadDirectory(p)
  BY <1>18 DEF Labels, ReadDirectory, AfterListing
<1>19. CASE Scan(p)
  BY <1>19 DEF Labels, Scan
<1>20. CASE Rebuild(p)
  BY <1>20 DEF Labels, Rebuild
<1>21. CASE ListArchive(p)
  BY <1>21 DEF Labels, ListArchive
<1>22. CASE Answer(p)
  BY <1>22 DEF Labels, Answer
<1>23. CASE RecordFails(p)
  BY <1>23 DEF Labels, RecordFails
<1>24. CASE WriteFails(p)
  BY <1>24 DEF Labels, WriteFails
<1>25. CASE SaveFails(p)
  BY <1>25 DEF Labels, SaveFails
<1>26. CASE DirectoryFails(p)
  BY <1>26 DEF Labels, DirectoryFails, AfterListing
<1>27. CASE Crash(p)
  BY <1>27 DEF Labels, Crash
<1> QED
  BY <1>1, <1>2, <1>3, <1>4, <1>5, <1>6, <1>7, <1>8, <1>9, <1>10, <1>11, <1>12, <1>13,
     <1>14, <1>15, <1>16, <1>17, <1>18, <1>19, <1>20, <1>21, <1>22, <1>23, <1>24, <1>25,
     <1>26, <1>27
  DEF Step, Change, List, Fails

(* Only who gets the lock of a task goes on to change it.                     *)
LEMMA ExclusionNext ==
    ASSUME TypeOK, Labels, Exclusion, NEW p \in Procs, Start(p) \/ Step(p) \/ Fails(p)
    PROVE  Exclusion'
<1>a. /\ locks \in [Tasks -> Procs \cup {Free}]
      /\ pc \in [Procs -> PCs] /\ cmd \in [Procs -> Command \cup {NoCommand}]
  BY DEF TypeOK
<1>b. \A q \in Procs : pc[q] \notin Over \cup {"idle"} =>
        Task(q) \in Tasks /\ Op(q) \in Operations /\ cmd[q] \in Command
  BY CommandIn DEF Labels
<1> USE <1>a, <1>b, LocksDistinct
    DEF Goto, End, NoCommand, Op, Task, Over, Inside, Changes, Creates,
    Operations, Labels, Exclusion, store
<1>1. CASE Start(p)
  BY <1>1 DEF Start, Begin
<1>2. CASE Lock(p)
  <2>1. CASE UNCHANGED locks /\ End(p, "failed")
    BY <2>1
  <2>2. CASE Available(Task(p)) /\ locks' = [locks EXCEPT ![Task(p)] = p] /\ Goto(p, "read")
            /\ UNCHANGED cmd
    <3>1. pc[p] = "lock" /\ Task(p) \in Tasks
      BY <1>2 DEF Lock
    <3>2. ASSUME NEW q \in Procs \ {p}, Op(q) \in Changes, pc[q] \in Inside
          PROVE  Task(q) # Task(p)
      BY <2>2, <3>2 DEF Available
    <3> QED
      BY <2>2, <3>1, <3>2
  <2> QED
    BY <2>1, <2>2, <1>2 DEF Lock
<1>3. CASE Release(p)
  BY <1>3 DEF Release
<1>4. CASE Read(p)
  BY <1>4 DEF Read, AfterRead
<1>5. CASE Look(p)
  BY <1>5 DEF Look
<1>6. CASE Record(p)
  BY <1>6 DEF Record, AfterRecord
<1>7. CASE RecordAttached(p)
  BY <1>7 DEF RecordAttached, AfterRecord
<1>8. CASE Attach(p)
  BY <1>8 DEF Attach, AfterRecord
<1>9. CASE Link(p)
  BY <1>9 DEF Link
<1>10. CASE Second(p)
  BY <1>10 DEF Second
<1>11. CASE Probe(p)
  BY <1>11 DEF Probe
<1>12. CASE Write(p)
  BY <1>12 DEF Write
<1>13. CASE Move(p)
  BY <1>13 DEF Move
<1>14. CASE ReadIndex(p)
  BY <1>14 DEF ReadIndex
<1>15. CASE SaveIndex(p)
  BY <1>15 DEF SaveIndex
<1>16. CASE Replay(p)
  BY <1>16 DEF Replay
<1>17. CASE ReadIds(p)
  BY <1>17 DEF ReadIds
<1>18. CASE ReadDirectory(p)
  BY <1>18 DEF ReadDirectory, AfterListing
<1>19. CASE Scan(p)
  BY <1>19 DEF Scan
<1>20. CASE Rebuild(p)
  BY <1>20 DEF Rebuild
<1>21. CASE ListArchive(p)
  BY <1>21 DEF ListArchive
<1>22. CASE Answer(p)
  BY <1>22 DEF Answer
<1>23. CASE RecordFails(p)
  BY <1>23 DEF RecordFails
<1>24. CASE WriteFails(p)
  BY <1>24 DEF WriteFails
<1>25. CASE SaveFails(p)
  BY <1>25 DEF SaveFails
<1>26. CASE DirectoryFails(p)
  <2>1. Op(p) = "list" /\ UNCHANGED locks /\ cmd'[p] \in {cmd[p], NoCommand}
        /\ \A q \in Procs \ {p} : pc'[q] = pc[q] /\ cmd'[q] = cmd[q]
    BY <1>26 DEF DirectoryFails
  <2> QED
    BY <2>1
<1>27. CASE Crash(p)
  BY <1>27 DEF Crash
<1> QED
  BY <1>1, <1>2, <1>3, <1>4, <1>5, <1>6, <1>7, <1>8, <1>9, <1>10, <1>11, <1>12, <1>13,
     <1>14, <1>15, <1>16, <1>17, <1>18, <1>19, <1>20, <1>21, <1>22, <1>23, <1>24, <1>25,
     <1>26, <1>27
  DEF Step, Change, List, Fails

(* While the files stay, such a step can only disturb what is said of the     *)
(* process that makes it.                                                     *)
LEMMA Elsewhere ==
    ASSUME IInv, NEW p \in Procs, Others(p), Grows, UNCHANGED <<files, landed>>,
           Sound(p)'
    PROVE  Traced' /\ \A q \in Procs : Sound(q)'
<1>1. Traced'
  BY DEF IInv, Traced, Grows
<1>2. ASSUME NEW q \in Procs \ {p} PROVE Sound(q)'
  <2>1. /\ pc'[q] = pc[q] /\ cmd'[q] = cmd[q] /\ mem'[q] = mem[q]
        /\ Op(q)' = Op(q) /\ Task(q)' = Task(q)
    BY <1>2 DEF Others, Op, Task
  <2>2. Sound(q)
    BY <1>2 DEF IInv
  <2>3. Standing(q)' /\ Untouched(q)'
    BY <2>1, <2>2 DEF Sound, Standing, Untouched
  <2>4. Listing(q)'
    BY <2>1, <2>2 DEF Sound, Listing, Live, Archived
  <2>5. Task(q) \in Tasks \/ pc[q] \in Over \cup {"idle"}
    BY CommandIn DEF IInv
  <2>6. Pending(q)'
    BY <2>1, <2>2, <2>5 DEF Sound, Pending, Grows, Over
  <2>7. ASSUME Op(q) \in Creates, NEW r \in Procs, Op(r)' \in Creates,
                 Task(r)' = Task(q) PROVE r = q
    <3>1. CASE r = p
      BY <3>1, <2>1, <2>7 DEF Sound, Fresh
    <3>2. CASE r # p
      BY <3>2, <2>2, <2>7 DEF Sound, Fresh, Others, Op, Task
    <3> QED
      BY <3>1, <3>2
  <2>8. Fresh(q)'
    BY <2>1, <2>2, <2>5, <2>7 DEF Sound, Fresh, Grows, Over
  <2> QED
    BY <2>3, <2>4, <2>6, <2>8 DEF Sound
<1> QED
  BY <1>1, <1>2

(* Events are added at the end.                                               *)
LEMMA GrowsBy ==
    ASSUME trail \in [Tasks -> Seq(Event)], NEW t \in Tasks, NEW es \in Seq(Event),
           trail' = [trail EXCEPT ![t] = @ \o es]
    PROVE  /\ Grows
           /\ \A i \in DOMAIN trail'[t] \ DOMAIN trail[t] :
                \E k \in DOMAIN es : trail'[t][i] = es[k]
           /\ es # <<>> => trail'[t] # <<>>
<1>1. trail[t] \in Seq(Event) /\ trail'[t] = trail[t] \o es
  OBVIOUS
<1>2. /\ DOMAIN trail[t] \subseteq DOMAIN trail'[t]
      /\ \A i \in DOMAIN trail[t] : trail'[t][i] = trail[t][i]
      /\ trail[t] # <<>> \/ es # <<>> => trail'[t] # <<>>
  BY <1>1
<1>3. \A i \in DOMAIN trail'[t] \ DOMAIN trail[t] :
        i - Len(trail[t]) \in DOMAIN es /\ trail'[t][i] = es[i - Len(trail[t])]
  BY <1>1
<1> QED
  BY <1>2, <1>3 DEF Grows

(* A command records a deletion only if that is what it does.                 *)
LEMMA RecordedTo ==
    ASSUME TypeOK, Labels, NEW p \in Procs, pc[p] \notin Over \cup {"idle"}, NEW s \in Nat
    PROVE  /\ \A k \in DOMAIN Recorded(p, s) : Recorded(p, s)[k].to = "deleted" => Op(p) = "delete"
           /\ Op(p) \in Creates => Recorded(p, s) # <<>>
<1>1. cmd[p].to \in Statuses /\ Op(p) \in Operations
  BY CommandIn
<1>2. \A from, to : To(from, to, s).to = to
  BY DEF To
<1>3. \A e : DOMAIN <<e>> = {1} /\ <<e>>[1] = e
  OBVIOUS
<1>4. \A e, d : DOMAIN (<<e>> \o <<d>>) = {1, 2} /\ (<<e>> \o <<d>>)[1] = e
      /\ (<<e>> \o <<d>>)[2] = d
  OBVIOUS
<1>5. \A e : <<e>> \o <<>> = <<e>>
  OBVIOUS
<1>6. CreatedEvent(p, s).to # "deleted"
  BY <1>1, <1>2 DEF CreatedEvent, Statuses
<1>7. CASE Op(p) = "create"
  BY <1>1, <1>2, <1>3, <1>4, <1>5, <1>6, <1>7 DEF Recorded, Statuses
<1>8. CASE Op(p) # "create"
  BY <1>1, <1>2, <1>3, <1>6, <1>8 DEF Recorded, Statuses, Creates
<1> QED
  BY <1>7, <1>8

(* Where a command goes from what it read, and from what it recorded.         *)
LEMMA Branches ==
    ASSUME TypeOK, Labels, NEW p \in Procs, pc[p] \notin Over \cup {"idle"}
    PROVE  /\ Op(p) = "status" => \/ AfterRead(p) = "throw"
                                  \/ /\ AfterRead(p) = "record"
                                     /\ <<files[Task(p)].status, cmd[p].to>> \in AllowedTransitions
           /\ Op(p) # "status" => AfterRead(p) \in {"write", "look", "record"}
           /\ AfterRead(p) = "write" => Op(p) = "edit"
           /\ AfterRecord(p) \in {"probe", "move", "link", "write"}
           /\ AfterRecord(p) = "link" => Op(p) = "attach"
           /\ AfterRecord(p) = "write" => Op(p) \notin {"reconcile", "refresh"}
BY DEF AfterRead, AfterRecord

(* A step that leaves the files alone and what is said of its process true.   *)
Quiet(p) == Others(p) /\ Grows /\ UNCHANGED <<files, landed>> /\ Sound(p)'

(* Who starts to create a task is the only one, and there is no trace of it.  *)
LEMMA StartFresh ==
    ASSUME IInv, NEW p \in Procs, Start(p)
    PROVE  Fresh(p)'
<1>1. PICK c \in Commands :
        /\ cmd'[p].op = c[1] /\ cmd'[p].task = c[2]
        /\ c[1] \in Creates => /\ trail[c[2]] = <<>>
                               /\ \A q \in Procs : ~(cmd[q].op \in Creates /\ cmd[q].task = c[2])
  BY DEF Start, IInv, TypeOK, Op, Task
<1>2. cmd'[p].op \in Creates => cmd'[p].task \in Tasks
  <2>1. c \in Operations \X Tasks
    BY CommandsKnown
  <2>2. c[2] \in Tasks
    BY <2>1
  <2> QED
    BY <1>1, <2>2
<1>3. UNCHANGED <<files, landed>> /\ \A q \in Procs \ {p} : cmd'[q].op = cmd[q].op
      /\ cmd'[q].task = cmd[q].task
  BY DEF Start, store, IInv, TypeOK, Op, Task
<1>4. ASSUME NEW t \in Tasks, trail[t] = <<>> PROVE files[t] = NoFile /\ landed[t] = {}
  <2>1. DOMAIN trail[t] = {}
    BY <1>4
  <2>2. files[t].place = "none"
    BY <1>4 DEF IInv, Traced
  <2> QED
    BY <2>1, <2>2 DEF IInv, Traced
<1>5. pc'[p] \notin {"link", "second", "write"}
  BY DEF Start, Begin, Goto, IInv, TypeOK
<1>6. ASSUME cmd'[p].op \in Creates
      PROVE  /\ \A q \in Procs : cmd'[q].op \in Creates /\ cmd'[q].task = cmd'[p].task => q = p
             /\ files'[cmd'[p].task] = NoFile /\ landed'[cmd'[p].task] = {}
  <2>1. c[1] \in Creates /\ trail[cmd'[p].task] = <<>> /\ cmd'[p].task \in Tasks
    BY <1>1, <1>2, <1>6
  <2>2. files[cmd'[p].task] = NoFile /\ landed[cmd'[p].task] = {}
    BY <2>1, <1>4
  <2>3. ASSUME NEW q \in Procs \ {p}, cmd'[q].op \in Creates,
                 cmd'[q].task = cmd'[p].task PROVE FALSE
    <3>1. cmd[q].op \in Creates /\ cmd[q].task = c[2]
      BY <2>3, <1>3, <1>1
    <3> QED
      BY <3>1, <2>1, <1>1
  <2> QED
    BY <2>2, <2>3, <1>3
<1> QED
  BY <1>5, <1>6 DEF Fresh, Op, Task
(* The event is recorded, in whatever session, and the command goes on.       *)
LEMMA Recording ==
    ASSUME IInv, NEW p \in Procs, NEW s \in Nat,
           pc[p] = "record" \/ (pc[p] = "lock" /\ Op(p) = "attach"),
           trail' = [trail EXCEPT ![Task(p)] = @ \o Recorded(p, s)],
           Remember(p, s), Goto(p, AfterRecord(p)), UNCHANGED <<files, landed, cmd>>
    PROVE  Quiet(p)
<1>a. /\ files \in [Tasks -> File] /\ trail \in [Tasks -> Seq(Event)]
      /\ pc \in [Procs -> PCs] /\ cmd \in [Procs -> Command \cup {NoCommand}]
      /\ mem \in [Procs -> Mem] /\ landed \in [Tasks -> SUBSET Nat]
  BY DEF TypeOK, IInv
<1>b. Labels /\ Exclusion /\ Traced /\ Sound(p)
  BY DEF IInv
<1>c. Task(p) \in Tasks \/ pc[p] \in Over \cup {"idle"}
  BY CommandIn DEF IInv
<1>d. mem[p] \in Mem
  BY <1>a
<1> USE <1>a, <1>b, <1>c, <1>d DEF Goto, End, NoCommand, NoMem, Op, Task, Over, Inside, Changes,
    Creates, Operations, store, bounds, Sound, Labels, Live, Archived, Others, Grows, Traced, Quiet
<1>1. pc[p] \notin Over \cup {"idle"} /\ pc[p] \in {"record", "lock"}
  OBVIOUS
<1>2. Task(p) \in Tasks /\ Recorded(p, s) \in Seq(Event)
  BY <1>1, CommandIn, RecordedIn DEF IInv
<1>4. mem'[p] = [mem[p] EXCEPT !.ses = s,
        !.events = DOMAIN trail'[Task(p)] \ DOMAIN trail[Task(p)]]
  BY DEF Remember
<1>5. mem'[p].doc = mem[p].doc /\ mem'[p].none = mem[p].none /\ mem'[p].kept = mem[p].kept
      /\ mem'[p].blind = mem[p].blind
         /\ mem'[p].events = DOMAIN trail'[Task(p)] \ DOMAIN trail[Task(p)]
  BY <1>4 DEF Mem
<1>6. pc'[p] = AfterRecord(p) /\ cmd' = cmd /\ Op(p)' = Op(p) /\ Task(p)' = Task(p)
  OBVIOUS
<1>7. Others(p) /\ UNCHANGED <<files, landed>>
  BY DEF Remember
<1>8. Grows /\ (Op(p) \in Creates => trail'[Task(p)] # <<>>)
  <2> HIDE DEF Grows
  <2> QED
    BY <1>1, <1>2, GrowsBy, RecordedTo DEF IInv
<1>9. \A i \in mem'[p].events :
        i \in DOMAIN trail'[Task(p)] /\ (trail'[Task(p)][i].to = "deleted" => Op(p) = "delete")
  BY <1>1, <1>2, <1>5, GrowsBy, RecordedTo DEF IInv
<1>a2. Standing(p)'
  BY <1>1, <1>5, <1>6, <1>7, <1>8, <1>9, Branches DEF IInv, Standing
<1>b2. Fresh(p)'
  BY <1>1, <1>5, <1>6, <1>7, <1>8, <1>9, Branches DEF IInv, Fresh
<1>c2. Pending(p)'
  BY <1>1, <1>5, <1>6, <1>7, <1>8, <1>9, Branches DEF IInv, Pending
<1>d2. Untouched(p)'
  BY <1>1, <1>5, <1>6, <1>7, <1>8, <1>9, Branches DEF IInv, Untouched
<1>e2. Listing(p)'
  BY <1>1, <1>5, <1>6, <1>7, <1>8, <1>9, Branches DEF IInv, Listing
<1> QED
  BY <1>7, <1>8, <1>a2, <1>b2, <1>c2, <1>d2, <1>e2


LEMMA RecordQuiet ==
    ASSUME IInv, NEW p \in Procs, Record(p)
    PROVE  Quiet(p)
<1>1. minted' \in Nat
  BY DEF Record, Mint, IInv, TypeOK
<1>2. pc[p] = "record" /\ trail' = [trail EXCEPT ![Task(p)] = @ \o Recorded(p, minted')]
  BY DEF Record, Mint
<1>3. Remember(p, minted') /\ Goto(p, AfterRecord(p)) /\ UNCHANGED <<files, landed, cmd>>
  BY DEF Record
<1> QED
  BY <1>1, <1>2, <1>3, Recording

LEMMA RecordAttachedQuiet ==
    ASSUME IInv, NEW p \in Procs, RecordAttached(p)
    PROVE  Quiet(p)
<1>1. CASE Goto(p, "throw") /\ UNCHANGED <<trail, mem>>
<2>a. /\ files \in [Tasks -> File] /\ trail \in [Tasks -> Seq(Event)]
      /\ pc \in [Procs -> PCs] /\ cmd \in [Procs -> Command \cup {NoCommand}]
      /\ mem \in [Procs -> Mem] /\ landed \in [Tasks -> SUBSET Nat]
  BY DEF TypeOK, IInv
<2>b. Labels /\ Exclusion /\ Traced /\ Sound(p)
  BY DEF IInv
<2>c. Task(p) \in Tasks \/ pc[p] \in Over \cup {"idle"}
  BY CommandIn DEF IInv
<2>d. mem[p] \in Mem
  BY <2>a
<2> USE <2>a, <2>b, <2>c, <2>d DEF Goto, End, NoCommand, NoMem, Op, Task, Over, Inside, Changes,
    Creates, Operations, store, bounds, Sound, Labels, Live, Archived, Others, Grows, Traced, Quiet
  <2> QED
  BY <1>1 DEF RecordAttached, Standing, Fresh, Pending, Untouched, Listing
<1>2. pc[p] = "record" /\ UNCHANGED <<files, landed, cmd>>
  BY DEF RecordAttached
<1>3. ASSUME NEW s \in RunningSessions, trail' = [trail EXCEPT ![Task(p)] = @ \o Recorded(p, s)],
             Remember(p, s), Goto(p, AfterRecord(p))
      PROVE  Quiet(p)
  <2>1. s \in Nat
    BY DEF RunningSessions
  <2> QED
    BY <1>2, <1>3, <2>1, Recording
<1> QED
  BY <1>1, <1>3 DEF RecordAttached

LEMMA AttachQuiet ==
    ASSUME IInv, NEW p \in Procs, Attach(p)
    PROVE  Quiet(p)
<1>1. CASE End(p, "failed") /\ UNCHANGED trail
<2>a. /\ files \in [Tasks -> File] /\ trail \in [Tasks -> Seq(Event)]
      /\ pc \in [Procs -> PCs] /\ cmd \in [Procs -> Command \cup {NoCommand}]
      /\ mem \in [Procs -> Mem] /\ landed \in [Tasks -> SUBSET Nat]
  BY DEF TypeOK, IInv
<2>b. Labels /\ Exclusion /\ Traced /\ Sound(p)
  BY DEF IInv
<2>c. Task(p) \in Tasks \/ pc[p] \in Over \cup {"idle"}
  BY CommandIn DEF IInv
<2>d. mem[p] \in Mem
  BY <2>a
<2> USE <2>a, <2>b, <2>c, <2>d DEF Goto, End, NoCommand, NoMem, Op, Task, Over, Inside, Changes,
    Creates, Operations, store, bounds, Sound, Labels, Live, Archived, Others, Grows, Traced, Quiet
  <2> QED
  BY <1>1 DEF Attach, Standing, Fresh, Pending, Untouched, Listing
<1>2. pc[p] = "lock" /\ Op(p) = "attach" /\ UNCHANGED <<files, landed>>
  BY DEF Attach
<1>3. CASE /\ trail' = [trail EXCEPT ![Task(p)] = @ \o Recorded(p, Unlinked)]
           /\ Remember(p, Unlinked) /\ Goto(p, AfterRecord(p)) /\ UNCHANGED cmd
  <2>1. Unlinked \in Nat
    BY DEF Unlinked
  <2> QED
    BY <1>2, <1>3, <2>1, Recording
<1> QED
  BY <1>1, <1>3 DEF Attach
(* Every other step leaves the files alone.                                   *)
LEMMA Quietly ==
    ASSUME IInv, NEW p \in Procs, Start(p) \/ Step(p) \/ Fails(p)
    PROVE  Write(p) \/ Move(p) \/ Quiet(p)
<1>a. /\ files \in [Tasks -> File] /\ trail \in [Tasks -> Seq(Event)]
      /\ pc \in [Procs -> PCs] /\ cmd \in [Procs -> Command \cup {NoCommand}]
      /\ mem \in [Procs -> Mem] /\ landed \in [Tasks -> SUBSET Nat]
  BY DEF TypeOK, IInv
<1>b. Labels /\ Exclusion /\ Traced /\ Sound(p)
  BY DEF IInv
<1>c. Task(p) \in Tasks \/ pc[p] \in Over \cup {"idle"}
  BY CommandIn DEF IInv
<1>d. mem[p] \in Mem
  BY <1>a
<1> USE <1>a, <1>b, <1>c, <1>d DEF Goto, End, NoCommand, NoMem, Op, Task, Over, Inside, Changes,
    Creates, Operations, store, bounds, Sound, Labels, Live, Archived, Others, Grows, Traced, Quiet
<1>1. ASSUME Start(p) PROVE Quiet(p)
  <2>1. pc'[p] \in {"record", "lock", "replay"} /\ (pc'[p] = "replay" => Op(p)' = "list")
    BY <1>1 DEF Start, Begin
  <2>20. Others(p) /\ UNCHANGED <<files, landed>>
    BY <1>1, <2>1 DEF Start, Begin
  <2>21. Grows
    BY <1>1, <2>1 DEF Start, Begin
  <2>22. Standing(p)'
    BY <1>1, <2>1 DEF Start, Begin, Standing
  <2>23. Fresh(p)'
    BY <1>1, StartFresh
  <2>24. Pending(p)'
    BY <1>1, <2>1 DEF Start, Begin, Pending
  <2>25. Untouched(p)'
    BY <1>1, <2>1 DEF Start, Begin, Untouched
  <2>26. Listing(p)'
    BY <1>1, <2>1 DEF Start, Begin, Listing
  <2> QED
    BY <2>20, <2>21, <2>22, <2>23, <2>24, <2>25, <2>26
<1>2. ASSUME Lock(p) PROVE Quiet(p)
  BY <1>2 DEF Lock, Standing, Fresh, Pending, Untouched, Listing
<1>3. ASSUME Release(p) PROVE Quiet(p)
  BY <1>3 DEF Release, Standing, Fresh, Pending, Untouched, Listing
<1>4. ASSUME Read(p) PROVE Quiet(p)
  <2>1. pc[p] \notin Over \cup {"idle"} /\ pc[p] = "read"
    BY <1>4 DEF Read
  <2>2. CASE files[Task(p)].place = "live"
    <3>1. mem'[p] = [mem[p] EXCEPT !.doc = files[Task(p)]] /\ pc'[p] = AfterRead(p) /\ cmd' = cmd
      BY <1>4, <2>2 DEF Read
    <3>2. mem'[p].doc = files[Task(p)] /\ mem'[p].none = mem[p].none
          /\ mem'[p].kept = mem[p].kept /\ mem'[p].blind = mem[p].blind
             /\ mem'[p].events = mem[p].events
      BY <3>1 DEF Mem
    <3>3. Others(p) /\ Grows /\ UNCHANGED <<files, landed>>
      BY <1>4 DEF Read
    <3>4. Op(p)' = Op(p) /\ Task(p)' = Task(p)
      BY <3>1
    <3>7. AfterRead(p) \in {"write", "look", "record", "throw"}
      BY Branches, <2>1 DEF IInv
    <3>5. Op(p) \in Changes
      BY <2>1, CommandIn DEF IInv
    <3>9. pc'[p] = "write" => Op(p) = "edit"
      BY <2>1, <3>1, Branches DEF IInv
    <3>8. Op(p) = "status" /\ pc'[p] # "throw" =>
            <<files[Task(p)].status, cmd[p].to>> \in AllowedTransitions
      BY <2>1, <3>1, Branches DEF IInv
    <3>6a. Standing(p)'
      BY <2>1, <2>2, <3>1, <3>2, <3>4, <3>3, <3>5, <3>8, <1>b DEF Standing
    <3>6b. Fresh(p)'
      BY <2>1, <2>2, <3>1, <3>2, <3>4, <3>5, <3>7, Branches DEF IInv, Fresh
    <3>6c. Pending(p)'
      BY <2>1, <2>2, <3>1, <3>2, <3>4, <3>5, <3>7, Branches DEF IInv, Pending
    <3>6d. Untouched(p)'
      BY <2>1, <2>2, <3>1, <3>2, <3>4, <3>5, <3>7, Branches DEF IInv, Untouched
    <3>6e. Listing(p)'
      BY <2>1, <2>2, <3>1, <3>2, <3>4, <3>5, <3>7, Branches DEF IInv, Listing
    <3> QED
      BY <3>3, <3>6a, <3>6b, <3>6c, <3>6d, <3>6e
  <2>3. CASE files[Task(p)].place # "live"
    BY <1>4, <2>3 DEF Read, Standing, Fresh, Pending, Untouched, Listing
  <2> QED
    BY <2>2, <2>3
<1>5. ASSUME Look(p) PROVE Quiet(p)
  <2> DEFINE x == IF Op(p) = "reconcile" THEN Broken(mem[p].doc)
               ELSE FinalLinked(Task(p), mem[p].doc)
  <2>1. mem'[p] = [mem[p] EXCEPT !.found = x] \/ mem'[p] = mem[p]
    BY <1>5 DEF Look
  <2> HIDE DEF x
  <2>2. mem'[p].doc = mem[p].doc /\ mem'[p].none = mem[p].none
        /\ mem'[p].kept = mem[p].kept /\ mem'[p].blind = mem[p].blind
    BY <2>1 DEF Mem
  <2>3. pc[p] = "look" /\ pc'[p] \in {"release", "record"} /\ cmd' = cmd
        /\ Op(p)' = Op(p) /\ Task(p)' = Task(p)
    BY <1>5 DEF Look
  <2>4. Sound(p)'
    BY <1>5, <2>2, <2>3 DEF Look, Standing, Fresh, Pending, Untouched, Listing
  <2> QED
    BY <1>5, <2>4 DEF Look
<1>6. ASSUME Link(p) PROVE Quiet(p)
  <2>20. Others(p) /\ UNCHANGED <<files, landed>>
    BY <1>6, <1>b DEF Link
  <2>21. Grows
    BY <1>6, <1>b DEF Link
  <2>22. Standing(p)'
    BY <1>6, <1>b DEF Link, Standing
  <2>23. Fresh(p)'
    BY <1>6, <1>b DEF Link, Fresh
  <2>24. Pending(p)'
    BY <1>6, <1>b DEF Link, Pending
  <2>25. Untouched(p)'
    BY <1>6, <1>b DEF Link, Untouched
  <2>26. Listing(p)'
    BY <1>6, <1>b DEF Link, Listing
  <2> QED
    BY <2>20, <2>21, <2>22, <2>23, <2>24, <2>25, <2>26
<1>7. ASSUME Second(p) PROVE Quiet(p)
  <2>1. CASE UNCHANGED <<trail, mem>> /\ Goto(p, "throw")
    BY <1>7, <2>1 DEF Second, Standing, Fresh, Pending, Untouched, Listing
  <2>2. CASE Unlinked \in dirs
    <3> DEFINE e == To("planned", cmd[p].to, Unlinked)
    <3>1. pc[p] = "second" /\ Task(p) \in Tasks /\ e \in Event /\ e.to # "deleted"
          /\ Op(p) = "attach"
      BY <1>7, CommandIn DEF Second, IInv, To, Event, Lives, Statuses, Unlinked
    <3>2. trail' = [trail EXCEPT ![Task(p)] = Append(@, e)] /\ cmd' = cmd /\ pc'[p] = "write"
      BY <1>7, <2>2 DEF Second
    <3> HIDE DEF e
    <3>3. /\ DOMAIN trail[Task(p)] \subseteq DOMAIN trail'[Task(p)]
          /\ \A i \in DOMAIN trail[Task(p)] : trail'[Task(p)][i] = trail[Task(p)][i]
          /\ trail'[Task(p)] # <<>> /\ Len(trail'[Task(p)]) \in DOMAIN trail'[Task(p)]
          /\ trail'[Task(p)][Len(trail'[Task(p)])] = e
      <4>1. trail[Task(p)] \in Seq(Event) /\ trail'[Task(p)] = Append(trail[Task(p)], e)
        BY <3>1, <3>2
      <4> QED
        BY <4>1, <3>1, Appended
    <3>4. Grows
      BY <3>1, <3>2, <3>3
    <3>5. mem'[p] = [mem[p] EXCEPT !.events = @ \cup {Len(trail'[Task(p)])}]
      BY <1>7, <2>2 DEF Second
    <3>6. mem'[p].none = mem[p].none /\ mem'[p].kept = mem[p].kept /\ mem'[p].blind = mem[p].blind
          /\ mem'[p].events = mem[p].events \cup {Len(trail'[Task(p)])}
      BY <3>5 DEF Mem
    <3>7. Others(p) /\ UNCHANGED <<files, landed>>
      BY <1>7 DEF Second
    <3>8. Standing(p)' /\ Untouched(p)' /\ Listing(p)'
      BY <3>1, <3>2, <3>6 DEF Standing, Untouched, Listing
    <3>9. Fresh(p)'
      BY <3>1, <3>2, <3>3, <3>7 DEF Fresh
    <3>10. Pending(p)'
      BY <3>1, <3>2, <3>3, <3>6 DEF Pending
    <3> QED
      BY <3>4, <3>7, <3>8, <3>9, <3>10
  <2> QED
    BY <1>7, <2>1, <2>2 DEF Second
<1>8. ASSUME Probe(p) PROVE Quiet(p)
  BY <1>8 DEF Probe, Standing, Fresh, Pending, Untouched, Listing
<1>9. ASSUME ReadIndex(p) PROVE Quiet(p)
  BY <1>9 DEF ReadIndex, Standing, Fresh, Pending, Untouched, Listing
<1>10. ASSUME SaveIndex(p) PROVE Quiet(p)
  BY <1>10 DEF SaveIndex, Standing, Fresh, Pending, Untouched, Listing
<1>11. ASSUME Replay(p) PROVE Quiet(p)
  <2>1. pc[p] = "replay" /\ pc'[p] = "ids" /\ cmd' = cmd
    BY <1>11 DEF Replay
  <2>2. mem'[p].present = Live /\ mem'[p].kept = Live \cup Archived /\ mem'[p].none = mem[p].none
    BY <1>11 DEF Replay, Mem
  <2>3. ~mem[p].none /\ Op(p) \notin Creates \cup Changes
    BY <2>1, CommandIn DEF Listing, IInv
  <2>4. Others(p) /\ Grows /\ UNCHANGED <<files, landed>>
    BY <1>11 DEF Replay
  <2>5. Standing(p)' /\ Fresh(p)' /\ Pending(p)' /\ Untouched(p)'
    BY <2>1, <2>3 DEF Standing, Fresh, Pending, Untouched
  <2>6. Listing(p)'
    BY <2>1, <2>2, <2>3, <2>4 DEF Listing
  <2> QED
    BY <2>4, <2>5, <2>6
<1>12. ASSUME ReadIds(p) PROVE Quiet(p)
  BY <1>12 DEF ReadIds, Listed, Standing, Fresh, Pending, Untouched, Listing
<1>13. ASSUME ReadDirectory(p) PROVE Quiet(p)
  <2>1. pc[p] = "dir" /\ pc'[p] \in {"scan", "archived", "answer"} /\ cmd' = cmd
        /\ (pc'[p] = "archived" => Live = {})
    BY <1>13 DEF ReadDirectory, AfterListing
  <2>2. mem'[p] = [mem[p] EXCEPT !.seen = Live, !.left = Live, !.rows = NoRows]
    BY <1>13 DEF ReadDirectory
  <2>3. mem'[p].seen = Live /\ mem'[p].present = mem[p].present /\ mem'[p].kept = mem[p].kept
        /\ mem'[p].none = mem[p].none
    BY <2>2 DEF Mem
  <2>4. ~mem[p].none /\ Op(p) \notin Creates \cup Changes
    BY <2>1, CommandIn DEF Listing, IInv
  <2>5. Others(p) /\ Grows /\ UNCHANGED <<files, landed>>
    BY <1>13 DEF ReadDirectory
  <2>6. Standing(p)' /\ Fresh(p)' /\ Pending(p)' /\ Untouched(p)'
    BY <2>1, <2>4 DEF Standing, Fresh, Pending, Untouched
  <2>7. Listing(p)'
    BY <2>1, <2>3, <2>4, <2>5 DEF Listing
  <2> QED
    BY <2>5, <2>6, <2>7
<1>14. ASSUME Scan(p) PROVE Quiet(p)
  BY <1>14 DEF Scan, Standing, Fresh, Pending, Untouched, Listing
<1>15. ASSUME Rebuild(p) PROVE Quiet(p)
  BY <1>15 DEF Rebuild, Standing, Fresh, Pending, Untouched, Listing
<1>16. ASSUME ListArchive(p) PROVE Quiet(p)
  <2>1. pc[p] = "archived" /\ pc'[p] = "answer" /\ cmd' = cmd
    BY <1>16 DEF ListArchive
  <2>2. mem'[p].present = mem[p].present /\ mem'[p].kept = mem[p].kept
        /\ mem'[p].blind = mem[p].blind
        /\ mem'[p].seen = mem[p].seen /\ mem'[p].none = (Archived = {})
    BY <1>16 DEF ListArchive, Mem
  <2>3. Op(p) \notin Creates \cup Changes
    BY <2>1, CommandIn DEF IInv
  <2>4. Others(p) /\ Grows /\ UNCHANGED <<files, landed>>
    BY <1>16 DEF ListArchive
  <2>5. Standing(p)' /\ Fresh(p)' /\ Pending(p)' /\ Untouched(p)'
    BY <2>1, <2>3 DEF Standing, Fresh, Pending, Untouched
  <2>6. Listing(p)'
    BY <2>1, <2>2, <2>4 DEF Listing
  <2> QED
    BY <2>4, <2>5, <2>6
<1>17. ASSUME Answer(p) PROVE Quiet(p)
  BY <1>17 DEF Answer, Standing, Fresh, Pending, Untouched, Listing
<1>18. ASSUME RecordFails(p) PROVE Quiet(p)
  <2>1. Grows
    <3>1. CASE UNCHANGED trail
      BY <3>1
    <3>2. CASE pc[p] = "record" /\ Mint(p)
      <4>1. minted' \in Nat /\ trail' = [trail EXCEPT ![Task(p)] = @ \o Recorded(p, minted')]
        BY <3>2 DEF Mint, IInv, TypeOK
      <4>2. Task(p) \in Tasks /\ Recorded(p, minted') \in Seq(Event)
        BY <3>2, <4>1, CommandIn, RecordedIn DEF IInv
      <4> HIDE DEF Grows
      <4> QED
        BY <4>1, <4>2, GrowsBy
    <3> QED
      BY <1>18, <3>1, <3>2 DEF RecordFails
  <2> QED
    BY <1>18, <2>1 DEF RecordFails, Trouble, Standing, Fresh, Pending, Untouched, Listing
<1>19. ASSUME WriteFails(p) PROVE Quiet(p)
  BY <1>19 DEF WriteFails, Trouble, Standing, Fresh, Pending, Untouched, Listing
<1>20. ASSUME SaveFails(p) PROVE Quiet(p)
  BY <1>20 DEF SaveFails, Trouble, Standing, Fresh, Pending, Untouched, Listing
<1>21. ASSUME DirectoryFails(p) PROVE Quiet(p)
  <2>1. CASE End(p, "failed")
    BY <1>21, <2>1 DEF DirectoryFails, Trouble, Standing, Fresh, Pending, Untouched, Listing
  <2>2. CASE mem' = [mem EXCEPT ![p].blind = TRUE] /\ UNCHANGED cmd
    <3>1. pc[p] = "dir" /\ pc'[p] \in {"archived", "answer"}
      BY <1>21, <2>2 DEF DirectoryFails, AfterListing
    <3>2. mem'[p].present = mem[p].present /\ mem'[p].kept = mem[p].kept /\ mem'[p].blind
          /\ mem'[p].none = mem[p].none
      BY <2>2 DEF Mem
    <3>3. ~mem[p].none /\ Op(p) \notin Creates \cup Changes
      BY <3>1, CommandIn DEF Listing, IInv
    <3>4. Others(p) /\ Grows /\ UNCHANGED <<files, landed>>
      BY <1>21, <2>2 DEF DirectoryFails
    <3>5. Standing(p)' /\ Fresh(p)' /\ Pending(p)' /\ Untouched(p)'
      BY <2>2, <3>1, <3>3 DEF Standing, Fresh, Pending, Untouched
    <3>6. Listing(p)'
      BY <2>2, <3>1, <3>2, <3>3, <3>4 DEF Listing
    <3> QED
      BY <3>4, <3>5, <3>6
  <2> QED
    BY <1>21, <2>1, <2>2 DEF DirectoryFails
<1>22. ASSUME Crash(p) PROVE Quiet(p)
  BY <1>22 DEF Crash, Trouble, Standing, Fresh, Pending, Untouched, Listing
<1> HIDE DEF Quiet
<1> QED
  BY <1>1, <1>2, <1>3, <1>4, <1>5, <1>6, <1>7, <1>8, <1>9, <1>10, <1>11, <1>12, <1>13,
     <1>14, <1>15, <1>16, <1>17, <1>18, <1>19, <1>20, <1>21, <1>22, RecordQuiet,
     RecordAttachedQuiet,
     AttachQuiet DEF Step, Change, List, Fails

-----------------------------------------------------------------------------
(* Steps that change files.                                                   *)

(* Nobody else is between its read and its write of the file, nor creates it. *)
LEMMA Alone ==
    ASSUME IInv, NEW p \in Procs, pc[p] \in {"write", "move"}
    PROVE  \A q \in Procs \ {p} : Task(q) = Task(p) =>
             /\ ~(Op(q) \in Changes /\ pc[q] \in {"look", "record", "probe", "write", "move"})
             /\ ~(Op(q) \in Creates /\ pc[q] \in {"lock", "record", "link", "second", "write"})
<1> SUFFICES ASSUME NEW q \in Procs \ {p}, Task(q) = Task(p)
             PROVE  /\ ~(Op(q) \in Changes
                         /\ pc[q] \in {"look", "record", "probe", "write", "move"})
                    /\ ~(Op(q) \in Creates
                         /\ pc[q] \in {"lock", "record", "link", "second", "write"})
  OBVIOUS
<1>1. Labels /\ Exclusion /\ Sound(p) /\ Sound(q)
  BY DEF IInv
<1>2. Op(p) \in Operations \ {"list"}
  <2>1. pc[p] \notin Over \cup {"idle"}
    BY DEF Over
  <2> QED
    BY <2>1, <1>1, CommandIn DEF Labels, IInv
<1>3. NoFile.place # "live"
  BY DEF NoFile
<1>4. CASE Op(p) \in Changes
  <2>1. locks[Task(p)] = p /\ files[Task(p)].place = "live"
    BY <1>1, <1>4 DEF Exclusion, Inside, Sound, Standing
  <2> QED
    BY <2>1, <1>1, <1>3 DEF Exclusion, Inside, Sound, Fresh
<1>5. CASE Op(p) \in Creates
  <2>1. /\ files[Task(p)] = NoFile
        /\ ~(Op(q) \in Creates /\ Task(q) = Task(p))
    BY <1>1, <1>5 DEF Labels, Sound, Fresh, Creates
  <2> QED
    BY <2>1, <1>1, <1>3 DEF Sound, Standing
<1> QED
  BY <1>2, <1>4, <1>5 DEF Changes

(* The file is written as the command has it.                                 *)
LEMMA Writing ==
    ASSUME IInv, NEW p \in Procs, Write(p)
    PROVE  Traced' /\ \A q \in Procs : Sound(q)'
<1> DEFINE t == Task(p)
<1>a. /\ files \in [Tasks -> File] /\ landed \in [Tasks -> SUBSET Nat]
      /\ pc \in [Procs -> PCs]
  BY DEF IInv, TypeOK
<1>b. Labels /\ Exclusion /\ Traced /\ \A q \in Procs : Sound(q)
  BY DEF IInv
<1>1. pc[p] = "write" /\ UNCHANGED <<trail, cmd, mem>> /\ t \in Tasks /\ Op(p) \in Operations
  <2>1. pc[p] = "write" /\ UNCHANGED <<trail, cmd, mem>>
    BY DEF Write
  <2>2. pc[p] \notin Over \cup {"idle"}
    BY <2>1 DEF Over
  <2> QED
    BY <2>1, <2>2, CommandIn DEF IInv
<1>2. files' = [files EXCEPT ![t] = NewFile(p)]
  BY DEF Write
<1>3. /\ NewFile(p).place = "live"
      /\ Op(p) \notin Moves => NewFile(p).status = mem[p].doc.status
  BY DEF NewFile
<1> HIDE DEF t
<1>4. /\ files'[t] = NewFile(p)
      /\ \A u \in Tasks \ {t} : files'[u] = files[u]
  BY <1>1, <1>2, <1>a
<1>5. /\ \A q \in Procs \ {p} : pc'[q] = pc[q]
      /\ \/ Op(p) = "archive" /\ pc'[p] = "move"
         \/ Op(p) # "archive" /\ pc'[p] = "index"
  BY <1>a DEF Write, Goto
<1>6. \A q \in Procs : Op(q)' = Op(q) /\ Task(q)' = Task(q)
  BY <1>1 DEF Op, Task
<1>7. Op(p) \in Changes \cup Creates /\ Op(p) # "delete"
  BY <1>1, <1>b DEF Labels, Changes, Creates
<1>8. /\ \A u \in Tasks \ {t} : landed'[u] = landed[u]
      /\ landed'[t] \subseteq landed[t] \cup mem[p].events
  BY <1>1, <1>a DEF Write, Land, t
<1>9. trail[t] # <<>> /\ (files[t].place = "live" \/ (files[t] = NoFile /\ landed[t] = {}))
  <2>1. CASE Op(p) \in Changes
    BY <2>1, <1>1, <1>b DEF Sound, Standing, Traced, t
  <2>2. CASE Op(p) \in Creates
    BY <2>2, <1>1, <1>b DEF Sound, Fresh, t
  <2> QED
    BY <1>7, <2>1, <2>2
<1>10. Traced'
  <2> SUFFICES ASSUME NEW u \in Tasks
               PROVE  /\ landed'[u] \subseteq DOMAIN trail[u]
                      /\ files'[u].place # "none" => trail[u] # <<>>
                      /\ files'[u].place = "none" => files'[u] = NoFile
                      /\ \A i \in landed'[u] : trail[u][i].to = "deleted" => files'[u] = NoFile
    BY <1>1 DEF Traced
  <2>1. CASE u # t
    BY <2>1, <1>4, <1>8, <1>b DEF Traced
  <2>2. CASE u = t
    <3>1. \A i \in mem[p].events : i \in DOMAIN trail[t] /\ trail[t][i].to # "deleted"
      BY <1>1, <1>7, <1>b DEF Sound, Pending, t
    <3>2. \A i \in landed[t] : trail[t][i].to # "deleted"
      BY <1>1, <1>9, <1>b DEF Traced, NoFile
    <3> QED
      BY <2>2, <3>1, <3>2, <1>1, <1>3, <1>4, <1>8, <1>9, <1>b DEF Traced
  <2> QED
    BY <2>1, <2>2
<1>11. Live \subseteq Live' /\ Archived \subseteq Archived'
  BY <1>3, <1>4, <1>9 DEF Live, Archived, NoFile
<1>12. Sound(p)'
  <2>1. Standing(p)'
    BY <1>1, <1>3, <1>4, <1>5, <1>6, <1>b DEF Standing, Sound, t, Moves, Creates
  <2>2. Fresh(p)'
    BY <1>1, <1>5, <1>6, <1>b DEF Fresh, Sound, Creates
  <2>3. Pending(p)'
    BY <1>1, <1>5, <1>6, <1>b DEF Pending, Sound, Over
  <2>4. Untouched(p)' /\ Listing(p)'
    BY <1>1, <1>5, <1>6, <1>b DEF Untouched, Listing, Sound
  <2> QED
    BY <2>1, <2>2, <2>3, <2>4 DEF Sound
<1>13. ASSUME NEW q \in Procs \ {p} PROVE Sound(q)'
  <2>1. pc'[q] = pc[q] /\ mem'[q] = mem[q] /\ Sound(q)
    BY <1>1, <1>5, <1>b
  <2>2. Task(q) = t =>
          /\ ~(Op(q) \in Changes /\ pc[q] \in {"look", "record", "probe", "write", "move"})
          /\ ~(Op(q) \in Creates /\ pc[q] \in {"lock", "record", "link", "second", "write"})
    BY <1>1, Alone DEF t
  <2>3. Task(q) \in Tasks \/ pc[q] \in Over \cup {"idle"}
    BY CommandIn DEF IInv
  <2>4. Standing(q)'
    BY <2>1, <2>2, <2>3, <1>1, <1>4, <1>6 DEF Standing, Sound, Over
  <2>5. Fresh(q)'
    BY <2>1, <2>2, <2>3, <1>1, <1>4, <1>6, <1>8 DEF Fresh, Sound, Over
  <2>6. Pending(q)'
    BY <2>1, <1>1, <1>6 DEF Pending, Sound
  <2>7. Untouched(q)'
    BY <2>1, <2>2, <2>3, <1>1, <1>4, <1>6 DEF Untouched, Sound, Over, Changes, Operations, Creates
  <2>8. Listing(q)'
    BY <2>1, <1>11 DEF Listing, Sound
  <2> QED
    BY <2>4, <2>5, <2>6, <2>7, <2>8 DEF Sound
<1> QED
  BY <1>10, <1>12, <1>13

(* The file goes to the archive, or goes.                                     *)
LEMMA Moving ==
    ASSUME IInv, NEW p \in Procs, Move(p)
    PROVE  Traced' /\ \A q \in Procs : Sound(q)'
<1> DEFINE t == Task(p)
<1>a. /\ files \in [Tasks -> File] /\ landed \in [Tasks -> SUBSET Nat]
      /\ pc \in [Procs -> PCs] /\ mem \in [Procs -> Mem]
  BY DEF IInv, TypeOK
<1>b. Labels /\ Exclusion /\ Traced /\ \A q \in Procs : Sound(q)
  BY DEF IInv
<1>1. pc[p] = "move" /\ UNCHANGED <<trail, cmd>> /\ t \in Tasks /\ Op(p) \in {"archive", "delete"}
  <2>1. pc[p] = "move" /\ UNCHANGED <<trail, cmd>>
    BY DEF Move
  <2>2. pc[p] \notin Over \cup {"idle"}
    BY <2>1 DEF Over
  <2> QED
    BY <2>1, <2>2, <1>b, CommandIn DEF IInv, Labels
<1>2. files' = [files EXCEPT ![t] = IF Op(p) = "archive" THEN [files[t] EXCEPT !.place = "archive"]
                                    ELSE NoFile]
  BY DEF Move
<1>3. files[t].place = "live"
  BY <1>1, <1>b DEF Sound, Standing, Changes, Operations, Creates
<1> HIDE DEF t
<1>4. /\ Op(p) = "archive" => files'[t] = [files[t] EXCEPT !.place = "archive"]
      /\ Op(p) = "delete" => files'[t] = NoFile
      /\ \A u \in Tasks \ {t} : files'[u] = files[u]
  BY <1>1, <1>2, <1>a
<1>5. /\ Op(p) = "archive" => files'[t].place = "archive"
      /\ NoFile.place = "none"
  <2>1. files[t] \in File
    BY <1>1, <1>a
  <2> QED
    BY <1>4, <2>1 DEF File, NoFile
<1>6. (\A q \in Procs \ {p} : pc'[q] = pc[q]) /\ pc'[p] = "index"
  BY <1>a DEF Move, Goto
<1>7. \A q \in Procs : Op(q)' = Op(q) /\ Task(q)' = Task(q)
  BY <1>1 DEF Op, Task
<1>8. /\ \A u \in Tasks \ {t} : landed'[u] = landed[u]
      /\ landed'[t] = landed[t] \cup mem[p].events
  BY <1>1, <1>a DEF Move, Land, t
<1>9. Traced'
  <2> SUFFICES ASSUME NEW u \in Tasks
               PROVE  /\ landed'[u] \subseteq DOMAIN trail[u]
                      /\ files'[u].place # "none" => trail[u] # <<>>
                      /\ files'[u].place = "none" => files'[u] = NoFile
                      /\ \A i \in landed'[u] : trail[u][i].to = "deleted" => files'[u] = NoFile
    BY <1>1 DEF Traced
  <2>1. CASE u # t
    BY <2>1, <1>4, <1>8, <1>b DEF Traced
  <2>2. CASE u = t
    <3>1. \A i \in mem[p].events :
            i \in DOMAIN trail[t] /\ (trail[t][i].to = "deleted" => Op(p) = "delete")
      BY <1>1, <1>b DEF Sound, Pending, t
    <3>2. landed[t] \subseteq DOMAIN trail[t] /\ \A i \in landed[t] : trail[t][i].to # "deleted"
      BY <1>1, <1>3, <1>5, <1>b DEF Traced
    <3> QED
      BY <2>2, <3>1, <3>2, <1>1, <1>3, <1>4, <1>5, <1>8, <1>b DEF Traced
  <2> QED
    BY <2>1, <2>2
<1>10. /\ Live \ {t} \subseteq Live'
       /\ Archived \subseteq Archived'
       /\ Op(p) = "archive" => t \in Archived'
  BY <1>1, <1>3, <1>4, <1>5 DEF Live, Archived
<1>11. ASSUME NEW q \in Procs
       PROVE  /\ mem'[q].present = mem[q].present \ {t}
              /\ mem'[q].kept = IF Op(p) = "delete" THEN mem[q].kept \ {t} ELSE mem[q].kept
              /\ mem'[q].doc = mem[q].doc /\ mem'[q].events = mem[q].events
              /\ mem'[q].late = mem[q].late /\ mem'[q].seen = mem[q].seen
              /\ mem'[q].blind = mem[q].blind /\ mem'[q].none = mem[q].none
  <2>1. mem[q] \in Mem
    BY <1>a
  <2>2. mem'[q] = [mem[q] EXCEPT !.present = mem[q].present \ {t},
                     !.kept = IF Op(p) = "delete" THEN mem[q].kept \ {t} ELSE mem[q].kept]
    BY DEF Move, t
  <2> QED
    BY <2>1, <2>2 DEF Mem
<1>12. ASSUME NEW q \in Procs PROVE Listing(q)'
  <2>1. mem[q].none => pc[q] = "answer" /\ q # p
    BY <1>1, <1>b DEF Sound, Listing
  <2>2. CASE q = p
    BY <2>1, <2>2, <1>6, <1>11 DEF Listing
  <2>3. CASE q # p
    <3>1. pc'[q] = pc[q] /\ Listing(q)
      BY <2>3, <1>6, <1>b DEF Sound
    <3>2. /\ mem'[q].present \subseteq mem[q].present
          /\ mem[q].kept = {} => mem'[q].kept = {}
          /\ mem'[q].seen = mem[q].seen
          /\ mem'[q].blind = mem[q].blind /\ mem'[q].none = mem[q].none
      BY <1>11
    <3>3. mem[q].present \subseteq Live => mem'[q].present \subseteq Live'
      BY <1>10, <1>11
    <3>4. mem[q].kept \ mem[q].present \subseteq Archived =>
            mem'[q].kept \ mem'[q].present \subseteq Archived'
      <4>1. CASE Op(p) = "delete"
        BY <4>1, <1>10, <1>11
      <4>2. CASE Op(p) = "archive"
        BY <4>2, <1>10, <1>11
      <4> QED
        BY <4>1, <4>2, <1>1
    <3> QED
      BY <3>1, <3>2, <3>3, <3>4 DEF Listing
  <2> QED
    BY <2>2, <2>3
<1>13. Sound(p)'
  <2>1. Standing(p)' /\ Untouched(p)' /\ Pending(p)'
    BY <1>6 DEF Standing, Untouched, Pending, Over
  <2>2. Fresh(p)'
    BY <1>1, <1>7 DEF Fresh, Creates
  <2> QED
    BY <2>1, <2>2, <1>12 DEF Sound
<1>14. ASSUME NEW q \in Procs \ {p} PROVE Sound(q)'
  <2>1. pc'[q] = pc[q] /\ Sound(q)
    BY <1>6, <1>b
  <2>2. Task(q) = t =>
          /\ ~(Op(q) \in Changes /\ pc[q] \in {"look", "record", "probe", "write", "move"})
          /\ ~(Op(q) \in Creates /\ pc[q] \in {"lock", "record", "link", "second", "write"})
    BY <1>1, Alone DEF t
  <2>3. Task(q) \in Tasks \/ pc[q] \in Over \cup {"idle"}
    BY CommandIn DEF IInv
  <2>8. Op(q) \in Changes /\ pc[q] \in {"look", "record", "probe", "write", "move"} =>
          files'[Task(q)] = files[Task(q)]
    BY <2>2, <2>3, <1>1, <1>4 DEF Over
  <2>4. Standing(q)'
    <3>1. cmd'[q] = cmd[q] /\ mem'[q].doc = mem[q].doc
      BY <1>1, <1>11
    <3> QED
      BY <3>1, <2>1, <2>8, <1>7 DEF Standing, Sound
  <2>5. Fresh(q)'
    BY <2>1, <2>2, <2>3, <1>1, <1>4, <1>7, <1>8 DEF Fresh, Sound, Over
  <2>6. Pending(q)'
    BY <2>1, <1>1, <1>7, <1>11 DEF Pending, Sound
  <2>7. Untouched(q)'
    <3>1. mem'[q].doc = mem[q].doc /\ mem'[q].late = mem[q].late
      BY <1>11
    <3>2. {"reconcile", "refresh"} \subseteq Changes
      BY DEF Changes, Operations, Creates
    <3> QED
      BY <3>1, <3>2, <2>1, <2>8, <1>7 DEF Untouched, Sound
  <2> QED
    BY <2>4, <2>5, <2>6, <2>7, <1>12 DEF Sound
<1> QED
  BY <1>9, <1>13, <1>14

(* An edit by hand changes the text alone.                                    *)
LEMMA Editing ==
    ASSUME IInv, NEW t \in Tasks, EditByHand(t)
    PROVE  Traced' /\ \A q \in Procs : Sound(q)'
<1>a. files \in [Tasks -> File] /\ mem \in [Procs -> Mem]
  BY DEF IInv, TypeOK
<1>b. Labels /\ Exclusion /\ Traced /\ \A q \in Procs : Sound(q)
  BY DEF IInv
<1>1. files[t].place = "live" /\ UNCHANGED <<trail, landed, pc, cmd>>
  BY DEF EditByHand, Live
<1>2. /\ files'[t] = [files[t] EXCEPT !.text = files[t].text + 1]
      /\ \A u \in Tasks \ {t} : files'[u] = files[u]
  BY <1>a DEF EditByHand
<1>3. files'[t].place = "live" /\ files'[t].status = files[t].status
  <2>1. files[t] \in File
    BY <1>a
  <2> QED
    BY <2>1, <1>1, <1>2 DEF File
<1>4. NoFile.place = "none"
  BY DEF NoFile
<1>5. Traced'
  BY <1>1, <1>2, <1>3, <1>4, <1>b DEF Traced
<1>6. ASSUME NEW q \in Procs
      PROVE  /\ mem'[q].present = mem[q].present /\ mem'[q].kept = mem[q].kept
             /\ mem'[q].doc = mem[q].doc /\ mem'[q].events = mem[q].events
             /\ mem'[q].seen = mem[q].seen
             /\ mem'[q].blind = mem[q].blind /\ mem'[q].none = mem[q].none
             /\ IF pc[q] = "write" /\ Task(q) = t THEN mem'[q].late
                ELSE mem'[q].late = mem[q].late
  <2>1. mem[q] \in Mem
    BY <1>a
  <2>2. mem'[q] = IF pc[q] = "write" /\ Task(q) = t THEN [mem[q] EXCEPT !.late = TRUE]
                  ELSE mem[q]
    BY DEF EditByHand
  <2> QED
    BY <2>1, <2>2 DEF Mem
<1>7. Live' = Live /\ Archived' = Archived
  BY <1>1, <1>2, <1>3 DEF Live, Archived
<1>8. ASSUME NEW q \in Procs PROVE Sound(q)'
  <2>1. Op(q)' = Op(q) /\ Task(q)' = Task(q) /\ pc'[q] = pc[q] /\ Sound(q)
    BY <1>1, <1>b DEF Op, Task
  <2>2. Task(q) \in Tasks \/ pc[q] \in Over \cup {"idle"}
    BY CommandIn DEF IInv
  <2>8. Task(q) \in Tasks => /\ files'[Task(q)].place = files[Task(q)].place
                             /\ files'[Task(q)].status = files[Task(q)].status
    BY <1>1, <1>2, <1>3
  <2>9. cmd'[q] = cmd[q] /\ mem'[q].doc = mem[q].doc
    BY <1>1, <1>6
  <2>3. Standing(q)'
    BY <2>1, <2>2, <2>8, <2>9 DEF Standing, Sound, Over
  <2>4. Fresh(q)'
    BY <2>1, <2>2, <1>1, <1>2, <1>4 DEF Fresh, Sound, Over, Op, Task
  <2>5. Pending(q)'
    BY <2>1, <1>1, <1>6 DEF Pending, Sound
  <2>6. Untouched(q)'
    BY <2>1, <2>2, <1>1, <1>2, <1>6 DEF Untouched, Sound, Over
  <2>7. Listing(q)'
    BY <2>1, <1>6, <1>7 DEF Listing, Sound
  <2> QED
    BY <2>3, <2>4, <2>5, <2>6, <2>7 DEF Sound
<1> QED
  BY <1>5, <1>8

(* A step that leaves the commands, the files and the trails alone.           *)
LEMMA Elsewise ==
    ASSUME IInv, UNCHANGED <<files, trail, landed, pc, cmd, mem, locks>>
    PROVE  Labels' /\ Exclusion' /\ Traced' /\ \A q \in Procs : Sound(q)'
<1>1. \A q \in Procs : Op(q)' = Op(q) /\ Task(q)' = Task(q)
  BY DEF Op, Task
<1>2. Labels' /\ Exclusion' /\ Traced'
  BY <1>1 DEF IInv, Labels, Exclusion, Traced
<1>3. ASSUME NEW q \in Procs PROVE Sound(q)'
  <2>1. Sound(q)
    BY DEF IInv
  <2>2. Standing(q)' /\ Pending(q)' /\ Untouched(q)'
    BY <2>1, <1>1 DEF Sound, Standing, Pending, Untouched
  <2>3. Fresh(q)'
    BY <2>1, <1>1 DEF Sound, Fresh
  <2>4. Listing(q)'
    BY <2>1, <1>1 DEF Sound, Listing, Live, Archived
  <2> QED
    BY <2>2, <2>3, <2>4 DEF Sound
<1> QED
  BY <1>2, <1>3

-----------------------------------------------------------------------------
(* The invariant.                                                             *)

(* Every task there is to begin with has a session of its own.                *)
LEMMA Numbered ==
    /\ Numbering \in [Existing -> RunningSessions \ {Unlinked}]
    /\ RunningSessions \subseteq Nat /\ Cardinality(Existing) \in Nat
    /\ \A t, u \in Existing : Numbering[t] = Numbering[u] => t = u
<1> DEFINE n == Cardinality(Existing)
<1>1. n \in Nat /\ ExistsBijection(1 .. n, Existing)
  <2>1. IsFiniteSet(Existing)
    BY ExistingAreTasks, FS_Subset
  <2> QED
    BY <2>1, FS_CardinalityType
<1>2. PICK g \in Bijection(1 .. n, Existing) : TRUE
  BY <1>1 DEF ExistsBijection
<1>3. g \in [1 .. n -> Existing] /\ \A t \in Existing : \E i \in 1 .. n : g[i] = t
  BY <1>2 DEF Bijection, Injection, Surjection
<1> DEFINE h == [t \in Existing |-> CHOOSE i \in 1 .. n : g[i] = t]
           f == [t \in Existing |-> h[t] + 1]
<1>4. \A t \in Existing : h[t] \in 1 .. n /\ g[h[t]] = t
  BY <1>3
<1> HIDE DEF h, n
<1>5. f \in [Existing -> RunningSessions \ {Unlinked}]
  <2>1. \A i \in 1 .. n : i + 1 \in 2 .. n + 1
    BY <1>1
  <2>2. 2 .. n + 1 \subseteq RunningSessions \ {Unlinked}
    BY <1>1 DEF RunningSessions, Unlinked, n
  <2> QED
    BY <2>1, <2>2, <1>4
<1>6. \A t, u \in Existing : f[t] = f[u] => t = u
  <2>1. ASSUME NEW t \in Existing, NEW u \in Existing, f[t] = f[u] PROVE t = u
    <3>1. h[t] \in Nat /\ h[u] \in Nat /\ h[t] + 1 = h[u] + 1
      BY <2>1, <1>4, <1>1
    <3>2. h[t] = h[u]
      BY <3>1
    <3> QED
      BY <3>2, <1>4
  <2> QED
    BY <2>1
<1> HIDE DEF f
<1> QED
  BY <1>1, <1>5, <1>6 DEF Numbering, RunningSessions, n

LEMMA InitInv == Init => IInv
<1> SUFFICES ASSUME Init PROVE IInv
  OBVIOUS
<1>1. ASSUME NEW t \in Existing
      PROVE  /\ [place |-> "live", status |-> "planned", created |-> Numbering[t],
                 linked |-> {Numbering[t]}, text |-> 0] \in File
             /\ <<[from |-> "none", to |-> "planned", ses |-> Numbering[t]]>> \in Seq(Event)
             /\ Numbering[t] \in Nat
  <2>1. Numbering[t] \in Nat
    BY Numbered
  <2>2. [from |-> "none", to |-> "planned", ses |-> Numbering[t]] \in Event
    BY <2>1 DEF Event, Lives, Statuses
  <2> QED
    BY <2>1, <2>2 DEF File, Statuses
<1>2. Existing \subseteq Tasks
  BY ExistingAreTasks
<1>3. \A t \in Tasks :
        /\ t \in Existing =>
             /\ files[t].place = "live" /\ files[t] \in File
             /\ trail[t] \in Seq(Event) /\ Len(trail[t]) = 1 /\ trail[t][1].to = "planned"
             /\ landed[t] = {1}
        /\ t \notin Existing => files[t] = NoFile /\ trail[t] = <<>> /\ landed[t] = {}
  BY <1>1 DEF Init
<1>4. \A p \in Procs : /\ pc[p] = "idle" /\ cmd[p] = NoCommand /\ mem[p] = NoMem
                       /\ Op(p) = "none" /\ mem[p].events = {} /\ ~mem[p].none
  BY DEF Init, NoCommand, NoMem, Op
<1>5. TypeOK
  <2>1. files \in [Tasks -> File]
    BY <1>3, NothingRead DEF Init
  <2>2. index \in [valid : BOOLEAN, rows : Rows]
    BY Truths DEF Init, Rows, Statuses
  <2>3. trail \in [Tasks -> Seq(Event)]
    BY <1>3 DEF Init
  <2>4. /\ dirs \subseteq Nat /\ damaged \subseteq Nat /\ pins \subseteq Nat \X Tasks
        /\ minted \in Nat /\ told \subseteq Nat
    <3>1. pins \subseteq Nat \X Tasks
      BY <1>1, <1>2 DEF Init
    <3>2. dirs \subseteq Nat /\ damaged \subseteq Nat /\ told \subseteq Nat /\ minted \in Nat
      BY Numbered DEF Init, Unlinked
    <3> QED
      BY <3>1, <3>2
  <2>5. locks \in [Tasks -> Procs \cup {Free}] /\ landed \in [Tasks -> SUBSET Nat]
    BY DEF Init
  <2>6. pc \in [Procs -> PCs] /\ cmd \in [Procs -> Command \cup {NoCommand}]
    BY DEF Init, PCs
  <2>7. mem \in [Procs -> Mem]
    BY NothingRead DEF Init
  <2>8. begun \in 0 .. MaxCommands /\ troubles \in 0 .. MaxTroubles
    BY BoundsNat DEF Init
  <2> QED
    BY <2>1, <2>2, <2>3, <2>4, <2>5, <2>6, <2>7, <2>8 DEF TypeOK
<1>6. Labels /\ Exclusion
  BY <1>4 DEF Labels, Exclusion, Changes, Creates, Operations, Over, Inside
<1>7. Traced
  <2>1. ASSUME NEW t \in Tasks
        PROVE  /\ landed[t] \subseteq DOMAIN trail[t]
               /\ files[t].place # "none" => trail[t] # <<>>
               /\ files[t].place = "none" => files[t] = NoFile
               /\ \A i \in landed[t] : trail[t][i].to = "deleted" => files[t] = NoFile
    <3>1. CASE t \in Existing
      BY <3>1, <1>3
    <3>2. CASE t \notin Existing
      <4>1. NoFile.place = "none"
        BY DEF NoFile
      <4> QED
        BY <4>1, <3>2, <1>3
    <3> QED
      BY <3>1, <3>2
  <2> QED
    BY <2>1 DEF Traced
<1>8. ASSUME NEW p \in Procs PROVE Sound(p)
  BY <1>4 DEF Sound, Standing, Fresh, Pending, Untouched, Listing, Changes, Creates, Operations
<1> QED
  BY <1>5, <1>6, <1>7, <1>8 DEF IInv

LEMMA NextInv == IInv /\ [Next]_vars => IInv'
<1> SUFFICES ASSUME IInv, [Next]_vars PROVE IInv'
  OBVIOUS
<1>1. TypeOK /\ Labels /\ Exclusion
  BY DEF IInv
<1>2. CASE UNCHANGED vars
  <2>1. TypeOK'
    BY <1>1, <1>2 DEF TypeOK, vars, store, bounds
  <2>2. Labels' /\ Exclusion' /\ Traced' /\ \A q \in Procs : Sound(q)'
    BY <1>2, Elsewise DEF vars, store
  <2> QED
    BY <2>1, <2>2 DEF IInv
<1>3. CASE Next
  <2>1. TypeOK'
    BY <1>1, <1>3, TypeNext
  <2>2. ASSUME NEW p \in Procs, Start(p) \/ Step(p) \/ Fails(p) PROVE IInv'
    <3>1. Labels' /\ Exclusion'
      BY <2>2, <1>1, LabelsNext, ExclusionNext
    <3>2. Traced' /\ \A q \in Procs : Sound(q)'
      <4>1. CASE Write(p)
        BY <4>1, Writing
      <4>2. CASE Move(p)
        BY <4>2, Moving
      <4>3. CASE Quiet(p)
        BY <4>3, Elsewhere DEF Quiet
      <4> QED
        BY <2>2, <4>1, <4>2, <4>3, Quietly
    <3> QED
      BY <2>1, <3>1, <3>2 DEF IInv
  <2>3. ASSUME NEW t \in Tasks, EditByHand(t) PROVE IInv'
    <3>1. Labels' /\ Exclusion'
      <4>1. \A q \in Procs : Op(q)' = Op(q) /\ Task(q)' = Task(q)
        BY <2>3 DEF EditByHand, Op, Task
      <4> QED
        BY <4>1, <2>3, <1>1 DEF EditByHand, Labels, Exclusion
    <3> QED
      BY <2>1, <2>3, <3>1, Editing DEF IInv
  <2>4. ASSUME NEW s \in dirs \cup damaged, RemoveSession(s) \/ DamageSession(s) PROVE IInv'
    BY <2>1, <2>4, Elsewise DEF RemoveSession, DamageSession, IInv
  <2>5. CASE LoseIndex
    BY <2>1, <2>5, Elsewise DEF LoseIndex, IInv
  <2> QED
    BY <1>3, <2>2, <2>3, <2>4, <2>5 DEF Next
<1> QED
  BY <1>2, <1>3

LEMMA Invariance == Spec => []IInv
BY InitInv, NextInv, PTL DEF Spec

-----------------------------------------------------------------------------
(* The theorems.                                                              *)

(* Every variable keeps its type.                                             *)
THEOREM TypesHold == Spec => []TypeOK
BY Invariance, PTL DEF IInv

(* enumerateTaskIds shows every task whose file is there while it reads, be   *)
(* the index missing, stale or half rebuilt.                                  *)
THEOREM ListingsComplete == Spec => []NeverHidden
<1>1. IInv => NeverHidden
  BY DEF IInv, Sound, Listing, NeverHidden
<1> QED
  BY <1>1, Invariance, PTL

(* anyTaskEverRecorded denies a task only when none has a file, archived ones *)
(* included.                                                                  *)
THEOREM NoneIsTrue == Spec => []NoFalseNone
<1>1. IInv => NoFalseNone
  BY DEF IInv, Sound, Listing, NoFalseNone
<1> QED
  BY <1>1, Invariance, PTL

(* How a write changes the file.                                              *)
LEMMA WriteFrom ==
    ASSUME IInv, NEW p \in Procs, Write(p)
    PROVE  /\ Task(p) \in Tasks /\ files' = [files EXCEPT ![Task(p)] = NewFile(p)]
           /\ \/ /\ files[Task(p)].place = "live"
                 /\ \/ NewFile(p).status = files[Task(p)].status
                    \/ <<files[Task(p)].status, NewFile(p).status>> \in AllowedTransitions
              \/ files[Task(p)] = NoFile /\ landed[Task(p)] = {}
<1>1. pc[p] = "write" /\ files' = [files EXCEPT ![Task(p)] = NewFile(p)]
  BY DEF Write
<1>2. pc[p] \notin Over \cup {"idle"} /\ Labels /\ Sound(p)
  BY <1>1 DEF Over, IInv
<1>3. Task(p) \in Tasks /\ Op(p) \in Operations \ {"list"}
  BY <1>1, <1>2, CommandIn DEF IInv, Labels
<1>4. NewFile(p).status = IF Op(p) \in Moves THEN cmd[p].to ELSE mem[p].doc.status
  BY DEF NewFile
<1>5. CASE Op(p) \in Changes
  BY <1>1, <1>2, <1>3, <1>4, <1>5 DEF Sound, Standing, Moves, Changes
<1>6. CASE Op(p) \in Creates
  BY <1>1, <1>2, <1>3, <1>6 DEF Sound, Fresh
<1> QED
  BY <1>1, <1>3, <1>5, <1>6 DEF Changes

(* No command and no interleaving of commands takes a finished task up again, *)
(* changes an archived one or brings a deleted one back.                      *)
THEOREM FinalityHolds == Spec => Finality
<1> DEFINE A == \A t \in Tasks :
        /\ files[t].place = "live" /\ files'[t].status # files[t].status
           => \/ files'[t] = NoFile
              \/ files[t].status \notin Terminal /\ files'[t].status # "planned"
        /\ files[t].place = "archive" => files'[t] = files[t]
        /\ \A i \in landed[t] : trail[t][i].to = "deleted" => files'[t] = NoFile
<1>1. IInv /\ [Next]_vars => A
  <2> SUFFICES ASSUME IInv, [Next]_vars, NEW t \in Tasks
               PROVE  /\ files[t].place = "live" /\ files'[t].status # files[t].status
                         => \/ files'[t] = NoFile
                            \/ files[t].status \notin Terminal /\ files'[t].status # "planned"
                      /\ files[t].place = "archive" => files'[t] = files[t]
                      /\ \A i \in landed[t] : trail[t][i].to = "deleted" => files'[t] = NoFile
    OBVIOUS
  <2>a. /\ files \in [Tasks -> File] /\ files[t] \in File
        /\ \A i \in landed[t] : trail[t][i].to = "deleted" => files[t] = NoFile
    BY DEF IInv, TypeOK, Traced
  <2>b. NoFile.place = "none"
    BY DEF NoFile
  <2>1. CASE files'[t] = files[t]
    BY <2>1, <2>a
  <2>2. ASSUME NEW p \in Procs, Write(p), files'[t] # files[t]
        PROVE  /\ files[t].place = "live" /\ files'[t].status # files[t].status
                  => files[t].status \notin Terminal /\ files'[t].status # "planned"
               /\ files[t].place # "archive"
               /\ \A i \in landed[t] : trail[t][i].to # "deleted"
    <3>1. t = Task(p) /\ files'[t] = NewFile(p)
      BY <2>2, <2>a, WriteFrom
    <3> QED
      BY <2>2, <2>a, <2>b, <3>1, WriteFrom DEF AllowedTransitions, Terminal
  <2>3. ASSUME NEW p \in Procs, Move(p), files'[t] # files[t]
        PROVE  /\ files'[t] = NoFile \/ files'[t].status = files[t].status
               /\ files[t].place = "live"
    <3>1. Op(p) \in {"archive", "delete"} /\ pc[p] = "move" /\ Sound(p)
      <4>1. pc[p] = "move" /\ pc[p] \notin Over \cup {"idle"}
        BY <2>3 DEF Move, Over
      <4> QED
        BY <4>1 DEF IInv, Labels
    <3>2. files[Task(p)].place = "live"
      BY <3>1 DEF Sound, Standing, Changes, Operations, Creates
    <3>3. /\ t = Task(p)
          /\ files'[t] \in {[files[t] EXCEPT !.place = "archive"], NoFile}
      BY <2>3, <2>a DEF Move
    <3> QED
      BY <3>2, <3>3, <2>a DEF File
  <2>4. ASSUME NEW u \in Tasks, EditByHand(u), files'[t] # files[t]
        PROVE  files[t].place = "live" /\ files'[t].status = files[t].status
    <3>1. u = t /\ files'[t] = [files[t] EXCEPT !.text = files[t].text + 1]
      BY <2>4, <2>a DEF EditByHand
    <3> QED
      BY <2>4, <3>1, <2>a DEF EditByHand, Live, File
  <2>5. CASE UNCHANGED files
    BY <2>5, <2>1
  <2>6. ASSUME NEW p \in Procs, Start(p) \/ Step(p) \/ Fails(p)
        PROVE  Write(p) \/ Move(p) \/ UNCHANGED files
    BY <2>6, Quietly DEF Quiet
  <2>7. \/ UNCHANGED files
        \/ \E p \in Procs : Write(p) \/ Move(p)
        \/ \E u \in Tasks : EditByHand(u)
    BY <2>6 DEF Next, RemoveSession, DamageSession, LoseIndex, vars, store
  <2> QED
    BY <2>1, <2>2, <2>3, <2>4, <2>5, <2>7, <2>a, <2>b
<1> QED
  BY <1>1, Invariance, PTL DEF Spec, Finality

(* Only a write goes from there to the index.                                 *)
LEMMA OnlyWrite ==
    ASSUME IInv, [Next]_vars, NEW p \in Procs, pc[p] = "write", pc'[p] = "index"
    PROVE  Write(p)
<1>0. pc \in [Procs -> PCs]
  BY DEF IInv, TypeOK
<1>1. ASSUME NEW q \in Procs \ {p}, Start(q) \/ Step(q) \/ Fails(q) PROVE pc'[p] = pc[p]
  <2>1. CASE Quiet(q)
    BY <2>1 DEF Quiet, Others
  <2>2. CASE Write(q) \/ Move(q)
    BY <2>2, <1>0 DEF Write, Move, Goto
  <2> QED
    BY <1>1, <2>1, <2>2, Quietly
<1>2. ASSUME Start(p) \/ Step(p) \/ Fails(p) PROVE Write(p)
  <2>1. CASE Change(p)
    BY <2>1 DEF Change, Lock, Read, Look, Record, RecordAttached, Attach, Link, Second, Probe,
                Move, ReadIndex, SaveIndex, Release
  <2>2. CASE List(p)
    BY <2>2 DEF List, Replay, ReadIds, ReadDirectory, Scan, Rebuild, ListArchive, Answer
  <2>3. ~Start(p)
    BY DEF Start
  <2>4. ~(WriteFails(p) \/ Crash(p))
    BY <1>0 DEF WriteFails, Crash, End, Goto
  <2>5. CASE Fails(p)
    BY <2>5, <2>4 DEF Fails, RecordFails, SaveFails, DirectoryFails
  <2> QED
    BY <1>2, <2>1, <2>2, <2>3, <2>5 DEF Step
<1> QED
  BY <1>1, <1>2 DEF Next, EditByHand, RemoveSession, DamageSession, LoseIndex, vars

(* The bytes that reconcile and refresh compare protect what was edited by    *)
(* hand before, for any number of commands at once.                           *)
THEOREM HandEditsSurvive == Spec => HandEditsKept
<1> DEFINE A == \A p \in Procs :
        pc[p] = "write" /\ pc'[p] = "index" /\ Op(p) \in {"reconcile", "refresh"}
        => files'[Task(p)].text = files[Task(p)].text \/ mem[p].late
<1>1. IInv /\ [Next]_vars => A
  <2> SUFFICES ASSUME IInv, [Next]_vars, NEW p \in Procs,
                      pc[p] = "write", pc'[p] = "index", Op(p) \in {"reconcile", "refresh"}
               PROVE  files'[Task(p)].text = files[Task(p)].text \/ mem[p].late
    OBVIOUS
  <2>1. Write(p)
    BY OnlyWrite
  <2>2. files'[Task(p)] = NewFile(p)
    BY <2>1, WriteFrom DEF IInv, TypeOK
  <2>3. NewFile(p).text = mem[p].doc.text
    BY DEF NewFile
  <2>4. files[Task(p)].text = mem[p].doc.text \/ mem[p].late
    BY DEF IInv, Sound, Untouched
  <2> QED
    BY <2>2, <2>3, <2>4
<1> QED
  BY <1>1, Invariance, PTL DEF Spec, HandEditsKept

-----------------------------------------------------------------------------
(* The life the trail tells.                                                  *)

(* What a command finds of a task and what it is about to make of it.         *)
From(p) == IF Op(p) \in Creates THEN "none" ELSE mem[p].doc.status
Ends(p) ==
    IF Op(p) \in Moves THEN cmd[p].to
    ELSE IF Op(p) = "archive" THEN "archived"
    ELSE IF Op(p) = "delete" THEN "deleted" ELSE mem[p].doc.status

(* What task_created says of a new task.                                      *)
First(p) == IF cmd[p].to \in Terminal THEN "planned" ELSE cmd[p].to

SaidAt(t, i, from, to) ==
    i \in DOMAIN trail[t] /\ trail[t][i].from = from /\ trail[t][i].to = to

(* The events of a command come after all whose changes were made, and tell   *)
(* in one step, or for a task created done or cancelled in two, how it gets   *)
(* from what it found to what it makes.                                       *)
Before(p) == \A i \in mem[p].events, j \in landed[Task(p)] : j < i

Silent(p) == Op(p) \in {"edit", "reconcile", "refresh"} /\ mem[p].events = {}

InOne(p) ==
    \E i \in mem[p].events :
        /\ mem[p].events = {i} /\ SaidAt(Task(p), i, From(p), Ends(p))
        /\ Becomes(From(p), Ends(p))

InTwo(p) ==
    \E i, k \in mem[p].events :
        /\ mem[p].events = {i, k} /\ i < k /\ Op(p) \in Creates /\ Ends(p) \in Terminal
        /\ SaidAt(Task(p), i, "none", "planned") /\ SaidAt(Task(p), k, "planned", Ends(p))

Announced(p) ==
    \E i \in mem[p].events :
        mem[p].events = {i} /\ SaidAt(Task(p), i, "none", First(p))

Telling(p) ==
    /\ pc[p] \in {"link", "second", "probe", "write", "move"} => Before(p)
    /\ pc[p] \in {"link", "second"} => Announced(p)
    /\ pc[p] = "second" => cmd[p].to \in Terminal
    /\ pc[p] = "probe" => mem[p].events = {}
    /\ pc[p] \in {"write", "move"} => Silent(p) \/ InOne(p) \/ InTwo(p)

TInv == IInv /\ TrailTells /\ \A p \in Procs : Telling(p)

-----------------------------------------------------------------------------
(* What a trail tells.                                                        *)
LatestIn(tr, seen) ==
    IF seen = {} THEN "none" ELSE tr[CHOOSE i \in seen : \A j \in seen : j <= i].to
Story(tr, seen) ==
    \A i \in seen : /\ tr[i].from = LatestIn(tr, {j \in seen : j < i})
                    /\ Becomes(tr[i].from, tr[i].to)

LEMMA SmallestExists ==
    ASSUME NEW S \in SUBSET Nat, S # {}
    PROVE  \E m \in S : \A x \in S : m <= x
<1>. DEFINE R == OpToRel(<, Nat)
<1>1. IsWellFoundedOn(R, Nat)
  BY NatLessThanWellFounded
<1>2. \A x, y \in Nat : <<x, y>> \in R <=> x < y
  BY DEF OpToRel
<1>. HIDE DEF R
<1>3. PICK m \in S : \A y \in S : ~(<<y, m>> \in R)
  BY <1>1, WFMin
<1>4. ASSUME NEW y \in S PROVE m <= y
  <2>1. <<y, m>> \in R <=> y < m
    BY <1>2
  <2>2. <<y, m>> \notin R
    BY <1>3
  <2>. QED BY <2>1, <2>2
<1>. QED BY <1>4

LEMMA LargestExists ==
    ASSUME NEW n \in Nat, NEW S \in SUBSET (1 .. n), S # {}
    PROVE  \E m \in S : \A x \in S : x <= m
<1>. DEFINE T == {n - x : x \in S}
<1>1. \A x \in S : n - x \in T /\ n - x \in Nat
  OBVIOUS
<1>2. \A y \in T : \E x \in S : y = n - x
  OBVIOUS
<1>. HIDE DEF T
<1>3. T \in SUBSET Nat /\ T # {}
  BY <1>1, <1>2
<1>4. PICK y \in T : \A x \in T : y <= x
  BY <1>3, SmallestExists
<1>5. PICK m \in S : y = n - m
  BY <1>2, <1>4
<1>6. ASSUME NEW x \in S PROVE x <= m
  <2>1. n - m <= n - x
    BY <1>1, <1>4, <1>5
  <2>. QED BY <2>1
<1>. QED BY <1>6

LEMMA LatestOf ==
    ASSUME NEW seen \in SUBSET Nat, NEW m \in seen, \A j \in seen : j <= m, NEW tr
    PROVE  LatestIn(tr, seen) = tr[m].to
<1>1. (CHOOSE i \in seen : \A j \in seen : j <= i) = m
  <2>1. \A i \in seen : (\A j \in seen : j <= i) => i = m
    OBVIOUS
  <2>. QED BY <2>1
<1>2. seen # {}
  OBVIOUS
<1>. QED BY <1>1, <1>2 DEF LatestIn

LEMMA LatestSame ==
    ASSUME NEW n \in Nat, NEW seen \in SUBSET (1 .. n), NEW tr, NEW ur,
           \A i \in 1 .. n : ur[i] = tr[i]
    PROVE  LatestIn(ur, seen) = LatestIn(tr, seen)
<1>1. CASE seen = {}
  BY <1>1 DEF LatestIn
<1>2. CASE seen # {}
  <2>1. PICK m \in seen : \A j \in seen : j <= m
    BY <1>2, LargestExists
  <2>2. LatestIn(ur, seen) = ur[m].to /\ LatestIn(tr, seen) = tr[m].to
    BY <2>1, LatestOf
  <2>3. ur[m] = tr[m]
    BY <2>1
  <2>. QED BY <2>2, <2>3
<1>. QED BY <1>1, <1>2

(* A story is told the same once the trail has grown,                         *)
LEMMA StorySame ==
    ASSUME NEW n \in Nat, NEW seen \in SUBSET (1 .. n), NEW tr, NEW ur,
           \A i \in 1 .. n : ur[i] = tr[i], Story(tr, seen)
    PROVE  Story(ur, seen)
<1>1. ASSUME NEW i \in seen
      PROVE  ur[i] = tr[i] /\ LatestIn(ur, {j \in seen : j < i}) = LatestIn(tr, {j \in seen : j < i})
  <2>1. {j \in seen : j < i} \in SUBSET (1 .. n)
    OBVIOUS
  <2>. QED BY <2>1, LatestSame
<1>. QED BY <1>1 DEF Story

(* and goes on with an event that begins where it has got to.                 *)
LEMMA StoryGoesOn ==
    ASSUME NEW seen \in SUBSET Nat, NEW tr, Story(tr, seen), NEW i \in Nat,
           \A j \in seen : j < i,
           tr[i].from = LatestIn(tr, seen), Becomes(tr[i].from, tr[i].to)
    PROVE  Story(tr, seen \cup {i}) /\ LatestIn(tr, seen \cup {i}) = tr[i].to
<1>. DEFINE more == seen \cup {i}
<1>1. more \in SUBSET Nat /\ i \in more /\ \A j \in more : j <= i
  OBVIOUS
<1>2. LatestIn(tr, more) = tr[i].to
  <2>. HIDE DEF more
  <2>. QED BY <1>1, LatestOf
<1>3. {j \in more : j < i} = seen
  <2>1. \A j \in seen : j \in more /\ j < i
    OBVIOUS
  <2>2. \A j \in more : j < i => j \in seen
    OBVIOUS
  <2>. HIDE DEF more
  <2>. QED BY <2>1, <2>2
<1>4. ASSUME NEW k \in seen PROVE {j \in more : j < k} = {j \in seen : j < k}
  BY <1>4
<1>5. ASSUME NEW k \in more
      PROVE  tr[k].from = LatestIn(tr, {j \in more : j < k}) /\ Becomes(tr[k].from, tr[k].to)
  <2>1. CASE k = i
    BY <1>3, <2>1
  <2>2. CASE k \in seen
    <3>1. /\ tr[k].from = LatestIn(tr, {j \in seen : j < k})
          /\ Becomes(tr[k].from, tr[k].to)
      BY <2>2 DEF Story
    <3>. QED BY <1>4, <2>2, <3>1
  <2>. QED BY <2>1, <2>2
<1>6. Story(tr, more)
  <2>. HIDE DEF more
  <2>. QED BY <1>5 DEF Story
<1>. QED BY <1>2, <1>6

(* What a trail tells of a file.                                              *)
Life(file) ==
    IF file.place = "live" THEN {file.status}
    ELSE IF file.place = "archive" THEN {"archived"} ELSE {"none", "deleted"}
Tells(t) == Story(trail[t], landed[t]) /\ LatestIn(trail[t], landed[t]) \in Life(files[t])

LEMMA TellsEach ==
    ASSUME TypeOK
    PROVE  TrailTells <=> \A t \in Tasks : Tells(t)
<1>1. ASSUME NEW t \in Tasks PROVE FileLife(t) = Life(files[t])
  <2>1. files[t].place \in {"none", "live", "archive"}
    BY DEF TypeOK, File
  <2>. QED BY <2>1 DEF FileLife, Life
<1>2. \A t, seen : Latest(t, seen) = LatestIn(trail[t], seen)
  BY DEF Latest, LatestIn
<1>. QED BY <1>1, <1>2 DEF TrailTells, Tells, Story

LEMMA TellsEachNext ==
    ASSUME TypeOK'
    PROVE  (\A t \in Tasks : Tells(t)') => TrailTells'
<1>1. ASSUME NEW t \in Tasks PROVE FileLife(t)' = Life(files'[t])
  <2>1. files'[t].place \in {"none", "live", "archive"}
    BY DEF TypeOK, File
  <2>. QED BY <2>1 DEF FileLife, Life
<1>2. \A t, seen : (Latest(t, seen))' = LatestIn(trail'[t], seen)
  BY DEF Latest, LatestIn
<1>. QED BY <1>1, <1>2 DEF TrailTells, Tells, Story

-----------------------------------------------------------------------------
(* What is recorded.                                                          *)
LEMMA AppendedAt ==
    ASSUME NEW s \in Seq(Event), NEW es \in Seq(Event), NEW l, l = s \o es
    PROVE  /\ Len(s) \in Nat /\ Len(es) \in Nat
           /\ DOMAIN s = 1 .. Len(s)
           /\ DOMAIN l = 1 .. Len(s) + Len(es)
           /\ \A k \in 1 .. Len(es) : l[Len(s) + k] = es[k]
<1>1. Len(s) \in Nat /\ Len(es) \in Nat
  OBVIOUS
<1>2. DOMAIN s = 1 .. Len(s) /\ DOMAIN l = 1 .. Len(s) + Len(es)
  OBVIOUS
<1>3. \A k \in 1 .. Len(es) : l[Len(s) + k] = es[k]
  OBVIOUS
<1>. QED BY <1>1, <1>2, <1>3

LEMMA RecordedSays ==
    ASSUME TypeOK, Labels, NEW p \in Procs, pc[p] \notin Over \cup {"idle"}, NEW s \in Nat,
           NEW es, es = Recorded(p, s), NEW to, to = cmd[p].to
    PROVE  /\ Op(p) = "create" /\ to \notin Terminal =>
                Len(es) = 1 /\ es[1].from = "none" /\ es[1].to = First(p)
           /\ Op(p) = "create" /\ to \in Terminal =>
                /\ Len(es) = 2 /\ es[1].from = "none" /\ es[1].to = "planned"
                /\ es[2].from = "planned" /\ es[2].to = to
           /\ Op(p) = "attach" => Len(es) = 1 /\ es[1].from = "none" /\ es[1].to = First(p)
           /\ Op(p) \in {"status", "delete", "archive"} =>
                Len(es) = 1 /\ es[1].from = From(p) /\ es[1].to = Ends(p)
           /\ Op(p) \in {"edit", "reconcile", "refresh"} => Len(es) = 0
<1>1. CreatedEvent(p, s) = To("none", First(p), s)
  BY DEF CreatedEvent, First
<1>2. \A e, d \in Event :
        /\ Len(<<e>> \o <<>>) = 1 /\ (<<e>> \o <<>>)[1] = e
        /\ Len(<<e>>) = 1 /\ <<e>>[1] = e
        /\ Len(<<e>> \o <<d>>) = 2 /\ (<<e>> \o <<d>>)[1] = e /\ (<<e>> \o <<d>>)[2] = d
  OBVIOUS
<1>3. to \in Statuses /\ mem[p].doc.status \in Statuses
  BY CommandIn, Fields DEF File, TypeOK
<1>4. \A from \in Lives, on \in Lives :
        To(from, on, s) \in Event /\ To(from, on, s).from = from /\ To(from, on, s).to = on
  BY DEF To, Event
<1>5. /\ First(p) \in Lives /\ to \in Lives /\ mem[p].doc.status \in Lives
      /\ "none" \in Lives /\ "planned" \in Lives /\ "deleted" \in Lives /\ "archived" \in Lives
      /\ to \in Terminal => First(p) = "planned"
  BY <1>3 DEF First, Lives, Statuses
<1>6. CASE Op(p) = "create"
  <2>1. es = <<CreatedEvent(p, s)>>
             \o (IF to \in Terminal THEN <<To("planned", to, s)>> ELSE <<>>)
    BY <1>6 DEF Recorded
  <2>. QED BY <1>1, <1>2, <1>4, <1>5, <1>6, <2>1
<1>7. CASE Op(p) = "attach"
  <2>1. es = <<CreatedEvent(p, s)>>
    BY <1>7 DEF Recorded
  <2>. QED BY <1>1, <1>2, <1>4, <1>5, <1>7, <2>1
<1>8. CASE Op(p) \in {"status", "delete", "archive"}
  <2>1. From(p) = mem[p].doc.status /\ From(p) \in Lives /\ Ends(p) \in Lives
    BY <1>5, <1>8 DEF From, Ends, Creates, Moves
  <2>2. es = <<To(From(p), Ends(p), s)>>
    BY <1>8, <2>1 DEF Recorded, Ends, Creates, Moves
  <2>. QED BY <1>2, <1>4, <1>8, <2>1, <2>2
<1>9. CASE Op(p) \in {"edit", "reconcile", "refresh"}
  BY <1>9 DEF Recorded
<1>. QED BY <1>6, <1>7, <1>8, <1>9

(* Where the events of a command come to stand.                               *)
OneMore(s, l, e) ==
    \E i \in Nat : /\ DOMAIN l \ DOMAIN s = {i} /\ \A j \in DOMAIN s : j < i
                  /\ i \in DOMAIN l /\ l[i] = e
Two(s, l, e, d, i, k) ==
    /\ DOMAIN l \ DOMAIN s = {i, k} /\ i < k /\ \A j \in DOMAIN s : j < i
    /\ i \in DOMAIN l /\ k \in DOMAIN l /\ l[i] = e /\ l[k] = d
TwoMore(s, l, e, d) == \E i \in Nat : \E k \in Nat : Two(s, l, e, d, i, k)

LEMMA OneAdded ==
    ASSUME NEW s \in Seq(Event), NEW es \in Seq(Event), Len(es) = 1, NEW l, l = s \o es
    PROVE  OneMore(s, l, es[1])
<1>. DEFINE n == Len(s)
            m == Len(es)
<1>a. /\ n \in Nat /\ m \in Nat /\ DOMAIN s = 1 .. n /\ DOMAIN l = 1 .. n + m
      /\ \A k \in 1 .. m : l[n + k] = es[k]
  BY AppendedAt
<1>b. m = 1
  OBVIOUS
<1>. HIDE DEF n, m
<1>1. n \in Nat /\ DOMAIN s = 1 .. n /\ DOMAIN l = 1 .. n + 1
  BY <1>a, <1>b
<1>2. l[n + 1] = es[1]
  BY <1>a, <1>b
<1>3. (1 .. n + 1) \ (1 .. n) = {n + 1}
  BY <1>1
<1>4. n + 1 \in Nat /\ n + 1 \in 1 .. n + 1 /\ \A j \in 1 .. n : j < n + 1
  BY <1>1
<1>. QED BY <1>1, <1>2, <1>3, <1>4 DEF OneMore

LEMMA TwoAdded ==
    ASSUME NEW s \in Seq(Event), NEW es \in Seq(Event), Len(es) = 2, NEW l, l = s \o es
    PROVE  TwoMore(s, l, es[1], es[2])
<1>. DEFINE n == Len(s)
            m == Len(es)
<1>a. /\ n \in Nat /\ m \in Nat /\ DOMAIN s = 1 .. n /\ DOMAIN l = 1 .. n + m
      /\ \A k \in 1 .. m : l[n + k] = es[k]
  BY AppendedAt
<1>b. m = 2
  OBVIOUS
<1>. HIDE DEF n, m
<1>1. n \in Nat /\ DOMAIN s = 1 .. n /\ DOMAIN l = 1 .. n + 2
  BY <1>a, <1>b
<1>2. l[n + 1] = es[1] /\ l[n + 2] = es[2]
  BY <1>a, <1>b
<1>3. (1 .. n + 2) \ (1 .. n) = {n + 1, n + 2}
  BY <1>1
<1>4. /\ n + 1 \in Nat /\ n + 2 \in Nat /\ n + 1 < n + 2
      /\ n + 1 \in 1 .. n + 2 /\ n + 2 \in 1 .. n + 2 /\ \A j \in 1 .. n : j < n + 1
  BY <1>1
<1>. QED BY <1>1, <1>2, <1>3, <1>4 DEF TwoMore, Two

LEMMA RecordingTells ==
    ASSUME IInv, NEW p \in Procs, NEW s \in Nat,
           pc[p] = "record" \/ (pc[p] = "lock" /\ Op(p) = "attach"),
           trail' = [trail EXCEPT ![Task(p)] = @ \o Recorded(p, s)],
           Remember(p, s), Goto(p, AfterRecord(p)), UNCHANGED <<files, landed, cmd>>
    PROVE  Telling(p)'
<1>. DEFINE t == Task(p)
            events == DOMAIN trail'[t] \ DOMAIN trail[t]
<1>1. /\ trail \in [Tasks -> Seq(Event)] /\ mem \in [Procs -> Mem] /\ pc \in [Procs -> PCs]
      /\ Labels /\ Traced /\ Sound(p)
  BY DEF IInv, TypeOK
<1>2. pc[p] \notin Over \cup {"idle"}
  BY DEF Over
<1>3. t \in Tasks /\ Op(p) \in Operations /\ cmd[p].to \in Statuses /\ Recorded(p, s) \in Seq(Event)
  BY <1>2, CommandIn, RecordedIn DEF IInv
<1>4. mem[p] \in Mem /\ mem[p].doc.status \in Statuses
  BY <1>1, Fields DEF File
<1>5. mem'[p].doc = mem[p].doc /\ mem'[p].events = events
  BY <1>1, <1>4 DEF Remember, Mem
<1>6. /\ pc'[p] = AfterRecord(p) /\ cmd'[p] = cmd[p] /\ Task(p)' = t /\ Op(p)' = Op(p)
      /\ From(p)' = From(p) /\ Ends(p)' = Ends(p) /\ First(p)' = First(p)
  BY <1>1, <1>5 DEF Goto, Op, Task, From, Ends, First
<1>7. landed'[t] \subseteq DOMAIN trail[t]
  BY <1>1, <1>3 DEF Traced
<1>8. PICK es : es = Recorded(p, s) /\ es \in Seq(Event) /\ trail' = [trail EXCEPT ![t] = @ \o es]
  BY <1>3
<1>9. Op(p) # "list"
  BY <1>1 DEF Labels
<1>10. /\ Op(p) \in {"create", "attach"} <=> Op(p) \in Creates
       /\ First(p) \in {"planned", "in_progress"}
  BY <1>3 DEF Creates, First, Terminal, Statuses
<1>11. ASSUME NEW i \in Nat, events = {i}, \A j \in DOMAIN trail[t] : j < i PROVE Before(p)'
  BY <1>5, <1>6, <1>7, <1>11 DEF Before
<1>12. ASSUME NEW i \in Nat, events = {i}, i \in DOMAIN trail'[t],
              trail'[t][i].from = From(p), trail'[t][i].to = Ends(p), Becomes(From(p), Ends(p))
       PROVE  InOne(p)'
  BY <1>5, <1>6, <1>12 DEF InOne, SaidAt, Becomes
<1>h. trail'[t] = trail[t] \o es /\ trail[t] \in Seq(Event) /\ es \in Seq(Event)
  BY <1>1, <1>3, <1>8
<1>e. ASSUME Len(es) = 1
      PROVE  \E i \in Nat : /\ events = {i} /\ \A j \in DOMAIN trail[t] : j < i
                            /\ i \in DOMAIN trail'[t] /\ trail'[t][i] = es[1]
  <2>1. OneMore(trail[t], trail'[t], es[1])
    BY <1>h, <1>e, OneAdded
  <2>. QED BY <2>1 DEF OneMore
<1>f. ASSUME Len(es) = 2 PROVE TwoMore(trail[t], trail'[t], es[1], es[2])
  BY <1>h, <1>f, TwoAdded
<1>g. TypeOK
  BY DEF IInv
<1>. HIDE DEF t, events
<1>13. CASE Op(p) = "create" /\ cmd[p].to \notin Terminal
  <2>1. Len(es) = 1 /\ es[1].from = "none" /\ es[1].to = First(p)
    BY <1>1, <1>2, <1>8, <1>13, <1>g, RecordedSays
  <2>2. PICK i \in Nat : /\ events = {i} /\ \A j \in DOMAIN trail[t] : j < i
                         /\ i \in DOMAIN trail'[t] /\ trail'[t][i] = es[1]
    BY <1>e, <2>1
  <2>3. From(p) = "none" /\ Ends(p) = First(p) /\ pc'[p] = "write"
    BY <1>6, <1>13 DEF From, Ends, First, Creates, Moves, AfterRecord
  <2>4. Becomes(From(p), Ends(p))
    BY <1>10, <2>3 DEF Becomes
  <2>. QED BY <1>11, <1>12, <2>1, <2>2, <2>3, <2>4 DEF Telling
<1>14. CASE Op(p) = "create" /\ cmd[p].to \in Terminal
  <2>1. /\ Len(es) = 2 /\ es[1].from = "none" /\ es[1].to = "planned"
        /\ es[2].from = "planned" /\ es[2].to = cmd[p].to
    BY <1>1, <1>2, <1>8, <1>14, <1>g, RecordedSays
  <2>a. TwoMore(trail[t], trail'[t], es[1], es[2])
    BY <1>f, <2>1
  <2>b. PICK i \in Nat : \E k \in Nat : Two(trail[t], trail'[t], es[1], es[2], i, k)
    BY <2>a DEF TwoMore
  <2>c. PICK k \in Nat : Two(trail[t], trail'[t], es[1], es[2], i, k)
    BY <2>b
  <2>2. /\ DOMAIN trail'[t] \ DOMAIN trail[t] = {i, k}
        /\ i < k /\ \A j \in DOMAIN trail[t] : j < i
        /\ i \in DOMAIN trail'[t] /\ k \in DOMAIN trail'[t]
        /\ trail'[t][i] = es[1] /\ trail'[t][k] = es[2]
    BY <2>c DEF Two
  <2>e. events = {i, k}
    BY <2>2 DEF events
  <2>3. Ends(p) = cmd[p].to /\ pc'[p] = "write" /\ Op(p) \in Creates
    BY <1>6, <1>14 DEF Ends, Creates, Moves, AfterRecord
  <2>4. InTwo(p)'
    BY <1>5, <1>6, <1>14, <2>1, <2>2, <2>3, <2>e DEF InTwo, SaidAt
  <2>5. Before(p)'
    <3>1. \A j \in DOMAIN trail[t] : j \in Nat
      BY <1>1, <1>3
    <3>. QED BY <1>5, <1>6, <1>7, <2>2, <2>e, <3>1 DEF Before
  <2>. QED BY <2>3, <2>4, <2>5 DEF Telling
<1>15. CASE Op(p) = "attach"
  <2>1. Len(es) = 1 /\ es[1].from = "none" /\ es[1].to = First(p)
    BY <1>1, <1>2, <1>8, <1>15, <1>g, RecordedSays
  <2>2. PICK i \in Nat : /\ events = {i} /\ \A j \in DOMAIN trail[t] : j < i
                         /\ i \in DOMAIN trail'[t] /\ trail'[t][i] = es[1]
    BY <1>e, <2>1
  <2>3. pc'[p] = "link"
    BY <1>6, <1>15 DEF AfterRecord
  <2>4. Announced(p)'
    BY <1>5, <1>6, <2>1, <2>2 DEF Announced, SaidAt
  <2>. QED BY <1>11, <2>2, <2>3, <2>4 DEF Telling
<1>16. CASE Op(p) \in {"status", "delete", "archive"}
  <2>1. Len(es) = 1 /\ es[1].from = From(p) /\ es[1].to = Ends(p)
    BY <1>1, <1>2, <1>8, <1>16, <1>g, RecordedSays
  <2>2. From(p) \in Statuses
    BY <1>4, <1>16 DEF From, Creates
  <2>3. PICK i \in Nat : /\ events = {i} /\ \A j \in DOMAIN trail[t] : j < i
                         /\ i \in DOMAIN trail'[t] /\ trail'[t][i] = es[1]
    BY <1>e, <2>1
  <2>4. Becomes(From(p), Ends(p))
    <3>1. CASE Op(p) = "status"
      <4>1. pc[p] = "record" /\ Op(p) \in Changes
        BY <3>1 DEF Changes, Operations, Creates
      <4>2. <<mem[p].doc.status, cmd[p].to>> \in AllowedTransitions
        BY <1>1, <3>1, <4>1 DEF Sound, Standing
      <4>3. From(p) = mem[p].doc.status /\ Ends(p) = cmd[p].to
        BY <3>1 DEF From, Ends, Creates, Moves
      <4>. QED BY <4>2, <4>3 DEF Becomes
    <3>2. CASE Op(p) \in {"delete", "archive"}
      <4>1. Ends(p) \in {"archived", "deleted"}
        BY <3>2 DEF Ends, Moves, Creates
      <4>. QED BY <2>2, <4>1 DEF Becomes
    <3>. QED BY <1>16, <3>1, <3>2
  <2>5. pc'[p] \in {"write", "move"}
    BY <1>6, <1>16 DEF AfterRecord
  <2>. QED BY <1>11, <1>12, <2>1, <2>3, <2>4, <2>5 DEF Telling
<1>17. CASE Op(p) \in {"edit", "reconcile", "refresh"}
  <2>1. Len(es) = 0
    BY <1>1, <1>2, <1>8, <1>17, <1>g, RecordedSays
  <2>2. events = {}
    <3>1. trail[t] \in Seq(Event) /\ trail'[t] = trail[t] \o es
      BY <1>1, <1>3, <1>8 DEF t
    <3>2. Len(trail'[t]) = Len(trail[t])
      BY <1>8, <2>1, <3>1
    <3>3. trail'[t] \in Seq(Event)
      BY <1>8, <3>1
    <3>. QED BY <3>1, <3>2, <3>3 DEF events
  <2>4. pc'[p] \in {"probe", "write"}
    BY <1>6, <1>17 DEF AfterRecord
  <2>. QED BY <1>5, <1>6, <1>17, <2>2, <2>4 DEF Telling, Before, Silent
<1>. QED BY <1>3, <1>9, <1>13, <1>14, <1>15, <1>16, <1>17 DEF Operations

-----------------------------------------------------------------------------
(* The change is made.                                                        *)
LEMMA LandingTells ==
    ASSUME IInv, NEW p \in Procs, pc[p] \in {"write", "move"}, Telling(p), Tells(Task(p)),
           UNCHANGED trail, landed'[Task(p)] = landed[Task(p)] \cup mem[p].events
    PROVE  /\ Story(trail'[Task(p)], landed'[Task(p)])
           /\ LatestIn(trail'[Task(p)], landed'[Task(p)]) = Ends(p)
<1>. DEFINE t == Task(p)
            tr == trail[t]
            seen == landed[t]
            new == mem[p].events
<1>1. pc[p] \notin Over \cup {"idle"} /\ Labels /\ Sound(p) /\ TypeOK
  BY DEF Over, IInv
<1>2. t \in Tasks /\ Op(p) \in Operations \ {"list"}
  BY <1>1, CommandIn DEF Labels
<1>3. seen \in SUBSET Nat /\ new \in SUBSET Nat
  BY <1>1, <1>2, Fields DEF TypeOK
<1>4. Story(tr, seen) /\ LatestIn(tr, seen) = From(p)
  <2>1. CASE Op(p) \in Creates
    <3>1. pc[p] = "write"
      BY <1>1, <2>1 DEF Labels, Creates
    <3>2. seen = {}
      BY <1>1, <2>1, <3>1 DEF Sound, Fresh
    <3>. QED BY <2>1, <3>2 DEF From, LatestIn, Story
  <2>2. CASE Op(p) \in Changes
    <3>1. files[t].place = "live" /\ files[t].status = mem[p].doc.status
      BY <1>1, <2>2 DEF Sound, Standing
    <3>2. Op(p) \notin Creates
      BY <2>2 DEF Changes
    <3>. QED BY <3>1, <3>2 DEF Tells, Life, From
  <2>. QED BY <1>2, <2>1, <2>2 DEF Changes
<1>5. /\ \A i \in new, j \in seen : j < i
      /\ Silent(p) \/ InOne(p) \/ InTwo(p)
  BY DEF Telling, Before
<1>6. landed'[t] = seen \cup new /\ trail'[t] = tr
  OBVIOUS
<1>. DEFINE Goal == Story(tr, seen \cup new) /\ LatestIn(tr, seen \cup new) = Ends(p)
<1>. SUFFICES Goal
  BY <1>6
<1>. HIDE DEF tr, seen, new
<1>7. CASE Silent(p)
  <2>1. new = {} /\ Op(p) \in {"edit", "reconcile", "refresh"}
    BY <1>7 DEF Silent, new
  <2>2. From(p) = Ends(p)
    BY <2>1 DEF From, Ends, Creates, Moves
  <2>3. seen \cup new = seen
    BY <2>1
  <2>. QED BY <1>4, <2>2, <2>3
<1>8. CASE InOne(p)
  <2>1. PICK i \in new : /\ new = {i} /\ tr[i].from = From(p) /\ tr[i].to = Ends(p)
                         /\ Becomes(From(p), Ends(p))
    BY <1>8 DEF InOne, SaidAt, new, tr
  <2>2. Story(tr, seen \cup {i}) /\ LatestIn(tr, seen \cup {i}) = tr[i].to
    BY <1>3, <1>4, <1>5, <2>1, StoryGoesOn
  <2>. QED BY <2>1, <2>2
<1>9. CASE InTwo(p)
  <2>1. PICK i \in new, k \in new :
          /\ new = {i, k} /\ i < k /\ Op(p) \in Creates /\ Ends(p) \in Terminal
          /\ tr[i].from = "none" /\ tr[i].to = "planned"
          /\ tr[k].from = "planned" /\ tr[k].to = Ends(p)
    BY <1>9 DEF InTwo, SaidAt, new, tr
  <2>2. From(p) = "none"
    BY <2>1 DEF From
  <2>3. Becomes("none", "planned") /\ Becomes("planned", Ends(p))
    BY <2>1 DEF Becomes, Terminal, AllowedTransitions
  <2>4. Story(tr, seen \cup {i}) /\ LatestIn(tr, seen \cup {i}) = tr[i].to
    BY <1>3, <1>4, <1>5, <2>1, <2>2, <2>3, StoryGoesOn
  <2>. DEFINE more == seen \cup {i}
  <2>5. /\ more \in SUBSET Nat /\ Story(tr, more) /\ k \in Nat /\ \A j \in more : j < k
        /\ tr[k].from = LatestIn(tr, more)
    BY <1>3, <1>5, <2>1, <2>4
  <2>6. more \cup {k} = seen \cup new
    BY <2>1
  <2>. HIDE DEF more
  <2>7. Story(tr, more \cup {k}) /\ LatestIn(tr, more \cup {k}) = tr[k].to
    BY <2>1, <2>3, <2>5, StoryGoesOn
  <2>. QED BY <2>1, <2>6, <2>7
<1>. QED BY <1>5, <1>7, <1>8, <1>9

(* Events that are added change nothing of what the others tell.              *)
LEMMA TellsKept ==
    ASSUME IInv, Grows, NEW t \in Tasks, Tells(t),
           landed'[t] = landed[t], Life(files'[t]) = Life(files[t])
    PROVE  Tells(t)'
<1>1. trail[t] \in Seq(Event) /\ landed[t] \subseteq DOMAIN trail[t]
  BY DEF IInv, TypeOK, Traced
<1>. DEFINE n == Len(trail[t])
            tr == trail[t]
            ur == trail'[t]
            seen == landed[t]
<1>2. n \in Nat /\ DOMAIN tr = 1 .. n
  BY <1>1
<1>3. seen \in SUBSET (1 .. n)
  BY <1>1, <1>2
<1>4. \A i \in 1 .. n : ur[i] = tr[i]
  BY <1>2 DEF Grows
<1>5. Story(tr, seen) /\ LatestIn(tr, seen) \in Life(files[t])
  BY DEF Tells
<1>. HIDE DEF n, tr, ur, seen
<1>6. Story(ur, seen)
  BY <1>2, <1>3, <1>4, <1>5, StorySame
<1>7. LatestIn(ur, seen) = LatestIn(tr, seen)
  BY <1>2, <1>3, <1>4, LatestSame
<1>. QED BY <1>5, <1>6, <1>7 DEF Tells, tr, ur, seen

LEMMA TellingKept ==
    ASSUME IInv, Grows, NEW q \in Procs, Telling(q), pc'[q] = pc[q], cmd'[q] = cmd[q],
           mem'[q].doc = mem[q].doc, mem'[q].events = mem[q].events,
           pc[q] \in {"link", "second", "probe", "write", "move"} =>
              landed'[Task(q)] = landed[Task(q)]
    PROVE  Telling(q)'
<1>1. /\ Op(q)' = Op(q) /\ Task(q)' = Task(q) /\ From(q)' = From(q) /\ Ends(q)' = Ends(q)
      /\ First(q)' = First(q) /\ (Silent(q) => Silent(q)')
  BY DEF Op, Task, From, Ends, First, Silent
<1>2. CASE pc[q] \in {"link", "second", "probe", "write", "move"}
  <2>1. Task(q) \in Tasks
    BY <1>2, CommandIn DEF IInv, Over
  <2>2. \A i \in DOMAIN trail[Task(q)] :
          i \in DOMAIN trail'[Task(q)] /\ trail'[Task(q)][i] = trail[Task(q)][i]
    BY <2>1 DEF Grows
  <2>3. Before(q)'
    BY <1>1, <1>2 DEF Telling, Before
  <2>4. Announced(q) => Announced(q)'
    BY <1>1, <2>2 DEF Announced, SaidAt
  <2>5. InOne(q) => InOne(q)'
    BY <1>1, <2>2 DEF InOne, SaidAt, Becomes
  <2>6. InTwo(q) => InTwo(q)'
    BY <1>1, <2>2 DEF InTwo, SaidAt
  <2>. QED BY <1>1, <2>3, <2>4, <2>5, <2>6 DEF Telling
<1>3. CASE pc[q] \notin {"link", "second", "probe", "write", "move"}
  BY <1>3 DEF Telling
<1>. QED BY <1>2, <1>3

-----------------------------------------------------------------------------
(* What a command goes on to tell.                                            *)
Tellers == {"link", "second", "probe", "write", "move"}

LEMMA NothingToTell ==
    ASSUME NEW p \in Procs, pc'[p] \notin Tellers
    PROVE  Telling(p)'
BY DEF Telling, Tellers

(* Only these steps lead to where something is told.                          *)
LEMMA Leads ==
    ASSUME IInv, NEW p \in Procs, Start(p) \/ Step(p) \/ Fails(p)
    PROVE  \/ pc'[p] \notin Tellers
           \/ Read(p) \/ Record(p) \/ RecordAttached(p) \/ Attach(p) \/ Link(p) \/ Second(p)
           \/ Probe(p) \/ Write(p)
<1>1. pc \in [Procs -> PCs]
  BY DEF IInv, TypeOK
<1>2. \A label : Goto(p, label) => pc'[p] = label
  BY <1>1 DEF Goto
<1>3. \A label : End(p, label) => pc'[p] = label
  BY <1>2 DEF End
<1>4. CASE Start(p)
  BY <1>2, <1>4 DEF Start, Begin, Tellers
<1>5. CASE Lock(p) \/ Release(p)
  BY <1>2, <1>3, <1>5 DEF Lock, Release, Tellers
<1>6. CASE Look(p) \/ Move(p) \/ ReadIndex(p) \/ SaveIndex(p)
  BY <1>2, <1>6 DEF Look, Move, ReadIndex, SaveIndex, Tellers
<1>7. CASE List(p)
  BY <1>2, <1>3, <1>7 DEF List, Replay, ReadIds, ReadDirectory, AfterListing, Scan, Rebuild,
                          ListArchive, Answer, Tellers
<1>8. CASE Fails(p)
  BY <1>2, <1>3, <1>8 DEF Fails, RecordFails, WriteFails, SaveFails, DirectoryFails, Crash,
                          AfterListing, Tellers
<1>. QED BY <1>4, <1>5, <1>6, <1>7, <1>8 DEF Step, Change

LEMMA TellingOwn ==
    ASSUME IInv, NEW p \in Procs, Telling(p), Start(p) \/ Step(p) \/ Fails(p)
    PROVE  Telling(p)'
<1>1. /\ pc \in [Procs -> PCs] /\ mem \in [Procs -> Mem] /\ Labels /\ Sound(p)
      /\ trail \in [Tasks -> Seq(Event)] /\ minted \in Nat /\ TypeOK
  BY DEF IInv, TypeOK
<1>2. \A label : Goto(p, label) => pc'[p] = label
  BY <1>1 DEF Goto
<1>3. CASE pc'[p] \notin Tellers
  BY <1>3, NothingToTell
<1>4. CASE Read(p) /\ pc'[p] \in Tellers
  <2>1. pc[p] = "read" /\ cmd' = cmd /\ landed' = landed
    BY <1>4 DEF Read, store
  <2>2. mem'[p].events = mem[p].events /\ mem[p].events = {}
    BY <1>1, <1>4, <2>1 DEF Read, Sound, Pending, Mem, Tellers, Goto
  <2>3. pc'[p] = "write" /\ Op(p) = "edit"
    <3>1. pc[p] \notin Over \cup {"idle"}
      BY <2>1 DEF Over
    <3>2. pc'[p] = AfterRead(p)
      BY <1>2, <1>4 DEF Read, Tellers
    <3>3. AfterRead(p) \in {"record", "throw", "write", "look"}
      BY <3>1, <1>1, Branches DEF AfterRead
    <3>. QED BY <1>1, <1>4, <3>1, <3>2, <3>3, Branches DEF Tellers
  <2>4. Silent(p)' /\ Before(p)'
    BY <2>1, <2>2, <2>3 DEF Silent, Before, Op
  <2>. QED BY <2>3, <2>4 DEF Telling
<1>5. CASE Record(p)
  <2>1. /\ pc[p] = "record" /\ trail' = [trail EXCEPT ![Task(p)] = @ \o Recorded(p, minted')]
        /\ Remember(p, minted') /\ Goto(p, AfterRecord(p)) /\ UNCHANGED <<files, landed, cmd>>
        /\ minted' = minted + 1
    BY <1>5 DEF Record, Mint
  <2>2. minted' \in Nat
    BY <1>1, <2>1
  <2>. QED BY <2>1, <2>2, RecordingTells
<1>6. CASE RecordAttached(p) /\ pc'[p] \in Tellers
  <2>1. PICK s \in RunningSessions :
          /\ trail' = [trail EXCEPT ![Task(p)] = @ \o Recorded(p, s)] /\ Remember(p, s)
          /\ Goto(p, AfterRecord(p))
    BY <1>2, <1>6 DEF RecordAttached, Tellers
  <2>2. s \in Nat
    BY DEF RunningSessions
  <2>3. pc[p] = "record" /\ UNCHANGED <<files, landed, cmd>>
    BY <1>6 DEF RecordAttached
  <2>. QED BY <2>1, <2>2, <2>3, RecordingTells
<1>7. CASE Attach(p) /\ pc'[p] \in Tellers
  <2>1. ~End(p, "failed")
    BY <1>2, <1>7 DEF End, Tellers
  <2>2. /\ trail' = [trail EXCEPT ![Task(p)] = @ \o Recorded(p, Unlinked)]
        /\ Remember(p, Unlinked) /\ Goto(p, AfterRecord(p)) /\ Unlinked \in Nat
        /\ pc[p] = "lock" /\ Op(p) = "attach" /\ UNCHANGED <<files, landed, cmd>>
    BY <1>7, <2>1 DEF Attach, Unlinked
  <2>. QED BY <2>2, RecordingTells
<1>8. CASE Link(p) /\ pc'[p] \in Tellers
  <2>1. /\ pc[p] = "link" /\ UNCHANGED <<trail, landed, cmd, mem>>
        /\ pc'[p] \in {"second", "write"}
        /\ pc'[p] = "second" <=> cmd[p].to \in Terminal
    BY <1>2, <1>8 DEF Link, Tellers
  <2>2. Before(p) /\ Announced(p)
    BY <2>1 DEF Telling
  <2>3. Before(p)' /\ Announced(p)'
    BY <2>1, <2>2 DEF Before, Announced, SaidAt, First, Task
  <2>4. CASE pc'[p] = "second"
    BY <2>1, <2>3, <2>4 DEF Telling
  <2>5. CASE pc'[p] = "write"
    <3>1. Op(p) = "attach" /\ cmd[p].to \in Statuses
      <4>1. pc[p] \notin Over \cup {"idle"}
        BY <2>1 DEF Over
      <4>. QED BY <1>1, <2>1, <4>1, CommandIn DEF Labels, Operations, Changes, Creates, Inside
    <3>2. /\ First(p) = Ends(p) /\ From(p) = "none" /\ Becomes("none", First(p))
      BY <2>1, <2>5, <3>1 DEF First, Ends, From, Creates, Moves, Becomes, Terminal, Statuses
    <3>3. InOne(p)
      BY <2>2, <3>2 DEF Announced, InOne
    <3>4. InOne(p)'
      BY <2>1, <3>3 DEF InOne, SaidAt, From, Ends, Op, Task, Becomes
    <3>. QED BY <2>3, <2>5, <3>4 DEF Telling
  <2>. QED BY <2>1, <2>4, <2>5
<1>9. CASE Second(p) /\ pc'[p] \in Tellers
  <2>. DEFINE t == Task(p)
              e == To("planned", cmd[p].to, Unlinked)
              k == Len(trail'[t])
  <2>1. /\ pc[p] = "second" /\ trail' = [trail EXCEPT ![t] = Append(@, e)]
        /\ mem' = [mem EXCEPT ![p].events = @ \cup {k}]
        /\ pc'[p] = "write" /\ UNCHANGED <<landed, cmd>>
    BY <1>2, <1>9 DEF Second, Tellers
  <2>2. pc[p] \notin Over \cup {"idle"}
    BY <2>1 DEF Over
  <2>3. t \in Tasks /\ Op(p) = "attach" /\ cmd[p].to \in Statuses
    BY <1>1, <2>1, <2>2, CommandIn DEF Labels, Operations, Changes, Creates, Inside
  <2>4. e \in Event /\ e.from = "planned" /\ e.to = cmd[p].to
    BY <2>3 DEF To, Event, Lives, Unlinked, Statuses
  <2>5. trail[t] \in Seq(Event) /\ trail'[t] = Append(trail[t], e)
    BY <1>1, <2>1, <2>3
  <2>6. mem'[p].events = mem[p].events \cup {k}
    BY <1>1, <2>1 DEF Mem
  <2>7. Before(p) /\ Announced(p) /\ cmd[p].to \in Terminal
    BY <2>1 DEF Telling
  <2>8. /\ Op(p)' = Op(p) /\ Task(p)' = t /\ Ends(p)' = cmd[p].to /\ First(p) = "planned"
        /\ Op(p) \in Creates
    BY <2>1, <2>3, <2>7 DEF Op, Task, Ends, Moves, Creates, First
  <2>. HIDE DEF t, e
  <2>9. /\ DOMAIN trail[t] \subseteq DOMAIN trail'[t]
        /\ \A i \in DOMAIN trail[t] : trail'[t][i] = trail[t][i]
        /\ k \in DOMAIN trail'[t] /\ trail'[t][k] = e
    BY <2>4, <2>5, Appended
  <2>10. k \in Nat /\ \A i \in DOMAIN trail[t] : i \in Nat /\ i < k
    <3>1. k = Len(trail[t]) + 1 /\ Len(trail[t]) \in Nat
      BY <2>4, <2>5
    <3>2. DOMAIN trail[t] = 1 .. Len(trail[t])
      BY <2>5
    <3>. HIDE DEF k
    <3>. QED BY <3>1, <3>2
  <2>. HIDE DEF k
  <2>11. PICK i \in mem[p].events : /\ mem[p].events = {i} /\ i \in DOMAIN trail[t]
                                    /\ trail[t][i].from = "none" /\ trail[t][i].to = "planned"
    BY <2>7, <2>8 DEF Announced, SaidAt, t
  <2>12. InTwo(p)'
    <3>1. PICK n \in Nat : n = k
      BY <2>10
    <3>2. mem'[p].events = {i, n} /\ i < n
      BY <2>6, <2>10, <2>11, <3>1
    <3>3. /\ i \in DOMAIN trail'[t] /\ n \in DOMAIN trail'[t]
          /\ trail'[t][i].from = "none" /\ trail'[t][i].to = "planned"
          /\ trail'[t][n].from = "planned" /\ trail'[t][n].to = cmd[p].to
      BY <2>4, <2>9, <2>11, <3>1
    <3>. QED BY <2>7, <2>8, <3>2, <3>3 DEF InTwo, SaidAt
  <2>13. Before(p)'
    <3>1. landed[t] \subseteq DOMAIN trail[t]
      BY <2>3 DEF IInv, Traced
    <3>. QED BY <2>1, <2>6, <2>7, <2>8, <2>10, <3>1 DEF Before, t
  <2>. QED BY <2>1, <2>12, <2>13 DEF Telling
<1>10. CASE Probe(p) /\ pc'[p] \in Tellers
  <2>1. pc[p] = "probe" /\ pc'[p] = "write" /\ UNCHANGED <<landed, cmd, mem>>
    BY <1>2, <1>10 DEF Probe, Tellers, store
  <2>2. Op(p) \in {"reconcile", "refresh"} /\ mem[p].events = {}
    BY <1>1, <2>1 DEF Labels, Telling
  <2>3. Silent(p)' /\ Before(p)'
    BY <2>1, <2>2 DEF Silent, Before, Op
  <2>. QED BY <2>1, <2>3 DEF Telling
<1>11. CASE Write(p) /\ pc'[p] \in Tellers
  <2>1. /\ pc[p] = "write" /\ pc'[p] = "move" /\ UNCHANGED <<landed, trail, cmd, mem>>
    BY <1>2, <1>11 DEF Write, Tellers
  <2>2. Before(p)
    BY <2>1 DEF Telling
  <2>3. Before(p)'
    BY <2>1, <2>2 DEF Before, Task
  <2>4. Silent(p) \/ InOne(p) \/ InTwo(p)
    BY <2>1 DEF Telling
  <2>5. Silent(p)' \/ InOne(p)' \/ InTwo(p)'
    BY <2>1, <2>4 DEF Silent, InOne, InTwo, SaidAt, From, Ends, Op, Task, Becomes
  <2>. QED BY <2>1, <2>3, <2>5 DEF Telling
<1>. QED BY <1>3, <1>4, <1>5, <1>6, <1>7, <1>8, <1>9, <1>10, <1>11, Leads

-----------------------------------------------------------------------------
LEMMA InitTInv == Init => TInv
<1>. SUFFICES ASSUME Init PROVE TInv
  OBVIOUS
<1>1. IInv
  BY InitInv
<1>2. ASSUME NEW p \in Procs PROVE Telling(p)
  BY DEF Init, Telling
<1>3. ASSUME NEW t \in Tasks PROVE Tells(t)
  <2>1. CASE t \in Existing
    <3>. DEFINE e == [from |-> "none", to |-> "planned", ses |-> Numbering[t]]
    <3>1. /\ trail[t] = <<e>> /\ landed[t] = {1}
          /\ files[t].place = "live" /\ files[t].status = "planned"
      BY <2>1 DEF Init
    <3>2. trail[t][1].from = "none" /\ trail[t][1].to = "planned"
      BY <3>1
    <3>3. Becomes("none", "planned")
      BY DEF Becomes
    <3>4. Story(trail[t], {}) /\ LatestIn(trail[t], {}) = "none"
      BY DEF Story, LatestIn
    <3>5. {} \cup {1} = {1}
      OBVIOUS
    <3>. HIDE DEF e
    <3>6. Story(trail[t], {} \cup {1}) /\ LatestIn(trail[t], {} \cup {1}) = trail[t][1].to
      BY <3>2, <3>3, <3>4, StoryGoesOn
    <3>. QED BY <3>1, <3>2, <3>5, <3>6 DEF Tells, Life
  <2>2. CASE t \notin Existing
    <3>1. landed[t] = {} /\ files[t].place = "none"
      BY <2>2 DEF Init, NoFile
    <3>. QED BY <3>1 DEF Tells, Story, LatestIn, Life
  <2>. QED BY <2>1, <2>2
<1>4. TrailTells
  BY <1>1, <1>3, TellsEach DEF IInv
<1>. QED BY <1>1, <1>2, <1>4 DEF TInv

(* A step that changes a file.                                                *)
LEMMA ChangeTells ==
    ASSUME IInv, \A t \in Tasks : Tells(t), \A q \in Procs : Telling(q),
           NEW p \in Procs, Write(p) \/ Move(p)
    PROVE  /\ \A t \in Tasks : Tells(t)'
           /\ \A q \in Procs \ {p} : Telling(q)'
<1>1. /\ TypeOK /\ Labels /\ Sound(p)
      /\ files \in [Tasks -> File] /\ landed \in [Tasks -> SUBSET Nat]
      /\ pc \in [Procs -> PCs] /\ mem \in [Procs -> Mem]
  BY DEF IInv, TypeOK
<1>2. pc[p] \in {"write", "move"} /\ UNCHANGED <<trail, cmd>>
  BY DEF Write, Move
<1>3. pc[p] \notin Over \cup {"idle"}
  BY <1>2 DEF Over
<1>4. Task(p) \in Tasks /\ Op(p) \in Operations \ {"list"}
  BY <1>1, <1>2, <1>3, CommandIn DEF Labels
<1>5. Grows
  BY <1>2 DEF Grows
<1>6. /\ \A t \in Tasks \ {Task(p)} : files'[t] = files[t] /\ landed'[t] = landed[t]
      /\ landed'[Task(p)] \in {landed[Task(p)], landed[Task(p)] \cup mem[p].events}
  BY <1>1, <1>4 DEF Write, Move, Land
<1>7. ASSUME NEW t \in Tasks, t # Task(p) PROVE Tells(t)'
  BY <1>5, <1>6, <1>7, TellsKept
<1>8. Tells(Task(p)) /\ Telling(p)
  BY <1>4
<1>9. ASSUME Write(p), Op(p) = "archive" PROVE \A t \in Tasks : t = Task(p) => Tells(t)'
  <2>1. landed' = landed /\ files'[Task(p)] = NewFile(p)
    BY <1>1, <1>4, <1>9 DEF Write
  <2>2. files[Task(p)].place = "live" /\ files[Task(p)].status = mem[p].doc.status
    BY <1>1, <1>9 DEF Write, Sound, Standing, Changes, Operations, Creates
  <2>3. NewFile(p).place = "live" /\ NewFile(p).status = mem[p].doc.status
    BY <1>9 DEF NewFile, Moves, Creates
  <2>4. Life(files'[Task(p)]) = Life(files[Task(p)])
    BY <2>1, <2>2, <2>3 DEF Life
  <2>5. landed'[Task(p)] = landed[Task(p)]
    BY <2>1
  <2>. QED BY <1>4, <1>5, <1>8, <2>4, <2>5, TellsKept
<1>10. ASSUME Write(p), Op(p) # "archive"
       PROVE  /\ landed'[Task(p)] = landed[Task(p)] \cup mem[p].events
              /\ Ends(p) \in Life(files'[Task(p)])
  <2>1. /\ landed'[Task(p)] = landed[Task(p)] \cup mem[p].events
        /\ files'[Task(p)] = NewFile(p) /\ pc[p] = "write"
    BY <1>1, <1>4, <1>10 DEF Write, Land
  <2>2. Op(p) # "delete"
    BY <1>1, <2>1 DEF Labels
  <2>3. NewFile(p).place = "live" /\ NewFile(p).status = Ends(p)
    BY <1>10, <2>2 DEF NewFile, Ends
  <2>. QED BY <2>1, <2>3 DEF Life
<1>11. ASSUME Move(p)
       PROVE  /\ landed'[Task(p)] = landed[Task(p)] \cup mem[p].events
              /\ Ends(p) \in Life(files'[Task(p)])
  <2>1. /\ landed'[Task(p)] = landed[Task(p)] \cup mem[p].events /\ pc[p] = "move"
        /\ files'[Task(p)] = IF Op(p) = "archive" THEN [files[Task(p)] EXCEPT !.place = "archive"]
                             ELSE NoFile
    BY <1>1, <1>4, <1>11 DEF Move, Land
  <2>2. Op(p) \in {"archive", "delete"}
    BY <1>1, <2>1 DEF Labels
  <2>3. files[Task(p)] \in File
    BY <1>1, <1>4
  <2>4. CASE Op(p) = "archive"
    <3>1. files'[Task(p)].place = "archive"
      BY <2>1, <2>3, <2>4 DEF File
    <3>. QED BY <2>1, <2>4, <3>1 DEF Life, Ends, Moves, Creates
  <2>5. CASE Op(p) = "delete"
    <3>1. files'[Task(p)].place = "none"
      BY <2>1, <2>5 DEF NoFile
    <3>. QED BY <2>1, <2>5, <3>1 DEF Life, Ends, Moves, Creates
  <2>. QED BY <2>2, <2>4, <2>5
<1>12. ASSUME Move(p) \/ (Write(p) /\ Op(p) # "archive")
       PROVE  \A t \in Tasks : t = Task(p) => Tells(t)'
  <2>1. /\ landed'[Task(p)] = landed[Task(p)] \cup mem[p].events
        /\ Ends(p) \in Life(files'[Task(p)])
    BY <1>10, <1>11, <1>12
  <2>2. /\ Story(trail'[Task(p)], landed'[Task(p)])
        /\ LatestIn(trail'[Task(p)], landed'[Task(p)]) = Ends(p)
    BY <1>2, <1>8, <2>1, LandingTells
  <2>. QED BY <2>1, <2>2 DEF Tells
<1>13. \A t \in Tasks : t = Task(p) => Tells(t)'
  BY <1>9, <1>12
<1>14. ASSUME NEW q \in Procs \ {p} PROVE Telling(q)'
  <2>1. pc'[q] = pc[q] /\ cmd'[q] = cmd[q]
    BY <1>1, <1>2 DEF Write, Move, Goto
  <2>2. mem'[q].doc = mem[q].doc /\ mem'[q].events = mem[q].events
    <3>1. CASE Write(p)
      BY <3>1 DEF Write
    <3>2. CASE Move(p)
      <4>1. mem[q] \in Mem
        BY <1>1
      <4>2. PICK x, y : mem'[q] = [mem[q] EXCEPT !.present = x, !.kept = y]
        BY <3>2 DEF Move
      <4>. QED BY <4>1, <4>2 DEF Mem
    <3>. QED BY <3>1, <3>2
  <2>3. ASSUME pc[q] \in {"link", "second", "probe", "write", "move"}
        PROVE  landed'[Task(q)] = landed[Task(q)]
    <3>1. pc[q] \notin Over \cup {"idle"}
      BY <2>3 DEF Over
    <3>2. Task(q) \in Tasks /\ Op(q) \in Operations
      BY <1>1, <3>1, CommandIn
    <3>3. Op(q) \in Creates \cup Changes
      BY <1>1, <2>3, <3>2 DEF Labels, Changes
    <3>4. pc[q] \in {"link", "second"} => Op(q) \in Creates
      BY <1>1, <2>3, <3>3 DEF Labels, Inside, Changes
    <3>5. Op(q) \in Creates => pc[q] \in {"link", "second", "write"}
      BY <1>1, <2>3 DEF Labels, Creates
    <3>6. Task(q) # Task(p)
      BY <1>2, <1>14, <2>3, <3>3, <3>4, <3>5, Alone
    <3>. QED BY <1>6, <3>2, <3>6
  <2>. QED BY <1>5, <2>1, <2>2, <2>3, TellingKept
<1>. QED BY <1>7, <1>13, <1>14

LEMMA NextTInv == TInv /\ [Next]_vars => TInv'
<1>. SUFFICES ASSUME TInv, [Next]_vars PROVE TInv'
  OBVIOUS
<1>1. IInv /\ TypeOK /\ (\A q \in Procs : Telling(q)) /\ \A t \in Tasks : Tells(t)
  BY TellsEach DEF TInv, IInv
<1>2. IInv' /\ TypeOK'
  BY <1>1, NextInv DEF IInv
<1>. DEFINE Goal == (\A t \in Tasks : Tells(t)') /\ \A q \in Procs : Telling(q)'
<1>3. ASSUME Grows, UNCHANGED <<pc, cmd, landed>>,
             \A q \in Procs : mem'[q].doc = mem[q].doc /\ mem'[q].events = mem[q].events,
             \A t \in Tasks : Life(files'[t]) = Life(files[t])
      PROVE  Goal
  BY <1>1, <1>3, TellsKept, TellingKept
<1>4. UNCHANGED trail => Grows
  BY DEF Grows
<1>5. ASSUME NEW p \in Procs, Start(p) \/ Step(p) \/ Fails(p) PROVE Goal
  <2>1. Telling(p)'
    BY <1>1, <1>5, TellingOwn
  <2>2. CASE Write(p) \/ Move(p)
    BY <1>1, <2>1, <2>2, ChangeTells
  <2>3. CASE Quiet(p)
    <3>1. Grows /\ UNCHANGED <<files, landed>> /\ Others(p)
      BY <2>3 DEF Quiet
    <3>2. \A t \in Tasks : Tells(t)'
      BY <1>1, <3>1, TellsKept
    <3>3. ASSUME NEW q \in Procs \ {p} PROVE Telling(q)'
      <4>1. /\ pc'[q] = pc[q] /\ cmd'[q] = cmd[q]
            /\ mem'[q].doc = mem[q].doc /\ mem'[q].events = mem[q].events
        BY <3>1, <3>3 DEF Others
      <4>. QED BY <1>1, <3>1, <4>1, TellingKept
    <3>. QED BY <2>1, <3>2, <3>3
  <2>. QED BY <1>1, <1>5, <2>2, <2>3, Quietly
<1>6. ASSUME NEW t \in Tasks, EditByHand(t) PROVE Goal
  <2>1. files \in [Tasks -> File] /\ mem \in [Procs -> Mem]
    BY <1>1 DEF TypeOK
  <2>2. UNCHANGED <<pc, cmd, landed, trail>>
    BY <1>6 DEF EditByHand
  <2>3. \A q \in Procs : mem'[q].doc = mem[q].doc /\ mem'[q].events = mem[q].events
    BY <1>6, <2>1 DEF EditByHand, Mem
  <2>4. \A u \in Tasks : Life(files'[u]) = Life(files[u])
    BY <1>6, <2>1 DEF EditByHand, Life, File
  <2>. QED BY <1>3, <1>4, <2>2, <2>3, <2>4
<1>7. ASSUME LoseIndex PROVE Goal
  BY <1>3, <1>4, <1>7 DEF LoseIndex
<1>8. ASSUME NEW s \in dirs \cup damaged, RemoveSession(s) \/ DamageSession(s) PROVE Goal
  BY <1>3, <1>4, <1>8 DEF RemoveSession, DamageSession
<1>9. ASSUME UNCHANGED vars PROVE Goal
  BY <1>3, <1>4, <1>9 DEF vars, store
<1>. HIDE DEF Goal
<1>10. Goal
  BY <1>5, <1>6, <1>7, <1>8, <1>9 DEF Next
<1>11. TrailTells'
  BY <1>2, <1>10, TellsEachNext DEF Goal
<1>. QED BY <1>2, <1>10, <1>11 DEF TInv, Goal

(* However commands on a task interleave, fail or crash, the events whose     *)
(* changes of the task file were made tell one legal life of it, from where   *)
(* the one before left it to what the file says (createTaskAttach and the     *)
(* others append the event before writeTaskFile).                             *)
THEOREM TrailHolds == Spec => []TrailTells
<1>1. TInv => TrailTells
  BY DEF TInv
<1>. QED BY <1>1, InitTInv, NextTInv, PTL DEF Spec

-----------------------------------------------------------------------------
(* What becomes of a task.                                                    *)

Shown == [t \in Tasks |-> LifeOf(t)]

(* Whoever looks sees what the trail tells,                                   *)
LEMMA ShownIsTold ==
    ASSUME TypeOK, TrailTells, NEW t \in Tasks
    PROVE  Shown[t] = LatestIn(trail[t], landed[t])
<1>1. files[t].place \in {"none", "live", "archive"}
  BY DEF TypeOK, File
<1>2. Latest(t, landed[t]) = LatestIn(trail[t], landed[t])
  BY DEF Latest, LatestIn
<1>3. Latest(t, landed[t]) \in FileLife(t)
  BY DEF TrailTells
<1>4. LifeOf(t) = Latest(t, landed[t])
  BY <1>1, <1>3 DEF FileLife, LifeOf
<1>. QED BY <1>2, <1>4 DEF Shown

(* and after a step too.                                                      *)
LEMMA ShownIsToldNext ==
    ASSUME TypeOK', TrailTells', NEW t \in Tasks
    PROVE  Shown'[t] = LatestIn(trail'[t], landed'[t])
<1>1. files'[t].place \in {"none", "live", "archive"}
  BY DEF TypeOK, File
<1>2. Latest(t, landed[t])' = LatestIn(trail'[t], landed'[t])
  BY DEF Latest, LatestIn
<1>3. Latest(t, landed[t])' \in FileLife(t)'
  BY DEF TrailTells
<1>4. LifeOf(t)' = Latest(t, landed[t])'
  BY <1>1, <1>3 DEF FileLife, LifeOf
<1>. QED BY <1>2, <1>4 DEF Shown

(* Only events that land change it.                                           *)
LEMMA ShownStays ==
    ASSUME TInv, TInv', Grows, NEW t \in Tasks, landed'[t] = landed[t]
    PROVE  Shown'[t] = Shown[t]
<1>1. trail[t] \in Seq(Event) /\ landed[t] \subseteq DOMAIN trail[t]
  BY DEF TInv, IInv, TypeOK, Traced
<1>. DEFINE n == Len(trail[t])
            tr == trail[t]
            ur == trail'[t]
            seen == landed[t]
<1>2. n \in Nat /\ DOMAIN tr = 1 .. n
  BY <1>1
<1>3. seen \in SUBSET (1 .. n)
  BY <1>1, <1>2
<1>4. \A i \in 1 .. n : ur[i] = tr[i]
  BY <1>2 DEF Grows
<1>5. Shown[t] = LatestIn(tr, seen) /\ Shown'[t] = LatestIn(ur, seen)
  BY ShownIsTold, ShownIsToldNext DEF TInv, IInv
<1>. HIDE DEF n, tr, ur, seen
<1>6. LatestIn(ur, seen) = LatestIn(tr, seen)
  BY <1>2, <1>3, <1>4, LatestSame
<1>. QED BY <1>5, <1>6

LEMMA AllShownStays ==
    ASSUME TInv, TInv', Grows, UNCHANGED landed
    PROVE  UNCHANGED Shown
<1>1. \A t \in Tasks : Shown'[t] = Shown[t]
  BY ShownStays
<1>2. Shown = [t \in Tasks |-> Shown[t]] /\ Shown' = [t \in Tasks |-> Shown'[t]]
  BY DEF Shown
<1>. HIDE DEF Shown
<1>. QED BY <1>1, <1>2

(* The change a command makes takes its task, and no other, on as it said.    *)
LEMMA ShownGoesOn ==
    ASSUME TInv, TInv', NEW p \in Procs, pc[p] \in {"write", "move"}, Task(p) \in Tasks,
           UNCHANGED trail, landed' = [landed EXCEPT ![Task(p)] = @ \cup mem[p].events]
    PROVE  /\ Shown[Task(p)] = From(p)
           /\ Shown' = [Shown EXCEPT ![Task(p)] = Ends(p)]
<1>. DEFINE t == Task(p)
<1>1. /\ IInv /\ TypeOK /\ Labels /\ Sound(p) /\ Telling(p) /\ Tells(t)
      /\ landed \in [Tasks -> SUBSET Nat]
  BY TellsEach DEF TInv, IInv, TypeOK
<1>2. /\ landed'[t] = landed[t] \cup mem[p].events
      /\ \A u \in Tasks \ {t} : landed'[u] = landed[u]
  BY <1>1
<1>3. LatestIn(trail'[t], landed'[t]) = Ends(p)
  BY <1>1, <1>2, LandingTells
<1>4. LatestIn(trail[t], landed[t]) = From(p)
  <2>1. pc[p] \notin Over \cup {"idle"}
    BY DEF Over
  <2>2. Op(p) \in Operations \ {"list"}
    BY <1>1, <2>1, CommandIn DEF Labels
  <2>3. CASE Op(p) \in Creates
    <3>1. pc[p] = "write"
      BY <1>1, <2>3 DEF Labels, Creates
    <3>2. landed[t] = {}
      BY <1>1, <2>3, <3>1 DEF Sound, Fresh
    <3>. QED BY <2>3, <3>2 DEF From, LatestIn
  <2>4. CASE Op(p) \in Changes
    <3>1. files[t].place = "live" /\ files[t].status = mem[p].doc.status
      BY <1>1, <2>4 DEF Sound, Standing
    <3>. QED BY <1>1, <2>4, <3>1 DEF Tells, Life, From, Changes
  <2>. QED BY <2>2, <2>3, <2>4 DEF Changes
<1>5. Shown[t] = From(p) /\ Shown'[t] = Ends(p)
  BY <1>3, <1>4, ShownIsTold, ShownIsToldNext DEF TInv, IInv
<1>6. Grows
  BY DEF Grows
<1>7. \A u \in Tasks \ {t} : Shown'[u] = Shown[u]
  BY <1>2, <1>6, ShownStays
<1>8. Shown = [u \in Tasks |-> Shown[u]] /\ Shown' = [u \in Tasks |-> Shown'[u]]
  BY DEF Shown
<1>. HIDE DEF Shown
<1>. QED BY <1>5, <1>7, <1>8

(* That is a step of the task's life, or none.                                *)
LEMMA LivesOn ==
    ASSUME NEW p \in Procs, Task(p) \in Tasks, Shown[Task(p)] = From(p),
           Shown' = [Shown EXCEPT ![Task(p)] = Ends(p)],
           Silent(p) \/ InOne(p) \/ InTwo(p)
    PROVE  [Lifecycle!Next]_Shown
<1>. DEFINE t == Task(p)
<1>1. Shown = [u \in Tasks |-> Shown[u]]
  BY DEF Shown
<1>2. ASSUME Lifecycle!Create(t) \/ Lifecycle!Move(t) \/ Lifecycle!Archive(t) \/ Lifecycle!Delete(t)
      PROVE  Lifecycle!Next
  BY <1>2 DEF Lifecycle!Next
<1>3. Lifecycle!Becomes(t, Ends(p))
  BY DEF Lifecycle!Becomes, Shown
<1>4. CASE Silent(p)
  <2>1. From(p) = Ends(p)
    BY <1>4 DEF Silent, From, Ends, Creates, Moves
  <2>. HIDE DEF Shown
  <2>. QED BY <1>1, <2>1
<1>5. ASSUME Shown[t] = "none", Ends(p) \in Statuses PROVE Lifecycle!Create(t)
  BY <1>3, <1>5 DEF Lifecycle!Create, Lifecycle!Statuses, Statuses, Shown
<1>6. CASE InOne(p)
  <2>1. Becomes(From(p), Ends(p))
    BY <1>6 DEF InOne
  <2>2. CASE From(p) = "none" /\ Ends(p) \in {"planned", "in_progress"}
    BY <1>2, <1>5, <2>2 DEF Statuses
  <2>3. CASE <<From(p), Ends(p)>> \in AllowedTransitions
    <3>1. From(p) \in {"planned", "in_progress"} /\ Ends(p) \in {"in_progress", "done", "cancelled"}
      BY <2>3 DEF AllowedTransitions
    <3>2. Lifecycle!Move(t)
      BY <1>3, <3>1 DEF Lifecycle!Move, Lifecycle!Statuses, Lifecycle!Finished, Shown
    <3>. QED BY <1>2, <3>2
  <2>4. CASE From(p) \in Statuses /\ Ends(p) = "archived"
    <3>1. Lifecycle!Archive(t)
      BY <1>3, <2>4 DEF Lifecycle!Archive, Lifecycle!Statuses, Statuses, Shown
    <3>. QED BY <1>2, <3>1
  <2>5. CASE From(p) \in Statuses /\ Ends(p) = "deleted"
    <3>1. Lifecycle!Delete(t)
      BY <1>3, <2>5 DEF Lifecycle!Delete, Lifecycle!Statuses, Statuses, Shown
    <3>. QED BY <1>2, <3>1
  <2>. QED BY <2>1, <2>2, <2>3, <2>4, <2>5 DEF Becomes
<1>7. CASE InTwo(p)
  <2>1. From(p) = "none" /\ Ends(p) \in Statuses
    BY <1>7 DEF InTwo, From, Terminal, Statuses
  <2>. QED BY <1>2, <1>5, <2>1
<1>. QED BY <1>4, <1>6, <1>7

LEMMA LifeStep == TInv /\ TInv' /\ [Next]_vars => [Lifecycle!Next]_Shown
<1>. SUFFICES ASSUME TInv, TInv', [Next]_vars PROVE [Lifecycle!Next]_Shown
  OBVIOUS
<1>1. IInv /\ TypeOK /\ Labels /\ (\A p \in Procs : Telling(p) /\ Sound(p))
  BY DEF TInv, IInv
<1>2. UNCHANGED trail => Grows
  BY DEF Grows
<1>3. ASSUME NEW p \in Procs, Write(p) \/ Move(p) PROVE [Lifecycle!Next]_Shown
  <2>1. pc[p] \in {"write", "move"} /\ UNCHANGED trail
    BY <1>3 DEF Write, Move
  <2>2. Task(p) \in Tasks
    <3>1. pc[p] \notin Over \cup {"idle"}
      BY <2>1 DEF Over
    <3>. QED BY <1>1, <3>1, CommandIn
  <2>3. \/ UNCHANGED landed
        \/ landed' = [landed EXCEPT ![Task(p)] = @ \cup mem[p].events]
    BY <1>3 DEF Write, Move, Land
  <2>4. CASE UNCHANGED landed
    BY <1>2, <2>1, <2>4, AllShownStays
  <2>5. CASE landed' = [landed EXCEPT ![Task(p)] = @ \cup mem[p].events]
    <3>1. Shown[Task(p)] = From(p) /\ Shown' = [Shown EXCEPT ![Task(p)] = Ends(p)]
      BY <2>1, <2>2, <2>5, ShownGoesOn
    <3>2. Silent(p) \/ InOne(p) \/ InTwo(p)
      BY <1>1, <2>1 DEF Telling
    <3>. QED BY <2>2, <3>1, <3>2, LivesOn
  <2>. QED BY <2>3, <2>4, <2>5
<1>4. ASSUME NEW p \in Procs, Start(p) \/ Step(p) \/ Fails(p) PROVE [Lifecycle!Next]_Shown
  <2>1. CASE Quiet(p)
    BY <2>1, AllShownStays DEF Quiet
  <2>. QED BY <1>1, <1>3, <1>4, <2>1, Quietly
<1>5. CASE \/ \E t \in Tasks : EditByHand(t)
           \/ \E s \in dirs \cup damaged : RemoveSession(s) \/ DamageSession(s)
           \/ LoseIndex \/ UNCHANGED vars
  <2>1. UNCHANGED <<trail, landed>>
    BY <1>5 DEF EditByHand, RemoveSession, DamageSession, LoseIndex, vars, store
  <2>. QED BY <1>2, <2>1, AllShownStays
<1>. QED BY <1>4, <1>5 DEF Next

LEMMA LifeBegins == Init => Lifecycle!Init
<1>. SUFFICES ASSUME Init PROVE Lifecycle!Init
  OBVIOUS
<1>1. ASSUME NEW t \in Tasks PROVE LifeOf(t) \in {"none", "planned"}
  <2>1. CASE t \in Existing
    <3>1. files[t].place = "live" /\ files[t].status = "planned"
      BY <2>1 DEF Init
    <3>. QED BY <3>1 DEF LifeOf
  <2>2. CASE t \notin Existing
    <3>1. landed[t] = {} /\ files[t].place = "none"
      BY <2>2 DEF Init, NoFile
    <3>. QED BY <3>1 DEF LifeOf, Latest
  <2>. QED BY <2>1, <2>2
<1>. QED BY <1>1 DEF Lifecycle!Init

(* Commands that interleave, fail or die, edits by hand and lost files        *)
(* included, the store is one in which every task is created once, moves on   *)
(* along the allowed transitions and is archived or deleted for good, each in *)
(* one step: of all that a command writes, events, session, file and index,   *)
(* one write takes the task on (assertTransitionAllowed, writeTaskFile).      *)
THEOREM TaskStoreImplementsLife == Spec => ImplementsLife
<1>1. Init => Lifecycle!Init
  BY LifeBegins
<1>2. TInv /\ TInv' /\ [Next]_vars => [Lifecycle!Next]_([t \in Tasks |-> LifeOf(t)])
  BY LifeStep DEF Shown
<1>. QED BY <1>1, <1>2, InitTInv, NextTInv, PTL DEF Spec, ImplementsLife, Lifecycle!Spec

-----------------------------------------------------------------------------
(* The links of the task files.                                               *)

Numbers == 0 .. minted
PinsOf(pairs, t) == {s \in Nat : <<s, t>> \in pairs}
Pinned(t) == PinsOf(pins, t)

(* Sessions are numbered in the order they are made.                          *)
Counted ==
    /\ Unlinked \in Numbers
    /\ dirs \subseteq Numbers \ {NoSession} /\ told \subseteq Numbers
    /\ \A t \in Tasks : /\ Pinned(t) \subseteq Numbers \ {NoSession}
                        /\ files[t].linked \subseteq Numbers /\ files[t].created \in Numbers

(* A session has one task, and a task that has a session was recorded.        *)
PinnedOnce ==
    \A t \in Tasks :
        /\ trail[t] = <<>> => Pinned(t) = {}
        /\ \A u \in Tasks : t # u => Pinned(t) \cap Pinned(u) = {}

(* One command at most is about to link its task to the session that has none.*)
LinkedAlone ==
    \A p \in Procs : pc[p] = "link" =>
        /\ \A t \in Tasks : Unlinked \notin Pinned(t)
        /\ \A q \in Procs : pc[q] = "link" => p = q

Recalled(p) ==
    /\ mem[p].doc.linked \subseteq Numbers /\ mem[p].doc.created \in Numbers
    /\ mem[p].found \subseteq Numbers /\ mem[p].ses \in Numbers

(* What a command goes by, once it has read the file or created the task:     *)
(* the links the file has and the sessions the task has.                      *)
Linking(p) ==
    LET t == Task(p)
        m == mem[p]
    IN
    /\ pc[p] \in Over \cup {"idle", "lock", "read", "look", "record"} => m.ses = NoSession
    /\ Op(p) = "edit" => m.ses = NoSession /\ pc[p] # "record"
    /\ pc[p] \in {"link", "second"} => m.ses = Unlinked
    /\ pc[p] \in {"second", "probe", "write"} /\ Op(p) # "edit" => m.ses \in Pinned(t)
    /\ Op(p) \in Changes /\ pc[p] \in {"look", "record", "probe", "write"} =>
            files[t].linked = m.doc.linked
    /\ Op(p) \in Creates /\ pc[p] \in {"lock", "record", "link"} => Pinned(t) = {}
    /\ Op(p) \in Creates /\ pc[p] \in {"second", "write"} => Pinned(t) = {m.ses}
    /\ Op(p) = "reconcile" /\ pc[p] \in {"record", "probe", "write"} => m.found \cap dirs = {}
    /\ Op(p) = "refresh" /\ pc[p] = "record" => PinnedTo(t) \subseteq m.found
    /\ Op(p) = "refresh" /\ pc[p] \in {"probe", "write"} =>
            PinnedTo(t) \subseteq m.found \cup {m.ses}

LInv ==
    /\ IInv /\ Counted /\ PinnedOnce /\ LinkedAlone /\ LinksComplete
    /\ \A p \in Procs : Recalled(p) /\ Linking(p)

-----------------------------------------------------------------------------
(* What a step changes of the sessions and of the links.                      *)
LEMMA PinMore ==
    ASSUME NEW s \in Nat, NEW t, NEW old, NEW new, new = old \cup {<<s, t>>}
    PROVE  /\ PinsOf(new, t) = PinsOf(old, t) \cup {s}
           /\ \A u : u # t => PinsOf(new, u) = PinsOf(old, u)
BY DEF PinsOf

LEMMA PinnedThere ==
    ASSUME TypeOK, NEW t
    PROVE  PinnedTo(t) = Pinned(t) \cap dirs
BY DEF TypeOK, PinnedTo, Pinned, PinsOf

LEMMA PinnedThereNext ==
    ASSUME TypeOK', NEW t
    PROVE  PinnedTo(t)' = PinsOf(pins', t) \cap dirs'
BY DEF TypeOK, PinnedTo, PinsOf

(* A session is minted, and pinned unless the task is to be deleted.          *)
Minting(p) ==
    /\ pc[p] = "record" /\ minted' = minted + 1 /\ dirs' = dirs \cup {minted + 1}
    /\ pins' = IF Op(p) = "delete" THEN pins ELSE pins \cup {<<minted + 1, Task(p)>>}
    /\ trail' = [trail EXCEPT ![Task(p)] = @ \o Recorded(p, minted + 1)]
    /\ UNCHANGED told
Linked(p) ==
    /\ pc[p] = "link" /\ pins' = pins \cup {<<Unlinked, Task(p)>>}
    /\ UNCHANGED <<dirs, minted, told>>

LEMMA Marking ==
    ASSUME NEW p \in Procs, Start(p) \/ Step(p) \/ Fails(p)
    PROVE  \/ Minting(p) \/ Linked(p) \/ Look(p) \/ Write(p)
           \/ UNCHANGED <<pins, dirs, minted, told>>
<1>1. CASE Start(p)
  BY <1>1 DEF Start, store
<1>2. CASE Record(p)
  BY <1>2 DEF Record, Mint, Minting
<1>3. CASE Link(p)
  BY <1>3 DEF Link, Linked
<1>4. CASE Lock(p) \/ Read(p) \/ RecordAttached(p) \/ Attach(p) \/ Second(p) \/ Probe(p)
           \/ Move(p) \/ ReadIndex(p) \/ SaveIndex(p) \/ Release(p)
  BY <1>4 DEF Lock, Read, RecordAttached, Attach, Second, Probe, Move, ReadIndex, SaveIndex,
              Release, store
<1>5. CASE List(p)
  BY <1>5 DEF List, Replay, ReadIds, ReadDirectory, Scan, Rebuild, ListArchive, Answer, store
<1>6. CASE RecordFails(p)
  BY <1>6 DEF RecordFails, Mint, Minting
<1>7. CASE WriteFails(p) \/ SaveFails(p) \/ DirectoryFails(p) \/ Crash(p)
  BY <1>7 DEF WriteFails, SaveFails, DirectoryFails, Crash, store
<1>. QED BY <1>1, <1>2, <1>3, <1>4, <1>5, <1>6, <1>7 DEF Step, Change, Fails

(* The links of a file stay but for a write, or the file goes.                *)
SameLinks(t) ==
    /\ files'[t].linked = files[t].linked /\ files'[t].created = files[t].created
    /\ files'[t].place # "none" => files[t].place # "none"

LEMMA LinksChanged ==
    ASSUME IInv, [Next]_vars, NEW t \in Tasks
    PROVE  \/ SameLinks(t)
           \/ files'[t] = NoFile
           \/ \E p \in Procs : Write(p) /\ t = Task(p) /\ files'[t] = NewFile(p)
<1>1. files \in [Tasks -> File] /\ files[t] \in File
  BY DEF IInv, TypeOK
<1>2. CASE files'[t] = files[t]
  BY <1>2 DEF SameLinks
<1>3. ASSUME NEW p \in Procs, Write(p), files'[t] # files[t]
      PROVE  t = Task(p) /\ files'[t] = NewFile(p)
  BY <1>1, <1>3 DEF Write
<1>4. ASSUME NEW p \in Procs, Move(p), files'[t] # files[t]
      PROVE  SameLinks(t) \/ files'[t] = NoFile
  <2>1. files'[t] \in {[files[t] EXCEPT !.place = "archive"], NoFile}
    BY <1>1, <1>4 DEF Move
  <2>2. pc[p] = "move" /\ pc[p] \notin Over \cup {"idle"}
    BY <1>4 DEF Move, Over
  <2>3. Op(p) \in {"archive", "delete"} /\ Sound(p)
    BY <2>2 DEF IInv, Labels
  <2>4. files[Task(p)].place = "live"
    BY <2>2, <2>3 DEF Sound, Standing, Changes, Operations, Creates
  <2>5. t = Task(p)
    BY <1>1, <1>4 DEF Move
  <2>. QED BY <1>1, <2>1, <2>4, <2>5 DEF SameLinks, File
<1>5. ASSUME NEW u \in Tasks, EditByHand(u), files'[t] # files[t] PROVE SameLinks(t)
  <2>1. files'[t] = [files[t] EXCEPT !.text = files[t].text + 1]
    BY <1>1, <1>5 DEF EditByHand
  <2>. QED BY <1>1, <2>1 DEF SameLinks, File
<1>6. ASSUME NEW p \in Procs, Start(p) \/ Step(p) \/ Fails(p)
      PROVE  Write(p) \/ Move(p) \/ UNCHANGED files
  BY <1>6, Quietly DEF Quiet
<1>7. \/ UNCHANGED files
      \/ \E p \in Procs : Write(p) \/ Move(p)
      \/ \E u \in Tasks : EditByHand(u)
  BY <1>6 DEF Next, RemoveSession, DamageSession, LoseIndex, vars, store
<1>. QED BY <1>2, <1>3, <1>4, <1>5, <1>7

LEMMA NoLinks == NoFile.linked = {} /\ NoFile.created = 0 /\ NoFile.place = "none"
BY DEF NoFile, NoSession

(* Sessions are numbered from one on.                                         *)
LEMMA NumbersGrow ==
    ASSUME TypeOK, minted' = minted \/ minted' = minted + 1
    PROVE  /\ minted \in Nat /\ Numbers \subseteq Numbers' /\ Numbers \subseteq Nat
           /\ minted + 1 \notin Numbers /\ minted + 1 # NoSession
           /\ minted' = minted + 1 => minted + 1 \in Numbers'
           /\ 0 \in Numbers /\ 0 \in Numbers' /\ (minted' = minted => Numbers' = Numbers)
<1>1. minted \in Nat
  BY DEF TypeOK
<1>. QED BY <1>1 DEF Numbers, NoSession

-----------------------------------------------------------------------------
(* Sessions are counted, and pinned once.                                     *)
LEMMA NumbersZero ==
    ASSUME TypeOK
    PROVE  0 \in Numbers /\ minted + 1 \notin Numbers /\ Numbers \subseteq Nat
BY DEF TypeOK, Numbers

LEMMA MarksNext ==
    ASSUME IInv, [Next]_vars
    PROVE  \/ \E p \in Procs : Minting(p) \/ Linked(p) \/ Look(p) \/ Write(p)
           \/ dirs' \subseteq dirs /\ UNCHANGED <<pins, minted, told>>
<1>1. CASE UNCHANGED vars
  BY <1>1 DEF vars, store
<1>2. ASSUME NEW p \in Procs, Start(p) \/ Step(p) \/ Fails(p)
      PROVE  \/ Minting(p) \/ Linked(p) \/ Look(p) \/ Write(p)
             \/ UNCHANGED <<pins, dirs, minted, told>>
  BY <1>2, Marking
<1>. QED BY <1>1, <1>2 DEF Next, EditByHand, RemoveSession, DamageSession, LoseIndex

LEMMA NewLinksCounted ==
    ASSUME TypeOK, NEW p \in Procs, Recalled(p)
    PROVE  NewFile(p).linked \subseteq Numbers /\ NewFile(p).created \in Numbers
<1>1. NewFile(p).linked = NewLinks(p)
      /\ NewFile(p).created \in {mem[p].ses, mem[p].doc.created}
  BY DEF NewFile
<1>2. NewLinks(p) \subseteq mem[p].doc.linked \cup mem[p].found \cup {mem[p].ses}
  BY DEF NewLinks
<1>. QED BY <1>1, <1>2 DEF Recalled

LEMMA RefreshedThere ==
    ASSUME NEW p \in Procs
    PROVE  Refreshed(p) \subseteq dirs /\ (Op(p) # "refresh" => Refreshed(p) = {})
           /\ Refreshed(p) \subseteq PinnedTo(Task(p))
BY DEF Refreshed, PinnedTo

LEMMA CountedNext ==
    ASSUME LInv, [Next]_vars
    PROVE  Counted'
<1>1. IInv /\ TypeOK /\ Counted /\ \A p \in Procs : Recalled(p)
  BY DEF LInv, IInv
<1>. DEFINE Good == /\ Unlinked \in Numbers'
                    /\ dirs' \subseteq Numbers' \ {NoSession} /\ told' \subseteq Numbers'
                    /\ \A t \in Tasks : PinsOf(pins', t) \subseteq Numbers' \ {NoSession}
            Older == Numbers \subseteq Numbers'
<1>2. ASSUME NEW p \in Procs, Minting(p) PROVE Good /\ Older
  <2>1. /\ minted' = minted + 1 /\ dirs' = dirs \cup {minted + 1} /\ told' = told
        /\ pins' = pins \/ pins' = pins \cup {<<minted + 1, Task(p)>>}
    BY <1>2 DEF Minting
  <2>2. /\ minted \in Nat /\ Numbers \subseteq Numbers' /\ minted + 1 \in Numbers'
        /\ minted + 1 # NoSession /\ minted + 1 \in Nat
    BY <1>1, <2>1, NumbersGrow
  <2>3. \A t \in Tasks : PinsOf(pins', t) \subseteq Pinned(t) \cup {minted + 1}
    <3>1. CASE pins' = pins
      BY <3>1 DEF Pinned
    <3>2. CASE pins' = pins \cup {<<minted + 1, Task(p)>>}
      <4>1. /\ PinsOf(pins', Task(p)) = PinsOf(pins, Task(p)) \cup {minted + 1}
            /\ \A u : u # Task(p) => PinsOf(pins', u) = PinsOf(pins, u)
        BY <2>2, <3>2, PinMore
      <4>. QED BY <4>1 DEF Pinned
    <3>. QED BY <2>1, <3>1, <3>2
  <2>. QED BY <1>1, <2>1, <2>2, <2>3 DEF Counted
<1>3. ASSUME NEW p \in Procs, Linked(p) PROVE Good /\ Older
  <2>1. /\ pins' = pins \cup {<<Unlinked, Task(p)>>} /\ UNCHANGED <<minted, dirs, told>>
    BY <1>3 DEF Linked
  <2>2. Numbers' = Numbers
    BY <2>1 DEF Numbers
  <2>3. Unlinked \in Nat /\ Unlinked # NoSession
    BY DEF Unlinked, NoSession
  <2>4. \A t \in Tasks : PinsOf(pins', t) \subseteq Pinned(t) \cup {Unlinked}
    <3>1. /\ PinsOf(pins', Task(p)) = PinsOf(pins, Task(p)) \cup {Unlinked}
          /\ \A u : u # Task(p) => PinsOf(pins', u) = PinsOf(pins, u)
      BY <2>1, <2>3, PinMore
    <3>. QED BY <3>1 DEF Pinned
  <2>. QED BY <1>1, <2>1, <2>2, <2>3, <2>4 DEF Counted
<1>4. ASSUME UNCHANGED <<pins, minted>>, dirs' \subseteq dirs, told' \subseteq Numbers
      PROVE  Good /\ Older
  <2>1. Numbers' = Numbers
    BY <1>4 DEF Numbers
  <2>. QED BY <1>1, <1>4, <2>1 DEF Counted, Pinned
<1>5. ASSUME NEW p \in Procs, Look(p) PROVE Good /\ Older
  <2>1. UNCHANGED <<pins, minted, dirs>> /\ told' \subseteq told \cup Refreshed(p)
    BY <1>5 DEF Look
  <2>. QED BY <1>1, <1>4, <2>1, RefreshedThere DEF Counted
<1>6. ASSUME NEW p \in Procs, Write(p) PROVE Good /\ Older
  <2>1. UNCHANGED <<pins, minted, dirs>> /\ told' = told \cup {mem[p].ses} \cup Refreshed(p)
    BY <1>6 DEF Write
  <2>. QED BY <1>1, <1>4, <2>1, RefreshedThere DEF Counted, Recalled
<1>. HIDE DEF Good
<1>7. Good /\ Older
  BY <1>1, <1>2, <1>3, <1>4, <1>5, <1>6, MarksNext DEF Counted
<1>8. ASSUME NEW t \in Tasks
      PROVE  files'[t].linked \subseteq Numbers' /\ files'[t].created \in Numbers'
  <2>1. files[t].linked \subseteq Numbers /\ files[t].created \in Numbers /\ 0 \in Numbers
    BY <1>1, NumbersZero DEF Counted
  <2>2. CASE SameLinks(t)
    BY <1>7, <2>1, <2>2 DEF SameLinks
  <2>3. CASE files'[t] = NoFile
    BY <1>7, <2>1, <2>3, NoLinks
  <2>4. ASSUME NEW p \in Procs, files'[t] = NewFile(p)
        PROVE  files'[t].linked \subseteq Numbers' /\ files'[t].created \in Numbers'
    BY <1>1, <1>7, <2>4, NewLinksCounted
  <2>. QED BY <1>1, <2>2, <2>3, <2>4, LinksChanged
<1>. QED BY <1>7, <1>8 DEF Good, Counted, Pinned

LEMMA PinnedOnceNext ==
    ASSUME LInv, [Next]_vars
    PROVE  PinnedOnce'
<1>1. IInv /\ TypeOK /\ Labels /\ Traced /\ Counted /\ PinnedOnce /\ LinkedAlone
      /\ \A p \in Procs : Sound(p) /\ Linking(p)
  BY DEF LInv, IInv
<1>. DEFINE Good == \A t \in Tasks :
                      /\ trail'[t] = <<>> => PinsOf(pins', t) = {}
                      /\ \A u \in Tasks : t # u => PinsOf(pins', t) \cap PinsOf(pins', u) = {}
<1>2. \A t \in Tasks : trail[t] # <<>> => trail'[t] # <<>>
  <2>1. UNCHANGED trail => \A t \in Tasks : trail[t] # <<>> => trail'[t] # <<>>
    OBVIOUS
  <2>2. ASSUME NEW p \in Procs, Start(p) \/ Step(p) \/ Fails(p)
        PROVE  \A t \in Tasks : trail[t] # <<>> => trail'[t] # <<>>
    <3>1. CASE Quiet(p)
      BY <3>1 DEF Quiet, Grows
    <3>2. CASE Write(p) \/ Move(p)
      BY <3>2 DEF Write, Move
    <3>. QED BY <1>1, <2>2, <3>1, <3>2, Quietly
  <2>. QED BY <2>1, <2>2 DEF Next, EditByHand, RemoveSession, DamageSession, LoseIndex, vars, store
<1>3. ASSUME UNCHANGED pins PROVE Good
  BY <1>1, <1>2, <1>3 DEF PinnedOnce, Pinned
<1>4. ASSUME NEW p \in Procs, NEW s \in Nat, Task(p) \in Tasks,
             pins' = pins \cup {<<s, Task(p)>>}, trail'[Task(p)] # <<>>,
             \A u \in Tasks : s \notin Pinned(u)
      PROVE  Good
  <2>1. /\ PinsOf(pins', Task(p)) = Pinned(Task(p)) \cup {s}
        /\ \A u : u # Task(p) => PinsOf(pins', u) = Pinned(u)
    BY <1>4, PinMore DEF Pinned
  <2>2. ASSUME NEW t \in Tasks, trail'[t] = <<>> PROVE PinsOf(pins', t) = {}
    <3>1. t # Task(p) /\ trail[t] = <<>>
      BY <1>2, <1>4, <2>2
    <3>. QED BY <1>1, <2>1, <3>1 DEF PinnedOnce
  <2>3. ASSUME NEW t \in Tasks, NEW u \in Tasks, t # u
        PROVE  PinsOf(pins', t) \cap PinsOf(pins', u) = {}
    <3>1. Pinned(t) \cap Pinned(u) = {} /\ s \notin Pinned(t) /\ s \notin Pinned(u)
      BY <1>1, <1>4, <2>3 DEF PinnedOnce
    <3>2. CASE t = Task(p)
      BY <2>1, <2>3, <3>1, <3>2
    <3>3. CASE u = Task(p)
      BY <2>1, <2>3, <3>1, <3>3
    <3>4. CASE t # Task(p) /\ u # Task(p)
      BY <2>1, <3>1, <3>4
    <3>. QED BY <3>2, <3>3, <3>4
  <2>. QED BY <2>2, <2>3
<1>5. ASSUME NEW p \in Procs, Minting(p) PROVE Good
  <2>1. /\ pc[p] = "record" /\ pc[p] \notin Over \cup {"idle"}
        /\ trail' = [trail EXCEPT ![Task(p)] = @ \o Recorded(p, minted + 1)]
        /\ pins' = pins \/ pins' = pins \cup {<<minted + 1, Task(p)>>}
    BY <1>5 DEF Minting, Over
  <2>2. Task(p) \in Tasks /\ Op(p) \in Operations /\ minted + 1 \in Nat
    BY <1>1, <2>1, CommandIn DEF TypeOK
  <2>3. trail'[Task(p)] # <<>>
    <3>1. CASE Op(p) \in Creates
      <4>1. Recorded(p, minted + 1) # <<>> /\ Recorded(p, minted + 1) \in Seq(Event)
        BY <1>1, <2>1, <2>2, <3>1, RecordedTo, RecordedIn
      <4>2. trail \in [Tasks -> Seq(Event)]
        BY <1>1 DEF TypeOK
      <4>. QED BY <2>1, <2>2, <4>1, <4>2, GrowsBy
    <3>2. CASE Op(p) \in Changes
      <4>1. files[Task(p)].place = "live"
        BY <1>1, <2>1, <3>2 DEF Sound, Standing
      <4>. QED BY <1>1, <1>2, <2>2, <4>1 DEF Traced
    <3>3. Op(p) # "list"
      BY <1>1, <2>1 DEF Labels
    <3>. QED BY <2>2, <3>1, <3>2, <3>3 DEF Changes
  <2>4. \A u \in Tasks : minted + 1 \notin Pinned(u)
    BY <1>1, NumbersZero DEF Counted
  <2>. QED BY <1>3, <1>4, <2>1, <2>2, <2>3, <2>4
<1>6. ASSUME NEW p \in Procs, Linked(p) PROVE Good
  <2>1. /\ pc[p] = "link" /\ pc[p] \notin Over \cup {"idle"}
        /\ pins' = pins \cup {<<Unlinked, Task(p)>>} /\ Unlinked \in Nat
    BY <1>6 DEF Linked, Over, Unlinked
  <2>2. Task(p) \in Tasks /\ Op(p) \in Operations
    BY <1>1, <2>1, CommandIn
  <2>3. Op(p) \in Creates
    BY <1>1, <2>1, <2>2 DEF Labels, Changes, Inside
  <2>4. trail[Task(p)] # <<>>
    BY <1>1, <2>1, <2>3 DEF Sound, Fresh
  <2>5. \A u \in Tasks : Unlinked \notin Pinned(u)
    BY <1>1, <2>1 DEF LinkedAlone
  <2>. QED BY <1>2, <1>4, <2>1, <2>2, <2>4, <2>5
<1>. HIDE DEF Good
<1>7. Good
  BY <1>1, <1>3, <1>5, <1>6, MarksNext DEF Look, Write
<1>. QED BY <1>7 DEF Good, PinnedOnce, Pinned

-----------------------------------------------------------------------------
(* One command at most links to the running session that has no task.         *)
LEMMA ToLink ==
    ASSUME IInv, [Next]_vars, NEW p \in Procs, pc'[p] = "link"
    PROVE  pc[p] = "link" \/ (Attach(p) /\ ~End(p, "failed"))
<1>0. pc \in [Procs -> PCs] /\ Labels /\ TypeOK
  BY DEF IInv, TypeOK
<1>1. ASSUME NEW q \in Procs \ {p}, Start(q) \/ Step(q) \/ Fails(q) PROVE pc'[p] = pc[p]
  <2>1. CASE Quiet(q)
    BY <2>1 DEF Quiet, Others
  <2>2. CASE Write(q) \/ Move(q)
    BY <2>2, <1>0 DEF Write, Move, Goto
  <2>. QED BY <1>1, <2>1, <2>2, Quietly
<1>2. \A label : Goto(p, label) => pc'[p] = label
  BY <1>0 DEF Goto
<1>3. CASE Read(p)
  <2>1. pc[p] = "read" /\ pc'[p] \in {AfterRead(p), "throw"}
    BY <1>2, <1>3 DEF Read
  <2>2. AfterRead(p) # "link"
    BY DEF AfterRead
  <2>. QED BY <2>1, <2>2
<1>4. CASE Record(p) \/ RecordAttached(p)
  <2>1. pc[p] = "record" /\ pc'[p] \in {AfterRecord(p), "throw"}
    BY <1>2, <1>4 DEF Record, RecordAttached
  <2>2. Op(p) # "attach"
    BY <1>0, <2>1 DEF Labels
  <2>. QED BY <2>1, <2>2 DEF AfterRecord
<1>5. CASE Attach(p)
  BY <1>0, <1>5 DEF End, Goto
<1>6. CASE Link(p) \/ Second(p) \/ Probe(p) \/ Write(p)
  BY <1>2, <1>6 DEF Link, Second, Probe, Write
<1>7. ASSUME Start(p) \/ Step(p) \/ Fails(p)
      PROVE  pc[p] = "link" \/ (Attach(p) /\ ~End(p, "failed"))
  BY <1>3, <1>4, <1>5, <1>6, <1>7, Leads DEF Tellers
<1>. QED BY <1>1, <1>7 DEF Next, EditByHand, RemoveSession, DamageSession, LoseIndex, vars

LEMMA UnlinkedRuns == Unlinked \in RunningSessions /\ RunningSessions \subseteq Nat
<1>1. Cardinality(Existing) \in Nat
  BY ExistingAreTasks, FS_Subset, FS_CardinalityType
<1>. QED BY <1>1 DEF Unlinked, RunningSessions

LEMMA MintPins ==
    ASSUME TypeOK, NEW p \in Procs, Minting(p), NEW t
    PROVE  /\ PinsOf(pins', t) \subseteq Pinned(t) \cup {minted + 1}
           /\ t # Task(p) => PinsOf(pins', t) = Pinned(t)
           /\ t = Task(p) /\ Op(p) # "delete" => PinsOf(pins', t) = Pinned(t) \cup {minted + 1}
<1>1. minted + 1 \in Nat
  BY DEF TypeOK
<1>2. CASE Op(p) = "delete"
  BY <1>2 DEF Minting, Pinned
<1>3. CASE Op(p) # "delete"
  <2>1. pins' = pins \cup {<<minted + 1, Task(p)>>}
    BY <1>3 DEF Minting
  <2>. QED BY <1>1, <1>3, <2>1 DEF Pinned, PinsOf
<1>. QED BY <1>2, <1>3

LEMMA LinkPins ==
    ASSUME NEW p \in Procs, Linked(p), NEW t
    PROVE  /\ t # Task(p) => PinsOf(pins', t) = Pinned(t)
           /\ t = Task(p) => PinsOf(pins', t) = Pinned(t) \cup {Unlinked}
<1>1. Unlinked \in Nat /\ pins' = pins \cup {<<Unlinked, Task(p)>>}
  BY DEF Linked, Unlinked
<1>. QED BY <1>1 DEF Pinned, PinsOf

LEMMA OnlyLink ==
    ASSUME NEW p \in Procs, pc[p] = "link", Start(p) \/ Step(p) \/ Fails(p), pins' # pins
    PROVE  Link(p)
<1>1. ~Start(p)
  BY DEF Start
<1>2. CASE Change(p)
  BY <1>2 DEF Change, Lock, Read, Look, Record, RecordAttached, Attach, Second, Probe, Write,
              Move, ReadIndex, SaveIndex, Release
<1>3. ~List(p)
  BY DEF List, Replay, ReadIds, ReadDirectory, Scan, Rebuild, ListArchive, Answer
<1>4. ~Fails(p)
  BY DEF Fails, RecordFails, WriteFails, SaveFails, DirectoryFails, Crash, store
<1>. QED BY <1>1, <1>2, <1>3, <1>4 DEF Step

LEMMA LinkedAloneNext ==
    ASSUME LInv, [Next]_vars
    PROVE  LinkedAlone'
<1>1. IInv /\ TypeOK /\ Counted /\ LinkedAlone /\ (\A p \in Procs : Linking(p))
      /\ pc \in [Procs -> PCs]
  BY DEF LInv, IInv, TypeOK
<1>2. ASSUME NEW p \in Procs, Attach(p), ~End(p, "failed")
      PROVE  /\ pins' = pins /\ \A t \in Tasks : Unlinked \notin Pinned(t)
             /\ \A q \in Procs \ {p} : pc[q] # "link" /\ pc'[q] = pc[q]
  <2>1. /\ pins' = pins /\ ~SessionHeld(p, Unlinked) /\ pc' = [pc EXCEPT ![p] = AfterRecord(p)]
        /\ \A t \in Tasks : <<Unlinked, t>> \notin pins
    BY <1>2 DEF Attach, Goto
  <2>2. ASSUME NEW q \in Procs \ {p}, pc[q] = "link" PROVE FALSE
    <3>1. mem[q].ses = Unlinked
      BY <1>1, <2>2 DEF Linking
    <3>. QED BY <2>1, <2>2, <3>1, UnlinkedRuns DEF SessionHeld
  <2>. QED BY <1>1, <2>1, <2>2 DEF Pinned, PinsOf
<1>3. ASSUME NEW p \in Procs, pc'[p] = "link", NEW q \in Procs, pc'[q] = "link" PROVE p = q
  <2>1. CASE Attach(p) /\ ~End(p, "failed")
    BY <1>2, <1>3, <2>1
  <2>2. CASE Attach(q) /\ ~End(q, "failed")
    BY <1>2, <1>3, <2>2
  <2>3. CASE pc[p] = "link" /\ pc[q] = "link"
    BY <1>1, <2>3 DEF LinkedAlone
  <2>. QED BY <1>1, <1>3, <2>1, <2>2, <2>3, ToLink
<1>4. ASSUME NEW p \in Procs, pc'[p] = "link", NEW t \in Tasks PROVE Unlinked \notin PinsOf(pins', t)
  <2>1. CASE Attach(p) /\ ~End(p, "failed")
    BY <1>2, <2>1 DEF Pinned
  <2>2. CASE pc[p] = "link"
    <3>1. \A u \in Tasks : Unlinked \notin Pinned(u)
      BY <1>1, <2>2 DEF LinkedAlone
    <3>2. CASE pins' = pins
      BY <3>1, <3>2 DEF Pinned
    <3>3. ASSUME NEW q \in Procs, Minting(q) PROVE Unlinked \notin PinsOf(pins', t)
      <4>1. minted + 1 # Unlinked
        BY <1>1, NumbersZero DEF Counted
      <4>2. PinsOf(pins', t) \subseteq Pinned(t) \cup {minted + 1}
        BY <1>1, <3>3, MintPins
      <4>. QED BY <3>1, <4>1, <4>2
    <3>4. ASSUME NEW q \in Procs, Linked(q), pins' # pins PROVE FALSE
      <4>1. pc[q] = "link"
        BY <3>4 DEF Linked
      <4>2. q = p
        BY <1>1, <2>2, <4>1 DEF LinkedAlone
      <4>3. ASSUME NEW r \in Procs, Start(r) \/ Step(r) \/ Fails(r) PROVE FALSE
        <5>1. Linked(r) \/ Minting(r)
          BY <3>4, <4>3, Marking DEF Look, Write
        <5>2. Linked(r)
          <6>1. minted' = minted
            BY <3>4 DEF Linked
          <6>2. minted \in Nat
            BY <1>1 DEF TypeOK
          <6>3. minted' # minted + 1
            BY <6>1, <6>2
          <6>. QED BY <5>1, <6>3 DEF Minting
        <5>3. r = p
          BY <1>1, <2>2, <5>2 DEF LinkedAlone, Linked
        <5>4. Link(p)
          BY <1>1, <2>2, <3>4, <4>3, <5>3, OnlyLink
        <5>. QED BY <1>1, <1>4, <5>4 DEF Link, Goto
      <4>. QED BY <3>4, <4>3 DEF Next, EditByHand, RemoveSession, DamageSession, LoseIndex, vars, store
    <3>. QED BY <1>1, <3>2, <3>3, <3>4, MarksNext DEF Look, Write
  <2>. QED BY <1>1, <1>4, <2>1, <2>2, ToLink
<1>. QED BY <1>3, <1>4 DEF LinkedAlone, Pinned

-----------------------------------------------------------------------------
(* The links stay complete.                                                   *)
LEMMA LinksCompleteNext ==
    ASSUME LInv, [Next]_vars
    PROVE  LinksComplete'
<1>1. /\ IInv /\ TypeOK /\ Labels /\ Counted /\ PinnedOnce /\ LinkedAlone /\ LinksComplete
      /\ \A p \in Procs : Sound(p) /\ Linking(p) /\ Recalled(p)
      /\ files \in [Tasks -> File]
  BY DEF LInv, IInv, TypeOK
<1>2. TypeOK'
  BY <1>1, NextInv DEF IInv
<1>. DEFINE Done(t) == files'[t].place # "none" =>
                         PinsOf(pins', t) \cap dirs' \cap told' \subseteq files'[t].linked
<1>3. \A t \in Tasks : files[t].place # "none" => Pinned(t) \cap dirs \cap told \subseteq files[t].linked
  BY <1>1, PinnedThere DEF LinksComplete
<1>4. ASSUME NEW t \in Tasks, \A p \in Procs : ~Write(p)
      PROVE  SameLinks(t) \/ files'[t] = NoFile
  BY <1>1, <1>4, LinksChanged
<1>5. ASSUME NEW t \in Tasks, \A p \in Procs : ~Write(p),
             PinsOf(pins', t) \cap dirs' \cap told' \subseteq Pinned(t) \cap dirs \cap told
      PROVE  Done(t)
  <2>1. SameLinks(t) \/ files'[t] = NoFile
    BY <1>4, <1>5
  <2>. QED BY <1>3, <1>5, <2>1, NoLinks DEF SameLinks
<1>6. ASSUME \A p \in Procs : ~Write(p), NEW p \in Procs, Minting(p), NEW t \in Tasks
      PROVE  Done(t)
  <2>1. PinsOf(pins', t) \subseteq Pinned(t) \cup {minted + 1}
    BY <1>1, <1>6, MintPins
  <2>2. told' = told /\ dirs' = dirs \cup {minted + 1}
    BY <1>6 DEF Minting
  <2>3. minted + 1 \notin told
    BY <1>1, NumbersZero DEF Counted
  <2>4. PinsOf(pins', t) \cap dirs' \cap told' \subseteq Pinned(t) \cap dirs \cap told
    BY <2>1, <2>2, <2>3
  <2>. QED BY <1>5, <1>6, <2>4
<1>7. ASSUME \A p \in Procs : ~Write(p), NEW p \in Procs, Linked(p), NEW t \in Tasks
      PROVE  Done(t)
  <2>1. dirs' = dirs /\ told' = told
    BY <1>7 DEF Linked
  <2>2. CASE t # Task(p)
    BY <1>5, <1>7, <2>1, <2>2, LinkPins
  <2>3. CASE t = Task(p)
    <3>1. pc[p] = "link" /\ pc[p] \notin Over \cup {"idle"}
      BY <1>7 DEF Linked, Over
    <3>2. Op(p) \in Creates
      BY <1>1, <3>1, CommandIn DEF Labels, Changes, Inside
    <3>3. files[t] = NoFile
      BY <1>1, <2>3, <3>1, <3>2 DEF Sound, Fresh
    <3>4. SameLinks(t) \/ files'[t] = NoFile
      BY <1>4, <1>7
    <3>. QED BY <3>3, <3>4, NoLinks DEF SameLinks
  <2>. QED BY <2>2, <2>3
<1>8. ASSUME \A p \in Procs : ~Write(p), NEW p \in Procs, Look(p), NEW t \in Tasks
      PROVE  Done(t)
  <2>1. /\ pc[p] = "look" /\ UNCHANGED <<pins, dirs, files>>
        /\ told' = told \/ told' = told \cup Refreshed(p)
    BY <1>8 DEF Look
  <2>2. Op(p) \in {"reconcile", "refresh"}
    BY <1>1, <2>1 DEF Labels
  <2>3. PinsOf(pins', t) = Pinned(t)
    BY <2>1 DEF Pinned
  <2>4. CASE told' = told
    BY <1>5, <1>8, <2>1, <2>3, <2>4
  <2>5. CASE told' # told
    <3>1. Op(p) = "refresh" /\ told' = told \cup Refreshed(p)
      BY <2>1, <2>2, <2>5, RefreshedThere
    <3>2. FinalLinked(Task(p), mem[p].doc) = mem[p].doc.linked
      BY <1>8, <2>5, <3>1 DEF Look
    <3>3. files[Task(p)].linked = mem[p].doc.linked
      BY <1>1, <2>1, <3>1 DEF Linking, Changes, Operations, Creates
    <3>4. Refreshed(p) = Pinned(Task(p)) \cap dirs
      BY <1>1, <3>1, PinnedThere DEF Refreshed
    <3>5. Pinned(Task(p)) \cap dirs \subseteq files[Task(p)].linked
      BY <1>1, <3>2, <3>3, PinnedThere DEF FinalLinked
    <3>6. pc[p] \notin Over \cup {"idle"}
      BY <2>1 DEF Over
    <3>7. Task(p) \in Tasks
      BY <1>1, <3>6, CommandIn
    <3>8. CASE t = Task(p)
      BY <2>1, <2>3, <3>5, <3>8
    <3>9. CASE t # Task(p)
      <4>1. Pinned(t) \cap Pinned(Task(p)) = {}
        BY <1>1, <3>7, <3>9 DEF PinnedOnce
      <4>2. PinsOf(pins', t) \cap dirs' \cap told' \subseteq Pinned(t) \cap dirs \cap told
        BY <2>1, <2>3, <3>1, <3>4, <4>1
      <4>. QED BY <1>5, <1>8, <4>2
    <3>. QED BY <3>8, <3>9
  <2>. QED BY <2>4, <2>5
<1>9. ASSUME \A p \in Procs : ~Write(p), NEW t \in Tasks,
             dirs' \subseteq dirs /\ UNCHANGED <<pins, minted, told>>
      PROVE  Done(t)
  BY <1>5, <1>9 DEF Pinned
<1>10. ASSUME NEW p \in Procs, Write(p), NEW t \in Tasks PROVE Done(t)
  <2>1. /\ pc[p] = "write" /\ UNCHANGED <<pins, dirs>>
        /\ files' = [files EXCEPT ![Task(p)] = NewFile(p)]
        /\ told' = told \cup {mem[p].ses} \cup Refreshed(p)
    BY <1>10 DEF Write
  <2>2. pc[p] \notin Over \cup {"idle"}
    BY <2>1 DEF Over
  <2>3. /\ Task(p) \in Tasks /\ Op(p) \in Operations
        /\ Op(p) \in {"create", "attach", "status", "edit", "reconcile", "refresh", "archive"}
    BY <1>1, <2>1, <2>2, CommandIn DEF Labels, Operations
  <2>4. PinsOf(pins', t) = Pinned(t)
    BY <2>1 DEF Pinned
  <2>5. Refreshed(p) = IF Op(p) = "refresh" THEN Pinned(Task(p)) \cap dirs ELSE {}
    BY <1>1, PinnedThere DEF Refreshed
  <2>6. Linking(p)
    BY <1>1
  <2>7. 0 \notin dirs
    BY <1>1 DEF Counted, NoSession
  <2>8. CASE t # Task(p)
    <3>1. files'[t] = files[t]
      BY <1>1, <2>1, <2>8
    <3>2. Pinned(t) \cap Pinned(Task(p)) = {}
      BY <1>1, <2>3, <2>8 DEF PinnedOnce
    <3>3. mem[p].ses \in Pinned(Task(p)) \/ mem[p].ses = 0
      BY <2>1, <2>6 DEF Linking, NoSession
    <3>4. Pinned(t) \cap dirs \cap told' \subseteq Pinned(t) \cap dirs \cap told
      BY <2>1, <2>5, <2>7, <3>2, <3>3
    <3>. QED BY <1>3, <2>1, <2>4, <3>1, <3>4
  <2>9. CASE t = Task(p)
    <3>1. files'[t] = NewFile(p) /\ files'[t].linked = NewLinks(p)
      BY <1>1, <2>1, <2>3, <2>9 DEF NewFile
    <3>. DEFINE There == Pinned(t) \cap dirs
    <3>2. CASE Op(p) \in Creates
      <4>1. Pinned(t) = {mem[p].ses}
        BY <2>1, <2>6, <2>9, <3>2 DEF Linking
      <4>2. mem[p].ses \in NewLinks(p)
        BY <3>2 DEF NewLinks, Creates
      <4>. QED BY <2>4, <3>1, <4>1, <4>2
    <3>3. CASE Op(p) \in Changes
      <4>1. files[t].linked = mem[p].doc.linked
        BY <2>1, <2>6, <2>9, <3>3 DEF Linking
      <4>2. files[t].place = "live"
        BY <1>1, <2>1, <2>9, <3>3 DEF Sound, Standing
      <4>3. There \cap told \subseteq mem[p].doc.linked
        BY <1>3, <4>1, <4>2
      <4>4. CASE Op(p) = "edit"
        <5>1. mem[p].ses = 0 /\ NewLinks(p) = mem[p].doc.linked
          BY <2>6, <4>4 DEF Linking, NewLinks, NoSession
        <5>. QED BY <2>1, <2>4, <2>5, <2>7, <3>1, <4>3, <4>4, <5>1
      <4>5. CASE Op(p) = "reconcile"
        <5>1. NewLinks(p) = (mem[p].doc.linked \ mem[p].found) \cup {mem[p].ses}
          BY <4>5 DEF NewLinks
        <5>2. mem[p].found \cap dirs = {}
          BY <2>1, <2>6, <4>5 DEF Linking
        <5>. QED BY <2>1, <2>4, <2>5, <3>1, <4>3, <4>5, <5>1, <5>2
      <4>6. CASE Op(p) = "refresh"
        <5>1. NewLinks(p) = mem[p].found \cup {mem[p].ses}
          BY <4>6 DEF NewLinks
        <5>2. There \subseteq mem[p].found \cup {mem[p].ses}
          BY <1>1, <2>1, <2>6, <2>9, <4>6, PinnedThere DEF Linking
        <5>. QED BY <2>1, <2>4, <3>1, <5>1, <5>2
      <4>7. CASE Op(p) \in {"status", "archive"}
        <5>1. NewLinks(p) = mem[p].doc.linked \cup {mem[p].ses}
          BY <4>7 DEF NewLinks
        <5>. QED BY <2>1, <2>4, <2>5, <3>1, <4>3, <4>7, <5>1
      <4>. QED BY <2>3, <3>3, <4>4, <4>5, <4>6, <4>7 DEF Changes, Creates
    <3>. QED BY <2>3, <3>2, <3>3 DEF Changes, Creates, Operations
  <2>. QED BY <2>8, <2>9
<1>. HIDE DEF Done
<1>11. \A t \in Tasks : Done(t)
  <2>1. CASE \E p \in Procs : Write(p)
    BY <1>10, <2>1
  <2>2. CASE \A p \in Procs : ~Write(p)
    BY <1>1, <1>6, <1>7, <1>8, <1>9, <2>2, MarksNext
  <2>. QED BY <2>1, <2>2
<1>12. \A t \in Tasks : PinnedTo(t)' = PinsOf(pins', t) \cap dirs'
  BY <1>2, PinnedThereNext
<1>. QED BY <1>11, <1>12 DEF Done, LinksComplete

-----------------------------------------------------------------------------
(* What a command goes by, while others go on.                                *)

(* From when on a command relies on the sessions and the links of its task.   *)
Relies(p) ==
    \/ Op(p) \in Creates /\ pc[p] \in {"lock", "record", "link", "second", "write"}
    \/ Op(p) \in Changes /\ pc[p] \in {"look", "record", "probe", "write"}

LEMMA RecalledStays ==
    ASSUME TypeOK, NEW q \in Procs, Recalled(q), minted' = minted \/ minted' = minted + 1,
           mem'[q].doc = mem[q].doc, mem'[q].found = mem[q].found, mem'[q].ses = mem[q].ses
    PROVE  Recalled(q)'
<1>1. Numbers \subseteq Numbers'
  BY NumbersGrow
<1>. QED BY <1>1 DEF Recalled

LEMMA LinkingStays ==
    ASSUME LInv, TypeOK', NEW q \in Procs, pc'[q] = pc[q], cmd'[q] = cmd[q],
           mem'[q].doc = mem[q].doc, mem'[q].found = mem[q].found, mem'[q].ses = mem[q].ses,
           dirs' \subseteq dirs \cup {minted + 1},
           Relies(q) => /\ PinsOf(pins', Task(q)) = Pinned(Task(q))
                        /\ files'[Task(q)].linked = files[Task(q)].linked
    PROVE  Linking(q)'
<1>1. IInv /\ TypeOK /\ Labels /\ Counted /\ Linking(q) /\ Recalled(q)
  BY DEF LInv, IInv
<1>2. Op(q)' = Op(q) /\ Task(q)' = Task(q)
  BY DEF Op, Task
<1>3. minted + 1 \notin Numbers
  BY <1>1, NumbersZero
<1>4. CASE ~Relies(q)
  <2>1. /\ pc[q] = "second" => Op(q) \notin Changes
        /\ pc[q] = "probe" => Op(q) \in Changes
    BY <1>1 DEF Labels, Inside, Changes, Operations, Creates
  <2>2. pc[q] \in {"second", "write", "probe"} =>
          Task(q) \in Tasks /\ Op(q) \in Operations \ {"list"}
    BY <1>1, CommandIn DEF Labels, Over
  <2>3. pc[q] \notin {"second", "probe", "write"}
    BY <1>4, <2>1, <2>2 DEF Relies, Changes
  <2>4. "refresh" \in Changes /\ "reconcile" \in Changes
    BY DEF Changes, Operations, Creates
  <2>. QED BY <1>1, <1>2, <1>4, <2>3, <2>4 DEF Linking, Relies
<1>5. CASE Relies(q)
  <2>1. PinsOf(pins', Task(q)) = Pinned(Task(q)) /\ files'[Task(q)].linked = files[Task(q)].linked
    BY <1>5
  <2>2. Pinned(Task(q))' = Pinned(Task(q))
    BY <1>2, <2>1 DEF Pinned
  <2>3. PinnedTo(Task(q))' = PinsOf(pins', Task(q)) \cap dirs'
    BY <1>2 DEF TypeOK, PinnedTo, PinsOf
  <2>4. Task(q) \in Tasks
    BY <1>1, <1>5, CommandIn DEF Relies, Over
  <2>5. PinnedTo(Task(q)) = Pinned(Task(q)) \cap dirs /\ minted + 1 \notin Pinned(Task(q))
    BY <1>1, <1>3, <2>4, PinnedThere DEF Counted
  <2>6. PinnedTo(Task(q))' \subseteq PinnedTo(Task(q))
    BY <2>1, <2>3, <2>5
  <2>7. mem[q].found \cap dirs = {} => mem'[q].found \cap dirs' = {}
    BY <1>1, <1>3 DEF Recalled
  <2>. QED BY <1>1, <1>2, <2>1, <2>2, <2>6, <2>7 DEF Linking
<1>. QED BY <1>4, <1>5

(* Nobody else gives the task a session or changes its file by then.          *)
LEMMA Undisturbed ==
    ASSUME LInv, NEW p \in Procs, Start(p) \/ Step(p) \/ Fails(p), NEW q \in Procs \ {p}, Relies(q)
    PROVE  /\ PinsOf(pins', Task(q)) = Pinned(Task(q))
           /\ files'[Task(q)].linked = files[Task(q)].linked
<1>1. IInv /\ TypeOK /\ Labels /\ Exclusion /\ Sound(p) /\ Sound(q) /\ files \in [Tasks -> File]
  BY DEF LInv, IInv, TypeOK
<1>2. pc[q] \notin Over \cup {"idle"}
  BY DEF Relies, Over
<1>3. Task(q) \in Tasks
  BY <1>1, <1>2, CommandIn
<1>4. ASSUME pc[p] \in {"record", "link"} PROVE Task(q) # Task(p)
  <2>1. Op(p) \in Operations \ {"list"} /\ (pc[p] = "link" => Op(p) \notin Changes)
    BY <1>1, <1>4, CommandIn DEF Labels, Over, Inside
  <2>2. ASSUME Task(q) = Task(p) PROVE FALSE
    <3>1. CASE Op(p) \in Changes
      <4>1. pc[p] = "record"
        BY <1>4, <2>1, <3>1
      <4>2. files[Task(p)].place = "live" /\ locks[Task(p)] = p
        BY <1>1, <3>1, <4>1 DEF Sound, Standing, Exclusion, Inside
      <4>3. CASE Op(q) \in Creates
        BY <1>1, <2>2, <4>2, <4>3, NoLinks DEF Relies, Sound, Fresh, Changes
      <4>4. CASE Op(q) \in Changes
        BY <1>1, <2>2, <4>2, <4>4 DEF Relies, Exclusion, Inside, Changes
      <4>. QED BY <4>3, <4>4 DEF Relies
    <3>2. CASE Op(p) \in Creates
      <4>1. files[Task(p)] = NoFile
        BY <1>1, <1>4, <3>2 DEF Sound, Fresh
      <4>2. CASE Op(q) \in Creates
        BY <1>1, <2>2, <3>2, <4>2 DEF Sound, Fresh
      <4>3. CASE Op(q) \in Changes
        BY <1>1, <2>2, <4>1, <4>3, NoLinks DEF Relies, Sound, Standing, Changes
      <4>. QED BY <4>2, <4>3 DEF Relies
    <3>. QED BY <2>1, <3>1, <3>2 DEF Changes
  <2>. QED BY <2>2
<1>5. PinsOf(pins', Task(q)) = Pinned(Task(q))
  <2>1. CASE pins' = pins
    BY <2>1 DEF Pinned
  <2>2. CASE Minting(p)
    <3>1. Task(q) # Task(p)
      BY <1>4, <2>2 DEF Minting
    <3>. QED BY <1>1, <2>2, <3>1, MintPins
  <2>3. CASE Linked(p)
    <3>1. Task(q) # Task(p)
      BY <1>4, <2>3 DEF Linked
    <3>. QED BY <2>3, <3>1, LinkPins
  <2>. QED BY <2>1, <2>2, <2>3, Marking DEF Look, Write
<1>6. files'[Task(q)].linked = files[Task(q)].linked
  <2>1. CASE Write(p) \/ Move(p)
    <3>1. pc[p] \in {"write", "move"}
      BY <2>1 DEF Write, Move
    <3>2. Task(q) # Task(p)
      BY <1>1, <3>1, Alone DEF Relies
    <3>. QED BY <1>1, <1>3, <2>1, <3>2 DEF Write, Move
  <2>2. CASE Quiet(p)
    BY <2>2 DEF Quiet
  <2>. QED BY <1>1, <2>1, <2>2, Quietly
<1>. QED BY <1>5, <1>6

LEMMA OthersLink ==
    ASSUME LInv, TypeOK', NEW p \in Procs, Start(p) \/ Step(p) \/ Fails(p), NEW q \in Procs \ {p}
    PROVE  Recalled(q)' /\ Linking(q)'
<1>1. IInv /\ TypeOK /\ Recalled(q) /\ mem \in [Procs -> Mem] /\ pc \in [Procs -> PCs]
  BY DEF LInv, IInv, TypeOK
<1>2. /\ pc'[q] = pc[q] /\ cmd'[q] = cmd[q]
      /\ mem'[q].doc = mem[q].doc /\ mem'[q].found = mem[q].found /\ mem'[q].ses = mem[q].ses
  <2>1. CASE Quiet(p)
    BY <2>1 DEF Quiet, Others
  <2>2. CASE Write(p)
    BY <1>1, <2>2 DEF Write, Goto
  <2>3. CASE Move(p)
    <3>1. mem[q] \in Mem
      BY <1>1
    <3>2. PICK x, y : mem'[q] = [mem[q] EXCEPT !.present = x, !.kept = y]
      BY <2>3 DEF Move
    <3>3. /\ mem'[q].doc = mem[q].doc /\ mem'[q].found = mem[q].found /\ mem'[q].ses = mem[q].ses
      BY <3>1, <3>2 DEF Mem
    <3>. QED BY <1>1, <2>3, <3>3 DEF Move, Goto
  <2>. QED BY <1>1, <2>1, <2>2, <2>3, Quietly
<1>3. /\ minted' = minted \/ minted' = minted + 1
      /\ dirs' \subseteq dirs \cup {minted + 1}
  BY Marking DEF Minting, Linked, Look, Write
<1>4. Recalled(q)'
  BY <1>1, <1>2, <1>3, RecalledStays
<1>5. Relies(q) => /\ PinsOf(pins', Task(q)) = Pinned(Task(q))
                   /\ files'[Task(q)].linked = files[Task(q)].linked
  BY Undisturbed
<1>. QED BY <1>2, <1>3, <1>4, <1>5, LinkingStays

-----------------------------------------------------------------------------
(* What a command goes by after a step of its own.                            *)
Passing == {"move", "index", "save", "release", "throw", "replay", "ids", "dir", "scan",
            "rebuild", "archived", "answer"}
SameMemo(p) ==
    cmd'[p] = cmd[p] /\ mem'[p].doc = mem[p].doc /\ mem'[p].found = mem[p].found
    /\ mem'[p].ses = mem[p].ses
Forgets(p) == \E label \in Over : End(p, label)

LEMMA Passes ==
    ASSUME IInv, NEW p \in Procs, Start(p) \/ Step(p) \/ Fails(p)
    PROVE  \/ Forgets(p)
           \/ pc'[p] \in Passing /\ SameMemo(p)
           \/ Start(p) \/ Lock(p) \/ Read(p) \/ Look(p) \/ Record(p) \/ RecordAttached(p)
           \/ Attach(p) \/ Link(p) \/ Second(p) \/ Probe(p)
<1>1. pc \in [Procs -> PCs] /\ mem \in [Procs -> Mem] /\ mem[p] \in Mem
  BY DEF IInv, TypeOK
<1>2. \A label : Goto(p, label) => pc'[p] = label
  BY <1>1 DEF Goto
<1>3. \A label \in Over : End(p, label) => Forgets(p)
  BY DEF Forgets
<1>4. mem' = mem /\ cmd' = cmd => SameMemo(p)
  BY DEF SameMemo
<1>5. "done" \in Over /\ "failed" \in Over /\ "dead" \in Over
  BY DEF Over
<1>6. CASE Release(p)
  BY <1>3, <1>5, <1>6 DEF Release
<1>7. CASE Write(p)
  BY <1>2, <1>4, <1>7 DEF Write, Passing
<1>8. CASE Move(p)
  <2>1. PICK x, y : mem'[p] = [mem[p] EXCEPT !.present = x, !.kept = y]
    BY <1>8 DEF Move
  <2>2. mem'[p].doc = mem[p].doc /\ mem'[p].found = mem[p].found /\ mem'[p].ses = mem[p].ses
    BY <1>1, <2>1 DEF Mem
  <2>. QED BY <1>2, <1>8, <2>2 DEF Move, SameMemo, Passing
<1>9. CASE ReadIndex(p)
  <2>1. PICK x : mem'[p] = [mem[p] EXCEPT !.rows = x]
    BY <1>1, <1>9 DEF ReadIndex
  <2>2. mem'[p].doc = mem[p].doc /\ mem'[p].found = mem[p].found /\ mem'[p].ses = mem[p].ses
    BY <1>1, <2>1 DEF Mem
  <2>. QED BY <1>2, <1>9, <2>2 DEF ReadIndex, SameMemo, Passing
<1>10. CASE SaveIndex(p)
  BY <1>2, <1>4, <1>10 DEF SaveIndex, Passing
<1>11. CASE List(p)
  <2>1. CASE Replay(p) \/ ReadIds(p) \/ ReadDirectory(p) \/ ListArchive(p) \/ Scan(p)
    <3>1. \/ \E x, y, z : mem'[p] = [mem[p] EXCEPT !.created = x, !.present = y, !.kept = z]
          \/ \E x, y : mem'[p] = [mem[p] EXCEPT !.valid = x, !.seen = y]
          \/ \E x, y, z : mem'[p] = [mem[p] EXCEPT !.seen = x, !.left = y, !.rows = z]
          \/ \E x : mem'[p] = [mem[p] EXCEPT !.none = x]
          \/ \E x, y : mem'[p] = [mem[p] EXCEPT !.left = x, !.rows = y]
      <4>1. CASE Replay(p)
        BY <1>1, <4>1 DEF Replay
      <4>2. CASE ReadIds(p)
        BY <1>1, <4>2 DEF ReadIds
      <4>3. CASE ReadDirectory(p)
        BY <1>1, <4>3 DEF ReadDirectory
      <4>4. CASE ListArchive(p)
        BY <1>1, <4>4 DEF ListArchive
      <4>5. CASE Scan(p)
        <5>1. PICK t \in mem[p].left : mem' = [mem EXCEPT
                     ![p].left = @ \ {t},
                     ![p].rows[t] = IF t \in Live THEN files[t].status ELSE Absent]
          BY <4>5 DEF Scan
        <5>2. mem'[p] = [mem[p] EXCEPT !.left = mem[p].left \ {t},
                 !.rows = [mem[p].rows EXCEPT ![t] = IF t \in Live THEN files[t].status ELSE Absent]]
          BY <1>1, <5>1 DEF Mem
        <5>. QED BY <5>2
      <4>. QED BY <2>1, <4>1, <4>2, <4>3, <4>4, <4>5
    <3>2. mem'[p].doc = mem[p].doc /\ mem'[p].found = mem[p].found /\ mem'[p].ses = mem[p].ses
      BY <1>1, <3>1 DEF Mem
    <3>3. cmd' = cmd
      BY <2>1 DEF Replay, ReadIds, ReadDirectory, ListArchive, Scan
    <3>4. pc'[p] \in Passing
      BY <1>2, <2>1 DEF Replay, ReadIds, ReadDirectory, AfterListing, ListArchive, Scan, Passing
    <3>. QED BY <3>2, <3>3, <3>4 DEF SameMemo
  <2>2. CASE Rebuild(p)
    BY <1>2, <1>4, <2>2 DEF Rebuild, Passing
  <2>3. CASE Answer(p)
    BY <1>3, <1>5, <2>3 DEF Answer
  <2>. QED BY <1>11, <2>1, <2>2, <2>3 DEF List
<1>12. CASE RecordFails(p) \/ WriteFails(p) \/ SaveFails(p)
  BY <1>2, <1>4, <1>12 DEF RecordFails, WriteFails, SaveFails, Passing
<1>13. CASE DirectoryFails(p)
  <2>1. CASE End(p, "failed")
    BY <1>3, <1>5, <2>1
  <2>2. CASE mem' = [mem EXCEPT ![p].blind = TRUE] /\ cmd' = cmd
    <3>1. mem'[p].doc = mem[p].doc /\ mem'[p].found = mem[p].found /\ mem'[p].ses = mem[p].ses
      BY <1>1, <2>2 DEF Mem
    <3>2. pc'[p] \in {"archived", "answer", "failed"}
      BY <1>2, <1>13 DEF DirectoryFails, AfterListing, End
    <3>3. pc'[p] = "failed" => End(p, "failed")
      BY <1>2, <1>13 DEF DirectoryFails, AfterListing
    <3>. QED BY <1>3, <1>5, <2>2, <3>1, <3>2, <3>3 DEF SameMemo, Passing
  <2>. QED BY <1>13, <2>1, <2>2 DEF DirectoryFails
<1>14. CASE Crash(p)
  BY <1>3, <1>5, <1>14 DEF Crash
<1>. QED BY <1>6, <1>7, <1>8, <1>9, <1>10, <1>11, <1>12, <1>13, <1>14 DEF Step, Change, Fails

LEMMA Forgotten ==
    ASSUME TypeOK, NEW p \in Procs, Forgets(p), minted' = minted \/ minted' = minted + 1
    PROVE  Recalled(p)' /\ Linking(p)'
<1>1. /\ pc \in [Procs -> PCs] /\ mem \in [Procs -> Mem]
      /\ cmd \in [Procs -> Command \cup {NoCommand}]
  BY DEF TypeOK
<1>2. cmd'[p] = NoCommand /\ mem'[p] = NoMem /\ pc'[p] \in Over
  BY <1>1 DEF Forgets, End, Goto
<1>3. /\ mem'[p].ses = 0 /\ mem'[p].doc.linked = {} /\ mem'[p].doc.created = 0
      /\ mem'[p].found = {}
  BY <1>2 DEF NoMem, NoFile, NoSession
<1>4. Op(p)' = "none"
  BY <1>2 DEF Op, NoCommand
<1>5. 0 \in Numbers'
  BY NumbersGrow
<1>6. Recalled(p)'
  BY <1>3, <1>5 DEF Recalled
<1>7. "none" \notin Changes \cup Creates
  BY DEF Changes, Operations, Creates
<1>. QED BY <1>2, <1>3, <1>4, <1>6, <1>7 DEF Linking, Over, NoSession

LEMMA PassedOn ==
    ASSUME LInv, NEW p \in Procs, pc'[p] \in Passing, SameMemo(p),
           minted' = minted \/ minted' = minted + 1
    PROVE  Recalled(p)' /\ Linking(p)'
<1>1. TypeOK /\ Recalled(p) /\ Linking(p)
  BY DEF LInv, IInv
<1>2. Recalled(p)'
  BY <1>1, RecalledStays DEF SameMemo
<1>3. Op(p)' = Op(p) /\ mem'[p].ses = mem[p].ses
  BY DEF SameMemo, Op
<1>4. Op(p) = "edit" => mem[p].ses = NoSession
  BY <1>1 DEF Linking
<1>. QED BY <1>2, <1>3, <1>4 DEF Linking, Passing, Over

(* A session is remembered.                                                   *)
LEMMA Remembered ==
    ASSUME TypeOK, NEW p \in Procs, NEW s \in Nat, Remember(p, s)
    PROVE  /\ mem'[p].doc = mem[p].doc /\ mem'[p].found = mem[p].found /\ mem'[p].ses = s
<1>1. mem \in [Procs -> Mem] /\ mem[p] \in Mem
  BY DEF TypeOK
<1>2. PICK x : mem'[p] = [mem[p] EXCEPT !.ses = s, !.events = x]
  BY <1>1 DEF Remember
<1>. QED BY <1>1, <1>2 DEF Mem

LEMMA RecordLinks ==
    ASSUME LInv, TypeOK', NEW p \in Procs, Record(p)
    PROVE  Recalled(p)' /\ Linking(p)'
<1>1. /\ IInv /\ TypeOK /\ Labels /\ Counted /\ PinnedOnce /\ Recalled(p) /\ Linking(p)
      /\ pc \in [Procs -> PCs] /\ minted \in Nat
  BY DEF LInv, IInv, TypeOK
<1>. DEFINE t == Task(p)
            n == minted + 1
<1>2. Minting(p)
  BY DEF Record, Mint, Minting
<1>3. /\ pc[p] = "record" /\ minted' = n /\ dirs' = dirs \cup {n} /\ n \in Nat
      /\ files' = files /\ cmd' = cmd /\ pc'[p] = AfterRecord(p)
  BY <1>1, <1>2 DEF Record, Minting, Goto
<1>4. Remember(p, n)
  BY <1>3 DEF Record
<1>5. mem'[p].doc = mem[p].doc /\ mem'[p].found = mem[p].found /\ mem'[p].ses = n
  BY <1>1, <1>3, <1>4, Remembered
<1>6. pc[p] \notin Over \cup {"idle"}
  BY <1>3 DEF Over
<1>7. /\ t \in Tasks /\ Op(p) \in Operations \ {"list"} /\ Op(p) \notin {"edit", "attach"}
  BY <1>1, <1>3, <1>6, CommandIn DEF Labels, Linking
<1>8. Op(p)' = Op(p) /\ Task(p)' = t
  BY <1>3 DEF Op, Task
<1>9. Numbers \subseteq Numbers' /\ n \in Numbers' /\ n \notin Numbers
  BY <1>1, <1>3, NumbersGrow
<1>10. Recalled(p)'
  BY <1>1, <1>5, <1>9 DEF Recalled
<1>11. Op(p) # "delete" => PinsOf(pins', t) = Pinned(t) \cup {n}
  BY <1>1, <1>2, MintPins
<1>12. Pinned(t)' = PinsOf(pins', t) /\ PinnedTo(t)' = PinsOf(pins', t) \cap dirs'
  BY <1>8, <1>3 DEF Pinned, PinsOf, PinnedTo, TypeOK
<1>13. PinnedTo(t) = Pinned(t) \cap dirs /\ n \notin Pinned(t) /\ n \notin mem[p].found
  BY <1>1, <1>7, <1>9, PinnedThere DEF Counted, Recalled
<1>. HIDE DEF t, n
<1>14. CASE Op(p) = "create"
  <2>1. pc'[p] = "write" /\ Op(p) \in Creates /\ Op(p) \notin Changes
    BY <1>3, <1>14 DEF AfterRecord, Creates, Changes
  <2>2. Pinned(t) = {}
    BY <1>1, <1>3, <2>1 DEF Linking, t
  <2>. QED BY <1>5, <1>8, <1>10, <1>11, <1>12, <1>14, <2>1, <2>2 DEF Linking, Over, t
<1>15. CASE Op(p) \in {"reconcile", "refresh"}
  <2>1. pc'[p] = "probe" /\ Op(p) \notin Creates /\ Op(p) \in Changes
    BY <1>3, <1>15 DEF AfterRecord, Creates, Changes, Operations
  <2>2. files[t].linked = mem[p].doc.linked
    BY <1>1, <1>3, <2>1 DEF Linking, t
  <2>3. Op(p) = "reconcile" => mem[p].found \cap dirs' = {}
    BY <1>1, <1>3, <1>13 DEF Linking
  <2>4. Op(p) = "refresh" => PinsOf(pins', t) \cap dirs' \subseteq mem[p].found \cup {n}
    <3>1. Op(p) = "refresh" => PinnedTo(t) \subseteq mem[p].found
      BY <1>1, <1>3 DEF Linking, t
    <3>. QED BY <1>3, <1>11, <1>13, <1>15, <3>1
  <2>. QED BY <1>3, <1>5, <1>8, <1>10, <1>11, <1>12, <1>15, <2>1, <2>2, <2>3, <2>4
           DEF Linking, Over, t
<1>16. CASE Op(p) \in {"status", "archive"}
  <2>1. pc'[p] = "write" /\ Op(p) \notin Creates /\ Op(p) \in Changes
    BY <1>3, <1>16 DEF AfterRecord, Creates, Changes, Operations
  <2>2. files[t].linked = mem[p].doc.linked
    BY <1>1, <1>3, <2>1 DEF Linking, t
  <2>. QED BY <1>3, <1>5, <1>8, <1>10, <1>11, <1>12, <1>16, <2>1, <2>2 DEF Linking, Over, t
<1>17. CASE Op(p) = "delete"
  <2>1. pc'[p] = "move"
    BY <1>3, <1>17 DEF AfterRecord
  <2>. QED BY <1>5, <1>8, <1>10, <1>17, <2>1 DEF Linking, Over
<1>. QED BY <1>7, <1>14, <1>15, <1>16, <1>17 DEF Operations

LEMMA AttachedLinks ==
    ASSUME LInv, TypeOK', NEW p \in Procs,
           (RecordAttached(p) /\ pc'[p] # "throw") \/ (Attach(p) /\ ~End(p, "failed"))
    PROVE  Recalled(p)' /\ Linking(p)'
<1>1. /\ IInv /\ TypeOK /\ Labels /\ Counted /\ PinnedOnce /\ Recalled(p) /\ Linking(p)
      /\ pc \in [Procs -> PCs] /\ minted \in Nat
  BY DEF LInv, IInv, TypeOK
<1>2. UNCHANGED <<pins, dirs, minted, files, cmd>>
  BY DEF RecordAttached, Attach
<1>3. Numbers' = Numbers /\ Op(p)' = Op(p) /\ Task(p)' = Task(p) /\ Pinned(Task(p))' = Pinned(Task(p))
  BY <1>2 DEF Numbers, Op, Task, Pinned, PinsOf
<1>4. CASE RecordAttached(p) /\ pc'[p] # "throw"
  <2>1. pc[p] = "record" /\ Op(p) = "status"
    BY <1>4 DEF RecordAttached
  <2>2. PICK s \in RunningSessions \cap dirs :
          <<s, Task(p)>> \in pins /\ Remember(p, s) /\ Goto(p, AfterRecord(p))
    BY <1>1, <1>4 DEF RecordAttached, Goto
  <2>3. s \in Numbers /\ s \in Nat /\ s \in Pinned(Task(p))
    BY <1>1, <2>2, UnlinkedRuns DEF Counted, Pinned, PinsOf
  <2>4. mem'[p].doc = mem[p].doc /\ mem'[p].found = mem[p].found /\ mem'[p].ses = s
    BY <1>1, <2>2, <2>3, Remembered
  <2>5. pc'[p] = "write"
    BY <1>1, <2>1, <2>2 DEF Goto, AfterRecord
  <2>6. Recalled(p)'
    BY <1>1, <1>3, <2>3, <2>4 DEF Recalled
  <2>7. Op(p) \in Changes /\ Op(p) \notin Creates
    BY <2>1 DEF Changes, Creates, Operations
  <2>8. files[Task(p)].linked = mem[p].doc.linked
    BY <1>1, <2>1, <2>7 DEF Linking
  <2>. QED BY <1>2, <1>3, <2>1, <2>3, <2>4, <2>5, <2>6, <2>7, <2>8 DEF Linking, Over
<1>5. CASE Attach(p) /\ ~End(p, "failed")
  <2>1. /\ pc[p] = "lock" /\ Op(p) = "attach" /\ Remember(p, Unlinked)
        /\ Goto(p, AfterRecord(p)) /\ Unlinked \in Nat
    BY <1>5 DEF Attach, Unlinked
  <2>2. mem'[p].doc = mem[p].doc /\ mem'[p].found = mem[p].found /\ mem'[p].ses = Unlinked
    BY <1>1, <2>1, Remembered
  <2>3. pc'[p] = "link"
    BY <1>1, <2>1 DEF Goto, AfterRecord
  <2>4. Recalled(p)'
    BY <1>1, <1>3, <2>2 DEF Recalled, Counted
  <2>5. Op(p) \in Creates /\ Op(p) \notin Changes
    BY <2>1 DEF Changes, Creates
  <2>6. Pinned(Task(p)) = {}
    BY <1>1, <2>1, <2>5 DEF Linking
  <2>. QED BY <1>3, <2>1, <2>2, <2>3, <2>4, <2>5, <2>6 DEF Linking, Over
<1>. QED BY <1>4, <1>5

LEMMA StartLinks ==
    ASSUME LInv, NEW p \in Procs, Start(p)
    PROVE  Recalled(p)' /\ Linking(p)'
<1>1. /\ IInv /\ TypeOK /\ PinnedOnce /\ Recalled(p) /\ Linking(p)
      /\ pc \in [Procs -> PCs] /\ cmd \in [Procs -> Command \cup {NoCommand}]
  BY DEF LInv, IInv, TypeOK
<1>2. /\ pc[p] \in {"idle", "done", "failed"} /\ UNCHANGED <<pins, dirs, minted, files, mem, trail>>
  BY DEF Start, store
<1>3. mem[p].ses = NoSession
  BY <1>1, <1>2 DEF Linking, Over
<1>4. Recalled(p)'
  BY <1>1, <1>2, RecalledStays
<1>5. PICK c \in Commands :
        /\ c[1] \in Creates => trail[c[2]] = <<>>
        /\ \E to : cmd' = [cmd EXCEPT ![p] = [op |-> c[1], task |-> c[2], to |-> to]]
        /\ Goto(p, Begin(c[1]))
  BY DEF Start
<1>6. Op(p)' = c[1] /\ Task(p)' = c[2] /\ pc'[p] = Begin(c[1]) /\ c[1] \in Operations /\ c[2] \in Tasks
  BY <1>1, <1>5, CommandsKnown DEF Op, Task, Goto
<1>7. /\ pc'[p] \in {"record", "lock", "replay"} /\ (pc'[p] = "record" => c[1] = "create")
  BY <1>6 DEF Begin
<1>8. c[1] \in Creates => PinsOf(pins', c[2]) = {}
  BY <1>1, <1>2, <1>5, <1>6 DEF PinnedOnce, Pinned
<1>9. Pinned(Task(p))' = PinsOf(pins', c[2])
  BY <1>6 DEF Pinned
<1>10. "create" \notin Changes
  BY DEF Changes, Creates
<1>. QED BY <1>2, <1>3, <1>4, <1>6, <1>7, <1>8, <1>9, <1>10 DEF Linking

LEMMA ReadLinks ==
    ASSUME LInv, NEW p \in Procs, (Lock(p) /\ ~End(p, "failed")) \/ Read(p)
    PROVE  Recalled(p)' /\ Linking(p)'
<1>1. /\ IInv /\ TypeOK /\ Labels /\ Counted /\ Recalled(p) /\ Linking(p)
      /\ pc \in [Procs -> PCs] /\ mem \in [Procs -> Mem] /\ mem[p] \in Mem
  BY DEF LInv, IInv, TypeOK
<1>2. UNCHANGED <<pins, dirs, minted, files, cmd>>
  BY DEF Lock, Read, store
<1>3. Numbers' = Numbers /\ Op(p)' = Op(p) /\ Task(p)' = Task(p)
  BY <1>2 DEF Numbers, Op, Task
<1>4. CASE Lock(p) /\ ~End(p, "failed")
  <2>1. pc[p] = "lock" /\ pc'[p] = "read" /\ mem' = mem
    BY <1>1, <1>4 DEF Lock, Goto
  <2>2. mem[p].ses = NoSession
    BY <1>1, <2>1 DEF Linking
  <2>3. Recalled(p)'
    BY <1>1, <1>3, <2>1 DEF Recalled
  <2>. QED BY <1>3, <2>1, <2>2, <2>3 DEF Linking
<1>5. CASE Read(p)
  <2>1. pc[p] = "read" /\ pc[p] \notin Over \cup {"idle"}
    BY <1>5 DEF Read, Over
  <2>2. mem[p].ses = NoSession
    BY <1>1, <2>1 DEF Linking
  <2>3. Task(p) \in Tasks /\ Op(p) \in Changes
    BY <1>1, <2>1, CommandIn DEF Labels, Changes, Creates
  <2>4. CASE pc'[p] = "throw"
    <3>1. mem'[p].ses = NoSession
      BY <1>1, <1>5, <2>2 DEF Read, Mem
    <3>2. mem'[p].found = mem[p].found /\ mem'[p].doc \in {mem[p].doc, files[Task(p)]}
      BY <1>1, <1>5 DEF Read, Mem
    <3>3. Recalled(p)'
      BY <1>1, <1>3, <2>2, <2>3, <3>1, <3>2 DEF Recalled, Counted
    <3>. QED BY <1>3, <2>4, <3>1, <3>3 DEF Linking
  <2>5. CASE pc'[p] # "throw"
    <3>1. mem' = [mem EXCEPT ![p].doc = files[Task(p)]] /\ pc'[p] = AfterRead(p)
      BY <1>1, <1>5, <2>5 DEF Read, Goto
    <3>2. /\ mem'[p].ses = NoSession /\ mem'[p].found = mem[p].found
          /\ mem'[p].doc = files[Task(p)]
      BY <1>1, <2>2, <3>1 DEF Mem
    <3>3. Recalled(p)'
      BY <1>1, <1>3, <2>2, <2>3, <3>2 DEF Recalled, Counted, NoSession
    <3>4. /\ Op(p) = "edit" => AfterRead(p) = "write"
          /\ Op(p) \in {"reconcile", "refresh"} => AfterRead(p) = "look"
          /\ Op(p) \notin {"edit", "reconcile", "refresh"} => AfterRead(p) \in {"record", "throw"}
      BY DEF AfterRead
    <3>5. Op(p) \notin Creates
      BY <2>3 DEF Changes
    <3>. QED BY <1>2, <1>3, <2>5, <3>1, <3>2, <3>3, <3>4, <3>5 DEF Linking
  <2>. QED BY <2>4, <2>5
<1>. QED BY <1>4, <1>5

LEMMA LookLinks ==
    ASSUME LInv, TypeOK', NEW p \in Procs, Look(p)
    PROVE  Recalled(p)' /\ Linking(p)'
<1>1. /\ IInv /\ TypeOK /\ Labels /\ Counted /\ Recalled(p) /\ Linking(p)
      /\ pc \in [Procs -> PCs] /\ mem \in [Procs -> Mem] /\ mem[p] \in Mem
  BY DEF LInv, IInv, TypeOK
<1>2. pc[p] = "look" /\ UNCHANGED <<pins, dirs, minted, files, cmd>>
  BY DEF Look
<1>3. Numbers' = Numbers /\ Op(p)' = Op(p) /\ Task(p)' = Task(p) /\ PinnedTo(Task(p))' = PinnedTo(Task(p))
  BY <1>2 DEF Numbers, Op, Task, PinnedTo
<1>4. mem[p].ses = NoSession /\ Op(p) \in {"reconcile", "refresh"}
  BY <1>1, <1>2 DEF Linking, Labels
<1>5. CASE pc'[p] = "release" /\ mem' = mem
  <2>1. SameMemo(p) /\ pc'[p] \in Passing
    BY <1>2, <1>5 DEF SameMemo, Passing
  <2>. QED BY <1>2, <2>1, PassedOn
<1>6. CASE ~(pc'[p] = "release" /\ mem' = mem)
  <2>1. /\ pc'[p] = "record"
        /\ mem' = [mem EXCEPT ![p].found = IF Op(p) = "reconcile" THEN Broken(mem[p].doc)
                                          ELSE FinalLinked(Task(p), mem[p].doc)]
    BY <1>1, <1>6 DEF Look, Goto
  <2>2. /\ mem'[p].doc = mem[p].doc /\ mem'[p].ses = NoSession
        /\ mem'[p].found = IF Op(p) = "reconcile" THEN Broken(mem[p].doc)
                           ELSE FinalLinked(Task(p), mem[p].doc)
    BY <1>1, <1>4, <2>1 DEF Mem
  <2>3. Broken(mem[p].doc) \subseteq Numbers /\ Broken(mem[p].doc) \cap dirs = {}
    BY <1>1 DEF Broken, Recalled
  <2>4. PinnedTo(Task(p)) \subseteq FinalLinked(Task(p), mem[p].doc)
        /\ FinalLinked(Task(p), mem[p].doc) \subseteq Numbers
    BY <1>1 DEF FinalLinked, PinnedTo, Recalled, Counted
  <2>5. Recalled(p)'
    BY <1>1, <1>3, <1>4, <2>2, <2>3, <2>4 DEF Recalled
  <2>6. Op(p) \in Changes /\ Op(p) \notin Creates
    BY <1>4 DEF Changes, Creates, Operations
  <2>7. files[Task(p)].linked = mem[p].doc.linked
    BY <1>1, <1>2, <2>6 DEF Linking
  <2>. QED BY <1>2, <1>3, <1>4, <2>1, <2>2, <2>3, <2>4, <2>5, <2>6, <2>7 DEF Linking, Over
<1>. QED BY <1>5, <1>6

LEMMA LinkLinks ==
    ASSUME LInv, TypeOK', NEW p \in Procs, Link(p) \/ Second(p) \/ Probe(p)
    PROVE  Recalled(p)' /\ Linking(p)'
<1>1. /\ IInv /\ TypeOK /\ Labels /\ Counted /\ Recalled(p) /\ Linking(p)
      /\ pc \in [Procs -> PCs] /\ mem \in [Procs -> Mem] /\ mem[p] \in Mem
  BY DEF LInv, IInv, TypeOK
<1>2. UNCHANGED <<dirs, minted, files, cmd>>
  BY DEF Link, Second, Probe, store
<1>3. Numbers' = Numbers /\ Op(p)' = Op(p) /\ Task(p)' = Task(p)
  BY <1>2 DEF Numbers, Op, Task
<1>4. mem'[p].doc = mem[p].doc /\ mem'[p].found = mem[p].found /\ mem'[p].ses = mem[p].ses
  <2>1. CASE mem' = mem
    BY <2>1
  <2>2. ASSUME NEW x, mem' = [mem EXCEPT ![p].events = mem[p].events \cup x]
        PROVE  mem'[p].doc = mem[p].doc /\ mem'[p].found = mem[p].found /\ mem'[p].ses = mem[p].ses
    BY <1>1, <2>2 DEF Mem
  <2>. QED BY <1>1, <2>1, <2>2 DEF Link, Second, Probe
<1>5. Recalled(p)'
  BY <1>1, <1>3, <1>4 DEF Recalled
<1>6. pc[p] \notin Over \cup {"idle"}
  BY DEF Link, Second, Probe, Over
<1>7. Task(p) \in Tasks /\ Op(p) \in Operations \ {"list"}
  BY <1>1, <1>6, CommandIn DEF Labels, Link, Second, Probe
<1>8. CASE pc'[p] = "throw"
  BY <1>1, <1>2, <1>4, <1>8, PassedOn DEF Passing, SameMemo
<1>9. CASE Link(p) /\ pc'[p] # "throw"
  <2>1. /\ pc[p] = "link" /\ pins' = pins \cup {<<Unlinked, Task(p)>>}
        /\ pc'[p] \in {"second", "write"}
    BY <1>1, <1>9 DEF Link, Goto
  <2>2. Op(p) \in Creates /\ Op(p) \notin Changes
    BY <1>1, <1>7, <2>1 DEF Labels, Changes, Inside
  <2>3. mem[p].ses = Unlinked /\ Pinned(Task(p)) = {}
    BY <1>1, <2>1, <2>2 DEF Linking
  <2>4. PinsOf(pins', Task(p)) = {Unlinked}
    <3>1. Linked(p)
      BY <1>9, <2>1 DEF Link, Linked
    <3>. QED BY <2>3, <3>1, LinkPins
  <2>5. Pinned(Task(p))' = PinsOf(pins', Task(p))
    BY <1>3 DEF Pinned
  <2>6. Op(p) \notin {"edit", "reconcile", "refresh"}
    BY <2>2 DEF Creates
  <2>. QED BY <1>3, <1>4, <1>5, <2>1, <2>2, <2>3, <2>4, <2>5, <2>6 DEF Linking, Over
<1>10. CASE Second(p) /\ pc'[p] # "throw"
  <2>1. pc[p] = "second" /\ pins' = pins /\ pc'[p] = "write"
    BY <1>1, <1>10 DEF Second, Goto
  <2>2. Op(p) \in Creates /\ Op(p) \notin Changes
    BY <1>1, <1>7, <2>1 DEF Labels, Changes, Inside
  <2>3. Pinned(Task(p)) = {mem[p].ses}
    BY <1>1, <2>1, <2>2 DEF Linking
  <2>4. Pinned(Task(p))' = Pinned(Task(p))
    BY <1>3, <2>1 DEF Pinned
  <2>5. Op(p) \notin {"edit", "reconcile", "refresh"}
    BY <2>2 DEF Creates
  <2>. QED BY <1>3, <1>4, <1>5, <2>1, <2>2, <2>3, <2>4, <2>5 DEF Linking, Over
<1>11. CASE Probe(p) /\ pc'[p] # "throw"
  <2>1. pc[p] = "probe" /\ pins' = pins /\ pc'[p] = "write"
    BY <1>1, <1>11 DEF Probe, Goto, store
  <2>2. Op(p) \in {"reconcile", "refresh"}
    BY <1>1, <2>1 DEF Labels
  <2>3. Op(p) \in Changes /\ Op(p) \notin Creates
    BY <2>2 DEF Changes, Creates, Operations
  <2>4. /\ Pinned(Task(p))' = Pinned(Task(p)) /\ PinnedTo(Task(p))' = PinnedTo(Task(p))
    BY <1>2, <1>3, <2>1 DEF Pinned, PinnedTo
  <2>. QED BY <1>1, <1>2, <1>3, <1>4, <1>5, <2>1, <2>2, <2>3, <2>4 DEF Linking, Over
<1>. QED BY <1>8, <1>9, <1>10, <1>11

LEMMA OwnLinks ==
    ASSUME LInv, TypeOK', NEW p \in Procs, Start(p) \/ Step(p) \/ Fails(p)
    PROVE  Recalled(p)' /\ Linking(p)'
<1>1. IInv /\ TypeOK /\ pc \in [Procs -> PCs]
  BY DEF LInv, IInv, TypeOK
<1>2. minted' = minted \/ minted' = minted + 1
  BY Marking DEF Minting, Linked, Look, Write
<1>3. \A label \in Over : End(p, label) => Forgets(p)
  BY DEF Forgets
<1>4. "failed" \in Over
  BY DEF Over
<1>5. CASE Forgets(p)
  BY <1>1, <1>2, <1>5, Forgotten
<1>6. CASE pc'[p] \in Passing /\ SameMemo(p)
  BY <1>2, <1>6, PassedOn
<1>7. CASE RecordAttached(p) /\ pc'[p] = "throw"
  <2>1. SameMemo(p)
    <3>1. ~Goto(p, AfterRecord(p))
      <4>1. AfterRecord(p) # "throw"
        BY DEF AfterRecord
      <4>. QED BY <1>1, <1>7, <4>1 DEF Goto
    <3>. QED BY <1>7, <3>1 DEF RecordAttached, SameMemo
  <2>. QED BY <1>2, <1>7, <2>1, PassedOn DEF Passing
<1>. QED BY <1>1, <1>3, <1>4, <1>5, <1>6, <1>7, Passes, StartLinks, ReadLinks, LookLinks,
            RecordLinks, AttachedLinks, LinkLinks

LEMMA InitLInv == Init => LInv
<1>. SUFFICES ASSUME Init PROVE LInv
  OBVIOUS
<1>1. IInv
  BY InitInv
<1>. DEFINE n == Cardinality(Existing)
<1>2. /\ n \in Nat /\ minted = n + 1 /\ pins = {<<Numbering[t], t>> : t \in Existing}
      /\ told = RunningSessions \ {Unlinked} /\ dirs \in {RunningSessions, {Unlinked}}
  BY Numbered DEF Init
<1>3. /\ RunningSessions \subseteq Numbers \ {NoSession} /\ 0 \in Numbers /\ Unlinked \in RunningSessions
      /\ RunningSessions \subseteq Nat
  BY <1>2 DEF RunningSessions, Numbers, NoSession, Unlinked
<1>4. \A t \in Existing : Numbering[t] \in RunningSessions \ {Unlinked}
  BY Numbered
<1>5. ASSUME NEW t \in Tasks
      PROVE  Pinned(t) = IF t \in Existing THEN {Numbering[t]} ELSE {}
  BY <1>2, <1>3, <1>4 DEF Pinned, PinsOf
<1>6. ASSUME NEW t \in Tasks
      PROVE  /\ files[t].linked = Pinned(t)
             /\ files[t].created \in RunningSessions \cup {NoSession}
             /\ trail[t] = <<>> => t \notin Existing
  <2>1. CASE t \in Existing
    <3>1. /\ files[t].linked = {Numbering[t]} /\ files[t].created = Numbering[t]
          /\ trail[t] = <<[from |-> "none", to |-> "planned", ses |-> Numbering[t]]>>
      BY <2>1 DEF Init
    <3>. QED BY <2>1, <3>1, <1>4, <1>5
  <2>2. CASE t \notin Existing
    <3>1. files[t] = NoFile
      BY <2>2 DEF Init
    <3>. QED BY <2>2, <3>1, <1>5, NoLinks DEF NoSession
  <2>. QED BY <2>1, <2>2
<1>7. Counted
  <2>1. told \subseteq Numbers /\ dirs \subseteq Numbers \ {NoSession} /\ Unlinked \in Numbers
    BY <1>2, <1>3
  <2>2. ASSUME NEW t \in Tasks
        PROVE  /\ Pinned(t) \subseteq Numbers \ {NoSession}
               /\ files[t].linked \subseteq Numbers /\ files[t].created \in Numbers
    <3>1. Pinned(t) \subseteq RunningSessions
      BY <1>4, <1>5
    <3>2. Pinned(t) \subseteq Numbers \ {NoSession} /\ Pinned(t) \subseteq Numbers
      BY <3>1, <1>3
    <3>3. files[t].created \in Numbers
      BY <1>3, <1>6 DEF NoSession
    <3>. QED BY <3>2, <3>3, <1>6
  <2>. QED BY <2>1, <2>2 DEF Counted
<1>8. PinnedOnce
  <2>1. ASSUME NEW t \in Tasks, trail[t] = <<>> PROVE Pinned(t) = {}
    BY <2>1, <1>5, <1>6
  <2>2. ASSUME NEW t \in Tasks, NEW u \in Tasks, t # u PROVE Pinned(t) \cap Pinned(u) = {}
    BY <2>2, <1>5, Numbered
  <2>. QED BY <2>1, <2>2 DEF PinnedOnce
<1>9. \A p \in Procs : pc[p] = "idle" /\ cmd[p] = NoCommand /\ mem[p] = NoMem
  BY DEF Init
<1>10. LinkedAlone
  BY <1>9 DEF LinkedAlone
<1>11. LinksComplete
  <2>1. \A t \in Tasks : PinnedTo(t) \subseteq files[t].linked
    BY <1>1, <1>6, PinnedThere DEF IInv
  <2>. QED BY <2>1 DEF LinksComplete
<1>12. ASSUME NEW p \in Procs PROVE Recalled(p) /\ Linking(p)
  <2>1. /\ mem[p].ses = 0 /\ mem[p].doc.linked = {} /\ mem[p].doc.created = 0
        /\ mem[p].found = {}
    BY <1>9, NoLinks DEF NoMem, NoSession
  <2>2. Op(p) = "none" /\ pc[p] = "idle"
    BY <1>9 DEF Op, NoCommand
  <2>3. Recalled(p)
    BY <2>1, <1>3 DEF Recalled
  <2>4. Linking(p)
    BY <2>1, <2>2 DEF Linking, NoSession, Changes, Creates, Over
  <2>. QED BY <2>3, <2>4
<1>. QED BY <1>1, <1>7, <1>8, <1>10, <1>11, <1>12 DEF LInv

LEMMA NextLInv == LInv /\ [Next]_vars => LInv'
<1>. SUFFICES ASSUME LInv, [Next]_vars PROVE LInv'
  OBVIOUS
<1>1. IInv /\ TypeOK /\ \A q \in Procs : Recalled(q)
  BY DEF LInv, IInv
<1>2. IInv' /\ TypeOK'
  BY <1>1, NextInv DEF IInv
<1>3. Counted' /\ PinnedOnce' /\ LinkedAlone' /\ LinksComplete'
  BY CountedNext, PinnedOnceNext, LinkedAloneNext, LinksCompleteNext
<1>. DEFINE Goal == \A q \in Procs : Recalled(q)' /\ Linking(q)'
<1>4. ASSUME UNCHANGED <<pins, minted, pc, cmd>>, dirs' \subseteq dirs,
             \A t \in Tasks : files'[t].linked = files[t].linked,
             \A q \in Procs : /\ mem'[q].doc = mem[q].doc /\ mem'[q].found = mem[q].found
                              /\ mem'[q].ses = mem[q].ses
      PROVE  Goal
  <2>. SUFFICES ASSUME NEW q \in Procs PROVE Recalled(q)' /\ Linking(q)'
    OBVIOUS
  <2>1. Recalled(q)'
    BY <1>1, <1>4, RecalledStays
  <2>2. Relies(q) => /\ PinsOf(pins', Task(q)) = Pinned(Task(q))
                     /\ files'[Task(q)].linked = files[Task(q)].linked
    <3>. SUFFICES ASSUME Relies(q) PROVE Task(q) \in Tasks
      BY <1>4 DEF Pinned
    <3>1. pc[q] \notin Over \cup {"idle"}
      BY DEF Relies, Over
    <3>. QED BY <1>1, <3>1, CommandIn DEF IInv
  <2>3. Linking(q)'
    BY <1>2, <1>4, <2>2, LinkingStays
  <2>. QED BY <2>1, <2>3
<1>5. ASSUME NEW p \in Procs, Start(p) \/ Step(p) \/ Fails(p) PROVE Goal
  BY <1>2, <1>5, OwnLinks, OthersLink
<1>6. ASSUME NEW t \in Tasks, EditByHand(t) PROVE Goal
  <2>1. /\ files \in [Tasks -> File] /\ files[t] \in File /\ \A q \in Procs : mem[q] \in Mem
    BY <1>1 DEF TypeOK
  <2>2. UNCHANGED <<pins, minted, pc, cmd, dirs>>
    BY <1>6 DEF EditByHand
  <2>3. \A q \in Procs : /\ mem'[q].doc = mem[q].doc /\ mem'[q].found = mem[q].found
                         /\ mem'[q].ses = mem[q].ses
    BY <1>6, <2>1 DEF EditByHand, Mem
  <2>4. \A u \in Tasks : files'[u].linked = files[u].linked
    BY <1>6, <2>1 DEF EditByHand, File
  <2>. QED BY <1>4, <2>2, <2>3, <2>4
<1>7. ASSUME LoseIndex PROVE Goal
  BY <1>4, <1>7 DEF LoseIndex
<1>8. ASSUME NEW s \in dirs \cup damaged, RemoveSession(s) \/ DamageSession(s) PROVE Goal
  BY <1>4, <1>8 DEF RemoveSession, DamageSession
<1>9. ASSUME UNCHANGED vars PROVE Goal
  BY <1>4, <1>9 DEF vars, store
<1>. HIDE DEF Goal
<1>10. Goal
  BY <1>5, <1>6, <1>7, <1>8, <1>9 DEF Next
<1>. QED BY <1>2, <1>3, <1>10 DEF LInv, Goal

(* However task commands interleave with one another, with removed sessions   *)
(* and with edits by hand, a task file names every session there still is of  *)
(* the task whose command changed the file, and every one a refresh looked    *)
(* at: what a command writes back (refreshTaskLinkage, createTaskAttach)      *)
(* drops none that was linked between its read and its write.                 *)
THEOREM LinksHold == Spec => []LinksComplete
<1>1. LInv => LinksComplete
  BY DEF LInv
<1>. QED BY <1>1, InitLInv, NextLInv, PTL DEF Spec
=============================================================================
