----------------------------- MODULE ChainTamper ----------------------------
(* A recorded session whose files are edited by hand, as verify sees it.  The *)
(* log starts as chainEvents wrote it; every step is one out-of-band edit of  *)
(* events.jsonl or session.yaml.                                              *)
EXTENDS Naturals, Sequences, SequencesExt

CONSTANTS
    Texts,      \* what the JSON of a line may say
    MaxLines,   \* longest recorded log
    MaxEdits    \* bound on edits in a behaviour

ASSUME MaxLinesPositive == MaxLines \in Nat \ {0}
ASSUME MaxEditsNat == MaxEdits \in Nat

(* A hash is the tuple of what it covers: injective, as sha-256 is taken to   *)
(* be.                                                                        *)
NoHash == <<>>
NoAnchor == [head |-> NoHash, count |-> 0]
Genesis(sid) == <<sid>>
LineHash(l) == <<l.text, l.sid, l.prev>>

Chain == INSTANCE ChainLog

(* What a line says is neither blank nor malformed.                           *)
ASSUME TextsParse == Texts \cap {Chain!Blank, Chain!Malformed} = {}

(* The session verified, and another session of the same store.               *)
Sid == "ses_a"
OtherSid == "ses_b"

(* chainEvents: thread prev_hash through the events of a session.             *)
ChainEvents(texts, sid) ==
    LET prev[i \in 1 .. Len(texts)] ==
            IF i = 1 THEN Genesis(sid)
            ELSE <<texts[i - 1], sid, prev[i - 1]>>
    IN  [i \in 1 .. Len(texts) |->
            [text |-> texts[i], sid |-> sid, prev |-> prev[i]]]

(* Recompute the hashes from line i on, as an editor that hides a change      *)
(* would.                                                                     *)
Rehashed(lines, i) ==
    LET prev[k \in 1 .. Len(lines)] ==
            IF k < i THEN lines[k].prev
            ELSE IF k = 1 THEN Genesis(Sid)
            ELSE <<lines[k - 1].text, lines[k - 1].sid, prev[k - 1]>>
    IN  [k \in 1 .. Len(lines) |-> [lines[k] EXCEPT !.prev = prev[k]]]

VARIABLES
    log,        \* events.jsonl
    anchor,     \* what verify reads of session.yaml
    original,   \* ghost: both files as recorded
    edits       \* ghost: the files edited, in order

tamperVars == <<log, anchor, original, edits>>

Recorded(texts, status) ==
    LET lines == ChainEvents(texts, Sid) IN
    [log |-> [lines |-> lines, frag |-> "none"],
     anchor |->
        [kind |-> "present", status |-> status, newer |-> FALSE,
         integrity |-> IF status = "running" THEN NoAnchor
                       ELSE Chain!Anchor(lines, Sid)]]

TamperInit ==
    \E n \in 1 .. MaxLines :
    \E texts \in [1 .. n -> Texts], status \in {"running", "completed"} :
        /\ original = Recorded(texts, status)
        /\ log = original.log
        /\ anchor = original.anchor
        /\ edits = <<>>

-----------------------------------------------------------------------------
Edit(file) ==
    /\ Len(edits) < MaxEdits
    /\ edits' = Append(edits, file)
    /\ UNCHANGED original

SetLines(lines) ==
    /\ log' = [log EXCEPT !.lines = lines]
    /\ UNCHANGED anchor

ChangeLine ==
    /\ Edit("events")
    /\ \E i \in DOMAIN log.lines :
        \/ \E t \in Texts \cup {Chain!Blank, Chain!Malformed} :
              SetLines([log.lines EXCEPT ![i].text = t])
        \/ SetLines([log.lines EXCEPT ![i].sid = OtherSid])
        \/ SetLines([log.lines EXCEPT ![i].prev = NoHash])

DropLine ==
    /\ Edit("events")
    /\ \E i \in DOMAIN log.lines : SetLines(RemoveAt(log.lines, i))

CopyLine ==
    /\ Edit("events")
    /\ Len(log.lines) < MaxLines + 1
    /\ \E i, k \in DOMAIN log.lines : SetLines(InsertAt(log.lines, k, log.lines[i]))

(* The log of another session in place of this one's.                         *)
SwapSession ==
    /\ Edit("events")
    /\ SetLines(ChainEvents([i \in DOMAIN log.lines |-> log.lines[i].text], OtherSid))

StripChain ==
    /\ Edit("events")
    /\ SetLines([i \in DOMAIN log.lines |-> [log.lines[i] EXCEPT !.prev = NoHash]])

Rehash ==
    /\ Edit("events")
    /\ \E i \in DOMAIN log.lines : SetLines(Rehashed(log.lines, i))

(* The final newline is lost, and perhaps some of the last line with it.      *)
TearTail ==
    /\ Edit("events")
    /\ log.lines # <<>>
    /\ log.frag = "none"
    /\ \E f \in {"plain", "chained"} : log' = [lines |-> Front(log.lines), frag |-> f]
    /\ UNCHANGED anchor

EditYaml ==
    /\ Edit("yaml")
    /\ \/ anchor' = [anchor EXCEPT !.integrity = NoAnchor]
       \/ anchor' = [anchor EXCEPT !.integrity = Chain!Anchor(log.lines, Sid)]
       \/ anchor' = [anchor EXCEPT !.kind = "absent", !.integrity = NoAnchor]
       \/ anchor' = [anchor EXCEPT !.kind = "unreadable"]
       \/ \E s \in {"running", "failed"} : anchor' = [anchor EXCEPT !.status = s]
       \/ anchor' = [anchor EXCEPT !.newer = TRUE]
    /\ UNCHANGED log

TamperNext ==
    \/ ChangeLine \/ DropLine \/ CopyLine \/ SwapSession \/ StripChain
    \/ Rehash \/ TearTail \/ EditYaml

TamperSpec == TamperInit /\ [][TamperNext]_tamperVars

-----------------------------------------------------------------------------
verdict == Chain!VerifyOnce(log, anchor, Sid)

EditedOnly(file) == edits # <<>> /\ \A k \in DOMAIN edits : edits[k] = file

AtRest == original.anchor.status = "completed"

TamperTypeOK ==
    /\ log.frag \in Chain!Fragments
    /\ \A i \in DOMAIN log.lines :
        /\ log.lines[i].text \in Texts \cup {Chain!Blank, Chain!Malformed}
        /\ log.lines[i].sid \in {Sid, OtherSid}
    /\ anchor.kind \in {"absent", "unreadable", "present"}
    /\ Len(edits) <= MaxEdits

(* Whatever is done to events.jsonl alone, rewriting hashes included, an      *)
(* at-rest session that no longer has its recorded log is tampered; with its  *)
(* recorded log it is verified.  A live session's log is checked up to its    *)
(* tail: with one edit, in_progress means every line but the last is as       *)
(* recorded, or the tail was cut.                                             *)
EventsEditDetected ==
    /\ AtRest /\ EditedOnly("events") =>
        verdict.status = IF log = original.log THEN "verified" ELSE "tampered"
    /\ ~AtRest /\ edits = <<"events">> /\ verdict.status = "in_progress" =>
        \A i \in DOMAIN log.lines :
            i < Len(log.lines) => log.lines[i] = original.log.lines[i]

(* session.yaml alone cannot make a recorded log pass for one that was never  *)
(* chained, and only the recorded anchor verifies it.                         *)
YamlEditDetected ==
    AtRest /\ EditedOnly("yaml") =>
        /\ verdict.status \notin {"unchained", "empty"}
        /\ verdict.status = "verified" =>
              anchor.integrity = original.anchor.integrity

(* One file edited, in whatever steps, does not pass for the recorded session.*)
EditsDetected == EventsEditDetected /\ YamlEditDetected

(* The line number reported for one edit is the first line that differs, or   *)
(* the one after it.                                                          *)
BreakIsLocalised ==
    Len(edits) = 1 /\ verdict.line # 0 =>
        LET lines == log.lines
            recorded == original.log.lines
            same(i) == /\ i \in DOMAIN lines /\ i \in DOMAIN recorded
                       /\ lines[i] = recorded[i]
        IN  /\ \A i \in 1 .. verdict.line - 2 : same(i)
            /\ \E i \in {verdict.line - 1, verdict.line} : i > 0 /\ ~same(i)
=============================================================================
