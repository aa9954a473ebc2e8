------------------------------ MODULE ChainLog ------------------------------
(* The hash chain of an events.jsonl and the judgement verify passes on it:   *)
(* packages/core/src/events/chain.ts and verify.ts.                           *)
(*                                                                            *)
(* A log is [lines, frag]: its newline-terminated lines and what follows the  *)
(* last newline.  A line is a record with at least                            *)
(*   text   Blank, Malformed, or what the JSON says besides prev_hash         *)
(*   sid    the session_id it carries                                         *)
(*   prev   the prev_hash it carries: NoHash (none) or a hash                 *)
(* An anchor is what verify reads of session.yaml:                            *)
(*   kind       absent, unreadable, unsupported or present                    *)
(*   integrity  NoAnchor, or the head and count session.yaml records          *)
(*   status     the session status                                            *)
(*   newer      written by a 0.x.y above the one this basou writes            *)
EXTENDS Naturals, Sequences, FiniteSetsExt

CONSTANTS
    LineHash(_),   \* sha-256 of a line's bytes
    Genesis(_),    \* sha-256 binding the first line to its session id
    NoHash,        \* no prev_hash member
    NoAnchor       \* no integrity member in session.yaml

Blank == "blank"
Malformed == "malformed"

(* What follows the last newline: nothing, or a fragment that parses to an    *)
(* object with a prev_hash, or any other fragment.                            *)
Fragments == {"none", "chained", "plain"}

LiveStatuses == {"initialized", "running", "waiting_approval"}
FinalStatuses == {"completed", "failed", "interrupted"}
AtRestStatuses == FinalStatuses \cup {"imported", "archived"}

Carries(l) == l.text \notin {Blank, Malformed} /\ l.prev # NoHash

(* The prev_hash line i of lines must carry.                                  *)
Expected(lines, i, sid) ==
    IF i = 1 THEN Genesis(sid) ELSE LineHash(lines[i - 1])

(* The hash the next line carries, and the one an anchor records.             *)
HeadHash(lines, sid) == Expected(lines, Len(lines) + 1, sid)

Anchor(lines, sid) == [head |-> HeadHash(lines, sid), count |-> Len(lines)]

(* Every line carries the hash of the one before it.                          *)
Linked(lines, sid) ==
    \A i \in DOMAIN lines : lines[i].prev = Expected(lines, i, sid)

-----------------------------------------------------------------------------
(* The check of one complete line against the lines before it: the fault, if  *)
(* any, in the order the walk looks for them (a line can have several, so     *)
(* this is a chain of IFs: the guards of a CASE would have to exclude each    *)
(* other).                                                                    *)
LineFault(lines, i, sid) ==
    LET l == lines[i] IN
    IF l.text = Blank THEN "blank_line"
    ELSE IF l.text = Malformed THEN "malformed_line"
    ELSE IF l.prev = NoHash THEN "missing_prev_hash"
    ELSE IF l.prev # Expected(lines, i, sid)
    THEN IF i = 1 THEN "genesis_mismatch" ELSE "broken_link"
    ELSE IF l.sid # sid THEN "session_id_mismatch"
    ELSE "none"

Faulty(lines, sid) ==
    {i \in DOMAIN lines : LineFault(lines, i, sid) # "none"}

Verdict(status, reason, line) ==
    [status |-> status, reason |-> reason, line |-> line]

Plain(status) == Verdict(status, "none", 0)
Tampered(reason) == Verdict("tampered", reason, 0)

(* Mutant: a session at rest may do without its anchor.                       *)
JudgeAnchorOptional(lines, anchor, sid) ==
    IF anchor.kind = "absent" THEN Verdict("incomplete", "yaml_missing", 0)
    ELSE IF anchor.kind = "unreadable" THEN Tampered("yaml_unreadable")
    ELSE IF anchor.status \in LiveStatuses THEN Plain("in_progress")
    ELSE IF anchor.integrity \notin {NoAnchor, Anchor(lines, sid)}
    THEN Tampered("anchor_mismatch")
    ELSE Plain("verified")

(* The anchor of a log whose lines link up.                                   *)
JudgeAnchor(lines, anchor, sid) ==
    IF anchor.kind = "absent" THEN Verdict("incomplete", "yaml_missing", 0)
    ELSE IF anchor.kind = "unreadable" THEN Tampered("yaml_unreadable")
    ELSE IF anchor.status \in LiveStatuses THEN Plain("in_progress")
    ELSE IF anchor.integrity = NoAnchor THEN Tampered("anchor_missing")
    ELSE IF anchor.integrity # Anchor(lines, sid) THEN Tampered("anchor_mismatch")
    ELSE Plain("verified")

(* A log no line of which carries prev_hash.                                  *)
JudgeUnchained(log, anchor) ==
    IF anchor.integrity # NoAnchor THEN Tampered("anchor_without_chain")
    ELSE IF log.lines = <<>> /\ log.frag = "none" THEN Plain("empty")
    ELSE Plain("unchained")

Chained(log) ==
    \/ \E i \in DOMAIN log.lines : Carries(log.lines[i])
    \/ log.frag = "chained"

(* Mutant: the last fault is reported, not the first.                         *)
JudgeChainedLast(log, anchor, sid) ==
    LET faulty == Faulty(log.lines, sid) IN
    IF faulty # {}
    THEN Verdict("tampered", LineFault(log.lines, Max(faulty), sid), Max(faulty))
    ELSE JudgeAnchor(log.lines, anchor, sid)

JudgeChained(log, anchor, sid) ==
    LET faulty == Faulty(log.lines, sid)
        first == Min(faulty)
        live == anchor.kind = "present" /\ anchor.status \in LiveStatuses
    IN
    IF faulty # {}
    THEN Verdict("tampered", LineFault(log.lines, first, sid), first)
    ELSE IF log.frag # "none"
    THEN IF live THEN Plain("in_progress")
         ELSE Verdict("tampered", "torn_tail", Len(log.lines) + 1)
    ELSE JudgeAnchor(log.lines, anchor, sid)

JudgeChain(log, anchor, sid) ==
    IF anchor.kind = "unsupported" THEN Plain("unsupported")
    ELSE IF Chained(log) THEN JudgeChained(log, anchor, sid)
    ELSE JudgeUnchained(log, anchor)

(* A tampered result under a newer 0.x.y may be that version's rules.         *)
WithAnchorState(judged, anchor) ==
    IF anchor.newer /\ anchor.kind \in {"present", "unreadable"}
         /\ judged.status = "tampered"
    THEN Plain("unsupported")
    ELSE judged

VerifyOnce(log, anchor, sid) ==
    WithAnchorState(JudgeChain(log, anchor, sid), anchor)
=============================================================================
