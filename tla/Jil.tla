---------------------------------- MODULE Jil ----------------------------------
(***************************************************************************)
(* rsched-jil: the lines of a document to blocks (parse), a block to a job *)
(* (into_job). A line, its comments stripped, has one of these kinds:      *)
(*   "blank"                                                               *)
(*   "verb"   `insert_job: n a: v ..` (or update, delete): [verb, name,    *)
(*            attrs], the attributes of the rest of the line               *)
(*   "attr"   any other `key: value`: [key, value, ok]; `ok`: the value    *)
(*            reads as what the attribute takes                            *)
(*   "stray"  begins like a verb and is none: `insert_job n` or            *)
(*            `insert_jobs: n`; left out: one whose key ends in _job, as   *)
(*            `insert_job_x_job: n`, an error of the document              *)
(*   "text"   has no colon                                                 *)
(***************************************************************************)
EXTENDS Naturals, Sequences, SequencesExt, FiniteSets

CONSTANTS
    Absent,       \* an attribute that was not given
    TimeKind(_)   \* the first of the start times: "good", "range" (25:00), "garbled"

LooksLikeVerb(key) == key \in {"kill_job", "insert_box_job"}     \* ends with _job

(* Attributes whose values apply_attr_to_spec checks. *)
Checked == {"job_type", "alarm_if_fail", "box_terminator", "job_terminator", "auto_hold",
            "n_retrys", "n_retries", "term_run_time", "max_exit_success", "condition_code"}

NoDocument == [error |-> TRUE, blocks |-> <<>>]

AddAttr(blocks, a) ==
    [blocks EXCEPT ![Len(blocks)].attrs = Append(@, [key |-> a.key, value |-> a.value, ok |-> a.ok])]

BlankCloses(line) == line.kind \in {"stray", "blank"}   \* fault: as gather_attrs's comment has it

(* What ends the attributes of a block; a blank line does not. *)
Closes(line) == line.kind = "stray"

(* One line; `open` among the attributes of an insert or an update. *)
ReadLine(s, line) ==
    IF s.error THEN s
    ELSE IF Closes(line) THEN [s EXCEPT !.open = FALSE]
    ELSE CASE line.kind = "verb" ->
                [s EXCEPT !.open = line.verb # "delete",
                          !.blocks = Append(@, [verb |-> line.verb, name |-> line.name,
                                                attrs |-> IF line.verb = "delete" THEN <<>> ELSE line.attrs])]
           [] line.kind = "attr" ->
                IF s.open THEN [s EXCEPT !.blocks = AddAttr(@, line)]
                ELSE [s EXCEPT !.error = LooksLikeVerb(line.key)]
           [] OTHER -> s

BadValue(block) ==
    block.verb = "insert" /\ \E i \in DOMAIN block.attrs :
        block.attrs[i].key \in Checked /\ ~ block.attrs[i].ok

Unread == [error |-> FALSE, open |-> FALSE, blocks |-> <<>>]

(* After the first n lines. *)
ReadLines(lines) ==
    LET read[n \in 0 .. Len(lines)] == IF n = 0 THEN Unread ELSE ReadLine(read[n - 1], lines[n])
    IN  read

ParseJil(lines) ==
    LET end == ReadLines(lines)[Len(lines)]
    IN  IF end.error \/ \E i \in DOMAIN end.blocks : BadValue(end.blocks[i]) THEN NoDocument
        ELSE [error |-> FALSE, blocks |-> end.blocks]

-----------------------------------------------------------------------------
(* into_job. *)

(* The last value given for one of the keys. *)
Given(attrs, keys) ==
    LET at == {i \in DOMAIN attrs : attrs[i].key \in keys}
    IN  IF at = {} THEN Absent ELSE attrs[CHOOSE i \in at : \A k \in at : k <= i].value

JobType(attrs) == LET t == Given(attrs, {"job_type"}) IN IF t = Absent THEN "c" ELSE t

(* Without a readable time, a schedule is dropped with a warning only. *)
BuildTrigger(attrs) ==
    LET days  == Given(attrs, {"days_of_week"})
        times == Given(attrs, {"start_times"})
        cron  == days # Absent /\ times # Absent /\ TimeKind(times) # "garbled"
    IN  IF cron THEN IF TimeKind(times) = "good" THEN "cron" ELSE "badcron"
        ELSE IF JobType(attrs) = "fw" /\ Given(attrs, {"command"}) # Absent THEN "file"
        ELSE "manual"

(* The entries of `resources` are [res, units], units 0 for what is no number   *)
(* above 0.                                                                     *)
ParseClaims(attrs) ==
    LET entries == Given(attrs, {"resources"})
    IN  IF entries = Absent THEN <<>> ELSE SelectSeq(entries, LAMBDA e : e.units > 0)

Retries(attrs) == LET n == Given(attrs, {"n_retrys", "n_retries"}) IN IF n = Absent THEN 0 ELSE n

(* Job::validate, of what JobBuilder has got: a command, which a box is given,  *)
(* and a number of attempts. The name is a good one; claims are set later.     *)
ValidJob(attrs) ==
    /\ JobType(attrs) = "box" \/ Given(attrs, {"command"}) \notin {Absent, ""}
    /\ Retries(attrs) + 1 <= 100

IntoJob(attrs) ==
    [ok      |-> ValidJob(attrs),
     trigger |-> BuildTrigger(attrs),
     claims  |-> ParseClaims(attrs)]

-----------------------------------------------------------------------------
(* The reference: a line belongs to the nearest line above it that begins  *)
(* like a verb, and a block is a verb line with the attributes of its own  *)
(* line and of the lines that belong to it.                                *)

Starts(lines)   == {i \in DOMAIN lines : lines[i].kind \in {"verb", "stray"}}
Owner(lines, i) == {k \in Starts(lines) : k < i /\ \A m \in Starts(lines) : m < i => m <= k}

InBlock(lines, i) == \E k \in Owner(lines, i) : lines[k].kind = "verb" /\ lines[k].verb # "delete"

(* The members of a finite set of numbers in order. *)
InOrder(S) == [k \in 1 .. Cardinality(S) |->
                  CHOOSE i \in S : Cardinality({m \in S : m <= i}) = k]

AttrOf(line) == [key |-> line.key, value |-> line.value, ok |-> line.ok]

Body(lines, i) ==
    LET own == InOrder({a \in DOMAIN lines : lines[a].kind = "attr" /\ i \in Owner(lines, a)})
    IN  [k \in DOMAIN own |-> AttrOf(lines[own[k]])]

(* The attribute lines of a delete belong to no block. *)
BlockAt(lines, i) ==
    [verb |-> lines[i].verb, name |-> lines[i].name,
     attrs |-> IF lines[i].verb = "delete" THEN <<>> ELSE lines[i].attrs \o Body(lines, i)]

WhatItSays(lines) ==
    LET verbs  == InOrder({i \in DOMAIN lines : lines[i].kind = "verb"})
        blocks == [k \in DOMAIN verbs |-> BlockAt(lines, verbs[k])]
    IN  IF \/ \E i \in DOMAIN lines : /\ lines[i].kind = "attr" /\ LooksLikeVerb(lines[i].key)
                                      /\ ~ InBlock(lines, i)
           \/ \E k \in DOMAIN blocks : BadValue(blocks[k])
        THEN NoDocument
        ELSE [error |-> FALSE, blocks |-> blocks]
=============================================================================
