------------------------------- MODULE Formulas -------------------------------
(***************************************************************************)
(* What is asked of the pure functions of Jil and Policies: an input is a  *)
(* document, two states of the jobs that a box or a dependency is about, an*)
(* attempt, or an instant.                                                 *)
(***************************************************************************)
EXTENDS Policies, Jil

CONSTANTS
    Names, Keys, Values,   \* what the lines of documents name, give and give for it
    Jobs,                  \* the jobs of a box, the upstream jobs
    Day                    \* the length of a day

ASSUME FormulasAssumption == Day \in Nat \ {0}

VARIABLE input

Attrs == [key : Keys, value : Values, ok : BOOLEAN]

JilLines == [kind : {"blank", "text", "stray"}]
            \cup [kind : {"verb"}, verb : {"insert", "update", "delete"}, name : Names, attrs : Seq(Attrs)]
            \cup [kind : {"attr"}, key : Keys, value : Values, ok : BOOLEAN]

(* Runs that move forward, and dependencies on them. *)
Forward(a, b) ==
    \/ a = b \/ a = None
    \/ a = "queued" /\ b \in {"running"} \cup Done
    \/ a = "running" /\ b \in Done

States == RunStates \cup {None}
Edges  == [upstream : Jobs, condition : {"all_succeed", "any_succeed", "any_finish"}]
Moves  == {m \in [before : [Jobs -> States], after : [Jobs -> States]] :
             \A j \in Jobs : Forward(m.before[j], m.after[j])}

Word    == 0 .. MaxWord
Backoff == [kind : {"none"}] \cup [kind : {"fixed"}, delay : Word]
           \cup [kind : {"exponential"}, base : Word, max : Word]

Documents == [kind : {"lines"}, lines : Seq(JilLines)]
Boxes     == [paused : BOOLEAN, failure : BoxExprs(Jobs) \cup {None}, success : BoxExprs(Jobs) \cup {None}]
Forwards  == [kind : {"move"}, move : Moves, box : Boxes, deps : SUBSET Edges]
Attempts  == [kind : {"delay"}, backoff : Backoff, attempt : Nat]
Clocks    == [kind : {"clock"}, now : Nat, started : Nat \cup {None}, must : SUBSET (0 .. Day - 1),
              scheduled : Nat, sla : Nat, grace : Nat]

Inputs == Documents \cup Forwards \cup Attempts \cup Clocks

-----------------------------------------------------------------------------
(* A document is read to the blocks that its verb lines begin, each with the   *)
(* attributes up to the next line that begins like a verb, whatever blank or   *)
(* foreign lines are between; and is refused as a whole just when a key that   *)
(* looks like a verb is outside of all blocks or a value of an insert is bad   *)
(* (rsched_jil::parse).                                                        *)
BlocksAgree == input.kind = "lines" => ParseJil(input.lines) = WhatItSays(input.lines)

(* An expression without `not`, of atoms that only an outcome makes true. *)
OfOutcomes(x) ==
    x # None => /\ \A a \in x.atoms : StatesOf(a) \subseteq Done
                /\ \A A \in x.true, B \in SUBSET x.atoms : A \subseteq B => B \in x.true

(* Of two states of the jobs, the second one later. *)
OutcomeStays(m, box) ==
    LET old == BoxState(box, Jobs, m.before)
        new == BoxState(box, Jobs, m.after)
        became(x) == ~ Holds(x, m.before) /\ Holds(x, m.after)
    IN  OfOutcomes(box.failure) /\ OfOutcomes(box.success) =>
          /\ old = "failed"  =>
                \/ new = "failed"
                \/ new = "success" /\ became(box.success) /\ ~ Holds(box.failure, m.before)
          /\ old = "success" =>
                \/ new = "success"
                \/ new = "failed" /\ became(box.failure)

NoWayBack(m, box, deps) ==
    /\ OutcomeStays(m, box)
    /\ DepsSatisfied(deps, m.before) => DepsSatisfied(deps, m.after)

(* Of an attempt and the next one. *)
WaitsMore(b, n) ==
    /\ DelayFor(b, n) <= DelayFor(b, n + 1)
    /\ b.kind = "exponential" =>
          /\ DelayFor(b, n) <= b.max
          /\ n \in 1 .. MaxExp + 1 => DelayFor(b, n) = Least(b.base * Power[n - 1], b.max)

(* Of an instant and the next one. *)
StaysMissed(c) ==
    LET missed(t) == MustTimes(Day, t, c.started, c.must, c.must)
        late(t)   == EvaluateSla(t, c.scheduled, c.started, c.sla, c.grace)
    IN  /\ missed(c.now) # "none" /\ (c.now + 1) % Day # 0 => missed(c.now + 1) = missed(c.now)
        /\ late(c.now) # "none" => late(c.now + 1) = late(c.now)

(* Nothing goes back while runs and time go forward.  A box with an outcome    *)
(* has one ever after, if its expressions are about outcomes and without `not`:*)
(* by the default rules alone it keeps the outcome; Success turns to Failed    *)
(* just when its failure expression becomes true, Failed by the rules turns to *)
(* Success just when its success expression does, and Failed by the failure    *)
(* expression is final.  A dependency that is satisfied stays so; a later      *)
(* attempt waits no less, never more than the maximum, and just the doubled    *)
(* base as long as the exponent is not capped; a deadline that was missed is   *)
(* missed for the rest of the day (evaluate_box_state, deps_satisfied,         *)
(* delay_for, evaluate_must_times).                                            *)
ForwardOnly ==
    /\ input.kind = "move"  => NoWayBack(input.move, input.box, input.deps)
    /\ input.kind = "delay" => WaitsMore(input.backoff, input.attempt)
    /\ input.kind = "clock" => StaysMissed(input)
===============================================================================
