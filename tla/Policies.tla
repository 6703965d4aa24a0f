------------------------------- MODULE Policies -------------------------------
(***************************************************************************)
(* The pure rules of the crates core, scheduler and alert: backoff,        *)
(* dependencies, boxes, deadlines.                                         *)
(***************************************************************************)
EXTENDS Integers, Sequences, FiniteSets

CONSTANTS
    MaxExp,    \* the cap of the exponent in delay_for: 30
    MaxWord,   \* u64::MAX
    None

(* 1 << n. *)
Power == LET power[n \in Nat] == IF n = 0 THEN 1 ELSE 2 * power[n - 1] IN power

ASSUME PoliciesAssumption == /\ MaxExp \in Nat /\ MaxWord \in Nat /\ Power[MaxExp] <= MaxWord
                             /\ None \notin Int

Least(a, b)  == IF a < b THEN a ELSE b

-----------------------------------------------------------------------------
(* BackoffKind, RetryPolicy. *)

DelayFor(b, attempt) ==
    CASE b.kind = "none"  -> 0
      [] b.kind = "fixed" -> b.delay
      [] b.kind = "exponential" ->
            LET exp == Least(IF attempt = 0 THEN 0 ELSE attempt - 1, MaxExp)
            IN  Least(Least(b.base * Power[exp], MaxWord), b.max)

-----------------------------------------------------------------------------
(* Dependencies and boxes. *)

Done      == {"success", "failed", "killed", "skipped", "lost"}
RunStates == {"queued", "running"} \cup Done

ASSUME StatesAssumption == None \notin RunStates

(* Edges [upstream, condition]; state[j] is None without a run. *)
DepsSatisfied(deps, state) ==
    LET group(c) == {state[e.upstream] : e \in {d \in deps : d.condition = c}}
    IN  /\ group("all_succeed") \subseteq {"success"}
        /\ group("any_succeed") = {} \/ "success" \in group("any_succeed")
        /\ group("any_finish") = {}  \/ group("any_finish") \cap Done # {}

(* evaluate_box_state without expressions: the default rules. *)
RunningFirst(children, state) ==     \* fault: the order of the rules
    LET are == {state[c] : c \in children}
    IN  IF are \cap {"running", "queued"} # {} THEN "running"
        ELSE IF are \cap {"failed", "killed", "lost"} # {} THEN "failed"
        ELSE IF are = {"success"} THEN "success" ELSE "pending"

DefaultRules(children, state) ==
    LET are == {state[c] : c \in children}
    IN  IF are \cap {"failed", "killed", "lost"} # {} THEN "failed"
        ELSE IF are \cap {"running", "queued"} # {} THEN "running"
        ELSE IF are = {"success"} THEN "success" ELSE "pending"

(* The expressions of a box, over the last states of its children.  `evaluate` is   *)
(* unresolved just when one of the atoms is, whatever joins them: an expression is  *)
(* its atoms and the sets of them whose truth makes it true.  `counts` holds the    *)
(* counts that satisfy the comparison of an atom; look-backs are ignored.           *)
BoxCounts == {"numrun", "numsuc", "numfail"}
Atoms(jobs) == [f : {"success", "failure", "done", "running", "notrunning", "exitcode", "value"} \cup BoxCounts,
                job : jobs, counts : SUBSET {0, 1}]
BoxExprs(jobs) == UNION {[atoms : {A}, true : SUBSET SUBSET A] : A \in SUBSET Atoms(jobs)}

(* ChildStatesCtx: the states that make an atom true; a child that never ran is     *)
(* not running, and of the rest unresolved; no exit codes and no globals.           *)
StatesOf(a) ==
    LET counted == CASE a.f = "numsuc" -> {"success"} [] a.f = "numfail" -> {"failed"} [] OTHER -> RunStates
    IN  CASE a.f = "success"    -> {"success"}
          [] a.f = "failure"    -> {"failed"}
          [] a.f = "done"       -> Done
          [] a.f = "running"    -> {"queued", "running"}
          [] a.f = "notrunning" -> {None} \cup Done
          [] a.f \in BoxCounts     -> {s \in RunStates : (IF s \in counted THEN 1 ELSE 0) \in a.counts}
          [] OTHER              -> {}

Unresolved(a, state) == \/ a.f \in {"exitcode", "value"}
                        \/ a.f \notin {"running", "notrunning"} /\ state[a.job] = None

(* parse, and evaluate = Some(true); None is an expression not given or not parsed. *)
Holds(x, state) ==
    /\ x # None
    /\ \A a \in x.atoms : ~ Unresolved(a, state)
    /\ {a \in x.atoms : state[a.job] \in StatesOf(a)} \in x.true

(* The failure expression wins over the success expression, both over the rules.    *)
BoxState(box, children, state) ==
    IF box.paused THEN "paused"
    ELSE IF Holds(box.failure, state) THEN "failed"
    ELSE IF Holds(box.success, state) THEN "success"
    ELSE DefaultRules(children, state)

-----------------------------------------------------------------------------
(* sla.rs; times in units since the first day, Day to a day. *)

EvaluateSla(now, scheduled, started, sla, grace) ==
    IF started # None
    THEN IF sla # 0 /\ now - started > sla THEN "sla_miss" ELSE "none"
    ELSE IF now - scheduled > grace THEN "late_start" ELSE "none"

MustTimes(Day, now, started, mustStart, mustComplete) ==
    LET at(t) == (now \div Day) * Day + t
    IN  IF started = None
        THEN IF mustStart # {} /\ \A t \in mustStart : now > at(t) THEN "late_start" ELSE "none"
        ELSE IF \E t \in mustComplete : at(t) > started /\ now > at(t) THEN "sla_miss" ELSE "none"
=============================================================================
