------------------------------ MODULE Conditions ------------------------------
(***************************************************************************)
(* Condition triggers.  For every condition job of a tick the scheduler    *)
(* copies the recent runs of every job and all globals, with one await per *)
(* job, and evaluates the expression on that copy.  Runs are queued,       *)
(* started and ended, jobs deleted and globals set while it copies.        *)
(*                                                                         *)
(* Node(e) is the node [op, on, window, cmp, num, args] of expression e:   *)
(* `on` is the job or global an atom is about, `args` the operands of a    *)
(* connective, again expressions.                                          *)
(***************************************************************************)
EXTENDS Integers, SequencesExt

CONSTANTS
    Jobs, Globals,
    Triggers,       \* the expressions of the condition jobs
    Exprs, Node(_), \* these and their parts, and the node of each
    Outcomes,       \* how a run may end: a set of [state, code]
    PerJobHistory,  \* PER_JOB_HISTORY (200): runs of a job that are copied
    MaxSpan,        \* longest duration the time library represents
    NoWindow, NoTime, NoCode, NoRun,
    MaxRuns,        \* bound: MaxRuns[j] runs of job j
    MaxTime         \* bound: the clock

Terminal    == {"success", "failed", "killed", "skipped", "lost"}
Connectives == {"and", "or", "not"}
Counts      == {"numrun", "numsuc", "numfail"}
Running     == {"running", "notrunning"}
JobAtoms    == {"success", "failure", "done", "exitcode"} \cup Running \cup Counts

LastRuns == [state : {"queued", "running"} \cup Terminal, code : Int \cup {NoCode}]

(* A node of the type Expr. *)
WellFormed(n) ==
    \/ /\ n.op \in JobAtoms /\ n.on \in Jobs /\ n.args = <<>>
       /\ n.window \in Nat \cup {NoWindow}
    \/ n.op = "value" /\ n.on \in Globals /\ n.args = <<>>
    \/ n.op = "not" /\ n.args \in Seq(Exprs) /\ Len(n.args) = 1
    \/ n.op \in {"and", "or"} /\ n.args \in Seq(Exprs) /\ Len(n.args) = 2

(* An expression is a finite tree: of any expressions one has none of the  *)
(* others for an operand. A job and a global are two things, of whatever   *)
(* names.                                                                  *)
ASSUME ConditionsAssumption ==
    /\ Triggers \subseteq Exprs /\ Jobs \cap Globals = {}
    /\ \A e \in Exprs : WellFormed(Node(e))
    /\ \A S \in SUBSET Exprs : S # {} =>
          \E e \in S : \A i \in DOMAIN Node(e).args : Node(e).args[i] \notin S
    /\ Outcomes \subseteq {o \in LastRuns : o.state \in Terminal}
    /\ PerJobHistory \in Nat \ {0} /\ MaxSpan \in Nat /\ MaxTime \in Nat
    /\ MaxRuns \in [Jobs -> Nat]
    /\ NoTime \notin Int /\ NoRun \notin LastRuns

VARIABLES
    table,    \* the jobs that exist
    runs,     \* runs[j]: the runs of job j, in the order of queued_at
    globals,  \* global variables: "unset", or whether the value reads as true
    now,
    ctx,      \* StoreUpstreamState, and how far its construction is
    cond,     \* the expression being evaluated: {} or {e}
    seen      \* history: what each part of it was since the copy was begun,
              \* as pairs of a part and a value

vars == <<table, runs, globals, now, ctx, cond, seen>>

-----------------------------------------------------------------------------
(* Evaluation: "none" is an unresolved answer, "panic" ends the process.   *)

Answers == {"true", "false", "none", "panic"}
Some(b) == IF b THEN "true" ELSE "false"
Resolved(v) == v \in {"true", "false"}

ApplyOp(op, actual, expected) ==
    \/ op = "=" /\ actual = expected
    \/ op = "!=" /\ actual # expected
    \/ op = "<" /\ actual < expected
    \/ op = "<=" /\ actual <= expected
    \/ op = ">" /\ actual > expected
    \/ op = ">=" /\ actual >= expected

(* Which runs of the history an atom is about. *)
Selects(op, state) ==
    \/ op \in {"success", "numsuc"} /\ state = "success"
    \/ op \in {"failure", "numfail"} /\ state = "failed"
    \/ op = "done" /\ state \in Terminal
    \/ op = "numrun"

JoinShort(op, l, r) ==              \* fault: an operand that decides is enough
    IF \E v \in {l, r} : v = Some(op = "or") THEN Some(op = "or")
    ELSE IF ~ Resolved(l) THEN l ELSE r

(* `?` on the left operand, then on the right one; no short circuit.       *)
Join(op, l, r) ==
    IF ~ Resolved(l) THEN l
    ELSE IF ~ Resolved(r) THEN r
    ELSE Some(IF op = "and" THEN "false" \notin {l, r} ELSE "true" \in {l, r})

(* The value of every expression, given the values of the atoms. *)
Meaning(atom) ==
    LET val[e \in Exprs] ==
        LET n == Node(e)
        IN  CASE n.op = "not" -> LET v == val[n.args[1]]
                                 IN  IF Resolved(v) THEN Some(v = "false") ELSE v
              [] n.op \in {"and", "or"} -> Join(n.op, val[n.args[1]], val[n.args[2]])
              [] OTHER -> atom[e]
    IN  val

-----------------------------------------------------------------------------
(* The copy. *)

NoGlobals == [g \in Globals |-> "unset"]
Empty == [at |-> "idle", jobs |-> {}, todo |-> {}, now |-> 0, globals |-> NoGlobals,
          latest |-> [j \in Jobs |-> NoRun], history |-> [j \in Jobs |-> <<>>]]

When(r) == IF r.started = NoTime THEN r.queued ELSE r.started

(* list_for_job: ORDER BY queued_at DESC LIMIT PER_JOB_HISTORY. *)
Recent(s) == SubSeq(Reverse(s), 1, IF Len(s) < PerJobHistory THEN Len(s) ELSE PerJobHistory)

(* StoreUpstreamState::within.  Without a look-back the window is          *)
(* u64::MAX / 2 seconds, which is no duration of the time library.         *)
OutOfRange(window) == window = NoWindow \/ window > MaxSpan

Within(c, j, window, op) ==
    LET rows == c.history[j]
    IN  Cardinality({i \in DOMAIN rows : rows[i].when >= c.now - window
                                         /\ Selects(op, rows[i].state)})

IsRunning(c, j) == c.latest[j] # NoRun /\ c.latest[j].state \in {"queued", "running"}

(* An atom over the history, over the latest run, over the globals. *)
Windowed(e) == e.op \in Counts \/ (e.op \in {"success", "failure", "done"} /\ e.window # NoWindow)

OfHistory(c, e) ==
    IF e.on \notin c.jobs THEN "none"
    ELSE IF OutOfRange(e.window) THEN "panic"
    ELSE LET n == Within(c, e.on, e.window, e.op)
         IN  Some(IF e.op \in Counts THEN ApplyOp(e.cmp, n, e.num) ELSE n > 0)

OfLatest(c, e) ==
    LET last == c.latest[e.on]
    IN  CASE e.op = "running"    -> Some(IsRunning(c, e.on))
          [] e.op = "notrunning" -> Some(~ IsRunning(c, e.on))
          [] e.op = "exitcode" ->
                IF last = NoRun \/ last.code = NoCode THEN "none"
                ELSE Some(ApplyOp(e.cmp, last.code, e.num))
          [] OTHER -> IF last = NoRun THEN "none" ELSE Some(Selects(e.op, last.state))

OfGlobals(c, g) == IF c.globals[g] = "unset" THEN "none" ELSE Some(c.globals[g] = "yes")

(* evaluate on the copy c, of an expression without operands. *)
Atom(c, e) == IF Windowed(e) THEN OfHistory(c, e)
              ELSE IF e.op = "value" THEN OfGlobals(c, e.on) ELSE OfLatest(c, e)

Evaluated(c) == Meaning([e \in Exprs |-> Atom(c, Node(e))])

Answer == Evaluated(ctx)

-----------------------------------------------------------------------------
(* Reference: what an expression means of the store s = [jobs, runs,       *)
(* globals] for look-backs from instant t; all runs count.                 *)

InWindow(rows, window, t) == {i \in DOMAIN rows : window = NoWindow \/ When(rows[i]) >= t - window}

NowRunning(rows) == rows # <<>> /\ Last(rows).state \in {"queued", "running"}

Fact(s, t, e) ==
    LET rows == s.runs[e.on]
        hits == {i \in InWindow(rows, e.window, t) : Selects(e.op, rows[i].state)}
    IN  CASE e.op = "value"      -> IF s.globals[e.on] = "unset" THEN "none" ELSE Some(s.globals[e.on] = "yes")
          [] e.op = "running"    -> Some(NowRunning(rows))
          [] e.op = "notrunning" -> Some(~ NowRunning(rows))
          [] e.op = "exitcode"   ->
                IF rows = <<>> \/ Last(rows).code = NoCode THEN "none"
                ELSE Some(ApplyOp(e.cmp, Last(rows).code, e.num))
          [] e.op \in Counts     ->
                IF e.on \in s.jobs THEN Some(ApplyOp(e.cmp, Cardinality(hits), e.num)) ELSE "none"
          [] OTHER               ->
                IF e.window = NoWindow
                THEN IF rows = <<>> THEN "none" ELSE Some(Len(rows) \in hits)
                ELSE IF e.on \in s.jobs THEN Some(hits # {}) ELSE "none"

Truth(s, t) == Meaning([e \in Exprs |-> Fact(s, t, Node(e))])

(* The expressions an expression is made of, and what they ask about. *)
Parts == LET of[e \in Exprs] == {e} \cup UNION {of[Node(e).args[i]] : i \in DOMAIN Node(e).args} IN of
Asked(e) == LET of[p \in Exprs] == IF Node(p).args = <<>> THEN {Node(p).on}
                                   ELSE UNION {of[Node(p).args[i]] : i \in DOMAIN Node(p).args}
            IN  of[e]
Single(e) == \A x, y \in Asked(e) : x = y

-----------------------------------------------------------------------------
Init ==
    /\ table = Jobs
    /\ runs = [j \in Jobs |-> <<>>]
    /\ globals = NoGlobals
    /\ now = 0
    /\ ctx = Empty
    /\ cond = {}
    /\ seen = {}

(* The store changes. *)

Queue(j) ==
    /\ j \in table /\ Len(runs[j]) < MaxRuns[j]
    /\ runs' = [runs EXCEPT ![j] =
                    Append(@, [state |-> "queued", queued |-> now, started |-> NoTime, code |-> NoCode])]
    /\ UNCHANGED <<table, globals, now, ctx, cond>>

(* The run's task writes running and started_at, also over a final state. *)
Start(j, i) ==
    /\ i \in DOMAIN runs[j] /\ runs[j][i].started = NoTime
    /\ runs' = [runs EXCEPT ![j][i] = [state |-> "running", queued |-> @.queued,
                                                started |-> now, code |-> NoCode]]
    /\ UNCHANGED <<table, globals, now, ctx, cond>>

(* A run ends, cannot be spawned, or is given a state by an operator.      *)
(* (change_run_state reads the row first: what the run's task writes in    *)
(* between is undone, to a row that it or another Settle could leave.)     *)
Settle(j, i, o) ==
    /\ i \in DOMAIN runs[j]
    /\ runs' = [runs EXCEPT ![j][i].state = o.state, ![j][i].code = o.code]
    /\ UNCHANGED <<table, globals, now, ctx, cond>>

DeleteJob(j) ==
    /\ j \in table
    /\ table' = table \ {j}
    /\ runs' = [runs EXCEPT ![j] = <<>>]
    /\ UNCHANGED <<globals, now, ctx, cond>>

SetGlobal(g, v) ==
    /\ globals' = [globals EXCEPT ![g] = v]
    /\ UNCHANGED <<table, runs, now, ctx, cond>>

TimePasses ==
    /\ now < MaxTime
    /\ now' = now + 1
    /\ UNCHANGED <<table, runs, globals, ctx, cond>>

-----------------------------------------------------------------------------
(* tick_conditions, of one condition job: StoreUpstreamState::new, then    *)
(* evaluate.  The instant is taken before the first await.                 *)

Begin(e) ==
    /\ ctx.at = "idle"
    /\ ctx' = [Empty EXCEPT !.at = "copying", !.now = now, !.jobs = table, !.todo = table]
    /\ cond' = {e}
    /\ UNCHANGED <<table, runs, globals, now>>

LoadKeepsLatest(j) ==               \* fault: a run is looked up first, the history later
    /\ ctx.at = "copying" /\ j \in ctx.todo
    /\ LET known == ctx.latest[j] # NoRun \/ runs[j] = <<>>
           last  == Last(runs[j])
       IN ctx' = [ctx EXCEPT
            !.todo       = IF known THEN @ \ {j} ELSE @,
            !.latest[j]  = IF known THEN @ ELSE [state |-> last.state, code |-> last.code],
            !.history[j] = [i \in DOMAIN Recent(runs[j]) |->
                                [state |-> Recent(runs[j])[i].state, when |-> When(Recent(runs[j])[i])]]]
    /\ UNCHANGED <<table, runs, globals, now, cond>>

LoadStarted(j) ==                   \* fault: a run that never started has no time
    /\ ctx.at = "copying" /\ j \in ctx.todo
    /\ LET rows == Recent(runs[j]) IN
        ctx' = [ctx EXCEPT !.todo = @ \ {j},
            !.history[j] = [i \in DOMAIN rows |-> [state |-> rows[i].state, when |-> rows[i].started]]]
    /\ UNCHANGED <<table, runs, globals, now, cond>>

(* One query: the latest run and the history come from the same rows.      *)
Load(j) ==
    /\ ctx.at = "copying" /\ j \in ctx.todo
    /\ LET rows == Recent(runs[j]) IN
        ctx' = [ctx EXCEPT
            !.todo       = @ \ {j},
            !.latest[j]  = IF rows = <<>> THEN NoRun
                           ELSE [state |-> rows[1].state, code |-> rows[1].code],
            !.history[j] = [i \in DOMAIN rows |-> [state |-> rows[i].state, when |-> When(rows[i])]]]
    /\ UNCHANGED <<table, runs, globals, now, cond>>

LoadGlobals ==
    /\ ctx.at = "copying" /\ ctx.todo = {}
    /\ ctx' = [ctx EXCEPT !.at = "ready", !.globals = globals]
    /\ UNCHANGED <<table, runs, globals, now, cond>>

Evaluate ==
    /\ ctx.at = "ready"
    /\ ctx' = Empty /\ cond' = {}
    /\ UNCHANGED <<table, runs, globals, now>>

(* The history: what the parts of the expression that ask about one thing  *)
(* are of the store, from the beginning of the copy to its end.            *)
Watch ==
    seen' = CASE ctx'.at = "copying" ->
                    LET truth == Truth([jobs |-> table', runs |-> runs', globals |-> globals'], ctx'.now)
                    IN  seen \cup {<<p, truth[p]>> : p \in {q \in UNION {Parts[e] : e \in cond'} : Single(q)}}
              [] ctx'.at = "ready" -> seen
              [] OTHER -> {}

Next ==
    /\ \/ \E j \in Jobs :
            \/ Queue(j) \/ DeleteJob(j) \/ Load(j)
            \/ \E i \in DOMAIN runs[j] : Start(j, i) \/ \E o \in Outcomes : Settle(j, i, o)
       \/ \E g \in Globals, v \in {"unset", "yes", "no"} : SetGlobal(g, v)
       \/ TimePasses
       \/ \E e \in Triggers : Begin(e)
       \/ LoadGlobals \/ Evaluate
    /\ Watch

Spec == Init /\ [][Next]_vars

-----------------------------------------------------------------------------
RunRows == [state : {"queued", "running"} \cup Terminal, queued : 0 .. MaxTime,
            started : 0 .. MaxTime \cup {NoTime}, code : Int \cup {NoCode}]
RunSnaps == [state : {"queued", "running"} \cup Terminal, when : 0 .. MaxTime]
GlobalValues   == [Globals -> {"unset", "yes", "no"}]
Copies   == [at : {"idle", "copying", "ready"}, jobs : SUBSET Jobs, todo : SUBSET Jobs,
             now : 0 .. MaxTime, globals : GlobalValues,
             latest : [Jobs -> LastRuns \cup {NoRun}], history : [Jobs -> Seq(RunSnaps)]]

TypeOK ==
    /\ table \subseteq Jobs
    /\ runs \in [Jobs -> Seq(RunRows)]
    /\ globals \in GlobalValues
    /\ now \in 0 .. MaxTime
    /\ ctx \in Copies /\ ctx.todo \subseteq ctx.jobs /\ ctx.now <= now
    /\ cond \subseteq Triggers /\ (cond = {} <=> ctx.at = "idle")
    /\ seen \subseteq Exprs \X Answers

(* More recent runs than are copied were queued after a run of the window. *)
Truncated(e) ==
    /\ e.on \in Jobs /\ Windowed(e)
    /\ \E i \in InWindow(runs[e.on], e.window, ctx.now) : i + PerJobHistory <= Len(runs[e.on])

(* A job deleted before its runs are copied still has a (empty) history.   *)
Emptied(e) == Windowed(e) /\ e.on \in ctx.jobs \ table

(* Each part of a condition that asks about one job or global gets an      *)
(* answer that was right at some instant of the copying, although jobs     *)
(* run meanwhile: what is known of a job comes from one query.  Look-backs *)
(* count exactly while PER_JOB_HISTORY reaches back to the window's first  *)
(* run and the job is not deleted meanwhile; a panic is no answer.  (Parts *)
(* about different jobs may be right at different instants only.)          *)
AnswerWasTrue ==
    ctx.at = "ready" =>
        \A e \in cond : \A p \in Parts[e] :
            Single(p) /\ Answer[p] # "panic"
            /\ (\A a \in Parts[p] : ~ Truncated(Node(a)) /\ ~ Emptied(Node(a)))
            => <<p, Answer[p]>> \in seen

(* A condition that asks, anywhere, for the outcome of the last run of a   *)
(* job that never had one, for a global that is not set, or for a look-back*)
(* at a job that does not exist, does not come true: not by a `not`, nor   *)
(* by the other side of an `or`.  (What is asked for: success, failure,    *)
(* done and exitcode; running and notrunning are always answered, and so   *)
(* are a look-back at and a count of the runs of a job that exists: without*)
(* runs they are false and 0, and `not success(x,00.01)` comes true.)      *)
UnknownNeverFires ==
    ctx.at = "ready" =>
        \A e \in cond : Answer[e] = "true" =>
            \A a \in Parts[e] : Node(a).op \notin Running \cup Connectives =>
                \E v \in Answers \ {"none"} : <<a, v>> \in seen
=============================================================================
