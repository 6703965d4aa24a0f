------------------------------ MODULE MCFormulas ------------------------------
(***************************************************************************)
(* The pure functions on small inputs: each state is an input, a text or a *)
(* document grows by a step.                                               *)
(***************************************************************************)
EXTENDS ConditionText, Cycles, Formulas

-----------------------------------------------------------------------------
(* Conditions: all texts of a few chunks, also behind some beginnings, and all *)
(* calls with one token replaced.                                              *)
Chunks   == {<<"not">>, <<"and">>, <<"or">>, <<"(">>, <<")">>, <<"s", "(", "a", ")">>}
S(job)   == <<"success", "(", job, ")">>
Openings == {[s |-> <<>>, left |-> 5],
             [s |-> <<"(">> \o S("a") \o <<"or">> \o S("b") \o <<")">>, left |-> 3],
             [s |-> S("a") \o <<"and", "not">>, left |-> 4]}
Calls == {e \in [op : {"call"}, f : Functions, job : {"a"}, window : {NoWindow, 90},
                 cmp : {"", "<="}, n : {0, -5}] : WellFormed(e)}
Odd   == {"s", "numrun", "rename", "(", ")", ",", "a", "00.75", "01.30", "24.00", "<=", "!=",
          "2147483647", "2147483648", "0", "and"}
Damaged == UNION {{[Display(e) EXCEPT ![i] = t] : i \in DOMAIN Display(e), t \in Odd} : e \in Calls}
Texts == {[kind |-> "text", s |-> o.s, left |-> o.left] : o \in Openings}
         \cup {[kind |-> "text", s |-> t, left |-> 0] : t \in Damaged}

Token == \E c \in Chunks :
    /\ input.kind = "text" /\ input.left > 0
    /\ input' = [input EXCEPT !.s = @ \o c, !.left = @ - 1]

(* Documents. *)
Verb(verb, name, attrs) == [kind |-> "verb", verb |-> verb, name |-> name, attrs |-> attrs]
Attr(key, value, ok)    == [kind |-> "attr", key |-> key, value |-> value, ok |-> ok]
TypeC == [key |-> "job_type", value |-> "c", ok |-> TRUE]
Lines == {[kind |-> "blank"], [kind |-> "text"], [kind |-> "stray"],
          Verb("insert", "a", <<TypeC>>), Verb("update", "a", <<>>), Verb("delete", "b", <<>>),
          Attr("command", "x", TRUE), Attr("n_retrys", "few", FALSE), Attr("kill_job", "c", TRUE)}
MaxLines == 5

Line == \E l \in Lines :
    /\ input.kind = "lines" /\ Len(input.lines) < MaxLines
    /\ input' = [input EXCEPT !.lines = Append(@, l)]

TimeKindOf(t) == "good"

(* Graphs of dependencies: any lists of upstream jobs, jobs without a list. *)
Nodes == 1..3
Lists == UNION {[1..n -> Nodes] : n \in 0..2} \cup {<<1, 2, 3>>, <<3, 2, 1>>}
AllGraphs == UNION {[D -> Lists] : D \in SUBSET Nodes}

(* Boxes whose expressions are none or success(x), success(x) or failure(y),   *)
(* notrunning(x); none or failure(y), done(x) and done(y), numfail(x) = 1.     *)
Atom(f, job)  == [f |-> f, job |-> job, counts |-> {1}]
AllOf(A)      == [atoms |-> A, true |-> {A}]
OneOf(A)      == [atoms |-> A, true |-> SUBSET A \ {{}}]
Succeeds == {None, AllOf({Atom("success", "x")}), OneOf({Atom("success", "x"), Atom("failure", "y")}),
             AllOf({Atom("notrunning", "x")})}
Fails    == {None, AllOf({Atom("failure", "y")}), AllOf({Atom("done", "x"), Atom("done", "y")}),
             AllOf({Atom("numfail", "x")})}
NoExprs  == [paused |-> FALSE, failure |-> None, success |-> None]
MCBoxes  == [paused : {FALSE}, failure : Fails, success : Succeeds] \cup {[NoExprs EXCEPT !.paused = TRUE]}

Delays == [kind : {"none"}] \cup [kind : {"fixed"}, delay : {7}]
          \cup [kind : {"exponential"}, base : 0..9, max : {0, 5, 20, 31}]

Init ==
    \/ input \in Texts
    \/ input = [kind |-> "lines", lines |-> <<>>]
    \/ \E g \in AllGraphs : input = [kind |-> "graph", adj |-> g]
    \/ \E m \in Moves, d \in SUBSET Edges : input = [kind |-> "move", move |-> m, box |-> NoExprs, deps |-> d]
    \/ \E m \in Moves, b \in MCBoxes : input = [kind |-> "move", move |-> m, box |-> b, deps |-> {}]
    \/ \E b \in Delays, n \in 0..8 : input = [kind |-> "delay", backoff |-> b, attempt |-> n]
    \/ \E now \in 0..8, started \in (0..8) \cup {None}, must \in SUBSET (0..3), sla \in {0, 2} :
          input = [kind |-> "clock", now |-> now, started |-> started, must |-> must,
                   scheduled |-> 2, sla |-> sla, grace |-> 1]

Next == Token \/ Line
Spec == Init /\ [][Next]_input

-----------------------------------------------------------------------------
(* The parser gives a text exactly the tree that the documented grammar gives  *)
(* it, one at most, but that `not` cannot stand before a parenthesis; and what *)
(* Display prints parses to the same tree again, unless there is a `not` in it *)
(* (parse, Display for Expr).                                                  *)
ParserAgrees == input.kind = "text" =>
    LET e == ParseExpr(input.s) IN
    /\ Trees("or", input.s) = IF e = NoTree THEN {} ELSE {e}
    /\ e # NoTree => ParseExpr(Display(e)) = IF HasNot(e) THEN NoTree ELSE e

RECURSIVE Reach(_, _)
Reach(adj, R) ==
    LET more == R \cup UNION {{adj[n][i] : i \in DOMAIN adj[n]} : n \in R \cap DOMAIN adj}
    IN  IF more = R THEN R ELSE Reach(adj, more)
Upstream(adj, n) == {adj[n][i] : i \in DOMAIN adj[n]}

(* The depth-first walk reports a cycle just when some job is upstream of      *)
(* itself, however often jobs are shared between lists (dag::has_cycle).       *)
CycleFound == input.kind = "graph" =>
    HasCycle(input.adj, SetToSeq(DOMAIN input.adj)) =
        \E n \in DOMAIN input.adj : n \in Reach(input.adj, Upstream(input.adj, n))
=============================================================================
