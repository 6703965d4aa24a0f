----------------------------- MODULE MCConditions -----------------------------
(* Small instances of Conditions. *)
EXTENDS Conditions

A(op, on, window) == [op |-> op, on |-> on, window |-> window, cmp |-> "=", num |-> 1, args |-> <<>>]
N(op, args)       == [op |-> op, on |-> NoRun, window |-> NoWindow, cmp |-> "=", num |-> 0, args |-> args]

Triggers1 == {"failed again", "failed 1", "free today", "ended well"}
Exprs1    == {"failed again", "failed 1", "free today", "ended well",
              "new success", "one run", "failed", "exit 1", "free", "day", "not day"}
Node1(e)  ==
    CASE e = "new success"  -> A("success", "a", 1)          \* success(a, 00.01)
      [] e = "one run"      -> A("numrun", "a", 1)           \* numrun(a, 00.01) = 1
      [] e = "failed"       -> A("failure", "a", NoWindow)
      [] e = "exit 1"       -> A("exitcode", "a", NoWindow)  \* exitcode(a) = 1
      [] e = "free"         -> A("notrunning", "a", NoWindow)
      [] e = "day"          -> A("value", "day", NoWindow)
      [] e = "not day"      -> N("not", <<"day">>)
      [] e = "failed again" -> N("and", <<"failed", "one run">>)
      [] e = "failed 1"     -> N("and", <<"exit 1", "failed">>)
      [] e = "free today"   -> N("or", <<"free", "not day">>)
      [] e = "ended well"   -> N("or", <<"new success", "failed">>)

Ends       == {[state |-> "success", code |-> 0], [state |-> "failed", code |-> 1]}
RunsOf     == [j \in Jobs |-> IF j = "a" THEN 2 ELSE 1]

(* What a job does after it was copied, and anything after the copy is     *)
(* complete, can only add to `seen` and to the exempt cases: explore the   *)
(* behaviours without it, which are the hardest for the properties.        *)
NothingLate ==
    /\ ctx.at = "ready" => ctx' = Empty
    /\ ctx.at = "copying" => \A j \in ctx.jobs \ ctx.todo : runs'[j] = runs[j]
=============================================================================
