------------------------------ MODULE MCCatalog ------------------------------
(* A small instance of Catalog. *)
EXTENDS Catalog, TLC

TimeKindOf(t) == CASE t = "02:00" -> "good" [] t = "25:00" -> "range" [] OTHER -> "garbled"

A(key, value) == [key |-> key, value |-> value, ok |-> TRUE]
Cmd           == A("command", "run")
Db            == [res |-> "db", units |-> 1]
Block(verb, name, attrs) == [verb |-> verb, name |-> name, attrs |-> attrs]

MCBlocks ==
    {Block("insert", "a", <<Cmd, A("resources", <<Db>>)>>),
     Block("insert", "a", <<Cmd, A("resources", <<Db, Db>>)>>),
     Block("insert", "b", <<Cmd, A("days_of_week", "mo"), A("start_times", "25:00")>>),
     Block("insert", "b", <<A("days_of_week", "mo")>>),
     Block("delete", "a", <<>>), Block("update", "a", <<>>)}

Imported == {[name |-> "a", trigger |-> "manual", claims |-> <<Db>>, next |-> "none", paused |-> FALSE]}

Symmetry == Permutations(JobIds) \cup Permutations(Callers) \cup Permutations(Runs) \cup Permutations(ResIds)
=============================================================================
