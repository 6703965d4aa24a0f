---------------------------- MODULE MCRunPipeline ----------------------------
(* Small instances of RunPipeline: a job "a" that claims one of the units  *)
(* of resource "x" and may be retried, and a job "b" without claims.       *)
EXTENDS RunPipeline

UnitsBoth   == [j \in Jobs |-> [x \in Resources |-> IF j = "a" THEN 1 ELSE 2]]
CapacityTwo == [x \in Resources |-> 2]
OnceEach    == [j \in Jobs |-> 1]
TwiceA      == [j \in Jobs |-> IF j = "a" THEN 2 ELSE 1]

(* One thing out of the ordinary per behaviour: a restart, a change-status *)
(* call or the deletion of a job.                                          *)
OneUpset == crashes + overrides + Cardinality(Jobs \ jobs) <= 1

(* Ids are interchangeable: explore only behaviours that use them in order. *)
IdsInOrder == \A r, s \in Runs : r < s /\ stage'[s] # "unused" => stage'[r] # "unused"
=============================================================================
