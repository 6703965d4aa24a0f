----------------------------- MODULE MCScheduler -----------------------------
(* Small instances of Scheduler. *)
EXTENDS Scheduler

UnitsA      == [j \in Jobs |-> [x \in Resources |-> IF j = "a" THEN 1 ELSE 0]]
UnitsAB     == [j \in Jobs |-> [x \in Resources |-> IF j \in {"a", "b"} THEN 1 ELSE 0]]
CapacityOne == [x \in Resources |-> 1]
OnceEach    == [j \in Jobs |-> 1]
TwiceAB     == [j \in Jobs |-> IF j = "g" THEN 1 ELSE 2]
TwiceEach   == [j \in Jobs |-> 2]
TwiceC      == [j \in Jobs |-> IF j = "c" THEN 2 ELSE 1]

(* Ids are interchangeable: explore only behaviours that use them in order. *)
IdsInOrder == \A r, s \in Runs : r < s /\ stage'[s] # "unused" => stage'[r] # "unused"

(* How a run ends is nothing to the tick, only that it does: by its timeout; *)
(* and of the jobs one, the competitor of the other, is edited or deleted.   *)
TimedOnly == killSent' = {} /\ \A r \in Runs : outcome'[r] \in {"none", "timeout"}
OnlyB     == Jobs \ jobs' \subseteq {"b"} /\ paused' \subseteq {"b"} /\ edit'.job \in {NoJob, "b"}
LiveStep  == IdsInOrder /\ TimedOnly /\ OnlyB
=============================================================================
