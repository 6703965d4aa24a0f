------------------------------ MODULE RunLife ------------------------------
(***************************************************************************)
(* What the dispatch pipeline promises of runs, without queue, tasks,      *)
(* store or handles: a run is executed at most once; it is dropped before  *)
(* its execution or executed and ended, unless the server goes away under  *)
(* it; only an execution that failed has a retry, only one, and a job has  *)
(* no more attempts in a row than its retry policy grants.                 *)
(***************************************************************************)
EXTENDS Naturals

CONSTANTS Jobs, Runs, NoJob, NoRun, MaxAttempts

VARIABLES
    life,   \* where each run is in its life
    job,    \* its job, once it is born
    tries,  \* which attempt it is
    from    \* the run it retries

lifeVars == <<life, job, tries, from>>

Ends == {"succeeded", "failed", "killed"}

Init ==
    /\ life = [r \in Runs |-> "unborn"]
    /\ job = [r \in Runs |-> NoJob]
    /\ tries = [r \in Runs |-> 0]
    /\ from = [r \in Runs |-> NoRun]

Born(r, j, n, p) ==
    /\ life[r] = "unborn"
    /\ life' = [life EXCEPT ![r] = "waiting"]
    /\ job' = [job EXCEPT ![r] = j]
    /\ tries' = [tries EXCEPT ![r] = n]
    /\ from' = [from EXCEPT ![r] = p]

Fire(r) == \E j \in Jobs : Born(r, j, 1, NoRun)

Retry(p, r) ==
    /\ life[p] = "failed"
    /\ \A s \in Runs : from[s] # p
    /\ tries[p] < MaxAttempts[job[p]]
    /\ Born(r, job[p], tries[p] + 1, p)

Move(r, a, B) ==
    /\ life[r] = a
    /\ \E b \in B : life' = [life EXCEPT ![r] = b]
    /\ UNCHANGED <<job, tries, from>>

Start(r) == Move(r, "waiting", {"executing"})
Drop(r)  == Move(r, "waiting", {"dropped"})
End(r)   == Move(r, "executing", Ends)

(* The server goes away: it loses every run it has not ended. *)
Cut ==
    /\ life' = [r \in Runs |-> IF life[r] \in {"waiting", "executing"} THEN "cut" ELSE life[r]]
    /\ UNCHANGED <<job, tries, from>>

Next ==
    \/ \E r \in Runs : Fire(r) \/ Start(r) \/ Drop(r) \/ End(r)
    \/ \E p, r \in Runs : Retry(p, r)
    \/ Cut

Spec == Init /\ [][Next]_lifeVars
=============================================================================
