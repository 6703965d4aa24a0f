----------------------------- MODULE RunPipeline -----------------------------
(***************************************************************************)
(* The life of a run: from the row the tick loop inserts, through the      *)
(* bounded dispatch queue, the task the dispatch consumer spawns for each  *)
(* intent, the child process and its outcome, to the final write, the      *)
(* release of its resource holds and the retry task that creates the next  *)
(* attempt.  Operator calls on runs (kill, change status), the deletion of *)
(* a job and a restart of the server interleave with every step.           *)
(*                                                                         *)
(* An action is the code between two await points of one task.  What the   *)
(* tick loop does to jobs is in module Scheduler, which extends this one;  *)
(* here the tick may create a run of any job at any time.                  *)
(*                                                                         *)
(* A hold row (run, resource, units) is the set of that many tokens        *)
(* <<run, resource, 1>>, <<run, resource, 2>>, ..., so that SUM(units) is  *)
(* a cardinality.                                                          *)
(***************************************************************************)
EXTENDS Integers, Sequences, FiniteSets

CONSTANTS
    Jobs,          \* rows of the jobs table when the server boots
    Resources,     \* rows of the resources table
    Runs,          \* run ids (ULIDs in the code)
    NoJob, NoRun,  \* "not yet" values for a run's job and parent
    Units,         \* Units[j][x]: what job j claims of resource x (0: nothing)
    Capacity,      \* Capacity[x]: resources.capacity
    MaxAttempts,   \* job.retry.max_attempts
    Timed,         \* jobs with timeout_secs > 0
    Broken,        \* jobs whose command may fail to spawn
    Conditional,   \* jobs with a Condition trigger
    QueueCap,      \* capacity of the dispatch mpsc (10 000 in main.rs)
    MaxFires,      \* bound: MaxFires[j] runs of job j created by ticks (retries not counted)
    MaxCrashes,    \* bound: restarts of the server
    MaxOverrides,  \* bound: change-status calls
    OperatorStates \* the terminal states operators set

ASSUME PipelineAssumption ==
    /\ IsFiniteSet(Runs) /\ IsFiniteSet(Resources)
    /\ NoJob \notin Jobs /\ NoRun \notin Runs
    /\ Units \in [Jobs -> [Resources -> Nat]]
    /\ Capacity \in [Resources -> Nat]
    /\ MaxAttempts \in [Jobs -> Nat \ {0}]
    /\ Timed \subseteq Jobs /\ Broken \subseteq Jobs /\ Conditional \subseteq Jobs
    /\ QueueCap \in Nat \ {0}
    /\ OperatorStates \subseteq {"success", "failed", "killed", "skipped", "lost"}
    /\ MaxFires \in [Jobs -> Nat]
    /\ MaxCrashes \in Nat /\ MaxOverrides \in Nat

VARIABLES
    jobs,        \* jobs still in the jobs table
    row,         \* runs.state of each run, "absent" when there is no row
    origin,      \* who created the run: "none" (unused id), "due", "condition", "retry"
    jobOf,       \* run.job_id (also carried by the intent)
    attempt,     \* run.attempt
    parent,      \* run.parent_run_ids, a single run or NoRun
    holds,       \* the resource_holds table
    queue,       \* intents in the dispatch mpsc, oldest first
    stage,       \* how far the run's intent has got
    proc,        \* the child process of the run
    outcome,     \* what the executor's outcome task returned
    registry,    \* runs with an entry in the HandleRegistry
    killSent,    \* runs whose kill channel holds a message
    overridden,  \* history: runs whose state an operator changed
    releasing,   \* change-status calls between their write and their release
    crashes, overrides   \* counters for the bounds

store    == <<jobs, row, holds>>
identity == <<origin, jobOf, attempt, parent>>
process  == <<proc, outcome, registry, killSent>>
calls    == <<releasing, overridden, crashes, overrides>>
pipeVars == <<store, identity, queue, stage, process, calls>>

-----------------------------------------------------------------------------
Terminal == {"success", "failed", "killed", "skipped", "lost"}
Active   == {"queued", "running"}
RowState == {"absent"} \cup Active \cup Terminal

Origins == {"none", "due", "condition", "retry"}

(* "held" and "inserted" are steps of the tick, "sending" of a retry task, *)
(* "taken" to "saved" of the task of the run, "backoff" of the sleeping    *)
(* retry task.  The rest are ends: "done" (normal), "dropped" (queue full),*)
(* "aborted" (row insert failed), "unspawned" (spawn failed), "vanished"   *)
(* (the server died).                                                      *)
InWorker == {"taken", "spawned", "running", "reaped", "saved"}
Moving   == {"held", "inserted", "sending", "queued", "backoff"} \cup InWorker
Ended    == {"done", "dropped", "aborted", "unspawned", "vanished"}
Stages   == {"unused"} \cup Moving \cup Ended

(* From the acquisition of the claims to their release; and the early      *)
(* returns that skip the release.                                          *)
Claiming == {"held", "inserted", "queued"} \cup InWorker
Leaking  == {"aborted", "unspawned", "vanished"}

Outcomes == {"none", "success", "failure", "timeout", "killed"}

Tokens(r, j) ==
    UNION {{<<r, x, u>> : u \in 1 .. Units[j][x]} : x \in Resources}

HeldBy(r) == {t \in holds : t[1] = r}
Used(x)   == {t \in holds : t[2] = x}

Released(r) == holds \ HeldBy(r)

(* UPDATE runs ... WHERE id = ?: no row, no effect. *)
RowSet(r, s) == [row EXCEPT ![r] = IF @ = "absent" THEN @ ELSE s]

(* The state the run's task derives from the outcome. The outcome task neither *)
(* panics nor is aborted: the arm for that is never taken.                     *)
Verdict(r) == IF outcome[r] \in {"success", "killed"} THEN outcome[r] ELSE "failed"

MayFire(j) ==
    Cardinality({r \in Runs : jobOf[r] = j /\ origin[r] # "retry"}) < MaxFires[j]

Goto(r, s) == stage' = [stage EXCEPT ![r] = s]

-----------------------------------------------------------------------------
(* Faulty variants of the definitions below: each stands for a plausible   *)
(* bug and breaks one property.                                            *)
CreateSwapped(r, j, o, n, p) ==                   \* attempt and parent swapped
    /\ stage[r] = "unused"
    /\ origin' = [origin EXCEPT ![r] = o]
    /\ jobOf' = [jobOf EXCEPT ![r] = j]
    /\ attempt' = [attempt EXCEPT ![r] = p]
    /\ parent' = [parent EXCEPT ![r] = n]

FitsIfAnyLeft(j) == \A x \in Resources :          \* some unit is left, not enough
    Units[j][x] > 0 => Cardinality(Used(x)) < Capacity[x]

OneRetryTooMany(r) == Verdict(r) = "failed" /\ attempt[r] <= MaxAttempts[jobOf[r]]

RetriesKilled(r) == Verdict(r) # "success" /\ attempt[r] < MaxAttempts[jobOf[r]]

(* try_acquire: every claim must fit in what the holds leave. *)
Fits(j) == \A x \in Resources :
    Units[j][x] > 0 => Cardinality(Used(x)) + Units[j][x] <= Capacity[x]

Retries(r) == Verdict(r) = "failed" /\ attempt[r] < MaxAttempts[jobOf[r]]

FullButQueued(r) ==                               \* "leaving run queued", not enqueued
    /\ stage[r] = "inserted"
    /\ Len(queue) = QueueCap
    /\ Goto(r, "queued")
    /\ UNCHANGED <<store, identity, queue, process, calls>>

KillReleases(r) ==                                \* holds freed before the process ends
    /\ r \in registry
    /\ registry' = registry \ {r}
    /\ killSent' = killSent \cup {r}
    /\ holds' = Released(r)
    /\ UNCHANGED <<jobs, row, identity, queue, stage, proc, outcome, calls>>

RetryKeepsHolds(r) ==                             \* release only on the last attempt
    /\ stage[r] = "saved"
    /\ holds' = IF Retries(r) THEN holds ELSE Released(r)
    /\ Goto(r, IF Retries(r) THEN "backoff" ELSE "done")
    /\ UNCHANGED <<jobs, row, identity, queue, process, calls>>

NeverReleases(r) ==                               \* release forgotten
    /\ stage[r] = "saved"
    /\ Goto(r, IF Retries(r) THEN "backoff" ELSE "done")
    /\ UNCHANGED <<store, identity, queue, process, calls>>

TimeoutSavedAsKilled(r) ==                        \* timed_out not looked at
    /\ stage[r] = "reaped"
    /\ row' = RowSet(r, IF outcome[r] = "timeout" THEN "killed" ELSE Verdict(r))
    /\ Goto(r, "saved")
    /\ UNCHANGED <<jobs, holds, identity, queue, process, calls>>

EntryNotRemoved(r) ==                             \* registry.remove forgotten
    /\ stage[r] = "running"
    /\ outcome[r] # "none"
    /\ Goto(r, "reaped")
    /\ UNCHANGED <<store, identity, queue, process, calls>>

ReapIfRegistered(r) ==                            \* a killed run has no entry any more
    /\ stage[r] = "running"
    /\ outcome[r] # "none" /\ r \in registry
    /\ registry' = registry \ {r}
    /\ Goto(r, "reaped")
    /\ UNCHANGED <<store, identity, queue, proc, outcome, killSent, calls>>

RetryNotWaiting(r) ==                             \* try_send in place of send
    /\ stage[r] = "sending"
    /\ IF Len(queue) < QueueCap
       THEN queue' = Append(queue, r) /\ Goto(r, "queued")
       ELSE UNCHANGED queue /\ Goto(r, "dropped")
    /\ UNCHANGED <<store, identity, process, calls>>

-----------------------------------------------------------------------------
PipeInit ==
    /\ jobs = Jobs
    /\ row = [r \in Runs |-> "absent"]
    /\ origin = [r \in Runs |-> "none"]
    /\ jobOf = [r \in Runs |-> NoJob]
    /\ attempt = [r \in Runs |-> 0]
    /\ parent = [r \in Runs |-> NoRun]
    /\ holds = {}
    /\ queue = << >>
    /\ stage = [r \in Runs |-> "unused"]
    /\ proc = [r \in Runs |-> "none"]
    /\ outcome = [r \in Runs |-> "none"]
    /\ registry = {} /\ killSent = {} /\ releasing = {} /\ overridden = {}
    /\ crashes = 0 /\ overrides = 0

(* Give run id r to job j. *)
Create(r, j, o, n, p) ==
    /\ stage[r] = "unused"
    /\ origin' = [origin EXCEPT ![r] = o]
    /\ jobOf' = [jobOf EXCEPT ![r] = j]
    /\ attempt' = [attempt EXCEPT ![r] = n]
    /\ parent' = [parent EXCEPT ![r] = p]

-----------------------------------------------------------------------------
(* The tick task. *)

(* A due job passed its calendar: new run, then all its claims at once.    *)
(* The job comes from the tick's snapshot and may be deleted by now.       *)
Acquire(j, r) ==
    /\ MayFire(j)
    /\ Fits(j)
    /\ Create(r, j, "due", 1, NoRun)
    /\ holds' = holds \cup Tokens(r, j)
    /\ Goto(r, "held")
    /\ UNCHANGED <<jobs, row, queue, process, calls>>

InsertRun(r) ==
    /\ stage[r] = "held"
    /\ jobOf[r] \in jobs
    /\ row' = [row EXCEPT ![r] = "queued"]
    /\ Goto(r, "inserted")
    /\ UNCHANGED <<jobs, holds, identity, queue, process, calls>>

(* runs.job_id references jobs: the insert fails when the job was deleted  *)
(* after the snapshot, and `?` leaves tick_once without releasing.         *)
InsertFails(r) ==
    /\ stage[r] = "held"
    /\ jobOf[r] \notin jobs
    /\ Goto(r, "aborted")
    /\ UNCHANGED <<store, identity, queue, process, calls>>

(* A condition job whose expression holds: no claim is acquired. *)
InsertCondition(j, r) ==
    /\ MayFire(j)
    /\ j \in jobs \cap Conditional
    /\ Create(r, j, "condition", 1, NoRun)
    /\ row' = [row EXCEPT ![r] = "queued"]
    /\ Goto(r, "inserted")
    /\ UNCHANGED <<jobs, holds, queue, process, calls>>

TrySend(r) ==
    /\ stage[r] = "inserted"
    /\ Len(queue) < QueueCap
    /\ queue' = Append(queue, r)
    /\ Goto(r, "queued")
    /\ UNCHANGED <<store, identity, process, calls>>

(* Full queue: a due run gives its holds back; the row stays queued. *)
TrySendFull(r) ==
    /\ stage[r] = "inserted"
    /\ Len(queue) = QueueCap
    /\ holds' = IF origin[r] = "due" THEN Released(r) ELSE holds
    /\ Goto(r, "dropped")
    /\ UNCHANGED <<jobs, row, identity, queue, process, calls>>

-----------------------------------------------------------------------------
(* The dispatch consumer and the task it spawns for each intent. *)

Receive ==
    /\ queue # << >>
    /\ queue' = Tail(queue)
    /\ Goto(Head(queue), "taken")
    /\ UNCHANGED <<store, identity, process, calls>>

(* executor.dispatch succeeded; the handles are registered in the same     *)
(* step, before the next await.                                            *)
Spawn(r) ==
    /\ stage[r] = "taken"
    /\ proc' = [proc EXCEPT ![r] = "live"]
    /\ registry' = registry \cup {r}
    /\ Goto(r, "spawned")
    /\ UNCHANGED <<store, identity, queue, outcome, killSent, calls>>

(* The command cannot be spawned: the row is Failed and the task returns,  *)
(* before the release and the retry at its end.                            *)
SpawnFails(r) ==
    /\ stage[r] = "taken"
    /\ jobOf[r] \in Broken
    /\ row' = RowSet(r, "failed")
    /\ Goto(r, "unspawned")
    /\ UNCHANGED <<jobs, holds, identity, queue, process, calls>>

MarkRunning(r) ==
    /\ stage[r] = "spawned"
    /\ row' = RowSet(r, "running")
    /\ Goto(r, "running")
    /\ UNCHANGED <<jobs, holds, identity, queue, process, calls>>

(* The executor's outcome task: select! over exit, kill and timeout. *)
Finish(r, o) ==
    /\ proc[r] = "live"
    /\ proc' = [proc EXCEPT ![r] = "gone"]
    /\ outcome' = [outcome EXCEPT ![r] = o]
    /\ UNCHANGED <<store, identity, queue, stage, registry, killSent, calls>>

Exit(r)    == \E o \in {"success", "failure"} : Finish(r, o)
Killed(r)  == r \in killSent /\ Finish(r, "killed")
TimeOut(r) == jobOf[r] \in Timed /\ Finish(r, "timeout")

(* The log stream ended and the outcome is in. *)
Reap(r) ==
    /\ stage[r] = "running"
    /\ outcome[r] # "none"
    /\ registry' = registry \ {r}
    /\ Goto(r, "reaped")
    /\ UNCHANGED <<store, identity, queue, proc, outcome, killSent, calls>>

SaveFinal(r) ==
    /\ stage[r] = "reaped"
    /\ row' = RowSet(r, Verdict(r))
    /\ Goto(r, "saved")
    /\ UNCHANGED <<jobs, holds, identity, queue, process, calls>>

(* Release, then should_retry and schedule_retry without an await. *)
Release(r) ==
    /\ stage[r] = "saved"
    /\ holds' = Released(r)
    /\ Goto(r, IF Retries(r) THEN "backoff" ELSE "done")
    /\ UNCHANGED <<jobs, row, identity, queue, process, calls>>

(* The retry task after its delay: a new run whose parent is this one. *)
InsertRetry(p, r) ==
    /\ stage[p] = "backoff"
    /\ jobOf[p] \in jobs
    /\ Create(r, jobOf[p], "retry", attempt[p] + 1, p)
    /\ row' = [row EXCEPT ![r] = "queued"]
    /\ stage' = [stage EXCEPT ![p] = "done", ![r] = "sending"]
    /\ UNCHANGED <<jobs, holds, queue, process, calls>>

(* The job is gone: the insert fails and the task returns. *)
RetryFails(p) ==
    /\ stage[p] = "backoff"
    /\ jobOf[p] \notin jobs
    /\ Goto(p, "done")
    /\ UNCHANGED <<store, identity, queue, process, calls>>

(* send().await waits for room. *)
SendRetry(r) ==
    /\ stage[r] = "sending"
    /\ Len(queue) < QueueCap
    /\ queue' = Append(queue, r)
    /\ Goto(r, "queued")
    /\ UNCHANGED <<store, identity, process, calls>>

-----------------------------------------------------------------------------
(* HTTP handlers on runs and jobs, and the end of the process. *)

(* The entry leaves the registry with the first kill. *)
Kill(r) ==
    /\ r \in registry
    /\ registry' = registry \ {r}
    /\ killSent' = killSent \cup {r}
    /\ UNCHANGED <<store, identity, queue, stage, proc, outcome, calls>>

(* Nothing about the run's task is looked at: any state may be overwritten.*)
(* (Read and write are one step: what comes between them is overwritten.)  *)
ChangeState(r, s) ==
    /\ row[r] # "absent"
    /\ overrides < MaxOverrides
    /\ row' = RowSet(r, s)
    /\ releasing' = releasing \cup {r}
    /\ overridden' = overridden \cup {r}
    /\ overrides' = overrides + 1
    /\ UNCHANGED <<jobs, holds, identity, queue, stage, process, crashes>>

ReleaseChanged(r) ==
    /\ r \in releasing
    /\ holds' = Released(r)
    /\ releasing' = releasing \ {r}
    /\ UNCHANGED <<jobs, row, identity, queue, stage, process, overridden, crashes, overrides>>

(* Run rows go by ON DELETE CASCADE; resource_holds do not reference runs. *)
DeleteJob(j) ==
    /\ j \in jobs
    /\ jobs' = jobs \ {j}
    /\ row' = [r \in Runs |-> IF jobOf[r] = j THEN "absent" ELSE row[r]]
    /\ UNCHANGED <<holds, identity, queue, stage, process, calls>>

(* The server stops (signal, crash) and boots again on the same database.  *)
(* Children are not killed, and nothing of the old tables is reconciled.   *)
Restart ==
    /\ crashes < MaxCrashes
    /\ crashes' = crashes + 1
    /\ queue' = << >>
    /\ stage' = [r \in Runs |-> IF stage[r] \in Moving THEN "vanished" ELSE stage[r]]
    /\ proc' = [r \in Runs |-> IF proc[r] = "live" THEN "orphan" ELSE proc[r]]
    /\ registry' = {} /\ killSent' = {} /\ releasing' = {}
    /\ UNCHANGED <<store, identity, outcome, overridden, overrides>>

OrphanExits(r) ==
    /\ proc[r] = "orphan"
    /\ proc' = [proc EXCEPT ![r] = "gone"]
    /\ UNCHANGED <<store, identity, queue, stage, outcome, registry, killSent, calls>>

-----------------------------------------------------------------------------
Tick == \E r \in Runs :
    \/ \E j \in Jobs : Acquire(j, r) \/ InsertCondition(j, r)
    \/ InsertRun(r) \/ InsertFails(r) \/ TrySend(r) \/ TrySendFull(r)

Work(r) ==
    \/ Spawn(r) \/ SpawnFails(r) \/ MarkRunning(r)
    \/ Reap(r) \/ SaveFinal(r) \/ Release(r)
    \/ \E c \in Runs : InsertRetry(r, c)
    \/ RetryFails(r) \/ SendRetry(r)

Execute(r) == Exit(r) \/ Killed(r) \/ TimeOut(r) \/ OrphanExits(r)

Operate ==
    \/ \E r \in Runs : \/ Kill(r) \/ ReleaseChanged(r)
                      \/ \E s \in OperatorStates : ChangeState(r, s)
    \/ \E j \in Jobs : DeleteJob(j)

(* Everything but the tick: the part Scheduler reuses as it is. *)
OffTick ==
    \/ Receive
    \/ \E r \in Runs : Work(r) \/ Execute(r)
    \/ Operate

PipeNext == Tick \/ OffTick \/ Restart

PipeSafe == PipeInit /\ [][PipeNext]_pipeVars

(* tokio runs ready tasks and a job with a timeout ends.  The pool of      *)
(* tasks is fair as a whole, which is less than tokio gives each of them:  *)
(* a run has finitely many steps, so none can hold the others up for ever. *)
(* New fires, operators and the exit of a job without a timeout owe nothing.*)
Advance(r) ==
    \/ InsertRun(r) \/ InsertFails(r) \/ TrySend(r) \/ TrySendFull(r)
    \/ Work(r)

PipeFairness ==
    /\ WF_pipeVars(Receive)
    /\ WF_pipeVars(\E r \in Runs : Advance(r))
    /\ WF_pipeVars(\E r \in Runs : TimeOut(r) \/ Killed(r))

PipeSpec == PipeSafe /\ PipeFairness

-----------------------------------------------------------------------------
TypeOK ==
    /\ jobs \subseteq Jobs
    /\ row \in [Runs -> RowState]
    /\ origin \in [Runs -> Origins]
    /\ jobOf \in [Runs -> Jobs \cup {NoJob}]
    /\ attempt \in [Runs -> Nat]
    /\ parent \in [Runs -> Runs \cup {NoRun}]
    /\ holds \subseteq Runs \X Resources \X Nat
    /\ queue \in Seq(Runs)
    /\ stage \in [Runs -> Stages]
    /\ proc \in [Runs -> {"none", "live", "orphan", "gone"}]
    /\ outcome \in [Runs -> Outcomes]
    /\ registry \subseteq Runs /\ killSent \subseteq Runs
    /\ releasing \subseteq overridden /\ overridden \subseteq Runs
    /\ crashes \in 0 .. MaxCrashes /\ overrides \in 0 .. MaxOverrides

(* The units held of a resource never exceed its capacity, whatever ticks, *)
(* releases, change-status calls and restarts interleave.                  *)
CapacityRespected == \A x \in Resources : Cardinality(Used(x)) <= Capacity[x]

(* An intent is in the queue exactly once while its run is "queued", and   *)
(* nowhere else: no run is handed to two tasks, none is lost in the queue. *)
IntentOnce ==
    /\ Len(queue) <= QueueCap
    /\ \A r \in Runs : Cardinality({i \in DOMAIN queue : queue[i] = r})
                         = IF stage[r] = "queued" THEN 1 ELSE 0

(* A run the tick admitted by its claims keeps every unit of them from the *)
(* acquisition until the last write of its task, unless an operator        *)
(* changed its state meanwhile: no other path takes holds from a live run. *)
ClaimsHeld == \A r \in Runs :
    origin[r] = "due" /\ stage[r] \in Claiming /\ r \notin overridden
        => Tokens(r, jobOf[r]) \subseteq holds

(* Holds outlive their run only where the code returns early: an insert    *)
(* refused by the foreign key, a failed spawn, a restart of the server.    *)
HoldsAccounted == \A t \in holds :
    origin[t[1]] = "due" /\ stage[t[1]] \in Claiming \cup Leaking

(* Retries of a run form a chain: one child at most, one more attempt of   *)
(* the same job, never past max_attempts, and only after the parent's task *)
(* ended with a failure (not a kill) and gave back its holds.              *)
RetryChain ==
    /\ \A r \in Runs : origin[r] = "retry" =>
        LET p == parent[r] IN
        /\ p \in Runs /\ stage[p] = "done"
        /\ outcome[p] \in {"failure", "timeout"} /\ HeldBy(p) = {}
        /\ jobOf[r] = jobOf[p]
        /\ attempt[r] = attempt[p] + 1 /\ attempt[r] <= MaxAttempts[jobOf[r]]
    /\ \A r, s \in Runs : parent[r] = parent[s] /\ parent[r] # NoRun => r = s

(* Once the task of a run has written its final row, the row tells what    *)
(* the process did, unless an operator changed it or the job is deleted.   *)
RowTellsOutcome == \A r \in Runs :
    /\ stage[r] \in {"saved", "backoff", "done"}
    /\ r \notin overridden
    => row[r] \in {"absent", Verdict(r)}

(* A live process can be killed: its handle is in the registry, or a kill  *)
(* is already on its way.  An entry never outlives the task of the run.    *)
KillReaches == \A r \in Runs :
    /\ proc[r] = "live" => r \in registry \cup killSent
    /\ r \in registry => stage[r] \in {"spawned", "running"}

(* An intent that reached the queue is executed to its end, when jobs have *)
(* timeouts: no task waits for ever on another.                            *)
IntentEnds == \A r \in Runs :
    stage[r] = "queued" ~> stage[r] \in Ended \cup {"backoff"}

(* Units come back: a hold is deleted in the end, but for the early        *)
(* returns of HoldsAccounted.                                              *)
HoldsReturn == \A r \in Runs :
    HeldBy(r) # {} ~> \/ HeldBy(r) = {}
                      \/ stage[r] \in Leaking

(* A failed run with attempts left gets its retry, and the retry reaches   *)
(* the queue however full it was; only a deleted job or a restart of the   *)
(* server forgets it.                                                      *)
RetryComes == \A p \in Runs :
    stage[p] = "backoff" ~>
        \/ jobOf[p] \notin jobs \/ stage[p] = "vanished"
        \/ \E r \in Runs : parent[r] = p /\ stage[r] = "queued"

-----------------------------------------------------------------------------
(* What a document says, which the code does not keep.                     *)

(* resources.md: the scheduler acquires every claim before dispatch, so    *)
(* the processes of the server never use more than the capacity.           *)
NoOversubscription == \A x \in Resources :
    Cardinality(UNION {{<<r, u>> : u \in 1 .. Units[jobOf[r]][x]} :
                          r \in {q \in Runs : proc[q] = "live"}}) <= Capacity[x]

-----------------------------------------------------------------------------
(* The abstract life of each run (module RunLife).                         *)
LifeOf(r) ==
    IF stage[r] = "unused" THEN "unborn"
    ELSE IF outcome[r] = "success" THEN "succeeded"
    ELSE IF outcome[r] \in {"failure", "timeout"} THEN "failed"
    ELSE IF outcome[r] = "killed" THEN "killed"
    ELSE IF stage[r] \in {"dropped", "aborted", "unspawned"} THEN "dropped"
    ELSE IF stage[r] = "vanished" THEN "cut"
    ELSE IF proc[r] = "live" THEN "executing"
    ELSE "waiting"

Life == INSTANCE RunLife WITH
    life <- [r \in Runs |-> LifeOf(r)], job <- jobOf, tries <- attempt, from <- parent

(* The pipeline implements the abstract life: at most one execution of an  *)
(* intent, one retry of a failed execution, no more than max_attempts.     *)
ImplementsLife == Life!Spec
=============================================================================
