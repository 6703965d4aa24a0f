------------------------------ MODULE Scheduler ------------------------------
(***************************************************************************)
(* The tick loop over the jobs table, composed with the run pipeline.      *)
(* One pass of tick_once reads the due jobs, then handles each with        *)
(* several awaits in between, then does the same for condition jobs; HTTP  *)
(* handlers, webhooks and the file watcher change the same rows meanwhile. *)
(*                                                                         *)
(* Time is abstracted to what the tick sees of it: next_fire_at is "none"  *)
(* (NULL), "due" (not after now) or "future".                              *)
(***************************************************************************)
EXTENDS RunPipeline

CONSTANTS
    Timer,       \* jobs with a Cron or Interval trigger
    OneShot,     \* jobs with a OneShot trigger
    Calendared,  \* jobs with an include or exclude calendar
    Garbled,     \* imported jobs whose cron expression cannot be read
    MaxRequests, \* bound: trigger calls, webhooks, file events
    MaxEdits     \* bound: update, pause and resume calls

ASSUME SchedulerAssumption ==
    /\ Timer \subseteq Jobs /\ OneShot \subseteq Jobs /\ Calendared \subseteq Jobs
    /\ Garbled \subseteq Timer
    /\ Timer \cap OneShot = {} /\ Conditional \cap (Timer \cup OneShot) = {}
    /\ MaxRequests \in Nat /\ MaxEdits \in Nat

VARIABLES
    tick,       \* where the tick task is: [at, todo, job, run]
    nextFire,   \* jobs.next_fire_at
    paused,     \* jobs with paused = 1
    edit,       \* an update call between its read and its write: [job, paused]
    requests, edits,   \* counters for the bounds
    sent        \* history: runs queued for the current due instant of a job

tableVars   == <<nextFire, paused, edit>>
boundVars   == <<requests, edits>>
vars == <<pipeVars, tick, tableVars, boundVars, sent>>

-----------------------------------------------------------------------------
Idle   == [at |-> "idle", todo |-> {}, job |-> NoJob, run |-> NoRun]
NoEdit == [job |-> NoJob, paused |-> FALSE]

(* compute_next: cron is strictly after now, an interval is now + every. *)
ComputeNext(j) == IF j \in Timer THEN "future" ELSE "none"

(* UPDATE jobs SET next_fire_at ... WHERE id = ?: no row, no effect. *)
SetNextFire(j, t) == nextFire' = [nextFire EXCEPT ![j] = IF j \in jobs THEN t ELSE @]

Due == {j \in jobs \ paused : nextFire[j] = "due"}

(* What update_job, and the handlers that create jobs, compute. *)
FirstFire(j) == IF j \in (Timer \cup OneShot) \ Garbled THEN "future" ELSE "none"

(* bound: the clock leaves a job the fires that requests to come may need. *)
Spare(j) ==
    Cardinality({r \in Runs : jobOf[r] = j /\ origin[r] # "retry"})
        + (MaxRequests - requests) < MaxFires[j]

HasActive(j) == \E r \in Runs : jobOf[r] = j /\ row[r] \in Active

AtSwapped(place, j, r) == tick' = [tick EXCEPT !.at = place, !.job = r, !.run = j]   \* fault

(* Handle job j next, or be done with it. *)
At(place, j, r) == tick' = [tick EXCEPT !.at = place, !.job = j, !.run = r]
Skip(place, j)  == tick' = [at |-> place, todo |-> tick.todo \ {j}, job |-> NoJob, run |-> NoRun]

Init ==
    /\ PipeInit
    /\ tick = Idle
    /\ nextFire = [j \in Jobs |-> FirstFire(j)]
    /\ paused = {}
    /\ edit = NoEdit
    /\ requests = 0 /\ edits = 0
    /\ sent = [j \in Jobs |-> 0]

-----------------------------------------------------------------------------
(* tick_once: the due jobs. *)

TickStart ==
    /\ tick.at = "idle"
    /\ tick' = [Idle EXCEPT !.at = "due", !.todo = Due]
    /\ UNCHANGED <<pipeVars, tableVars, boundVars, sent>>

TickCalendarSkip(j) ==
    /\ tick.at = "due" /\ j \in (tick.todo \cap Calendared) \ Garbled
    /\ SetNextFire(j, ComputeNext(j))
    /\ Skip("due", j)
    /\ UNCHANGED <<pipeVars, paused, edit, boundVars, sent>>

NoUnitsSkips(j) ==                    \* fault: the fire that does not fit is given up
    /\ tick.at = "due" /\ j \in tick.todo
    /\ ~ Fits(j)
    /\ SetNextFire(j, ComputeNext(j))
    /\ Skip("due", j)
    /\ UNCHANGED <<pipeVars, paused, edit, boundVars, sent>>

(* Claims do not fit: next_fire_at stays, the next tick tries again. *)
TickNoUnits(j) ==
    /\ tick.at = "due" /\ j \in tick.todo
    /\ ~ Fits(j)
    /\ Skip("due", j)
    /\ UNCHANGED <<pipeVars, tableVars, boundVars, sent>>

TickAcquire(j) == \E r \in Runs :
    /\ tick.at = "due" /\ j \in tick.todo
    /\ Acquire(j, r)
    /\ At("insert", j, r)
    /\ UNCHANGED <<tableVars, boundVars, sent>>

TickInsert ==
    /\ tick.at = "insert"
    /\ InsertRun(tick.run)
    /\ At("send", tick.job, tick.run)
    /\ UNCHANGED <<tableVars, boundVars, sent>>

(* `?` ends this tick: the other due jobs and the conditions wait. *)
TickInsertFails ==
    /\ tick.at = "insert"
    /\ InsertFails(tick.run)
    /\ tick' = Idle
    /\ UNCHANGED <<tableVars, boundVars, sent>>

TickSend ==
    /\ tick.at = "send"
    /\ TrySend(tick.run)
    /\ At("advance", tick.job, tick.run)
    /\ sent' = [sent EXCEPT ![tick.job] = @ + 1]
    /\ UNCHANGED <<tableVars, boundVars>>

TickSendFull ==
    /\ tick.at = "send"
    /\ TrySendFull(tick.run)
    /\ Skip("due", tick.job)
    /\ UNCHANGED <<tableVars, boundVars, sent>>

NotAdvanced ==                        \* fault: next_fire_at is left as it was
    /\ tick.at = "advance" /\ tick.job \notin Garbled
    /\ Skip("due", tick.job)
    /\ UNCHANGED <<pipeVars, tableVars, boundVars, sent>>

TickAdvance ==
    /\ tick.at = "advance" /\ tick.job \notin Garbled
    /\ SetNextFire(tick.job, ComputeNext(tick.job))
    /\ Skip("due", tick.job)
    /\ UNCHANGED <<pipeVars, paused, edit, boundVars, sent>>

(* compute_next fails: `?` ends this tick as well, and the job stays due,  *)
(* also when its run is in the queue already.                              *)
TickComputeFails ==
    /\ \/ tick.at = "advance" /\ tick.job \in Garbled
       \/ tick.at = "due" /\ tick.todo \cap Calendared \cap Garbled # {}
    /\ tick' = Idle
    /\ UNCHANGED <<pipeVars, tableVars, boundVars, sent>>

-----------------------------------------------------------------------------
(* tick_conditions: the list of jobs is read once, then each is evaluated. *)

TickConditions ==
    /\ tick.at = "due" /\ tick.todo = {}
    /\ tick' = [Idle EXCEPT !.at = "cond", !.todo = (jobs \cap Conditional) \ paused]
    /\ UNCHANGED <<pipeVars, tableVars, boundVars, sent>>

(* Calendar closed, expression not true, or a run of the job is active. *)
TickCondSkip(j) ==
    /\ tick.at = "cond" /\ j \in tick.todo
    /\ Skip("cond", j)
    /\ UNCHANGED <<pipeVars, tableVars, boundVars, sent>>

CondTrueUnchecked(j) ==               \* fault: no look at active runs
    /\ tick.at = "cond" /\ j \in tick.todo
    /\ At("condinsert", j, NoRun)
    /\ UNCHANGED <<pipeVars, tableVars, boundVars, sent>>

TickCondTrue(j) ==
    /\ tick.at = "cond" /\ j \in tick.todo
    /\ ~ HasActive(j)
    /\ At("condinsert", j, NoRun)
    /\ UNCHANGED <<pipeVars, tableVars, boundVars, sent>>

TickCondInsert == \E r \in Runs :
    /\ tick.at = "condinsert"
    /\ InsertCondition(tick.job, r)
    /\ At("condsend", tick.job, r)
    /\ UNCHANGED <<tableVars, boundVars, sent>>

TickCondInsertFails ==
    /\ tick.at = "condinsert"
    /\ tick.job \notin jobs
    /\ tick' = Idle
    /\ UNCHANGED <<pipeVars, tableVars, boundVars, sent>>

TickCondSend ==
    /\ tick.at = "condsend"
    /\ TrySend(tick.run)
    /\ At("condadvance", tick.job, tick.run)
    /\ UNCHANGED <<tableVars, boundVars, sent>>

TickCondSendFull ==
    /\ tick.at = "condsend"
    /\ TrySendFull(tick.run)
    /\ Skip("cond", tick.job)
    /\ UNCHANGED <<tableVars, boundVars, sent>>

TickCondAdvance ==
    /\ tick.at = "condadvance"
    /\ SetNextFire(tick.job, "none")
    /\ Skip("cond", tick.job)
    /\ UNCHANGED <<pipeVars, paused, edit, boundVars, sent>>

TickEnd ==
    /\ tick.at = "cond" /\ tick.todo = {}
    /\ tick' = Idle
    /\ UNCHANGED <<pipeVars, tableVars, boundVars, sent>>

TickStep ==
    \/ TickStart
    \/ \E j \in Jobs : \/ TickCalendarSkip(j) \/ TickNoUnits(j) \/ TickAcquire(j)
                       \/ TickCondSkip(j) \/ TickCondTrue(j)
    \/ TickInsert \/ TickInsertFails \/ TickSend \/ TickSendFull \/ TickAdvance
    \/ TickComputeFails
    \/ TickConditions \/ TickCondInsert \/ TickCondInsertFails
    \/ TickCondSend \/ TickCondSendFull \/ TickCondAdvance \/ TickEnd

-----------------------------------------------------------------------------
(* The clock and the HTTP handlers, webhooks and file events on jobs. *)

(* next_fire_at is reached. *)
Clock(j) ==
    /\ j \in jobs /\ nextFire[j] = "future"
    /\ Spare(j)
    /\ nextFire' = [nextFire EXCEPT ![j] = "due"]
    /\ sent' = [sent EXCEPT ![j] = 0]
    /\ UNCHANGED <<pipeVars, tick, paused, edit, boundVars>>

(* trigger_job, webhook_receiver and the file watcher: next_fire_at = now. *)
Request(j) ==
    /\ j \in jobs
    /\ requests < MaxRequests /\ requests' = requests + 1
    /\ SetNextFire(j, "due")
    /\ sent' = [sent EXCEPT ![j] = 0]
    /\ UNCHANGED <<pipeVars, tick, paused, edit, edits>>

Editing == edits < MaxEdits /\ edits' = edits + 1

Pause(j) ==
    /\ Editing
    /\ j \in jobs
    /\ paused' = paused \cup {j}
    /\ UNCHANGED <<pipeVars, tick, nextFire, edit, requests, sent>>

Resume(j) ==
    /\ Editing
    /\ j \in jobs
    /\ paused' = paused \ {j}
    /\ UNCHANGED <<pipeVars, tick, nextFire, edit, requests, sent>>

(* update_job reads the row ...  *)
UpdateRead(j) ==
    /\ Editing
    /\ j \in jobs /\ edit = NoEdit
    /\ edit' = [job |-> j, paused |-> j \in paused]
    /\ UNCHANGED <<pipeVars, tick, nextFire, paused, requests, sent>>

(* ... and writes all of it back, next_fire_at recomputed from the trigger,*)
(* unless a schedule that cannot be read makes it 400.                     *)
UpdateWrite ==
    /\ edit # NoEdit
    /\ LET j == edit.job IN
        /\ SetNextFire(j, IF j \in Garbled THEN nextFire[j] ELSE FirstFire(j))
        /\ paused' = IF edit.paused /\ j \in jobs THEN paused \cup {j} ELSE paused \ {j}
    /\ edit' = NoEdit
    /\ UNCHANGED <<pipeVars, tick, boundVars, sent>>

(* What the pipeline does besides the tick leaves the jobs' columns alone. *)
PipelineStep ==
    /\ OffTick
    /\ UNCHANGED <<tick, tableVars, boundVars, sent>>

Reboot ==
    /\ Restart
    /\ tick' = Idle /\ edit' = NoEdit
    /\ UNCHANGED <<nextFire, paused, boundVars, sent>>

Next ==
    \/ TickStep
    \/ \E j \in Jobs : Clock(j) \/ Request(j) \/ Pause(j) \/ Resume(j) \/ UpdateRead(j)
    \/ UpdateWrite
    \/ PipelineStep
    \/ Reboot

SafeSpec == Init /\ [][Next]_vars

(* The tick task runs for ever, time passes, and the pipeline is fair.     *)
Fairness == WF_vars(TickStep) /\ (\A j \in Jobs : WF_vars(Clock(j))) /\ PipeFairness

Spec == SafeSpec /\ Fairness

-----------------------------------------------------------------------------
SchedulerTypeOK ==
    /\ tick \in [at : {"idle", "due", "insert", "send", "advance", "cond",
                       "condinsert", "condsend", "condadvance"},
                 todo : SUBSET Jobs, job : Jobs \cup {NoJob}, run : Runs \cup {NoRun}]
    /\ nextFire \in [Jobs -> {"none", "due", "future"}]
    /\ paused \subseteq Jobs
    /\ edit \in [job : Jobs \cup {NoJob}, paused : BOOLEAN]
    /\ requests \in 0 .. MaxRequests /\ edits \in 0 .. MaxEdits
    /\ sent \in [Jobs -> Nat]

(* A due instant of a job puts one run in the queue, and only a restart    *)
(* between the send and the new next_fire_at makes it two - or a schedule  *)
(* that cannot be read, which the import lets in.                          *)
FireOnce == \A j \in Jobs \ Garbled : sent[j] <= 1 + crashes

(* The tick never starts a condition job while a run it started for the    *)
(* same reason is active, whatever the pipeline does between the look at   *)
(* the runs and the insert (an operator's change of state aside).          *)
ConditionSingle == \A r, s \in Runs :
    /\ origin[r] = "condition" /\ origin[s] = "condition" /\ jobOf[r] = jobOf[s]
    /\ row[r] \in Active /\ row[s] \in Active
    /\ {r, s} \cap overridden = {}
    => r = s

(* A due job is served, whatever happens meanwhile: once its claims fit    *)
(* and the queue has room for good (others may go on to use the rest), a   *)
(* run of it is queued for that instant. So claims that did not fit delay  *)
(* a fire and do not lose it. What the code does let prevent it: a closed  *)
(* calendar; pause and deletion; a request that comes after the tick sent  *)
(* the fire before and before it writes next_fire_at over it; an update,   *)
(* which takes back the request of a job without a schedule; and a row     *)
(* whose schedule cannot be read, which ends every pass before its end.    *)
Overtaken(j) == tick.job = j /\ tick.at \in {"advance", "condadvance"}
Withdrawn(j) == edit.job = j /\ j \notin Timer \cup OneShot
Cut          == \E g \in Garbled : nextFire[g] = "due"

DueServed == \A j \in Jobs :
    <>[](Fits(j) /\ Len(queue) < QueueCap) =>
        (nextFire[j] = "due" ~>
            \/ sent[j] > 0
            \/ j \in Calendared \/ j \in paused \/ j \notin jobs
            \/ Overtaken(j) \/ Withdrawn(j) \/ Cut)
=============================================================================
