# rusty-sched in TLA+

TLA+ models of rusty-sched, a job scheduler in Rust: the tick loop that turns
due jobs into runs, the dispatch pipeline that executes and retries them, the
resource holds they take, their output and its live tails, the conditions that
start jobs, the webhooks and file events that ask for them, the tables of jobs and
resources with all that write them, accounts and sessions, and the HTTP calls, job
deletions and restarts that interleave with all of it. TLC checks the models on
small instances; TLAPS proves the safety of the pipeline, its refinement of an
abstract life of runs, and the safety of the tick loop, the output, the accounts,
the webhooks, the file watcher and the tables, for every instance.

Paths below are relative to `src/crates/`. A module comment or a comment on a
definition says which code it stands for; `PROJECT.json` gives the lines of each.

## 1. The system: inventory

One process (`rsched-bin`) runs everything on tokio: the tick loop (every
second), the dispatch consumer and one task per run, retry tasks, the file
watcher (every ten seconds), the axum HTTP server with its WebSocket tails. They
share one SQL store and a few maps in memory. Nothing else is persisted.

| Component | Code | State | Operations |
|---|---|---|---|
| tick loop | `rsched-scheduler/src/tick.rs` | none of its own; reads and writes `jobs`, `runs`, `resource_holds` | `tick_once`: due jobs; `tick_conditions`: condition jobs |
| dispatch queue | `rsched-scheduler/src/dispatch.rs` | bounded mpsc of intents (10 000) | `try_send` (tick), `send` (retry), `recv` (consumer) |
| dispatch consumer, run tasks | `rsched-bin/src/main.rs` 120-233 | local to each task | spawn, mark running, persist the log, save the final row, release, schedule the retry |
| retry | `dispatch.rs` `should_retry`, `main.rs` `schedule_retry` | a sleeping task | insert the next attempt, `send().await` |
| handle registry | `handle_registry.rs` | run id -> kill and signal senders | insert, remove, kill, signal |
| local executor | `rsched-agent/src/local.rs` | child process, two pipes, log channel (256), slots of the plugin protocol | dispatch, pumps, outcome task (exit, kill, timeout) |
| run rows | `rsched-store/src/repo.rs`, `rsched-core/src/run.rs` | `runs` | insert, update, cascade on job delete, change-status |
| resource holds | `repo.rs` 1850-1940, migration 0004 | `resources`, `resource_holds` | `try_acquire`, `release` |
| run logs, live tail | `main.rs` 157-181, `repo.rs` 986-1047, `rsched-api/src/routes.rs` 885-984 | `run_logs`, one cursor per tail | append, fetch, poll, end frame |
| job and resource API | `routes.rs`, `repo.rs` | `jobs`, `resources` | create, update, delete, pause, resume, trigger; create and delete a resource |
| webhooks | `routes.rs` 497-560, `webhook_dedup.rs` | replay window in memory (5 minutes, bounded) | verify, look, evict, record, set `next_fire_at`; prune |
| file watcher | `main.rs` 335-455 | watches of the kernel, watched paths, channel of events | rescan, take an event, list its jobs, set `next_fire_at` |
| conditions | `rsched-conditions`, `condition_ctx.rs` | copy of recent runs and globals | parse, print, evaluate |
| calendars, cron | `rsched-core/src/calendar.rs`, `cron.rs` | none | `allows`, `next_after` |
| boxes, DAG, SLA | `box_eval.rs`, `dag.rs`, `rsched-alert/src/sla.rs` | none | pure functions, not called by the server yet |
| auth | `rsched-api/src/auth.rs`, `main.rs` 236-271 | users, sessions, API keys, audit log | seed, login, logout, middleware, extractors, keys, users |
| JIL | `rsched-jil`, `routes.rs` 1056-1130 | none | parse, translate to jobs, import block by block |
| CLI | `rsched-cli` | none | one request per command; by name, and `jil`, several |
| alerts, web UI, store plumbing | `rsched-alert`, `rsched-ui`, `pool.rs` | none of interest | I/O |

How they interact. The tick inserts a run row and pushes an intent into the
queue; the consumer spawns a task for it; the task calls the executor, registers
its kill handle, and waits for the log channel and for the outcome task; it
writes the row, releases the holds and may start a retry task, which pushes an
intent into the same queue. HTTP handlers write the same rows, take handles out
of the registry and delete jobs (runs and logs go by cascade, holds do not).
There is no transaction across two of these steps, and no lock: correctness
rests on the order of the steps and on single SQL statements.

Which behaviours are hard, and what makes each component correct:

* **tick loop** - it works on a snapshot of the due jobs with awaits in between;
  rows change under it; `?` leaves the pass between two steps. A due instant
  must start one run; a job that is due must be served in the end; a condition
  job must not run twice at a time.
* **queue and consumer** - several producers, a full queue, a retry that blocks.
  An intent is executed once or not at all, and never forgotten while queued.
* **run task** - many early returns between the acquisition and the release of
  holds; kill, timeout and exit race. The final row must tell the outcome, holds
  must come back, the registry must follow the process.
* **retry** - never beyond `max_attempts`, never after a kill, never while the
  failed attempt keeps its holds; it must reach the queue.
* **holds** - the sum of units of a resource never exceeds its capacity; holds
  are taken from no live run and outlive no finished one.
* **output** - a chain of bounded buffers with the outcome task waiting at its
  end; a plugin is judged by lines that another task reads; tails poll rows that
  are being appended.
* **restart** - the queue, sleeping retries and handles are gone, rows and holds
  stay, children go on.
* **webhooks** - a map that is looked at and written in separate steps by several
  threads, pruned and evicted meanwhile, and written before the effect it stands for.
  A repeat is told apart just within the window, as long as its record is kept.
* **file watcher** - one task, but files, edits of jobs and rescans in any order
  around it. No event that matched a job is lost; watches follow the jobs.
* **jobs and resources** - handlers that read, await and write; documents applied
  block by block; rows of the import that other parts choke on. Undisturbed requests
  do what they say, and units never exceed a capacity although resources come and go.
* **auth** - credential and user are read in two steps and used later; effects and
  their audit row are two statements. Nobody acts without having been let in, and the
  log tells what was done.
* **parsers** - keywords are identifiers that are put back; blocks without an end mark.
  A text is read to what the grammar says.

## 2. The modules

Written, in the order in which they were written:

| Module | What it models |
|---|---|
| `RunPipeline` | runs, queue, consumer, run tasks, executor outcome, registry, holds, retries, change-status, job deletion, restart |
| `RunLife` | what the pipeline promises of runs, abstractly: one execution per intent, one retry per failed execution, `max_attempts` |
| `Scheduler` | the tick loop over the jobs table; EXTENDS `RunPipeline` and conjoins its tick actions with the tick's own control |
| `RunOutput` | one run's process, pipes, pumps, log channel, rows, final row and a tail |
| `Conditions` | condition expressions: the copy of runs and globals that a tick makes for each condition job, and the evaluation on it |
| `Conditions_proofs` | induction and recursion over expressions, the inductive invariant of `Conditions` and the theorems |
| `Access` | accounts, sessions, API keys, the middleware, the handlers that use them, the audit log |
| `Intake` | webhooks with their replay window, and the file watcher with the kernel's watches |
| `Access_proofs`, `Intake_proofs` | their inductive invariants and theorems |
| `Scheduler_proofs` | the inductive invariants of `RunPipeline` and the theorems, its refinement of `RunLife`, and the same for `Scheduler` |
| `RunOutput_proofs`, `Catalog_proofs` | the theorems about `RunOutput` and `Catalog` |
| `Sums`, `Sums_proofs` | sums of sequences, for `RunOutput`; induction over the naturals, and what it shows of sums |
| `Jil` | the lines of a document to blocks, a block to a job |
| `Catalog` | the tables of jobs, resources and holds with every writer: requests, imports, the client, the tick; EXTENDS `Jil` |
| `ConditionText` | the parser of conditions and their printed form |
| `Policies` | backoff, dependency groups, boxes, deadlines |
| `Cycles` | the search for cycles among dependencies |
| `Formulas` | inputs of the functions of `Jil` and `Policies`, and what is asked of them |
| `Formulas_proofs` | that for all inputs |
| `MCRunPipeline`, `MCScheduler`, `MCRunOutput`, `MCConditions`, `MCAccess`, `MCIntake`, `MCCatalog` | constants and symmetry of the instances |
| `MCFormulas` | the small inputs on which the operators of `ConditionText`, `Cycles`, `Jil` and `Policies` are checked |

`ConditionText`, `Cycles` and `MCFormulas` have RECURSIVE operators, as the code
recurses; nothing that is proved about uses them.

### RunPipeline

An action is the code between two awaits of one task. `stage[r]` is how far the
intent of run `r` has got, and so stands for the program counters of the tick,
the queue, the run's task and the retry task, which handle a run one after the
other:

    tick          unused -Acquire-> held -InsertRun-> inserted -TrySend-> queued
    consumer      queued -Receive-> taken
    run task      taken -Spawn-> spawned -MarkRunning-> running -Reap-> reaped
                  -SaveFinal-> saved -Release-> done | backoff
    retry task    backoff -InsertRetry-> done, and the child: sending -SendRetry-> queued
    early ends    dropped (full queue), aborted (row insert refused), unspawned
                  (spawn failed), vanished (the server stopped)

`row` is `runs.state`, `holds` the rows of `resource_holds` cut into unit
tokens (so that `SUM(units)` is a cardinality), `registry` the keys of the
handle registry, `killSent` the content of the kill channels, `proc` and
`outcome` the child and the answer of the outcome task. `Acquire` is one
action: it is one SQL transaction in the code. The branch of `Finish` is chosen
by whoever is first: `Exit`, `Killed` after a kill, `TimeOut` for a job with
`timeout_secs`.

`ChangeState` (the handler `change_run_state`) writes the row, and a later
step, `ReleaseChanged`, deletes the holds, as the two awaits of the code do.
`DeleteJob` removes the rows of the runs and leaves their holds: the foreign keys
say so. `Restart` is a stop of the server and its next boot.

### RunLife and the refinement

`RunPipeline!Life` instantiates `RunLife` with `life[r]` computed from `stage`,
`proc` and `outcome` (`LifeOf`). `ImplementsLife` says that every step of the
pipeline is a step of that abstract life or stutters: no intent is executed twice
(also not across a restart), a retry is born only of an execution that failed,
once, and within the limit.

### Scheduler

`tick` is where the tick task is: its place, the jobs of the snapshot it has
still to handle, and the job and run in hand. `nextFire` is `next_fire_at` as the
tick sees it: none, due, or in the future; `Clock` makes a future instant due.
`TickAcquire`, `TickInsert`, `TickSend` ... are the pipeline's actions `Acquire`,
`InsertRun`, `TrySend` ... with the tick's control added, so what TLC finds of
the pipeline alone (where a tick may do them in any order) covers the composed
system. `Request` is everything that sets `next_fire_at = now`: the trigger call, a
webhook, a file event. `UpdateRead` and `UpdateWrite` are the two halves of
`update_job`. `TickComputeFails` is the `?` behind `compute_next`, which ends the pass at an
imported job whose schedule cannot be read (`Garbled`).

`DueServed` is about a job whose claims fit, with room in the queue, from some time on: one whose
unit others take again and again is not served, and the code promises it nothing. It names what
takes a fire away: `Overtaken` (a request between the send of the fire before and its new
`next_fire_at`), `Withdrawn` (an update of a job without a schedule), `Cut` (a due job
whose schedule cannot be read ends every pass), a calendar, a pause, a deletion. A
panic in a condition ends the server and is its `Reboot`.

### RunOutput

Output is counted in units; a line of a plugin's stdout also says what kind of
event it is. `Write`, `ExitChild` and `BehindEnds` are the child and a process it
leaves behind with the pipes open; `Pump`, `PumpLine`, `PumpEnds` the two
pumps; `OutExit`, `OutKill`, `OutTimeout`, `OutDone` the outcome task; `Persist`
and `Save` the run's task; `Fetch`, `Look`, `Poll`, `TailCloses` one WebSocket
tail (tails do not know of each other). A code of a `complete` event or of a child that was
killed may be `NoCode`, a constant that is no integer. `RunOutput` refines what `RunPipeline` does
between `running` and `saved` in one step, `Finish` and `Reap`; the two are not
formally composed.

### Conditions

`runs[j]` are the rows of job `j` in the order of `queued_at`; `ctx` is the
`StoreUpstreamState` under construction. `Begin` takes the instant and the list of
jobs, `Load(j)` is the one query per job, `LoadGlobals` the last one, and
`Evaluate` ends the evaluation; between any two of these, runs are queued, start and
settle, jobs are deleted and globals set. Expressions are trees of named nodes
(`Node`), well-formed as the type `Expr` makes them (`WellFormed`; a job and a global are
two things, also of one name). `Answer` is what `evaluate` gives on the copy ("none" for
Rust's `None`, "panic" for a panic, which is no answer), and `Truth` is a reference that knows neither the copy nor its
limit: what the expression means of the rows as they are. `seen` collects the truth
of every part during the copy, so that `AnswerWasTrue` can say that an answer was
right at some instant of it. `UnknownNeverFires` is about last runs that do not exist (also under
`not`), globals that are not set, and look-backs at jobs that are gone. It is not about `running` and
`notrunning`, nor about look-backs at a job that exists and never ran: these have an answer,
against a comment of the evaluator (section 6).
`Settle` and the change-status call write the state in one step here; the read before that write
decides only whether there is a row. `AnswerWasTrue` is about the parts that ask about one job or one
global. Of two jobs it is not so, as they are read one after the other: `success(a)
and success(b)` may come true although `a` was running again when `b` succeeded.

### Access

`req[c].at` is the place of a request: the middleware's four reads (key, its user,
session, its user), the handler, and for the handlers that write their two or three
statements. `ctx` is what the extractors find. `AuthUser`, `RequireWrite`,
`RequireAdmin` are `Authenticated`, `WriteAllowed`, `AdminAllowed`; the role of a user
never changes, so that reading it at the middleware or at the handler is the same.
`Abandon` is a statement that fails or a client that hangs up, at any of these places;
`Restart` cuts all requests. `vouched[c]` collects the users for whom the request
presented a good credential since it came. `RequestVouched` says no more than that: a
handler may run on after a logout or an expiry, and does. Nothing in the server calls
`set_disabled`; the model does, as the code reads the column. What the routes behind `Write` do
is in the other modules.

### Intake

`seen` is the map of `WebhookDedup`; `HookDuplicate`, `HookRefresh` and `HookAbsent` are
the three branches of the look, which holds the lock of the entry; `HookScan`,
`HookEvict`, `HookInsert` are the steps of an insertion without that lock. `passed`
and `recorded` are the two histories `ReplayWindow` is about: who was let through, and
whose record is still to be relied on. The exceptions in `recorded` are the code's:
an eviction, and two equal requests that both looked before either inserted.
(A look that misses the entry and the count of the map are one step: the count only decides whether
to evict.) `kernel` is what inotify watches (external), `watched` what the loop believes.
`watch()` fails on a path that is missing and may fail on any other (a permission, the limit of
watches); either way the path counts as watched and is not tried again: `blind`, and the
form of `KernelFollows`. `trigger` is the path and the kind of event of a file job, or none;
`UpdateJob` sets any other, or takes it away. `owed` collects the jobs that matched an event when it
was sent; a job that is deleted or given another trigger meanwhile gives up its claim, and
an error of the list of jobs drops the event (`ListFails`).

### Jil, Catalog

A line of a document has a kind, and an attribute a flag that tells whether its value
can be read; `ReadLines` takes them in order as `parse` does (a
recursive function, so that it can be proved about). The reference, `WhatItSays`, knows no order
of reading: a line belongs to the nearest line above it that begins like a verb. (A line that
begins like a verb, is none and has a key that ends in `_job`, as `insert_job_x_job: n`, is an
error of the whole document, `parse.rs:111-116`; it is left out.) `IntoJob` keeps of a
job what other components act on: whether it is valid, its trigger, its claims.

In `Catalog`, `job` has the columns that matter between components: name, trigger,
claims, `next_fire_at` and the pause. `call[c]` is a request or a command that takes several
steps, `tick` the pass. `AcquireOne` is one claim of `try_acquire` with its three answers;
`TryAcquire` goes through the claims, all in one transaction. It and `ApplyAll`, the
reference for a document, are recursive functions, so that they can be proved about. `culprit` collects the jobs that made
`?` leave a pass, or were fired twice for one due time while the server ran. The pass goes on with
the condition jobs (`TickConditions`, `TickHolds`, `TickFires`, `TickClear`); a posted condition
that counts runs without a look-back panics (`TickPanics`), which ends the server, as a stop does at any
other place (`Restart`). Both may leave a job due that was fired; they are no `?`, and
`PoisonOrigin` is about passes that fail. `touched` the callers whom
another writer disturbed, for which `DocumentApplied` and `UpdateKeeps` promise nothing.
`RunPipeline` and `Scheduler` have the same table and holds with less in them (no names,
no resources that go); the modules are not formally composed.

### ConditionText, Cycles, Policies, Formulas

A parser is an operator from a position to a position and a tree, as the functions of
`parse.rs` move a cursor. `Trees` is the reference: the grammar of `conditions.md`, by
splitting the text at its connectives. `HasCycle` is the walk of `dag.rs`; the
reference is reachability. For `Policies` the properties of `ForwardOnly` are laws that
relate two inputs (a later attempt, a later instant, runs that have moved on). `Formulas`
says which inputs there are, for any names, jobs and numbers. The expressions of a box are
evaluated on the states of its children (`Holds`): as `evaluate` gives no answer just when one of
the atoms has none, an expression is its atoms and the sets of them whose truth makes it true.
An outcome of a box is final without expressions. With them, a box that succeeded may fail when its
failure expression becomes true, and one that failed by the rules succeeds when its success
expression does; a `not`, `running` or `notrunning` can take back anything, and `ForwardOnly` asks
nothing of such a box. `MCFormulas` takes small
inputs, and texts and graphs.

### What is left

Liveness, the parser of conditions and the search for cycles stay with TLC, see the end of section 4. What
no module has is in section 5.

## 3. The runs

| Run | Properties | Shows |
|---|---|---|
| `RunPipeline_safety` | `TypeOK`, `CapacityRespected`, `IntentOnce`, `ClaimsHeld`, `HoldsAccounted`, `RetryChain`, `RowTellsOutcome`, `KillReaches`, `ImplementsLife` | the safety of the pipeline under every interleaving with one restart, one change-status call or one deletion of a job, and its refinement of `RunLife` |
| `RunPipeline_live` | `IntentEnds`, `HoldsReturn`, `RetryComes` | no task waits for ever on another, units come back, retries reach a full queue |
| `Scheduler_safety` | `SchedulerTypeOK`, `FireOnce`, `ConditionSingle` | one run per due instant (one more per restart), one active run among those a condition started |
| `Scheduler_live` | `DueServed` | a due job is served although its claims did not fit at first, and what can keep it from that is named |
| `RunOutput_safety` | `OutputTypeOK`, `RowsArePrefix`, `LogComplete`, `PluginVerdict`, `TailInOrder` | the log is the output up to the cap, a plugin is judged by all it said, tails neither skip nor repeat |
| `RunOutput_live` | `RunEnds`, `TailEnds` | the chain of buffers does not lock up; tails end |
| `Conditions_safety` | `TypeOK`, `AnswerWasTrue`, `UnknownNeverFires` | conditions are evaluated on what the store was at some instant, and an unknown last run, an unset global or a job that is gone never makes one true |
| `Access_safety` | `AccessTypeOK`, `RequestVouched`, `AuditTrail` | a request acts only for an enabled user whose credential it presented was good meanwhile; the audit log tells every effect, but for those that were cut off before it, and no other |
| `Intake_safety` | `ReplayWindow`, `NothingOwed`, `KernelFollows` | repeats are told apart just within the window; no file event is lost for a job that keeps its trigger, between edits and rescans; watches follow the jobs |
| `Catalog_safety` | `DocumentApplied`, `PoisonOrigin`, `HoldsMatch`, `UpdateKeeps` | imports and updates do what they say while nobody disturbs them; while the server runs, only imported rows make a pass fail; holds match resources that come and go |
| `Formulas` | `ParserAgrees`, `BlocksAgree`, `CycleFound`, `ForwardOnly` | the parsers, the cycle search and the rules agree with their references on all small inputs |
| `RunPipeline_oversubscription` | `NoOversubscription` | *violated*, see section 6 |

Deadlock is not checked: bounded fires, requests and writes run out, and then
nothing has to happen.

**Bounds, and why they are enough.** *Pipeline*: three runs are a run, its retry
and a competitor, the most that one property relates; one resource of capacity 2, of
which job `a` claims one unit and `b` two, so that claims fit, do not fit, and
fit again after a release; a queue of one intent, so that it is full whenever two
producers meet; two attempts for `a`; `b` is a condition job whose command may
fail to spawn. `IdsInOrder` uses run ids in order (they are interchangeable, this
is symmetry by hand), and `OneUpset` gives each behaviour a restart, a
change-status call or a deletion, not two of them. *Scheduler*: two jobs and two runs, as each
property relates at most two runs of a job or two jobs; each job may fire twice, one
request, one restart; the live run has a timer and a one-shot job that need the same unit, so that
one must wait for the other, a job whose schedule cannot be read, one request and one
edit. Each of the two may fire twice. The clock leaves a job the fires that requests to
come may need (`Spare`), or liveness would ask of a bounded tick what it cannot do; requests are
bounded by their number alone. There, runs end by their timeout (`TimedOnly`) and only one of
the two competitors is edited or deleted (`OnlyB`), as the other one is the same. *Output*: a channel of
one chunk is full whenever a pump is ahead; reads of up to two units and a cap of
two let a chunk not fit where a smaller one would; two lines on stdout are the least
with which the order of `complete` events matters; one unit on stderr makes the
pumps compete. *Conditions*: two runs of which one is copied, so that the limit is
reached; a clock of two instants after the first and a look-back of one, so that a
run leaves the window; four conditions that join the latest run, its exit code,
a look-back and a global by each connective. `NothingLate` leaves out what a job does
after it was copied: it could only add to what the property allows. (The theorems of
section 4 are about `Spec` without it.)
*Access*: two requests at a time and four in all, two sessions and a key, three
users, a session of one unit of the clock, one restart: enough for a login, a use, and
a logout or an expiry between the two reads of that use. *Intake*: two webhook requests
at a time and four in all for three bodies, with two entries in the map, so that it is
full, is pruned and evicts; a window of two and a clock to three, so that it ends; a
directory and a file in it with a job each, three operations on files, two edits of
jobs (pause, resume, deletion, another trigger), one restart. `OneSource` leaves out behaviours with webhooks and file events: the two
meet only in `next_fire_at`, which both only set. *Catalog*: two job names, two job ids, a
resource name with two ids, two runs, one caller with several steps next to requests
of one step and the tick; documents of two of six blocks, three requests; the server may
start on a row that an import wrote, and restart at any step. An error of the first block and one of the second,
a document disturbed by a request, and a resource created anew while the runs that held it go on all happen.
*Formulas*: texts of up to five connectives, parentheses and calls, and calls with one
token wrong; documents of up to five lines; all dependency graphs of three jobs; states of
two upstream jobs and all their moves forward; boxes with seventeen pairs of expressions. `MaxExp` is 3 for 30 and `MaxWord` 31 for
`u64::MAX`, so that both the cap and the saturation are reached by small attempts.

**Symmetry** is used where constants are interchangeable in all properties and no
liveness is checked: clients, tokens and users but the seeded one (`Access`), requests and bodies
(`Intake`), ids of jobs, resources and runs (`Catalog`).

**Fairness, and why the code justifies it.** tokio polls every ready task in the
end, so the consumer, the run and retry tasks, the tick task and the pumps get
weak fairness; where the state graph is large it is asked of the pool of run tasks
as a whole, which is less. `Scheduler` also assumes that time passes (`Clock`).
Nothing is owed by operators, new fires, children, the timer of `timeout_secs`
or restarts. In `RunPipeline_live` and `Scheduler_live` all jobs have a timeout
and the executor is fair, because a job that never ends and has no timeout keeps
its task for ever, rightly. In `RunOutput_live` the premise of `RunEnds` is that
the process has ended and left nothing behind that holds the pipes.

Every property has a mutant, a faulty form of one definition (a dropped guard,
an off-by-one, a missing reset, a wrong order), under which its run finds it
violated; the faulty forms stand in the modules next to the definitions, marked as
such, and are used by nothing else.

## 4. What is proved

`Scheduler_proofs` proves, for every set of jobs, runs and resources, all
claims and capacities, any queue capacity and any bounds that meet
`PipelineAssumption`, that each behaviour of `PipeSafe` satisfies

| Theorem | Property |
|---|---|
| `TypeCorrect` | `[]TypeOK` |
| `CapacitySafe` | `[]CapacityRespected` |
| `QueueSafe` | `[]IntentOnce` |
| `ClaimsSafe` | `[]ClaimsHeld` |
| `HoldsSafe` | `[]HoldsAccounted` |
| `KillSafe` | `[]KillReaches` |
| `RowSafe` | `[]RowTellsOutcome` |
| `RetrySafe` | `[]RetryChain` |

The assumptions that matter are that runs and resources are finite sets (without
which a cardinality of holds means nothing) and that claims and capacities are
naturals.

The argument. None of the properties but the first is inductive alone. Each
theorem has its own strengthening, and later ones use earlier ones as facts:

* `CapacityInv`: `CapacityRespected`, with finiteness of the holds of each resource, without which
  adding cardinalities means nothing. `Acquire` adds at most `Units[j][x]` tokens
  to what `Fits` looked at (lemma `ClaimSize`); every other step only removes.
* `QueueInv`: the queue holds no run twice and exactly the runs in stage
  `queued`. A step appends a fresh run, takes the head, empties the queue or
  leaves it alone (lemma `QueueCases`); `IntentOnce` follows by counting positions.
* `HoldsInv`: `ClaimsHeld` and `HoldsAccounted` need each other, and that a run
  whose retry task is sending it is a retry, so that it enters the queue without claims.
* `ProcInv`: which process, outcome and registry entry go with which stage. It
  carries `KillReaches` and, with `QueueInv` for the consumer's step, `RowTellsOutcome`.
* `ChainInv`: the part of `RetryChain` that is about identities, and that a run
  waiting for its retry has failed and has an attempt left. That the parent has
  no hold left comes from `HoldsAccounted`.

`Access_proofs` proves, under `AccessAssumption`, and `Intake_proofs`, under
`IntakeAssumption`, for all sets of clients, users, tokens, requests, bodies, jobs and
paths and all bounds, that each behaviour of the module's `Spec` satisfies

| Theorem | Property |
|---|---|
| `AccessTypeCorrect` | `[]AccessTypeOK` |
| `RequestsSafe` | `[]RequestVouched` |
| `AuditSafe` | `[]AuditTrail` |
| `WatchesSafe` | `[]KernelFollows` |
| `EventsSafe` | `[]NothingOwed` |
| `ReplaySafe` | `ReplayWindow` |

The assumptions that matter are that `None` is told apart from times, users, bodies and
rows, and, for `Access`, that tokens and keys are disjoint. Nothing needs to be finite.

* `AccessInv` is `TablesInv`, about accounts and credentials, and `RequestsInv`, about each
  request. Its heart is what holds between the read of a credential and the read of its
  user: that user was good at the first read, or has been disabled since. Accounts are for
  ever and users are only disabled, so that no other request can spoil this (`ReqKept`).
* `LogInv`: rows of the log and rows still to be written tell the truth, and every effect
  is told by one of them or was cut. Users keep their role, drawn tokens stay drawn and
  revoked keys revoked (`Grown`), so that a row that tells the truth tells it for ever.
* `KernelFollows` is inductive.
* `OwedInv`: a job that is owed an event is on its way to be asked for: a matching event is
  in the channel or in the watcher's hand, or the job is on the watcher's list.
* `WindowInv`: the map never knows a later time than that of the last request that passed,
  and a fresh record is in the map as it was written. The action property follows for the
  three branches of the look (`LookStep`); a step of another request leaves this one alone.

### Refinement and composition

| Theorem | States |
|---|---|
| `LifeRefined` | `PipeSafe => ImplementsLife` |
| `SchedulerIsPipeline` | `SafeSpec => PipeSafe`, of `Scheduler` |
| `ComposedSafety`, `ComposedLife` | the theorems about the pipeline, of the whole scheduler |
| `SchedulerTypeCorrect` | `[]SchedulerTypeOK` |
| `FireOnceSafe` | `[]FireOnce` |
| `ConditionSingleSafe` | `[]ConditionSingle` |

* `LifeRefined`: initial states map to initial states, and each action of the pipeline
  maps to the one step of the life it stands for (`FireIsFire`, `RetryIsRetry`, `SpawnIsStart`,
  `EarlyReturnIsDrop`, `FinishIsEnd`, `RestartIsCut`), or to none (`OthersStutter`). The
  facts about a state come from `QueueInv`, `ProcInv` and `ChainInv`.
* `SchedulerIsPipeline`: a step of the scheduler is one of the pipeline or leaves the pipeline alone
  (`StepMaps`), given only that the tick has a job and a run in hand where it uses one
  (`TickInv`). All that is proved of the pipeline, where the tick is free to act in any order, is so
  inherited by the real tick.
* `FireInv`: a job that is due, or that the tick has still to handle, has been sent no
  more often than the server was restarted; between the send and the new `next_fire_at`
  it may have one more. Requests, edits and deletions in between do not matter.
* `RowInv` and `CondInv`: the row of a run that waits for its process is `queued` or gone, so that
  no run comes back to life, and no run that counts against a condition job appears between
  the tick's look and its insert.

### Output

| Theorem | Property |
|---|---|
| `OutputTypeCorrect` | `[]OutputTypeOK` |
| `RowsArePrefixSafe` | `[]RowsArePrefix` |
| `TailInOrderSafe` | `[]TailInOrder` |
| `LogCompleteSafe` | `[]LogComplete` |
| `PluginVerdictSafe` | `[]PluginVerdict` |

`RunOutput_proofs` proves them of `SafeSpec` under `OutputAssumption`: any codes that are
integers, any exit policy, channel, cap, and sizes of reads and pages.

* `LogInv`: `bytes` is the sum of what the task received, and the rows are the longest
  prefix of it within the cap. A chunk that does not fit is followed by none that
  does, as `bytes` goes on counting (`LogAppend`).
* `TailInv`: what a tail has sent is its part of what was received.
* `PumpInv` and `SaveInv`: what the pump of a stream has read is, unit for unit, in the
  channel or with the task; a pump that ended has met a closed pipe or a line it cannot read; the
  final row is written after both, with the channel empty.
* `ToldInv` and `OutcomeInv`: `slot` is the last code among the lines read so far, and
  the outcome was formed after the pumps ended.

The induction is over the length of a sequence. It is had from the library's well-founded
order of the naturals as a statement about sets (`Sums_proofs!Induction`: a set that
holds 0 and with each number the next holds them all), which needs no operator as
a parameter; `Sum`, and the folds of `Catalog`, are recursive functions for it.

### The tables

| Theorem | Property |
|---|---|
| `CatalogTypeCorrect` | `[]TypeInv` |
| `HoldsMatchSafe` | `[]HoldsMatch` |
| `PoisonOriginSafe` | `[]PoisonOrigin` |
| `UpdateKeepsSafe` | `UpdateKeeps` |
| `DocumentAppliedSafe` | `[]DocumentApplied` |

`Catalog_proofs` proves them of `Spec` under `CatalogAssumption`: any ids, names, callers and
documents. The assumption says that the rows the server starts with have the type of rows, that a
block has one of the three verbs and yields claims on resources by name, and that `None` is no row.

* `HoldInv`: units within the capacity, holds only of resources there are (`Within`), each
  of a run that is live, was lost or is in the tick's hand. `AcquireOk` carries `Within` from one
  claim of `try_acquire` to the next, by induction over the claims.
* `OriginInv`: rows that came by POST or PUT have no claims and a schedule that can be read, and so have the
  copies in the tick's hands and the rows an update read; a job fired twice, or at
  which a pass failed while the server ran, was imported or is gone.
* `UpdateInv`: an update's copy agrees with the row in pause and claims until another
  request disturbs it. One frame serves all callers: a step of a request disturbs
  the others or leaves name, trigger, claims and pause of every row (`StepBy`).
* `NamesInv` and `DocInv`: names are unique; an undisturbed document has made of the table what
  `ApplyAll` of the blocks so far makes of it, and has told so.

### Conditions

| Theorem | Property |
|---|---|
| `ConditionsTypeCorrect` | `[]TypeOK` |
| `AnswerWasTrueSafe` | `[]AnswerWasTrue` |
| `UnknownNeverFiresSafe` | `[]UnknownNeverFires` |

`Conditions_proofs` proves them of `Spec` under `ConditionsAssumption`: any jobs and globals,
any ends of runs, any history limit, any look-backs, and any expressions, also an infinite set
of them. The assumption says that an expression is one of the type `Expr` and a finite
tree: of any set of expressions, one has none of the others for an operand.

* That is enough for induction over expressions (`ExprInduction`) and for recursion
  (`Recursion`): whatever says what an expression is, given what its operands are, has a
  function that obeys it. So `Meaning`, `Parts` and `Asked` are what their equations say
  (`MeaningDef`, `PartsDef`, `AskedDef`), and a value depends on the leaves alone
  (`SameLeaves`); one that is resolved has resolved leaves only (`ResolvedLeaves`), as
  `?` has it.
* `CopiedRight`: on a copy of the rows of a job, a part that asks about this job comes to
  what it means of the rows, or panics, unless the look-back was cut. The copy reads the
  rows from the last one back, so that equal counts need a bijection (`CountsAgree`).
* `ConditionsInv`: while copying, `seen` has what every part is just now (`SeenInv`); a part
  that asks about a copied job (`LoadedInv`), and in the end about a global (`GlobalsInv`),
  has an answer that was seen, or panics, or is exempt; a listed job has a resolved value
  for a look-back (`ListedInv`). A part once exempt stays so (`ExemptStays`): rows only
  move forward in time, as none was queued in the future (`TableInv`), and a job
  whose rows go away is gone from the table, but not from the list that was copied.

### Formulas

| Theorem | Property |
|---|---|
| `BlocksAgreeSafe` | `input \in Inputs => BlocksAgree` |
| `ForwardOnlySafe` | `input \in Inputs => ForwardOnly` |

`Formulas_proofs` proves them for every input: documents of any length, of any names, keys and
values; any jobs, edges and moves of runs; any attempt, delay and instant. `PoliciesAssumption`
(the doubling that the cap allows fits in the word), `StatesAssumption` (no state is `None`) and
`FormulasAssumption` (a day has a length) are all that is assumed.

* Reading is a loop, the reference a comprehension over the whole document. `ReadSoFar`
  is the invariant of the loop: after n lines the blocks are what the first n lines say
  (`BlocksTo`), attributes are taken just when line n + 1 belongs to an insert or an update, and there
  was an error just when one of the lines is out of place (`Offends`). One more line is a block
  more (`BlocksVerb`), an attribute more of the last block (`BlocksAttr`) or nothing (`BlocksSame`);
  what "the last" is comes from `InOrderMore` and `InOrderLast`, about the members of a
  set in order.
* The exponent grows by one or not at all (`ExponentGrows`), and one doubling more is
  twice the delay (`PowerDef`), so that the delay before both cuts never falls; the
  saturation at `MaxWord` never shows behind the maximum (`ExponentialDelay`).
* A run that is done moves no more (`DoneStays`): what a box or a dependency saw of it stays, and so
  does an expression of outcomes that is true (`HoldsStays`), for its atoms are answered for ever.
  Within a day the deadlines stay (`SameDay`) and only the clock goes on.

### Only model-checked

The liveness properties (fairness and ENABLED are out of the prover's reach), and
`ParserAgrees` and `CycleFound`: the parser of conditions and the search for cycles are RECURSIVE
operators, like the code, and the prover loses its arithmetic next to them.

## 5. What is not modelled

* Store errors other than foreign-key refusals; a store in which statements are
  not atomic. The code ignores most of them (`let _ =`).
* The length of delays, timeouts and intervals; cron expressions; time zones.
* Signals to a run, resource usage, log text, the command line of the child, a
  child that closes a pipe before it exits.
* In `RunOutput`, a restart (`RunPipeline` has it) and an append that fails for another
  reason than a deleted job.
* `Scheduler` has no creation of jobs and no edit of a trigger; `Catalog` has.
* The arm of `main.rs:210-214` for an outcome task that ended without an answer (`lost`): that task
  neither panics nor is aborted in the code there is, so `Verdict` has no such case.
* In `Access`: passwords, hashes and the drawing of tokens (a token is fresh); the
  disabling of the seeded user. In `Intake`: the signature (a request without a good one is
  answered before anything is touched), events that the kernel drops.
* Attributes of a JIL block that only fill a column which no other component reads.
* Commands of the client that are one request, or print what they get.
* Alerts and mail (nothing in the server sends one), the web UI, the connection pool,
  migrations, row conversions and statistics, signal handling of the process: I/O
  without control of their own.

## 6. Where the code and what is said of it differ

Shown by a run:

* `RunPipeline_oversubscription` - `docs/book/src/resources.md` says every claim is
  acquired before dispatch. Retries and condition runs are dispatched without, so that
  more units are in use than there are.

Met while modelling, without a run of their own. The models do what the code does.

The pipeline, its output and the conditions:

* `docs/book/src/resources.md:57-58` says the consumer releases holds on a terminal
  state. When the command cannot be spawned (`main.rs:142`) it writes `failed` and
  returns; the units stay taken: the stage `unspawned` in `HoldsAccounted`.
* The trigger call says the next tick will dispatch (`routes.rs:281`); a tick that is
  handling the previous fire overwrites `next_fire_at` (`tick.rs:119`): `Request`, then
  `TickAdvance`.
* A condition run that finds the queue full stays `queued`, and the job never fires again
  (`tick.rs:163`, `has_active_for_job`).
* The end frame of a tail promises a drained buffer (`routes.rs:897-898`); rows are
  fetched before the state is read (`routes.rs:952`), and rows written in between are
  not sent: `Fetch`, then `Look` in `RunOutput`.
* The grammar of `conditions.md` (line 15, and 35) makes the look-back of `numrun`,
  `numsuc` and `numfail` optional. Without one, a window of `u64::MAX / 2` seconds is asked
  for, the conversion panics out of range (`condition_ctx.rs:81`), and `panic = "abort"`
  in the release profile makes that the end of the server: "panic" of `Answer`, `TickPanics` of
  `Catalog`. `POST /jobs` takes such a condition, as it asks only that it is not empty
  (`trigger.rs:136-141`), and every boot then ends at the first pass that evaluates it.
* A job deleted between `try_acquire` and the insert of its run leaves holds
  behind (`tick.rs:105`): the stage `aborted` in `HoldsAccounted`. The comment at
  `tick.rs:113` rolls back only for a full queue.
* The run's task overwrites a terminal state an operator set (`main.rs:154`, `217`,
  against `run.rs:28`, "won't change").
* After a restart the rows of cut runs stay `running` (against
  `docs/book/src/deployment.md:91-95`, "lost as RunState::Lost").
* The misfire policy of a trigger is stored and never read.
* `timeout_secs` is called a hard limit; a shell that leaves a process with the
  pipes open keeps the run `running` until that process ends (`local.rs:134`,
  `main.rs:162`): hence the premise of `RunEnds`.
* `update_job` writes back the `paused` it read, and undoes a pause or resume that
  came in between (`routes.rs:355`, against `docs/book/src/jobs.md:49-50`); `UpdateRead`,
  `Pause`, `UpdateWrite` in `Scheduler`.
* `docs/book/src/globals.md:47-49` promises one copy of the globals per tick; there is one
  per condition job, made after its jobs were read.
* `docs/book/src/conditions.md:33` says `running(j)` when the job is running; only the run
  queued last is looked at. `expr.rs:53` says of a windowed `success` that the last run in
  the window succeeded; any run in the window does. `running` and `notrunning` have an answer also
  for a job without history.
* `eval.rs:63-64` says that an answer is unresolved "if any referenced job has no history". A
  look-back at a job that exists and never ran finds no run in the window
  (`condition_ctx.rs:78-86`) and answers false, or compares 0: `not success(x, 01.00)` and
  `numrun(x, 01.00) = 0` come true for a job that never ran (`OfHistory`, and the exception in
  `UnknownNeverFires`).
* A job deleted between the list of jobs and the query of its runs has an empty history:
  windowed parts about it are false instead of unresolved (the case `Emptied`).
* The grammar of `conditions.md:13-14`, and the printed form of an expression
  (`expr.rs:96`), have `not (expr)`; the parser takes `not (` for a call of an unknown
  function (`parse.rs:285-302`): `ParseNot`, and the exception in `ParserAgrees`. What is
  printed of an expression with a `not` cannot be read again.
* A comment of the executor (`local.rs:106-108`) says that a plugin without a `complete`
  event fails, and takes its exit code so that the scheduler treats the run as failed. That
  code, when it is not 0, goes to the exit policy like any other (`local.rs:109`,
  `main.rs:188-194`): where the policy lets it pass, a plugin that completed nothing ends
  as a success. `PluginVerdict` says what the code does.
* The tail's comment says an idle socket is closed after 30 minutes; the deadline
  is never renewed, so a busy one is closed too.
* `docs/book/src/calendars.md:51-54` attaches a blackout of the holidays as
  `exclude_calendar_id` to block them. A blackout allows every other day
  (`calendar.rs:87`), and an exclude calendar blocks what it allows (`tick.rs:60-68`): the
  job is blocked on every day but the holidays.

Webhooks and files:

* `check_and_insert` says it is atomic (`webhook_dedup.rs:72`); of two equal requests at
  the same time both may pass, and concurrent evictions can leave the map with more than
  the maximum.
* The fingerprint is recorded before `set_next_fire` (`routes.rs:545`); when that fails, the
  sender's retry is refused for the window.
* A path whose `watch()` failed, be it missing or not, or that was deleted and made again, is not watched until no job
  wants it for a rescan (`main.rs:380-388`). An error of the list of jobs drops the event.
  A paused job is asked for all the same, and runs when it is resumed.

Jobs, resources and JIL:

* `docs/book/src/resources.md:32-36` shows claims as a field of REST jobs; `POST /jobs` drops
  `resource_claims`, as it does `exit_policy` and `must_times`. Only an import sets claims.
* Only an import lets in a job that makes a pass fail: a resource claimed twice violates the
  primary key of the holds in every pass (`repo.rs:1913`), and a start time like 25:00
  makes a cron expression that cannot be read, which is swallowed by `.ok()`. When such a
  job is triggered, every pass fires it anew and ends before the rows after it
  (`tick.rs:118`): `PoisonOrigin`.
* A job deleted by somebody else between the two steps of an import's delete is told to
  have been deleted.
* `docs/book/src/jil.md` and `cli.md:29` show `update_job`; the server's import does not
  support it and the client sends what the server refuses (422). `jil.md:27` says
  a condition becomes a `Trigger::Condition`; it is kept as a warning.
* A comment (`parse.rs:183-184` of `rsched-jil`) says a blank line ends the attributes of a
  block; it does not: the mutant of `BlocksAgree` is what the comment says. Days that are not known
  become `*`, and only the first start time is used, both silently.
* `ON_ICE` resumes a job and `OFF_ICE` pauses it (`cmd.rs:264-268`, `sendevent.md:13-14`);
  `compat.md:44` says they are aliases of `ON_HOLD` and `OFF_HOLD`.
* `dag.rs`, `box_eval.rs` and `sla.rs` are called by nothing in the server.

Accounts:

* `set_disabled`, `set_password_hash` and `prune_expired` are called by nothing. A failure
  to seed the first account is a warning only.
* An error, a hang-up or a restart between an effect and its audit row leaves it untold
  (`cut`); of two deletions of one key at the same time both are told.
