-------------------------------- MODULE Intake --------------------------------
(***************************************************************************)
(* The two ways in which the outside world asks for a job: webhooks, with  *)
(* their window against replays, and the file watcher. Both end in setting *)
(* next_fire_at = now (`due`), which the tick sees (module Scheduler).     *)
(*                                                                         *)
(* Handlers run in parallel on several threads, so check_and_insert is as  *)
(* many steps as it takes locks of the map. The watcher is one task.       *)
(***************************************************************************)
EXTENDS Naturals, Sequences, FiniteSets

CONSTANTS
    Hooks,       \* webhook requests in flight
    HookJob,     \* the job with a webhook trigger
    Bodies,      \* request bodies with a good signature; slug:hash is the key
    Window,      \* the replay window
    MaxEntries,  \* RSCHED_WEBHOOK_DEDUP_MAX
    FileJobs,    \* jobs that have, or had, a file trigger
    Paths,       \* the paths they name
    Asks,        \* file triggers that jobs are given: [path, mask]
    Parent(_),   \* the directory of a path, None when no job can name it
    None,
    MaxTime, MaxHooks, MaxFileOps, MaxEdits, MaxCrashes  \* bounds

Kinds == {"create", "modify", "delete", "access"}

ASSUME IntakeAssumption ==
    /\ Window \in Nat /\ MaxEntries \in Nat \ {0} /\ MaxTime \in Nat
    /\ HookJob \notin FileJobs /\ None \notin Nat \cup Bodies
    /\ Asks \subseteq [path : Paths, mask : (Kinds \ {"access"}) \cup {"any"}] /\ None \notin Asks
    /\ \A p \in Paths : Parent(p) \in Paths \cup {None}

VARIABLES
    clock,     \* Instant::now()
    seen,      \* WebhookDedup.seen: body -> time, None without an entry
    hook,      \* the requests: [at, body, now, victim]
    jobs,      \* jobs that exist
    paused,
    trigger,   \* of a file job, None when it has another kind of trigger by now
    due,       \* jobs with next_fire_at = now
    exists,    \* paths that exist
    kernel,    \* paths that inotify watches
    watched,   \* the watcher's own set of watched paths
    events,    \* the channel of events: [kind, path]
    watcher,   \* where the watcher task is: [at, event, todo]
    passed,    \* history: look time of the last request for a body that passed
    recorded,  \* history: the same, of those recorded and not spoiled since
    owed,      \* history: file jobs with an event that was sent, and not served or forfeited
    blind,     \* history: watched paths whose watch() failed, or that were deleted since
    hooks, ops, edits, crashes     \* counters for the bounds

hookVars == <<clock, seen, hook, passed, recorded>>
fileVars == <<exists, kernel, watched, events, watcher, owed, blind>>
jobVars  == <<jobs, paused, trigger>>
bounds   == <<hooks, ops, edits, crashes>>
vars     == <<hookVars, fileVars, jobVars, due, bounds>>

-----------------------------------------------------------------------------
NoHook  == [at |-> "idle", body |-> None, now |-> 0, victim |-> None]
NoEvent == [kind |-> "access", path |-> None]
Resting == [at |-> "idle", event |-> NoEvent, todo |-> {}]

Fresh(t)      == t # None /\ clock < t + Window
Entries       == {b \in Bodies : seen[b] # None}
Full          == Cardinality(Entries) >= MaxEntries
HookAt(h, place) == hook[h].at = place

(* UPDATE jobs SET next_fire_at = now WHERE id = ?. *)
SetNextFire(j) == due' = due \cup ({j} \cap jobs)

IntakeInit ==
    /\ clock = 0
    /\ seen = [b \in Bodies |-> None] /\ hook = [h \in Hooks |-> NoHook]
    /\ passed = seen /\ recorded = seen
    /\ jobs = FileJobs \cup {HookJob} /\ paused = {} /\ due = {}
    /\ trigger \in [FileJobs -> Asks]
    /\ exists \in {E \in SUBSET Paths : \A p \in E : Parent(p) \in E \cup {None}}
    /\ kernel = {} /\ watched = {} /\ events = <<>> /\ watcher = Resting
    /\ owed = {} /\ blind = {}
    /\ hooks = 0 /\ ops = 0 /\ edits = 0 /\ crashes = 0

-----------------------------------------------------------------------------
(* webhook_receiver and WebhookDedup. *)

(* The list of jobs has one with the slug, and the signature is right. *)
HookArrive(h) == \E b \in Bodies :
    /\ HookAt(h, "idle") /\ HookJob \in jobs /\ hooks < MaxHooks
    /\ hook' = [hook EXCEPT ![h].at = "look", ![h].body = b]
    /\ hooks' = hooks + 1
    /\ UNCHANGED <<clock, seen, passed, recorded, fileVars, jobVars, due, ops, edits, crashes>>

(* 409. *)
HookDuplicate(h) ==
    /\ HookAt(h, "look") /\ Fresh(seen[hook[h].body])
    /\ hook' = [hook EXCEPT ![h] = NoHook]
    /\ UNCHANGED <<clock, seen, passed, recorded, fileVars, jobVars, due, bounds>>

HookRefresh(h) == LET b == hook[h].body IN
    /\ HookAt(h, "look") /\ seen[b] # None /\ ~ Fresh(seen[b])
    /\ seen' = [seen EXCEPT ![b] = clock]
    /\ hook' = [hook EXCEPT ![h].at = "fire", ![h].now = clock]
    /\ passed' = [passed EXCEPT ![b] = clock]
    /\ recorded' = [recorded EXCEPT ![b] = clock]
    /\ UNCHANGED <<clock, fileVars, jobVars, due, bounds>>

(* No entry; and the count of the map, which decides only whether to evict. *)
HookAbsent(h) == LET b == hook[h].body IN
    /\ HookAt(h, "look") /\ seen[b] = None
    /\ hook' = [hook EXCEPT ![h].at = IF Full THEN "scan" ELSE "insert", ![h].now = clock]
    /\ passed' = [passed EXCEPT ![b] = clock]
    /\ UNCHANGED <<clock, seen, recorded, fileVars, jobVars, due, bounds>>

(* evict_oldest: the scan, then the removal of what was the oldest then. *)
HookScan(h) == 
    /\ HookAt(h, "scan")
    /\ \E v \in Entries \cup {None} :
        /\ v = None <=> Entries = {}
        /\ \A b \in Entries : seen[v] <= seen[b]
        /\ hook' = [hook EXCEPT ![h].at = "evict", ![h].victim = v]
    /\ UNCHANGED <<clock, seen, passed, recorded, fileVars, jobVars, due, bounds>>

HookEvict(h) == LET v == hook[h].victim IN
    /\ HookAt(h, "evict")
    /\ seen' = IF v = None THEN seen ELSE [seen EXCEPT ![v] = None]
    /\ recorded' = IF v = None THEN recorded ELSE [recorded EXCEPT ![v] = None]
    /\ hook' = [hook EXCEPT ![h].at = "insert"]
    /\ UNCHANGED <<clock, passed, fileVars, jobVars, due, bounds>>

(* Of two requests that both looked in vain, the one that inserts last may     *)
(* write the older time: the record is spoiled.                               *)
HookInsert(h) == LET b == hook[h].body IN
    /\ HookAt(h, "insert")
    /\ seen' = [seen EXCEPT ![b] = hook[h].now]
    /\ recorded' = [recorded EXCEPT ![b] = IF seen[b] = None THEN hook[h].now ELSE None]
    /\ hook' = [hook EXCEPT ![h].at = "fire"]
    /\ UNCHANGED <<clock, passed, fileVars, jobVars, due, bounds>>

HookFire(h) ==
    /\ HookAt(h, "fire")
    /\ SetNextFire(HookJob)
    /\ hook' = [hook EXCEPT ![h] = NoHook]
    /\ UNCHANGED <<clock, seen, passed, recorded, fileVars, jobVars, bounds>>

(* set_next_fire fails, or the client hangs up: the record stays. *)
HookFails(h) ==
    /\ HookAt(h, "fire")
    /\ hook' = [hook EXCEPT ![h] = NoHook]
    /\ UNCHANGED <<clock, seen, passed, recorded, fileVars, jobVars, due, bounds>>

PruneEarly ==                        \* fault: `<=` for `<`, one unit too early
    /\ Entries # {}
    /\ seen' = [b \in Bodies |-> IF seen[b] # None /\ clock + 1 < seen[b] + Window THEN seen[b] ELSE None]
    /\ UNCHANGED <<clock, hook, passed, recorded, fileVars, jobVars, due, bounds>>

(* The task of spawn_pruner. *)
Prune ==
    /\ Entries # {}
    /\ seen' = [b \in Bodies |-> IF Fresh(seen[b]) THEN seen[b] ELSE None]
    /\ UNCHANGED <<clock, hook, passed, recorded, fileVars, jobVars, due, bounds>>

Pass ==
    /\ clock < MaxTime
    /\ clock' = clock + 1
    /\ UNCHANGED <<seen, hook, passed, recorded, fileVars, jobVars, due, bounds>>

-----------------------------------------------------------------------------
(* The file system (external): what inotify sends, and to which watches. *)

Matches(kind, want) == want = "any" \/ kind = want

Takes(ask, e) == ask # None /\ ask.path \in {e.path, Parent(e.path)} /\ Matches(e.kind, ask.mask)

(* Jobs by exact path or by its parent; paused ones, too. *)
Targets(e) == {j \in jobs \cap FileJobs : Takes(trigger[j], e)}

(* One event for each watch in W. *)
Emit(kind, p, W) ==
    LET n == Cardinality(kernel \cap W)
        e == [kind |-> kind, path |-> p]
    IN  /\ events' = events \o [i \in 1..n |-> e]
        /\ owed' = IF n = 0 THEN owed ELSE owed \cup Targets(e)

FileOp ==
    /\ ops < MaxFileOps /\ ops' = ops + 1
    /\ UNCHANGED <<hookVars, watched, watcher, jobVars, due, hooks, edits, crashes>>

Create(p) ==
    /\ p \notin exists /\ Parent(p) \in exists \cup {None}
    /\ exists' = exists \cup {p}
    /\ Emit("create", p, {Parent(p)})
    /\ FileOp /\ UNCHANGED <<kernel, blind>>

Touch(p) == \E kind \in {"modify", "access"} :
    /\ p \in exists
    /\ Emit(kind, p, {p, Parent(p)})
    /\ FileOp /\ UNCHANGED <<exists, kernel, blind>>

(* The watch of a deleted path is gone with it. *)
Delete(p) ==
    /\ p \in exists /\ \A q \in exists : Parent(q) # p
    /\ exists' = exists \ {p}
    /\ Emit("delete", p, {p, Parent(p)})
    /\ kernel' = kernel \ {p}
    /\ blind' = blind \cup ({p} \cap watched)
    /\ FileOp

-----------------------------------------------------------------------------
(* file_watcher_loop. *)

Wanted == {trigger[j].path : j \in {k \in (jobs \cap FileJobs) \ paused : trigger[k] # None}}

RescanKeeps ==                       \* fault: gone paths are not unwatched
    /\ watcher.at = "idle"
    /\ watched' = Wanted
    /\ \E ok \in SUBSET ((Wanted \ watched) \cap exists) :
        /\ kernel' = kernel \cup ok
        /\ blind' = (blind \cap Wanted) \cup ((Wanted \ watched) \ ok)
    /\ UNCHANGED <<hookVars, exists, events, watcher, owed, jobVars, due, bounds>>

(* watch() fails for a path that is missing, and may for any other (access,    *)
(* limits of inotify). The path counts as watched all the same.                *)
Rescan ==
    /\ watcher.at = "idle"
    /\ watched' = Wanted
    /\ \E ok \in SUBSET ((Wanted \ watched) \cap exists) :
        /\ kernel' = (kernel \ (watched \ Wanted)) \cup ok
        /\ blind' = (blind \cap Wanted) \cup ((Wanted \ watched) \ ok)
    /\ UNCHANGED <<hookVars, exists, events, watcher, owed, jobVars, due, bounds>>

TakeEvent ==
    /\ watcher.at = "idle" /\ events # <<>>
    /\ watcher' = [at |-> "list", event |-> Head(events), todo |-> {}]
    /\ events' = Tail(events)
    /\ UNCHANGED <<hookVars, exists, kernel, watched, owed, blind, jobVars, due, bounds>>

ExactTargets ==                      \* fault: the directory of the path is not looked up
    /\ watcher.at = "list"
    /\ watcher' = [watcher EXCEPT !.at = "serve",
                     !.todo = {j \in Targets(watcher.event) : trigger[j].path = watcher.event.path}]
    /\ UNCHANGED <<hookVars, exists, kernel, watched, events, owed, blind, jobVars, due, bounds>>

ListTargets ==
    /\ watcher.at = "list"
    /\ watcher' = [watcher EXCEPT !.at = "serve", !.todo = Targets(watcher.event)]
    /\ UNCHANGED <<hookVars, exists, kernel, watched, events, owed, blind, jobVars, due, bounds>>

(* The list of jobs cannot be read: the event is dropped. *)
ListFails ==
    /\ watcher.at = "list"
    /\ watcher' = Resting
    /\ owed' = owed \ Targets(watcher.event)
    /\ UNCHANGED <<hookVars, exists, kernel, watched, events, blind, jobVars, due, bounds>>

(* The result of the write is not looked at. *)
Serve == \E j \in watcher.todo :
    /\ watcher.at = "serve"
    /\ SetNextFire(j) \/ UNCHANGED due
    /\ watcher' = [watcher EXCEPT !.todo = @ \ {j}]
    /\ owed' = owed \ {j}
    /\ UNCHANGED <<hookVars, exists, kernel, watched, events, blind, jobVars, bounds>>

Served ==
    /\ watcher.at = "serve" /\ watcher.todo = {}
    /\ watcher' = Resting
    /\ UNCHANGED <<hookVars, exists, kernel, watched, events, owed, blind, jobVars, due, bounds>>

-----------------------------------------------------------------------------
Edit == edits < MaxEdits /\ edits' = edits + 1
        /\ UNCHANGED <<hookVars, exists, kernel, watched, events, watcher, blind, hooks, ops, crashes>>

PauseJob(j) ==
    /\ Edit /\ j \in jobs
    /\ paused' = paused \cup {j} /\ UNCHANGED <<jobs, trigger, due, owed>>
ResumeJob(j) ==
    /\ Edit /\ j \in paused
    /\ paused' = paused \ {j} /\ UNCHANGED <<jobs, trigger, due, owed>>
DeleteJob(j) ==
    /\ Edit /\ j \in jobs
    /\ jobs' = jobs \ {j} /\ paused' = paused \ {j} /\ due' = due \ {j} /\ owed' = owed \ {j}
    /\ UNCHANGED trigger

(* update_job gives the job any trigger, and resets next_fire_at. An event of  *)
(* the old trigger is forfeited. (Its read and its write are one step here,    *)
(* and two in module Catalog.)                                                 *)
UpdateJob(j, t) ==
    /\ Edit /\ j \in jobs \cap FileJobs
    /\ trigger' = [trigger EXCEPT ![j] = t]
    /\ due' = due \ {j}
    /\ owed' = IF t = trigger[j] THEN owed ELSE owed \ {j}
    /\ UNCHANGED <<jobs, paused>>

(* The tick has served the job. *)
Tick(j) ==
    /\ j \in due \ paused
    /\ due' = due \ {j}
    /\ UNCHANGED <<hookVars, fileVars, jobVars, bounds>>

(* The map, the channel and the watches are in memory only. *)
Restart ==
    /\ crashes < MaxCrashes /\ crashes' = crashes + 1
    /\ seen' = [b \in Bodies |-> None] /\ hook' = [h \in Hooks |-> NoHook]
    /\ passed' = seen' /\ recorded' = seen'
    /\ kernel' = {} /\ watched' = {} /\ events' = <<>> /\ watcher' = Resting
    /\ owed' = {} /\ blind' = {}
    /\ UNCHANGED <<clock, exists, jobVars, due, hooks, ops, edits>>

HookNext ==
    \/ Prune \/ Pass
    \/ \E h \in Hooks :
        \/ HookArrive(h) \/ HookDuplicate(h) \/ HookRefresh(h) \/ HookAbsent(h) \/ HookScan(h)
        \/ HookEvict(h) \/ HookInsert(h) \/ HookFire(h) \/ HookFails(h)

FileNext ==
    \/ Rescan \/ TakeEvent \/ ListTargets \/ ListFails \/ Serve \/ Served
    \/ \E p \in Paths : Create(p) \/ Touch(p) \/ Delete(p)

JobNext ==
    \/ Restart
    \/ \E j \in FileJobs, t \in Asks \cup {None} : UpdateJob(j, t)
    \/ \E j \in FileJobs \cup {HookJob} : PauseJob(j) \/ ResumeJob(j) \/ DeleteJob(j) \/ Tick(j)

Next == HookNext \/ FileNext \/ JobNext

Spec == IntakeInit /\ [][Next]_vars

-----------------------------------------------------------------------------
Looks(h)  == HookAt(h, "look") /\ hook'[h].at # "look" /\ crashes' = crashes

WindowHonest == \A h \in Hooks : Looks(h) =>
    IF hook'[h].at = "idle" THEN Fresh(passed[hook[h].body]) ELSE ~ Fresh(recorded[hook[h].body])

(* A request is answered as a duplicate only if an equal one passed within the *)
(* window; and one whose record was written, was not evicted for want of room, *)
(* and was not overwritten by an equal request that looked at the same time,   *)
(* keeps equal requests out for the whole window, whatever is pruned           *)
(* (WebhookDedup::check_and_insert).                                           *)
ReplayWindow == [][WindowHonest]_vars

(* Once the channel is empty and the watcher rests, every job that matched an  *)
(* event when it was sent - by the path or by its directory - was asked for,   *)
(* or deleted, or was given another trigger meanwhile, or the watcher could    *)
(* not list the jobs: pauses, rescans, other edits and other events in         *)
(* between lose nothing.                                                       *)
NothingOwed == watcher.at = "idle" /\ events = <<>> => owed = {}

(* The kernel watches just the watched paths, but for those whose watch()      *)
(* failed or that were deleted since they were first wanted; and these stay    *)
(* blind as long as a job wants them, also when the path comes back. No watch  *)
(* outlives its last job.                                                      *)
KernelFollows == blind \subseteq watched /\ kernel = watched \ blind
=============================================================================
