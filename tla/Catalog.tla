-------------------------------- MODULE Catalog --------------------------------
(***************************************************************************)
(* The tables `jobs`, `resources` and `resource_holds`, and all that write *)
(* them: the job and resource requests, the JIL import of the server, the  *)
(* `jil` command and the other commands of the client, the scheduler's     *)
(* pass with its claims and its conditions, the end of a run, a restart. A *)
(* handler that reads and then writes takes two steps.                     *)
(***************************************************************************)
EXTENDS Jil, FiniteSetsExt

CONSTANTS
    JobIds, JobNames, ResIds, ResNames, Runs,
    Callers,           \* clients with a request of several steps
    Blocks,            \* blocks that documents are made of: [verb, name, attrs]
    Capacity,          \* of every resource that is created
    InitRows,          \* rows of jobs that an earlier server left
    None,
    MaxBlocks, MaxEdits  \* bounds: blocks of a document, requests

(* A row of `jobs`, of `resources`, of `resource_holds`.                       *)
(* Triggers that behave alike here are one: "cron" also stands for intervals,  *)
(* "manual" for webhooks, upstream jobs and one-shots (TriggerJob is the time  *)
(* they come due); "panics" is a condition with a count without look-back.     *)
Triggers  == {"manual", "cron", "badcron", "condition", "panics"}
Names     == JobNames \cup {b.name : b \in Blocks}
Claims    == [res : STRING, units : Nat]
JobRows   == [name : Names, trigger : Triggers \cup {"file"}, claims : Seq(Claims),
              next : {"none", "future", "due"}, paused : BOOLEAN]
Resources == [name : ResNames, cap : Nat]
HoldRows  == [run : Runs, res : ResIds, units : Nat]

ASSUME CatalogAssumption ==
    /\ MaxBlocks \in Nat /\ MaxEdits \in Nat /\ Capacity \in Nat
    /\ InitRows \subseteq JobRows
    /\ \A b \in Blocks : /\ b.verb \in {"insert", "update", "delete"}
                         /\ IntoJob(b.attrs).claims \in Seq(Claims)
    /\ None \notin JobRows \cup Resources \cup Callers \cup {"post", "import"}

VARIABLES
    job,        \* id -> [name, trigger, claims, next, paused], or None
    resource,   \* id -> [name, cap], or None
    holds,      \* rows of resource_holds: [run, res, units]
    call,       \* what a client or its handler is doing
    tick,       \* the pass: [at, todo, job, run]; `todo` rows as it read them
    run,        \* "unused", "live" (handed to the queue), "ended", "lost"
    from,       \* history: how the row of a job came about, "post" or "import"
    fired,      \* history: jobs sent whose row still shows the same due time,
                \* but for a pass that the end of the server cut off
    culprit,    \* history: jobs whose error ended a pass, or that were fired again
    touched,    \* history: callers whose call another writer of `jobs` disturbed
    edits       \* for the bound

jobVars  == <<job, from, fired, touched>>
resVars  == <<resource, holds>>
passVars == <<tick, run, culprit>>
vars     == <<jobVars, resVars, passVars, call, edits>>

-----------------------------------------------------------------------------
Calling(at, id, seen) == [at |-> at, id |-> id, seen |-> seen, doc |-> <<>>, start |-> {}, told |-> <<>>]
Quiet          == Calling("idle", None, None)
Pass(at, todo) == [at |-> at, todo |-> todo, job |-> None, run |-> None]
Resting        == Pass("idle", {})

Rows      == {i \in JobIds : job[i] # None}
Named(n)  == {i \in Rows : job[i].name = n}
NewId(i)  == i \in JobIds /\ job[i] = None /\ from[i] = None    \* an id is used once
ResNamed(n) == {r \in ResIds : resource[r] # None /\ resource[r].name = n}

(* next_fire_at that a new row gets; `.ok()` of the import makes it none for a *)
(* schedule that cannot be read.                                               *)
FirstFire(trigger) == IF trigger = "cron" THEN "future" ELSE "none"
Row(name, trigger, claims) ==
    [name |-> name, trigger |-> trigger, claims |-> claims, next |-> FirstFire(trigger), paused |-> FALSE]

(* JobRepo: names are unique; an UPDATE or DELETE of a missing id is no error. *)
Insert(i, row, origin) ==
    /\ NewId(i) /\ Named(row.name) = {}
    /\ job' = [job EXCEPT ![i] = row] /\ from' = [from EXCEPT ![i] = origin]
    /\ UNCHANGED fired
Update(i, row) ==
    /\ job' = IF job[i] = None THEN job ELSE [job EXCEPT ![i] = row]
    /\ fired' = fired \ {i} /\ UNCHANGED from
Erase(i) == job' = [job EXCEPT ![i] = None] /\ fired' = fired \ {i} /\ UNCHANGED from

Disturb(c) == touched' = touched \cup {d \in Callers \ {c} : call[d].at # "idle"}
Request    == edits < MaxEdits /\ edits' = edits + 1

(* A server that starts on the tables of an earlier one. *)
CatalogInit ==
    /\ job \in [JobIds -> {None} \cup InitRows]
    /\ \A i, k \in Rows : job[i].name = job[k].name => i = k
    /\ from = [i \in JobIds |-> IF job[i] = None THEN None ELSE "import"]
    /\ fired = {} /\ touched = {} /\ holds = {}
    /\ resource \in [ResIds -> {None} \cup [name : ResNames, cap : {Capacity}]]
    /\ \A n \in ResNames : \A r, s \in ResNamed(n) : r = s
    /\ call = [c \in Callers |-> Quiet]
    /\ tick = Resting /\ run = [r \in Runs |-> "unused"] /\ culprit = {} /\ edits = 0

-----------------------------------------------------------------------------
(* Requests of one step. *)

(* What croner reads. *)
Readable(t) == t # "badcron"

AcceptsAny(t) == TRUE                 \* fault: `.ok()` as in the import

(* next_fire(..)? : 400 for a schedule that cannot be read. *)
Accepts(t) == Readable(t)

CreateJob(n, t) == \E i \in JobIds :
    /\ Request /\ Accepts(t)
    /\ Insert(i, Row(n, t, <<>>), "post")
    /\ Disturb(None)
    /\ UNCHANGED <<resVars, passVars, call>>

DeleteJob(i) ==
    /\ Request /\ i \in Rows /\ Erase(i) /\ Disturb(None)
    /\ UNCHANGED <<resVars, passVars, call>>

SetPaused(i, p) ==
    /\ Request /\ i \in Rows
    /\ job' = [job EXCEPT ![i].paused = p]
    /\ Disturb(None)
    /\ UNCHANGED <<resVars, passVars, call, from, fired>>

TriggerJob(i) ==
    /\ Request /\ i \in Rows
    /\ job' = [job EXCEPT ![i].next = "due"] /\ fired' = fired \ {i}
    /\ UNCHANGED <<resVars, passVars, call, from, touched>>

CreateResource(r, n) ==
    /\ Request /\ resource[r] = None /\ ResNamed(n) = {} /\ \A h \in holds : h.res # r
    /\ \A c \in Callers : call[c].at = "drop" => call[c].id # r
    /\ resource' = [resource EXCEPT ![r] = [name |-> n, cap |-> Capacity]]
    /\ UNCHANGED <<jobVars, passVars, call, holds>>

-----------------------------------------------------------------------------
(* Requests of two steps. *)

Begin(c, state) ==
    /\ call[c].at = "idle" /\ Request
    /\ call' = [call EXCEPT ![c] = state]
    /\ UNCHANGED <<job, from, fired, resVars, passVars>>
    /\ touched' = touched \ {c}

Finish(c) == call' = [call EXCEPT ![c] = Quiet]

(* update_job: get, then UPDATE with the columns it does not take from the     *)
(* request as it read them.                                                    *)
UpdateRead(c, i) ==
    /\ i \in Rows
    /\ Begin(c, Calling("put", i, job[i]))

PutResumes(seen, n, t) == Row(n, t, seen.claims)     \* fault: the pause is dropped

PutRow(seen, n, t) == [Row(n, t, seen.claims) EXCEPT !.paused = seen.paused]

UpdateWrite(c, n, t) ==
    /\ call[c].at = "put" /\ Accepts(t) /\ Named(n) \subseteq {call[c].id}
    /\ Update(call[c].id, PutRow(call[c].seen, n, t))
    /\ Disturb(c) /\ Finish(c)
    /\ UNCHANGED <<resVars, passVars, edits>>

UpdateRefused(c) ==
    /\ call[c].at = "put"
    /\ Finish(c) /\ UNCHANGED <<jobVars, resVars, passVars, edits>>

(* The commands of the client: resolve the name, then act on the id. *)
CliResolve(c, n) == \E i \in Named(n) : Begin(c, Calling("cli", i, None))

CliDelete(c) ==
    /\ call[c].at = "cli" /\ Erase(call[c].id) /\ Disturb(c) /\ Finish(c)
    /\ UNCHANGED <<resVars, passVars, edits>>

CliTrigger(c) == LET i == call[c].id IN
    /\ call[c].at = "cli" /\ Finish(c)
    /\ job' = IF i \in Rows THEN [job EXCEPT ![i].next = "due"] ELSE job
    /\ fired' = fired \ {i}
    /\ UNCHANGED <<resVars, passVars, edits, from, touched>>

CliSetPaused(c, p) == LET i == call[c].id IN
    /\ call[c].at = "cli" /\ Disturb(c) /\ Finish(c)
    /\ job' = IF i \in Rows THEN [job EXCEPT ![i].paused = p] ELSE job
    /\ UNCHANGED <<resVars, passVars, edits, from, fired>>

(* delete_resource: get_by_name, then DELETE, which takes the holds along. *)
DeleteResourceFind(c, n) == \E r \in ResNamed(n) :
    Begin(c, Calling("drop", r, None))

DeleteResource(c) == LET r == call[c].id IN
    /\ call[c].at = "drop"
    /\ resource' = [resource EXCEPT ![r] = None]
    /\ holds' = {h \in holds : h.res # r}
    /\ Finish(c) /\ UNCHANGED <<jobVars, passVars, edits>>

-----------------------------------------------------------------------------
(* Documents: import_jil of the server ("import"), which goes on after a block *)
(* that fails, and the command `jil` ("jil"), which sends each block as a      *)
(* request of its own and stops at the first that fails.                       *)

Content == {[name |-> job[i].name, trigger |-> job[i].trigger, claims |-> job[i].claims] : i \in Rows}

DocumentBegin(c, kind) ==
    Begin(c, [Calling(kind, None, None) EXCEPT !.start = Content])

Ready(c)    == call[c].at \in {"import", "jil"} /\ Len(call[c].doc) < MaxBlocks
Server(c)   == call[c].at \in {"import", "import_delete"}

(* The block is done: what is told of it, and whether it was the last. *)
Tell(c, block, ok) ==
    call' = [call EXCEPT ![c] =
               [at    |-> IF Server(c) THEN "import" ELSE IF ok THEN "jil" ELSE "stopped",
                id    |-> None, seen |-> None, start |-> @.start,
                doc   |-> Append(@.doc, block), told |-> Append(@.told, ok)]]

KeepsClaims(c, out) == out.claims          \* fault: the request has no claims

(* POST /jobs has no field for the claims: from the client they are lost. *)
ClaimsSent(c, out) == IF Server(c) THEN out.claims ELSE <<>>

CanInsert(c, b) ==
    /\ IntoJob(b.attrs).ok /\ Named(b.name) = {}
    /\ Server(c) \/ Accepts(IntoJob(b.attrs).trigger)

BlockInsert(c, b) == LET out == IntoJob(b.attrs) IN
    /\ Ready(c) /\ b.verb = "insert" /\ CanInsert(c, b)
    /\ \E i \in JobIds : Insert(i, Row(b.name, out.trigger, ClaimsSent(c, out)),
                                IF Server(c) THEN "import" ELSE "post")
    /\ Disturb(c) /\ Tell(c, b, TRUE)
    /\ UNCHANGED <<resVars, passVars, edits>>

(* An insert that fails, or an update: the import does not support it, and     *)
(* the client sends what PUT does not accept.                                  *)
BlockFails(c, b) ==
    /\ Ready(c)
    /\ CASE b.verb = "insert" -> ~ CanInsert(c, b)
         [] b.verb = "delete" -> Named(b.name) = {}
         [] b.verb = "update" -> TRUE
    /\ Tell(c, b, FALSE)
    /\ UNCHANGED <<jobVars, resVars, passVars, edits>>

BlockFind(c, b) == \E i \in Named(b.name) :
    /\ Ready(c) /\ b.verb = "delete"
    /\ call' = [call EXCEPT ![c] = [@ EXCEPT !.at = IF Server(c) THEN "import_delete" ELSE "jil_delete",
                                             !.id = i, !.seen = b]]
    /\ UNCHANGED <<jobVars, resVars, passVars, edits>>

BlockDelete(c) ==
    /\ call[c].at \in {"import_delete", "jil_delete"}
    /\ Erase(call[c].id) /\ Disturb(c) /\ Tell(c, call[c].seen, TRUE)
    /\ UNCHANGED <<resVars, passVars, edits>>

DocumentEnd(c) ==
    /\ call[c].at \in {"import", "jil", "stopped"} /\ call[c].doc # <<>>
    /\ Finish(c) /\ UNCHANGED <<jobVars, resVars, passVars, edits>>

-----------------------------------------------------------------------------
(* tick_once, and the end of a run. *)

TickStart ==
    /\ tick.at = "idle" /\ \E i \in Rows : job[i].next = "due" /\ ~ job[i].paused
    /\ tick' = Pass("pass", {[id |-> i, row |-> job[i]] :
                              i \in {k \in Rows : job[k].next = "due" /\ ~ job[k].paused}})
    /\ UNCHANGED <<jobVars, resVars, call, edits, run, culprit>>

Used(S, r) == MapThenSumSet(LAMBDA h : h.units, {h \in S : h.res = r})

AcquireOver(r, acc, claim) ==            \* fault: what the run holds already is not counted
    IF acc.answer # "yes" THEN acc
    ELSE IF ResNamed(claim.res) = {} THEN [acc EXCEPT !.answer = "no"]
    ELSE LET id == CHOOSE i \in ResNamed(claim.res) : TRUE IN
         IF claim.units > resource[id].cap THEN [acc EXCEPT !.answer = "no"]
         ELSE [acc EXCEPT !.holds = @ \cup {[run |-> r, res |-> id, units |-> claim.units]}]

(* One claim of try_acquire: by name, then capacity, then INSERT, whose        *)
(* primary key is (run_id, resource_id).                                       *)
AcquireOne(r, acc, claim) ==
    IF acc.answer # "yes" THEN acc
    ELSE IF ResNamed(claim.res) = {} THEN [acc EXCEPT !.answer = "no"]
    ELSE LET id == CHOOSE i \in ResNamed(claim.res) : TRUE IN
         IF Used(acc.holds, id) + claim.units > resource[id].cap THEN [acc EXCEPT !.answer = "no"]
         ELSE IF \E h \in acc.holds : h.run = r /\ h.res = id THEN [acc EXCEPT !.answer = "error"]
         ELSE [acc EXCEPT !.holds = @ \cup {[run |-> r, res |-> id, units |-> claim.units]}]

TryAcquire(r, claims) ==
    LET got[n \in 0 .. Len(claims)] ==
          IF n = 0 THEN [answer |-> "yes", holds |-> holds] ELSE AcquireOne(r, got[n - 1], claims[n])
    IN  got[Len(claims)]

(* The next due row of the copy; the first unused run stands for a fresh id. *)
TickAcquire(d, r) == LET got == TryAcquire(r, d.row.claims) IN
    /\ tick.at = "pass" /\ d \in tick.todo /\ run[r] = "unused"
    /\ CASE got.answer = "yes" ->
              /\ tick' = [tick EXCEPT !.at = "insert", !.job = d, !.run = r]
              /\ holds' = got.holds /\ UNCHANGED culprit
         [] got.answer = "no" -> tick' = [tick EXCEPT !.todo = @ \ {d}] /\ UNCHANGED <<holds, culprit>>
         [] got.answer = "error" ->
              tick' = Resting /\ culprit' = culprit \cup {d.id} /\ UNCHANGED holds
    /\ UNCHANGED <<jobVars, resource, call, edits, run>>

(* runs().insert and try_send. Without the job the foreign key fails, and the  *)
(* holds stay.                                                                 *)
TickSend == LET i == tick.job.id IN
    /\ tick.at = "insert"
    /\ IF i \in Rows
       THEN /\ tick' = [tick EXCEPT !.at = "advance"]
            /\ run' = [run EXCEPT ![tick.run] = "live"]
            /\ culprit' = culprit \cup (fired \cap {i}) /\ fired' = fired \cup {i}
       ELSE /\ tick' = Resting /\ UNCHANGED fired
            /\ run' = [run EXCEPT ![tick.run] = "lost"] /\ culprit' = culprit \cup {i}
    /\ UNCHANGED <<job, from, touched, resVars, call, edits>>

(* The queue is full: the holds are released, the run stays queued for ever. *)
TickFull ==
    /\ tick.at = "insert" /\ tick.job.id \in Rows
    /\ tick' = [tick EXCEPT !.at = "pass", !.todo = @ \ {tick.job}, !.job = None, !.run = None]
    /\ run' = [run EXCEPT ![tick.run] = "ended"]
    /\ holds' = {h \in holds : h.run # tick.run}
    /\ UNCHANGED <<jobVars, resource, call, edits, culprit>>

(* compute_next of the copied trigger: an error ends the pass, the row due. *)
TickAdvance == LET i == tick.job.id IN
    /\ tick.at = "advance"
    /\ IF Readable(tick.job.row.trigger)
       THEN /\ tick' = [tick EXCEPT !.at = "pass", !.todo = @ \ {tick.job}, !.job = None, !.run = None]
            /\ job' = IF i \in Rows THEN [job EXCEPT ![i].next = FirstFire(tick.job.row.trigger)] ELSE job
            /\ fired' = fired \ {i} /\ UNCHANGED culprit
       ELSE /\ tick' = Resting /\ culprit' = culprit \cup {i} /\ UNCHANGED <<job, fired>>
    /\ UNCHANGED <<from, touched, resVars, call, edits, run>>

(* tick_conditions: the list of jobs, then one after the other.                *)
IsCondition(t) == t \in {"condition", "panics"}

TickConditions ==
    /\ tick.at = "pass" /\ tick.todo = {}
    /\ tick' = Pass("conditions", {[id |-> i, row |-> job[i]] :
                                    i \in {k \in Rows : IsCondition(job[k].trigger) /\ ~ job[k].paused}})
    /\ UNCHANGED <<jobVars, resVars, call, edits, run, culprit>>

(* Not true, unresolved, not readable, or a run of the job is active.          *)
TickHolds(d) ==
    /\ tick.at = "conditions" /\ d \in tick.todo
    /\ tick' = [tick EXCEPT !.todo = @ \ {d}]
    /\ UNCHANGED <<jobVars, resVars, call, edits, run, culprit>>

(* True: runs().insert and try_send, without claims. *)
TickFires(d, r) ==
    /\ tick.at = "conditions" /\ d \in tick.todo /\ d.row.trigger = "condition" /\ run[r] = "unused"
    /\ IF d.id \in Rows
       THEN /\ run' = [run EXCEPT ![r] = "live"] /\ UNCHANGED culprit
            /\ tick' = [tick EXCEPT !.at = "clear", !.job = d]
       ELSE tick' = Resting /\ culprit' = culprit \cup {d.id} /\ UNCHANGED run
    /\ UNCHANGED <<jobVars, resVars, call, edits>>

(* set_next_fire(None), also over a trigger request that came meanwhile.       *)
TickClear == LET i == tick.job.id IN
    /\ tick.at = "clear"
    /\ tick' = [tick EXCEPT !.at = "conditions", !.todo = @ \ {tick.job}, !.job = None]
    /\ job' = IF i \in Rows THEN [job EXCEPT ![i].next = "none"] ELSE job
    /\ fired' = fired \ {i}
    /\ UNCHANGED <<from, touched, resVars, call, edits, run, culprit>>

TickEnd ==
    /\ tick.at = "conditions" /\ tick.todo = {}
    /\ tick' = Resting
    /\ UNCHANGED <<jobVars, resVars, call, edits, run, culprit>>

(* The server ends and another starts. Its handlers are gone, a client may go  *)
(* on or not. Nobody releases the holds of its runs, and a send that was not   *)
(* written down yet is forgotten.                                              *)
ServerEnds ==
    /\ tick' = Resting
    /\ run' = [r \in Runs |-> IF run[r] = "live" \/ (tick.at = "insert" /\ tick.run = r) THEN "lost" ELSE run[r]]
    /\ fired' = IF tick.at = "advance" THEN fired \ {tick.job.id} ELSE fired
    /\ \E gone \in SUBSET Callers :
          /\ \A c \in Callers : call[c].at \in {"put", "drop", "import", "import_delete"} => c \in gone
          /\ call' = [c \in Callers |-> IF c \in gone THEN Quiet ELSE call[c]]
    /\ UNCHANGED <<job, from, touched, resVars, culprit, edits>>

Restart == ServerEnds

(* within(): a window out of range panics, if the job it counts is listed; the *)
(* release build aborts.                                                       *)
TickPanics(d) ==
    /\ tick.at = "conditions" /\ d \in tick.todo /\ d.row.trigger = "panics"
    /\ ServerEnds

RunEnds(r) ==
    /\ run[r] = "live"
    /\ run' = [run EXCEPT ![r] = "ended"]
    /\ holds' = {h \in holds : h.run # r}
    /\ UNCHANGED <<jobVars, resource, call, edits, tick, culprit>>

TimeComes(i) ==
    /\ i \in Rows /\ job[i].next = "future"
    /\ job' = [job EXCEPT ![i].next = "due"] /\ fired' = fired \ {i}
    /\ UNCHANGED <<from, touched, resVars, passVars, call, edits>>

RequestNext ==
    \/ \E n \in JobNames, t \in Triggers : CreateJob(n, t)
    \/ \E i \in JobIds : DeleteJob(i) \/ TriggerJob(i) \/ \E p \in BOOLEAN : SetPaused(i, p)
    \/ \E r \in ResIds, n \in ResNames : CreateResource(r, n)

CallNext == \E c \in Callers :
    \/ \E i \in JobIds : UpdateRead(c, i)
    \/ \E n \in JobNames : CliResolve(c, n) \/ \E t \in Triggers : UpdateWrite(c, n, t)
    \/ UpdateRefused(c) \/ CliDelete(c) \/ CliTrigger(c) \/ \E p \in BOOLEAN : CliSetPaused(c, p)
    \/ \E n \in ResNames : DeleteResourceFind(c, n)
    \/ DeleteResource(c)
    \/ \E kind \in {"import", "jil"} : DocumentBegin(c, kind)
    \/ \E b \in Blocks : BlockInsert(c, b) \/ BlockFails(c, b) \/ BlockFind(c, b)
    \/ BlockDelete(c) \/ DocumentEnd(c)

PassNext ==
    \/ TickStart \/ TickSend \/ TickFull \/ TickAdvance \/ TickConditions \/ TickClear \/ TickEnd
    \/ \E d \in tick.todo : TickHolds(d) \/ \E r \in Runs : TickAcquire(d, r) \/ TickFires(d, r)
    \/ \E r \in Runs : RunEnds(r)
    \/ \E i \in JobIds : TimeComes(i)

Next == RequestNext \/ CallNext \/ PassNext \/ Restart \/ \E d \in tick.todo : TickPanics(d)
Spec == CatalogInit /\ [][Next]_vars

-----------------------------------------------------------------------------
(* What a document asks for: its blocks one after the other on the rows that   *)
(* were there, `stop` after a failure that ends it.                            *)
ApplyBlock(server, acc, b) ==
    LET taken == \E row \in acc.rows : row.name = b.name
        out   == IntoJob(b.attrs)
        ok    == CASE b.verb = "insert" -> out.ok /\ ~ taken /\ (server \/ out.trigger # "badcron")
                   [] b.verb = "delete" -> taken
                   [] b.verb = "update" -> FALSE
        new   == [name |-> b.name, trigger |-> out.trigger, claims |-> IF server THEN out.claims ELSE <<>>]
    IN  [rows |-> IF ~ ok THEN acc.rows
                  ELSE IF b.verb = "insert" THEN acc.rows \cup {new}
                  ELSE {row \in acc.rows : row.name # b.name},
         told |-> Append(acc.told, ok)]

ApplyAll(server, start, doc) ==
    LET done[n \in 0 .. Len(doc)] ==
          IF n = 0 THEN [rows |-> start, told |-> <<>>] ELSE ApplyBlock(server, done[n - 1], doc[n])
    IN  done[Len(doc)]

Applied(c) == ApplyAll(Server(c), call[c].start, call[c].doc)

(* While nobody else writes jobs, the table is after each block of a document  *)
(* what the blocks so far make of it one after the other, each block is told   *)
(* to have worked just when it did, and the client goes no further than the    *)
(* first that did not (import_jil; the command `jil`).                         *)
DocumentApplied == \A c \in Callers :
    call[c].at \in {"import", "jil", "stopped"} /\ c \notin touched =>
        /\ Applied(c) = [rows |-> Content, told |-> call[c].told]
        /\ ~ Server(c) => \A k \in 1 .. Len(call[c].told) - 1 : call[c].told[k]

(* Only a row that the import wrote - a schedule that cannot be read, a        *)
(* resource claimed twice - or one deleted under the pass can make a pass fail *)
(* before its end, or be fired again for one due time while the server runs:   *)
(* POST and PUT let no such row in. (They let in a condition that panics, and  *)
(* a restart may fire a job again: those end the server, not a pass.)          *)
PoisonOrigin == \A i \in culprit : from[i] = "import" \/ i \notin Rows

(* The units held of a resource never exceed its capacity, also when it was    *)
(* deleted and created anew while runs held it; a hold is of a resource that   *)
(* exists and of a run that is live, being sent, or lost its job meanwhile.    *)
HoldsMatch ==
    /\ \A r \in ResIds : resource[r] # None => Used(holds, r) <= resource[r].cap
    /\ \A h \in holds : /\ resource[h.res] # None
                         /\ (run[h.run] \in {"live", "lost"} \/ tick.run = h.run)

(* An update leaves the pause and the claims of the job as they are, unless    *)
(* another request changed the table between its read and its write            *)
(* (update_job takes both from the row it read).                               *)
UpdateKeeps == [][\A c \in Callers : LET i == call[c].id IN
    call[c].at = "put" /\ call'[c].at = "idle" /\ i \in Rows /\ c \notin touched =>
        job'[i].paused = job[i].paused /\ job'[i].claims = job[i].claims]_vars
=============================================================================
