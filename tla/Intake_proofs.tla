---------------------------- MODULE Intake_proofs ----------------------------
(***************************************************************************)
(* The replay window and the file watcher, for every number of requests,   *)
(* bodies, jobs and paths, every window and size of the map.               *)
(***************************************************************************)
EXTENDS Intake, FiniteSetTheorems, TLAPS

-----------------------------------------------------------------------------
(* Steps that leave the watcher alone, and steps that leave the hooks alone. *)

LEMMA HooksLeaveFiles == ASSUME HookNext PROVE UNCHANGED <<fileVars, jobVars>>
  BY DEF HookNext, Prune, Pass, HookArrive, HookDuplicate, HookRefresh, HookAbsent, HookScan,
         HookEvict, HookInsert, HookFire, HookFails

LEMMA FilesLeaveHooks == ASSUME FileNext PROVE UNCHANGED <<hookVars, jobVars>>
  BY DEF FileNext, Rescan, TakeEvent, ListTargets, ListFails, Serve, Served, Create, Touch, Delete, FileOp

(* A job that is still owed an event exists, with the trigger it had.           *)
LEMMA JobsLeaveBoth ==
    ASSUME JobNext, ~ Restart
    PROVE  /\ UNCHANGED <<hookVars, exists, kernel, watched, events, watcher, blind>>
           /\ owed' \subseteq owed
           /\ owed' \cap jobs \subseteq jobs'
           /\ \A j \in owed' : trigger'[j] = trigger[j]
  <1>1. CASE \E j \in FileJobs \cup {HookJob} : PauseJob(j) \/ ResumeJob(j) \/ Tick(j)
    BY <1>1 DEF PauseJob, ResumeJob, Tick, Edit, fileVars, jobVars
  <1>2. CASE \E j \in FileJobs \cup {HookJob} : DeleteJob(j)
    BY <1>2 DEF DeleteJob, Edit
  <1>3. CASE \E j \in FileJobs, t \in Asks \cup {None} : UpdateJob(j, t)
    BY <1>3 DEF UpdateJob, Edit
  <1> QED
    BY <1>1, <1>2, <1>3 DEF JobNext

-----------------------------------------------------------------------------
(* Watches. *)

LEMMA KernelStep == KernelFollows /\ [Next]_vars => KernelFollows'
  <1> SUFFICES ASSUME KernelFollows, [Next]_vars PROVE KernelFollows'
    OBVIOUS
  <1>1. CASE UNCHANGED <<kernel, watched, blind>>
    BY <1>1 DEF KernelFollows
  <1>2. CASE Rescan
    BY <1>2 DEF Rescan, KernelFollows
  <1>3. ASSUME NEW p \in Paths, Delete(p) PROVE KernelFollows'
    BY <1>3 DEF Delete, FileOp, KernelFollows
  <1>4. CASE Restart
    BY <1>4 DEF Restart, KernelFollows
  <1>5. CASE HookNext \/ (JobNext /\ ~ Restart) \/ UNCHANGED vars
    BY <1>1, <1>5, HooksLeaveFiles, JobsLeaveBoth DEF fileVars, vars
  <1>6. CASE FileNext
    BY <1>1, <1>2, <1>3, <1>6
       DEF FileNext, TakeEvent, ListTargets, ListFails, Serve, Served, Create, Touch, FileOp
  <1> QED
    BY <1>4, <1>5, <1>6 DEF Next

(* The kernel watches just the watched paths, but for those whose watch()      *)
(* failed, for whatever reason, or that were deleted since they were first     *)
(* wanted; no watch outlives its last job (file_watcher_loop).                 *)
THEOREM WatchesSafe == Spec => []KernelFollows
  <1>1. IntakeInit => KernelFollows
    BY DEF IntakeInit, KernelFollows
  <1> QED
    BY <1>1, KernelStep, PTL DEF Spec

-----------------------------------------------------------------------------
(* Events. What a job is owed is on its way: an event in the channel or in the *)
(* hand of the watcher that matches it, or the job itself in its list.         *)

Event == [kind : Kinds, path : Paths]
Wants(j, e) == Takes(trigger[j], e)

OnItsWay(j) ==
    \/ \E i \in 1 .. Len(events) : Wants(j, events[i])
    \/ watcher.at = "list" /\ Wants(j, watcher.event)
    \/ watcher.at = "serve" /\ j \in watcher.todo

OwedInv ==
    /\ events \in Seq(Event)
    /\ watcher \in [at : {"idle", "list", "serve"}, event : Event \cup {NoEvent}, todo : SUBSET FileJobs]
    /\ owed \subseteq jobs \cap FileJobs
    /\ \A j \in owed : OnItsWay(j)

LEMMA EmitKeeps ==
    ASSUME OwedInv, NEW kind \in Kinds, NEW p \in Paths, NEW W, IsFiniteSet(W),
           Emit(kind, p, W), UNCHANGED <<watcher, jobs, trigger>>
    PROVE  OwedInv'
  <1> DEFINE n == Cardinality(kernel \cap W)
             e == [kind |-> kind, path |-> p]
             new == [i \in 1 .. n |-> e]
  <1>1. n \in Nat
    BY FS_Intersection, FS_CardinalityType
  <1>2. e \in Event
    BY DEF Event
  <1> HIDE DEF n, e
  <1>8. new \in Seq(Event) /\ Len(new) = n
    BY <1>1, <1>2
  <1>3. events' = events \o new
    BY DEF Emit, n, e
  <1>4. /\ events' \in Seq(Event) /\ Len(events') = Len(events) + n
        /\ \A i \in 1 .. Len(events) : events'[i] = events[i]
        /\ \A i \in 1 .. n : events'[Len(events) + i] = e
    BY <1>1, <1>2, <1>3, <1>8 DEF OwedInv
  <1>5. ASSUME NEW j \in owed PROVE OnItsWay(j)'
    <2>1. OnItsWay(j)
      BY DEF OwedInv
    <2> QED
      BY <1>1, <1>4, <2>1 DEF OnItsWay, OwedInv, Wants
  <1>6. ASSUME NEW j \in Targets(e), n # 0 PROVE OnItsWay(j)'
    <2>1. Wants(j, e)
      BY DEF Targets, Wants
    <2>2. Len(events) + 1 \in 1 .. Len(events') /\ events'[Len(events) + 1] = e
      <3>1. Len(events) \in Nat /\ 1 \in 1 .. n
        BY <1>1, <1>6 DEF OwedInv
      <3> QED
        BY <1>1, <1>4, <3>1
    <2> QED
      BY <2>1, <2>2 DEF OnItsWay, Wants
  <1>7. owed' = owed \/ (n # 0 /\ owed' = owed \cup Targets(e))
    BY DEF Emit, n, e
  <1> QED
    BY <1>4, <1>5, <1>6, <1>7 DEF OwedInv, Targets

LEMMA OwedStep == OwedInv /\ [Next]_vars => OwedInv'
  <1> SUFFICES ASSUME OwedInv, [Next]_vars PROVE OwedInv'
    OBVIOUS
  <1>1. CASE UNCHANGED <<events, watcher, owed, jobs, trigger>>
    BY <1>1 DEF OwedInv, OnItsWay, Wants
  <1>2. ASSUME NEW p \in Paths, Create(p) \/ Touch(p) \/ Delete(p) PROVE OwedInv'
    <2>1. PICK kind \in Kinds, W \in {{Parent(p)}, {p, Parent(p)}} : Emit(kind, p, W)
      BY <1>2 DEF Create, Touch, Delete, Kinds
    <2>2. IsFiniteSet(W)
      <3>1. IsFiniteSet({Parent(p)}) /\ IsFiniteSet({Parent(p)} \cup {p})
        BY FS_Singleton, FS_AddElement
      <3>2. {Parent(p)} \cup {p} = {p, Parent(p)}
        OBVIOUS
      <3> QED
        BY <2>1, <3>1, <3>2
    <2>3. UNCHANGED <<watcher, jobs, trigger>>
      BY <1>2 DEF Create, Touch, Delete, FileOp, jobVars
    <2> QED
      BY <2>1, <2>2, <2>3, EmitKeeps
  <1>3. CASE TakeEvent
    <2>1. /\ Head(events) \in Event /\ Tail(events) \in Seq(Event)
          /\ Head(events) = events[1] /\ Len(Tail(events)) = Len(events) - 1
          /\ \A i \in 1 .. Len(events) - 1 : Tail(events)[i] = events[i + 1]
      BY <1>3 DEF TakeEvent, OwedInv
    <2>2. watcher' = [at |-> "list", event |-> Head(events), todo |-> {}] /\ events' = Tail(events)
      BY <1>3 DEF TakeEvent
    <2>3. ASSUME NEW j \in owed PROVE OnItsWay(j)'
      <3>1. PICK i \in 1 .. Len(events) : Wants(j, events[i])
        BY <1>3 DEF TakeEvent, OwedInv, OnItsWay
      <3>4. UNCHANGED trigger
        BY <1>3 DEF TakeEvent, jobVars
      <3>2. CASE i = 1
        BY <2>1, <2>2, <3>1, <3>2, <3>4 DEF OnItsWay, Wants
      <3>3. CASE i # 1
        <4>1. i - 1 \in 1 .. Len(events') /\ events'[i - 1] = events[i]
          BY <2>1, <2>2, <3>3 DEF OwedInv
        <4> QED
          BY <3>1, <3>4, <4>1 DEF OnItsWay, Wants
      <3> QED
        BY <3>2, <3>3
    <2> QED
      BY <1>3, <2>1, <2>2, <2>3 DEF TakeEvent, OwedInv, jobVars
  <1>4. CASE ListTargets
    BY <1>4 DEF ListTargets, Targets, OwedInv, OnItsWay, Wants, jobVars
  <1>10. CASE ListFails
    BY <1>10 DEF ListFails, Targets, OwedInv, OnItsWay, Wants, Resting, jobVars
  <1>5. CASE Serve
    BY <1>5 DEF Serve, OwedInv, OnItsWay, Wants, jobVars
  <1>6. CASE Served
    BY <1>6 DEF Served, OwedInv, OnItsWay, Wants, Resting, jobVars
  <1>7. CASE Restart
    BY <1>7 DEF Restart, OwedInv, Resting, jobVars
  <1>8. CASE JobNext /\ ~ Restart
    <2>1. /\ UNCHANGED <<events, watcher>> /\ owed' \subseteq owed
          /\ \A j \in owed' : trigger'[j] = trigger[j]
          /\ owed' \cap jobs \subseteq jobs'
      BY <1>8, JobsLeaveBoth
    <2> QED
      BY <2>1 DEF OwedInv, OnItsWay, Wants
  <1>9. CASE HookNext \/ Rescan \/ UNCHANGED vars
    BY <1>1, <1>9, HooksLeaveFiles DEF Rescan, fileVars, jobVars, vars
  <1> QED
    BY <1>2, <1>3, <1>4, <1>5, <1>6, <1>7, <1>8, <1>9, <1>10 DEF Next, FileNext

(* Once the channel is empty and the watcher rests, no job is owed an event:   *)
(* each was served, or lost it by its own deletion, by a new trigger or by a   *)
(* listing that failed (file_watcher_loop).                                    *)
THEOREM EventsSafe == Spec => []NothingOwed
  <1>1. IntakeInit => OwedInv
    BY DEF IntakeInit, OwedInv, Resting
  <1>2. OwedInv => NothingOwed
    BY DEF OwedInv, OnItsWay, NothingOwed
  <1> QED
    BY <1>1, <1>2, OwedStep, PTL DEF Spec
-----------------------------------------------------------------------------
(* The replay window. The map never knows of a later time than the last that   *)
(* passed, and a record that is fresh is in the map as it was written.         *)

HookType == [at : {"idle", "look", "scan", "evict", "insert", "fire"},
             body : Bodies \cup {None}, now : Nat, victim : Bodies \cup {None}]

Times == Nat \cup {None}

HookOK(h) ==
    /\ ~ HookAt(h, "idle") => hook[h].body \in Bodies
    /\ HookAt(h, "scan") \/ HookAt(h, "evict") \/ HookAt(h, "insert")
          => passed[hook[h].body] # None /\ hook[h].now <= passed[hook[h].body]

BodyOK(b) ==
    /\ passed[b] # None => passed[b] <= clock
    /\ seen[b] # None => passed[b] # None /\ seen[b] <= passed[b]
    /\ Fresh(recorded[b]) => seen[b] = recorded[b]

WindowInv ==
    /\ clock \in Nat
    /\ seen \in [Bodies -> Times] /\ passed \in [Bodies -> Times] /\ recorded \in [Bodies -> Times]
    /\ hook \in [Hooks -> HookType]
    /\ \A h \in Hooks : HookOK(h)
    /\ \A b \in Bodies : BodyOK(b)

LEMMA HookSame ==
    ASSUME NEW h \in Hooks, HookOK(h), hook'[h] = hook[h], clock \in Nat, WindowInv,
           \A b \in Bodies : passed'[b] = passed[b] \/ (passed'[b] = clock /\ clock # None)
    PROVE  HookOK(h)'
  BY DEF HookOK, HookAt, WindowInv, BodyOK, HookType, Times

LEMMA WindowStep == WindowInv /\ [Next]_vars => WindowInv'
  <1> SUFFICES ASSUME WindowInv, [Next]_vars PROVE WindowInv'
    OBVIOUS
  <1> USE IntakeAssumption
  <1>1. CASE UNCHANGED hookVars
    BY <1>1 DEF hookVars, WindowInv, HookOK, HookAt, BodyOK, Fresh
  <1>2. CASE Pass
    BY <1>2 DEF Pass, WindowInv, HookOK, HookAt, BodyOK, Fresh, Times
  <1>3. CASE Prune
    BY <1>3 DEF Prune, WindowInv, HookOK, HookAt, BodyOK, Fresh, Times
  <1>4. CASE Restart
    <2>1. NoHook \in HookType /\ NoHook.at = "idle"
      BY DEF NoHook, HookType
    <2>2. /\ hook' = [h \in Hooks |-> NoHook] /\ seen' = [b \in Bodies |-> None]
          /\ passed' = seen' /\ recorded' = seen' /\ clock' = clock
      BY <1>4 DEF Restart
    <2> QED
      BY <2>1, <2>2 DEF WindowInv, HookOK, HookAt, BodyOK, Fresh, Times
  <1>5. ASSUME NEW h \in Hooks, NEW new \in HookType, hook' = [hook EXCEPT ![h] = new],
               UNCHANGED clock,
               seen' \in [Bodies -> Times], passed' \in [Bodies -> Times], recorded' \in [Bodies -> Times],
               \A b \in Bodies : passed'[b] = passed[b] \/ passed'[b] = clock,
               \A b \in Bodies : BodyOK(b)', HookOK(h)'
        PROVE  WindowInv'
    <2>1. ASSUME NEW g \in Hooks, g # h PROVE HookOK(g)'
      BY <1>5, <2>1, HookSame DEF WindowInv
    <2> QED
      BY <1>5, <2>1 DEF WindowInv
  <1>6. ASSUME NEW h \in Hooks, HookArrive(h) PROVE WindowInv'
    <2>1. PICK b \in Bodies : hook' = [hook EXCEPT ![h].at = "look", ![h].body = b]
      BY <1>6 DEF HookArrive
    <2> DEFINE new == [hook[h] EXCEPT !.at = "look", !.body = b]
    <2>2. new \in HookType /\ hook' = [hook EXCEPT ![h] = new] /\ new.at = "look" /\ new.body = b
      BY <2>1 DEF WindowInv, HookType
    <2> QED
      BY <1>5, <1>6, <2>2 DEF HookArrive, WindowInv, HookOK, HookAt, BodyOK, Fresh
  <1>7. ASSUME NEW h \in Hooks, HookDuplicate(h) \/ HookFire(h) \/ HookFails(h) PROVE WindowInv'
    <2>1. NoHook \in HookType /\ NoHook.at = "idle"
      BY DEF NoHook, HookType
    <2>2. hook' = [hook EXCEPT ![h] = NoHook] /\ UNCHANGED <<clock, seen, passed, recorded>>
      BY <1>7 DEF HookDuplicate, HookFire, HookFails
    <2> QED
      BY <1>5, <2>1, <2>2 DEF WindowInv, HookOK, HookAt, BodyOK, Fresh
  <1>8. ASSUME NEW h \in Hooks, HookRefresh(h) PROVE WindowInv'
    <2> DEFINE new == [hook[h] EXCEPT !.at = "fire", !.now = clock]
               b == hook[h].body
    <2>1. /\ new \in HookType /\ hook' = [hook EXCEPT ![h] = new] /\ new.at = "fire" /\ new.body = b
          /\ b \in Bodies /\ clock # None
      BY <1>8 DEF HookRefresh, WindowInv, HookType, HookOK, HookAt
    <2>2. /\ seen' = [seen EXCEPT ![b] = clock] /\ passed' = [passed EXCEPT ![b] = clock]
          /\ recorded' = [recorded EXCEPT ![b] = clock] /\ clock' = clock
      BY <1>8 DEF HookRefresh
    <2>3. \A c \in Bodies : BodyOK(c)'
      BY <2>1, <2>2 DEF WindowInv, BodyOK, Fresh, Times
    <2> QED
      BY <1>5, <2>1, <2>2, <2>3 DEF WindowInv, HookOK, HookAt, Times
  <1>9. ASSUME NEW h \in Hooks, HookAbsent(h) PROVE WindowInv'
    <2> DEFINE b == hook[h].body
    <2>1. PICK place \in {"scan", "insert"} :
             hook' = [hook EXCEPT ![h].at = place, ![h].now = clock]
      BY <1>9 DEF HookAbsent
    <2> DEFINE new == [hook[h] EXCEPT !.at = place, !.now = clock]
    <2>2. hook[h] \in HookType /\ clock \in Nat /\ clock # None /\ b \in Bodies
      BY <1>9 DEF HookAbsent, WindowInv, HookOK, HookAt
    <2>3. new \in HookType /\ new.at = place /\ new.body = b /\ new.now = clock
      BY <2>1, <2>2 DEF HookType
    <2>4. hook' = [hook EXCEPT ![h] = new]
      BY <2>1, <2>2 DEF WindowInv
    <2>5. passed' = [passed EXCEPT ![b] = clock] /\ UNCHANGED <<clock, seen, recorded>>
      BY <1>9 DEF HookAbsent
    <2>6. \A c \in Bodies : BodyOK(c)'
      BY <2>2, <2>5 DEF WindowInv, BodyOK, Fresh, Times
    <2>7. /\ passed' \in [Bodies -> Times] /\ passed'[b] = clock
          /\ \A c \in Bodies : passed'[c] = passed[c] \/ passed'[c] = clock
      BY <2>2, <2>5 DEF WindowInv, Times
    <2>8. hook'[h] = new
      BY <2>4 DEF WindowInv
    <2>9. HookOK(h)'
      BY <2>2, <2>3, <2>5, <2>7, <2>8 DEF HookOK, HookAt
    <2> HIDE DEF new
    <2>10. UNCHANGED <<seen, recorded>> /\ seen \in [Bodies -> Times] /\ recorded \in [Bodies -> Times]
      BY <2>5 DEF WindowInv
    <2> QED
      BY <1>5, <2>3, <2>4, <2>5, <2>6, <2>7, <2>9, <2>10
  <1>10. ASSUME NEW h \in Hooks, HookScan(h) PROVE WindowInv'
    <2>1. PICK v \in Bodies \cup {None} : hook' = [hook EXCEPT ![h].at = "evict", ![h].victim = v]
      BY <1>10 DEF HookScan, Entries
    <2> DEFINE new == [hook[h] EXCEPT !.at = "evict", !.victim = v]
    <2>2. /\ new \in HookType /\ hook' = [hook EXCEPT ![h] = new] /\ new.at = "evict"
          /\ new.body = hook[h].body /\ new.now = hook[h].now
      BY <2>1 DEF WindowInv, HookType
    <2>3. HookAt(h, "scan") /\ UNCHANGED <<clock, seen, passed, recorded>>
      BY <1>10 DEF HookScan
    <2> QED
      BY <1>5, <2>2, <2>3 DEF WindowInv, HookOK, HookAt, BodyOK, Fresh
  <1>11. ASSUME NEW h \in Hooks, HookEvict(h) PROVE WindowInv'
    <2> DEFINE new == [hook[h] EXCEPT !.at = "insert"]
               v == hook[h].victim
    <2>1. /\ new \in HookType /\ hook' = [hook EXCEPT ![h] = new] /\ new.at = "insert"
          /\ new.body = hook[h].body /\ new.now = hook[h].now /\ v \in Bodies \cup {None}
      BY <1>11 DEF HookEvict, WindowInv, HookType
    <2>2. /\ HookAt(h, "evict") /\ UNCHANGED <<clock, passed>>
          /\ \A b \in Bodies : seen'[b] = IF b = v THEN None ELSE seen[b]
          /\ \A b \in Bodies : recorded'[b] = IF b = v THEN None ELSE recorded[b]
          /\ seen' \in [Bodies -> Times] /\ recorded' \in [Bodies -> Times]
      BY <1>11, <2>1 DEF HookEvict, WindowInv, Times
    <2>3. \A b \in Bodies : BodyOK(b)'
      BY <2>2 DEF WindowInv, BodyOK, Fresh
    <2> QED
      BY <1>5, <2>1, <2>2, <2>3 DEF WindowInv, HookOK, HookAt
  <1>12. ASSUME NEW h \in Hooks, HookInsert(h) PROVE WindowInv'
    <2> DEFINE new == [hook[h] EXCEPT !.at = "fire"]
               b == hook[h].body
    <2>1. /\ new \in HookType /\ hook' = [hook EXCEPT ![h] = new] /\ new.at = "fire"
          /\ new.body = b /\ b \in Bodies /\ hook[h].now \in Nat
          /\ passed[b] # None /\ hook[h].now <= passed[b]
      BY <1>12 DEF HookInsert, WindowInv, HookType, HookOK, HookAt
    <2>2. /\ seen' = [seen EXCEPT ![b] = hook[h].now] /\ UNCHANGED <<clock, passed>>
          /\ recorded' = [recorded EXCEPT ![b] = IF seen[b] = None THEN hook[h].now ELSE None]
      BY <1>12 DEF HookInsert
    <2>3. \A c \in Bodies : BodyOK(c)'
      BY <2>1, <2>2 DEF WindowInv, BodyOK, Fresh, Times
    <2> QED
      BY <1>5, <2>1, <2>2, <2>3 DEF WindowInv, HookOK, HookAt, Times
  <1>13. CASE FileNext \/ (JobNext /\ ~ Restart) \/ UNCHANGED vars
    BY <1>1, <1>13, FilesLeaveHooks, JobsLeaveBoth DEF vars
  <1> QED
    BY <1>2, <1>3, <1>4, <1>6, <1>7, <1>8, <1>9, <1>10, <1>11, <1>12, <1>13 DEF Next, HookNext

(* The count of restarts is a number: a step that leaves it is no restart.      *)
CrashesOK == crashes \in Nat

LEMMA CrashesCounted == CrashesOK /\ [Next]_vars => CrashesOK'
  <1> SUFFICES ASSUME crashes \in Nat, [Next]_vars PROVE crashes' \in Nat
    BY DEF CrashesOK
  <1>1. CASE HookNext
    BY <1>1 DEF HookNext, Prune, Pass, HookArrive, HookDuplicate, HookRefresh, HookAbsent, HookScan,
                HookEvict, HookInsert, HookFire, HookFails, bounds
  <1>2. CASE FileNext
    BY <1>2 DEF FileNext, Rescan, TakeEvent, ListTargets, ListFails, Serve, Served, Create, Touch, Delete,
                FileOp, bounds
  <1>3. CASE JobNext
    BY <1>3 DEF JobNext, Restart, PauseJob, ResumeJob, DeleteJob, UpdateJob, Edit, Tick, bounds
  <1> QED
    BY <1>1, <1>2, <1>3 DEF Next, vars, bounds

(* What a request is told of a step in which it looks.                         *)
LEMMA LookStep ==
    ASSUME WindowInv, crashes \in Nat, [Next]_vars, NEW h \in Hooks, Looks(h)
    PROVE  IF hook'[h].at = "idle" THEN Fresh(passed[hook[h].body]) ELSE ~ Fresh(recorded[hook[h].body])
  <1> USE IntakeAssumption
  <1>1. hook[h].body \in Bodies /\ HookAt(h, "look") /\ hook'[h] # hook[h]
    BY DEF WindowInv, HookOK, HookAt, Looks
  <1>2. CASE HookDuplicate(h)
    BY <1>1, <1>2 DEF HookDuplicate, NoHook, WindowInv, BodyOK, Fresh, Times
  <1>3. CASE HookRefresh(h) \/ HookAbsent(h)
    <2>1. hook'[h].at # "idle"
      BY <1>1, <1>3 DEF HookRefresh, HookAbsent, WindowInv, HookType
    <2>2. seen[hook[h].body] = None \/ ~ Fresh(seen[hook[h].body])
      BY <1>3 DEF HookRefresh, HookAbsent
    <2> QED
      BY <1>1, <2>1, <2>2 DEF WindowInv, BodyOK, Fresh
  <1>4. ~ Restart
    <2>1. crashes' = crashes
      BY DEF Looks
    <2>2. ~ crashes' = crashes + 1
      BY <2>1
    <2> QED
      BY <2>2 DEF Restart
  <1>5. ASSUME NEW g \in Hooks, g # h,
               \/ HookArrive(g) \/ HookDuplicate(g) \/ HookRefresh(g) \/ HookAbsent(g) \/ HookScan(g)
               \/ HookEvict(g) \/ HookInsert(g) \/ HookFire(g) \/ HookFails(g)
        PROVE  FALSE
    BY <1>1, <1>5 DEF HookArrive, HookDuplicate, HookRefresh, HookAbsent, HookScan, HookEvict,
                      HookInsert, HookFire, HookFails, WindowInv
  <1>6. ~ (HookArrive(h) \/ HookScan(h) \/ HookEvict(h) \/ HookInsert(h) \/ HookFire(h) \/ HookFails(h))
    BY <1>1 DEF HookArrive, HookScan, HookEvict, HookInsert, HookFire, HookFails, HookAt
  <1>7. ~ UNCHANGED hook
    BY <1>1
  <1> QED
    BY <1>2, <1>3, <1>4, <1>5, <1>6, <1>7, FilesLeaveHooks, JobsLeaveBoth
       DEF Next, HookNext, Prune, Pass, hookVars, vars

(* A duplicate is refused only within the window of an equal request that      *)
(* passed, and a record that was kept refuses equal requests for the whole     *)
(* window (check_and_insert, prune).                                           *)
THEOREM ReplaySafe == Spec => ReplayWindow
  <1>1. IntakeInit => WindowInv /\ CrashesOK
    BY DEF IntakeInit, WindowInv, CrashesOK, NoHook, HookType, Times, HookOK, HookAt, BodyOK, Fresh
  <1>2. WindowInv /\ CrashesOK /\ [Next]_vars => [WindowHonest]_vars
    BY LookStep DEF WindowHonest, CrashesOK
  <1> QED
    BY <1>1, <1>2, WindowStep, CrashesCounted, PTL DEF Spec, ReplayWindow
=============================================================================
