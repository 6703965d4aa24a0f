-------------------------- MODULE Scheduler_proofs --------------------------
(***************************************************************************)
(* Safety of the run pipeline for every number of jobs, runs, resources    *)
(* and units, every capacity and every queue length; then of the tick loop *)
(* above it for every set of jobs, whatever requests, edits, restarts and  *)
(* steps of the pipeline come between its awaits.                          *)
(***************************************************************************)
EXTENDS Scheduler, FiniteSetTheorems, TLAPS


-----------------------------------------------------------------------------
(* Tokens of a job are well typed. *)
LEMMA TokensType ==
    ASSUME NEW r \in Runs, NEW j \in Jobs
    PROVE  Tokens(r, j) \subseteq Runs \X Resources \X Nat
  BY PipelineAssumption DEF Tokens

LEMMA RowSetType ==
    ASSUME TypeOK, NEW r \in Runs, NEW s \in RowState
    PROVE  RowSet(r, s) \in [Runs -> RowState]
  BY DEF RowSet, TypeOK

LEMMA StatesType ==
    /\ {"absent", "queued", "running", "success", "failed", "killed"} \subseteq RowState
    /\ OperatorStates \subseteq RowState
    /\ \A r : Verdict(r) \in RowState
  BY PipelineAssumption DEF RowState, Active, Terminal, Verdict

(* Every step of the pipeline keeps every variable in its type. *)
LEMMA TypeStep == TypeOK /\ [PipeNext]_pipeVars => TypeOK'
  <1> SUFFICES ASSUME TypeOK, [PipeNext]_pipeVars PROVE TypeOK'
    OBVIOUS
  <1> USE PipelineAssumption
  <1>1. ASSUME NEW r \in Runs, NEW j \in Jobs, Acquire(j, r) PROVE TypeOK'
    BY <1>1, TokensType DEF TypeOK, Acquire, Create, Goto, Stages, Moving, Origins, process, calls
  <1>2. ASSUME NEW r \in Runs, NEW j \in Jobs, InsertCondition(j, r) PROVE TypeOK'
    BY <1>2, StatesType DEF TypeOK, InsertCondition, Create, Goto, Stages, Moving, Origins, process, calls
  <1>3. ASSUME NEW r \in Runs, InsertRun(r) PROVE TypeOK'
    BY <1>3, StatesType DEF TypeOK, InsertRun, Goto, Stages, Moving, process, calls, identity
  <1>4. ASSUME NEW r \in Runs, InsertFails(r) PROVE TypeOK'
    BY <1>4 DEF TypeOK, InsertFails, Goto, Stages, Ended, process, calls, identity, store
  <1>5. ASSUME NEW r \in Runs, queue' = Append(queue, r), Goto(r, "queued"),
               UNCHANGED <<store, identity, process, calls>>
        PROVE  TypeOK'
    <2>1. queue' \in Seq(Runs)
      BY <1>5 DEF TypeOK
    <2>2. stage' \in [Runs -> Stages]
      BY <1>5 DEF TypeOK, Goto, Stages, Moving
    <2> QED
      BY <1>5, <2>1, <2>2 DEF TypeOK, process, calls, identity, store
  <1>6. ASSUME NEW r \in Runs, TrySendFull(r) PROVE TypeOK'
    BY <1>6 DEF TypeOK, TrySendFull, Released, Goto, Stages, Ended, process, calls, identity
  <1>7. CASE Receive
    <2>1. queue' \in Seq(Runs)
      <3>1. queue \in Seq(Runs) /\ queue # << >> /\ queue' = Tail(queue)
        BY <1>7 DEF TypeOK, Receive
      <3> QED
        BY <3>1
    <2>2. stage' \in [Runs -> Stages]
      <3>1. stage \in [Runs -> Stages] /\ stage' = [stage EXCEPT ![Head(queue)] = "taken"]
        BY <1>7 DEF TypeOK, Receive, Goto
      <3>2. "taken" \in Stages
        BY DEF Stages, Moving, InWorker
      <3> QED
        BY <3>1, <3>2
    <2>3. UNCHANGED <<store, identity, process, calls>>
      BY <1>7 DEF Receive
    <2> QED
      BY <2>1, <2>2, <2>3 DEF TypeOK, process, calls, identity, store
  <1>8. ASSUME NEW r \in Runs, Spawn(r) PROVE TypeOK'
    BY <1>8 DEF TypeOK, Spawn, Goto, Stages, Moving, InWorker, calls, identity, store
  <1>9. ASSUME NEW r \in Runs, SpawnFails(r) PROVE TypeOK'
    BY <1>9, StatesType, RowSetType DEF TypeOK, SpawnFails, Goto, Stages, Ended, process, calls, identity
  <1>10. ASSUME NEW r \in Runs, MarkRunning(r) PROVE TypeOK'
    BY <1>10, StatesType, RowSetType DEF TypeOK, MarkRunning, Goto, Stages, Moving, InWorker, process, calls, identity
  <1>11. ASSUME NEW r \in Runs, Execute(r) PROVE TypeOK'
    <2>1. CASE OrphanExits(r)
      BY <2>1 DEF TypeOK, OrphanExits, calls, identity, store
    <2>2. ASSUME NEW o \in Outcomes, Finish(r, o) PROVE TypeOK'
      BY <2>2 DEF TypeOK, Finish, calls, identity, store
    <2> QED
      BY <1>11, <2>1, <2>2 DEF Execute, Exit, Killed, TimeOut, Outcomes
  <1>12. ASSUME NEW r \in Runs, Reap(r) PROVE TypeOK'
    BY <1>12 DEF TypeOK, Reap, Goto, Stages, Moving, InWorker, calls, identity, store
  <1>13. ASSUME NEW r \in Runs, SaveFinal(r) PROVE TypeOK'
    BY <1>13, StatesType, RowSetType DEF TypeOK, SaveFinal, Goto, Stages, Moving, InWorker, process, calls, identity
  <1>14. ASSUME NEW r \in Runs, Release(r) PROVE TypeOK'
    BY <1>14 DEF TypeOK, Release, Released, Goto, Stages, Moving, Ended, process, calls, identity
  <1>15. ASSUME NEW p \in Runs, NEW r \in Runs, InsertRetry(p, r) PROVE TypeOK'
    <2>1. attempt[p] + 1 \in Nat /\ jobOf[p] \in Jobs
      BY <1>15 DEF TypeOK, InsertRetry
    <2>2. /\ origin' \in [Runs -> Origins] /\ jobOf' \in [Runs -> Jobs \cup {NoJob}]
          /\ attempt' \in [Runs -> Nat] /\ parent' \in [Runs -> Runs \cup {NoRun}]
      BY <1>15, <2>1 DEF TypeOK, InsertRetry, Create, Origins
    <2>3. row' \in [Runs -> RowState] /\ stage' \in [Runs -> Stages]
      BY <1>15, StatesType DEF TypeOK, InsertRetry, Stages, Moving, Ended
    <2> QED
      BY <1>15, <2>2, <2>3 DEF TypeOK, InsertRetry, process, calls
  <1>16. ASSUME NEW r \in Runs, RetryFails(r) PROVE TypeOK'
    BY <1>16 DEF TypeOK, RetryFails, Goto, Stages, Ended, process, calls, identity, store
  <1>17. ASSUME NEW r \in Runs, Kill(r) PROVE TypeOK'
    BY <1>17 DEF TypeOK, Kill, calls, identity, store
  <1>18. ASSUME NEW r \in Runs, NEW s \in OperatorStates, ChangeState(r, s) PROVE TypeOK'
    <2>1. row' \in [Runs -> RowState]
      BY <1>18, StatesType, RowSetType DEF ChangeState
    <2>2. overrides' \in 0 .. MaxOverrides /\ crashes' \in 0 .. MaxCrashes
      BY <1>18 DEF TypeOK, ChangeState
    <2> QED
      BY <1>18, <2>1, <2>2 DEF TypeOK, ChangeState, process, identity
  <1>22. ASSUME NEW r \in Runs, ReleaseChanged(r) PROVE TypeOK'
    BY <1>22 DEF TypeOK, ReleaseChanged, Released, process, identity
  <1>19. ASSUME NEW j \in Jobs, DeleteJob(j) PROVE TypeOK'
    BY <1>19, StatesType DEF TypeOK, DeleteJob, process, calls, identity
  <1>20. CASE Restart
    BY <1>20 DEF TypeOK, Restart, Stages, Ended, identity, store
  <1>21. CASE UNCHANGED pipeVars
    BY <1>21 DEF TypeOK, pipeVars, store, identity, process, calls
  <1> QED
    BY <1>1, <1>2, <1>3, <1>4, <1>5, <1>6, <1>7, <1>8, <1>9, <1>10, <1>11, <1>12, <1>13,
       <1>14, <1>15, <1>16, <1>17, <1>18, <1>19, <1>20, <1>21, <1>22
       DEF PipeNext, Tick, OffTick, Work, Operate, TrySend, SendRetry

(* Every variable keeps its type in every behaviour of the pipeline. *)
THEOREM TypeCorrect == PipeSafe => []TypeOK
  <1>1. PipeInit => TypeOK
    BY PipelineAssumption DEF PipeInit, TypeOK, RowState, Origins, Stages, Outcomes
  <1> QED
    BY <1>1, TypeStep, PTL DEF PipeSafe

-----------------------------------------------------------------------------
(* Capacity.  All that a step adds to the holds of a resource is what the  *)
(* claims of one job ask of it, and Acquire looked whether that fits.      *)

CapacityInv == \A x \in Resources :
    IsFiniteSet(Used(x)) /\ Cardinality(Used(x)) <= Capacity[x]

(* A claim of n units is n tokens at most. *)
LEMMA ClaimSize ==
    ASSUME NEW r, NEW x, NEW n \in Nat
    PROVE  LET S == {<<r, x, u>> : u \in 1 .. n}
           IN  IsFiniteSet(S) /\ Cardinality(S) \in Nat /\ Cardinality(S) <= n
  <1> DEFINE S == {<<r, x, u>> : u \in 1 .. n}
             f == [u \in 1 .. n |-> <<r, x, u>>]
  <1>1. f \in Surjection(1 .. n, S)
    BY DEF Surjection
  <1>2. IsFiniteSet(1 .. n) /\ Cardinality(1 .. n) = n
    BY FS_Interval
  <1>3. IsFiniteSet(S) /\ Cardinality(S) <= n
    BY <1>1, <1>2, FS_Surjection
  <1> QED
    BY <1>3, FS_CardinalityType

LEMMA CapacityAcquire ==
    ASSUME TypeOK, CapacityInv, NEW r \in Runs, NEW j \in Jobs, Acquire(j, r)
    PROVE  CapacityInv'
  <1> SUFFICES ASSUME NEW x \in Resources
               PROVE  (IsFiniteSet(Used(x)) /\ Cardinality(Used(x)) <= Capacity[x])'
    BY DEF CapacityInv
  <1> DEFINE n == Units[j][x]
             S == {<<r, x, u>> : u \in 1 .. n}
  <1>1. n \in Nat /\ Capacity[x] \in Nat
    BY PipelineAssumption
  <1>2. IsFiniteSet(S) /\ Cardinality(S) \in Nat /\ Cardinality(S) <= n
    BY <1>1, ClaimSize
  <1>3. Used(x)' = Used(x) \cup S
    BY DEF Acquire, Used, Tokens
  <1>4. IsFiniteSet(Used(x)) /\ Cardinality(Used(x)) \in Nat
        /\ Cardinality(Used(x)) <= Capacity[x]
    BY FS_CardinalityType DEF CapacityInv
  <1>5. CASE n = 0
    <2>1. S = {}
      BY <1>5
    <2>2. Used(x)' = Used(x)
      BY <1>3, <2>1
    <2> QED
      BY <1>4, <2>2
  <1>6. CASE n > 0
    <2>1. Cardinality(Used(x)) + n <= Capacity[x]
      BY <1>6 DEF Acquire, Fits
    <2>2. /\ IsFiniteSet(Used(x) \cup S)
          /\ Cardinality(Used(x) \cup S)
               = Cardinality(Used(x)) + Cardinality(S) - Cardinality(Used(x) \cap S)
      BY <1>2, <1>4, FS_Union
    <2>3. IsFiniteSet(Used(x) \cap S)
      BY <1>2, FS_Subset
    <2>4. Cardinality(Used(x) \cap S) \in Nat
      BY <2>3, FS_CardinalityType
    <2>5. Cardinality(Used(x) \cup S) <= Capacity[x]
      BY <1>1, <1>2, <1>4, <2>1, <2>2, <2>4
    <2> QED
      BY <1>3, <2>2, <2>5
  <1> QED
    BY <1>1, <1>5, <1>6

(* Any other step only deletes holds. *)
LEMMA OnlyAcquireAdds ==
    [PipeNext]_pipeVars =>
        (\E r \in Runs, j \in Jobs : Acquire(j, r)) \/ holds' \subseteq holds
  BY DEF PipeNext, Tick, OffTick, Work, Execute, Operate, InsertCondition, InsertRun,
         InsertFails, TrySend, TrySendFull, Receive, Spawn, SpawnFails, MarkRunning,
         Exit, Killed, TimeOut, OrphanExits, Finish, Reap, SaveFinal, Release, InsertRetry,
         RetryFails, SendRetry, Kill, ChangeState, ReleaseChanged, DeleteJob, Restart, Released,
         pipeVars, store

LEMMA CapacityStep == TypeOK /\ CapacityInv /\ [PipeNext]_pipeVars => CapacityInv'
  <1> SUFFICES ASSUME TypeOK, CapacityInv, [PipeNext]_pipeVars PROVE CapacityInv'
    OBVIOUS
  <1>1. CASE \E r \in Runs, j \in Jobs : Acquire(j, r)
    BY <1>1, CapacityAcquire
  <1>2. CASE holds' \subseteq holds
    <2> SUFFICES ASSUME NEW x \in Resources
                 PROVE  (IsFiniteSet(Used(x)) /\ Cardinality(Used(x)) <= Capacity[x])'
      BY DEF CapacityInv
    <2>1. Used(x)' \subseteq Used(x)
      BY <1>2 DEF Used
    <2>2. IsFiniteSet(Used(x)) /\ Cardinality(Used(x)) <= Capacity[x]
      BY DEF CapacityInv
    <2>3. /\ IsFiniteSet(Used(x)')
          /\ Cardinality(Used(x)') <= Cardinality(Used(x))
      BY <2>1, <2>2, FS_Subset
    <2>4. Cardinality(Used(x)') \in Nat /\ Cardinality(Used(x)) \in Nat
          /\ Capacity[x] \in Nat
      BY <2>2, <2>3, FS_CardinalityType, PipelineAssumption
    <2> QED
      BY <2>2, <2>3, <2>4
  <1> QED
    BY <1>1, <1>2, OnlyAcquireAdds

(* The units held of a resource never exceed its capacity: try_acquire is  *)
(* the only writer that adds holds, and it checks the sum.                 *)
THEOREM CapacitySafe == PipeSafe => []CapacityRespected
  <1>1. PipeInit => CapacityInv
    BY FS_EmptySet, PipelineAssumption DEF PipeInit, CapacityInv, Used
  <1>2. CapacityInv => CapacityRespected
    BY DEF CapacityInv, CapacityRespected
  <1> QED
    BY <1>1, <1>2, CapacityStep, TypeCorrect, PTL DEF PipeSafe

-----------------------------------------------------------------------------
(* The queue.  The intents in it are those of the queued runs, once each.  *)

QueueInv ==
    /\ Len(queue) <= QueueCap
    /\ \A i \in DOMAIN queue : stage[queue[i]] = "queued"
    /\ \A i, k \in DOMAIN queue : queue[i] = queue[k] => i = k
    /\ \A r \in Runs : stage[r] = "queued" => \E i \in DOMAIN queue : queue[i] = r

(* The steps that leave the queue alone move no run into or out of it. *)
QueueUntouched ==
    /\ queue' = queue
    /\ \A r \in Runs : stage'[r] = "queued" <=> stage[r] = "queued"

Enqueue(r) ==
    /\ stage[r] \in {"inserted", "sending"}
    /\ Len(queue) < QueueCap
    /\ queue' = Append(queue, r)
    /\ Goto(r, "queued")

LEMMA QueueCases ==
    TypeOK /\ [PipeNext]_pipeVars =>
        \/ QueueUntouched
        \/ \E r \in Runs : Enqueue(r)
        \/ Receive \/ Restart
  <1> SUFFICES ASSUME TypeOK, [PipeNext]_pipeVars,
                      ~ Receive, ~ Restart, \A r \in Runs : ~ Enqueue(r)
               PROVE  QueueUntouched
    OBVIOUS
  <1> USE DEF QueueUntouched, TypeOK, Goto, store, identity, process, calls
  <1>1. ASSUME NEW r \in Runs, NEW j \in Jobs, Acquire(j, r) \/ InsertCondition(j, r)
        PROVE  QueueUntouched
    BY <1>1 DEF Acquire, InsertCondition, Create
  <1>2. ASSUME NEW r \in Runs, InsertRun(r) \/ InsertFails(r) \/ TrySendFull(r)
        PROVE  QueueUntouched
    BY <1>2 DEF InsertRun, InsertFails, TrySendFull
  <1>3. ASSUME NEW r \in Runs, TrySend(r) \/ SendRetry(r)
        PROVE  QueueUntouched
    BY <1>3 DEF TrySend, SendRetry, Enqueue
  <1>4. ASSUME NEW r \in Runs, Spawn(r) \/ SpawnFails(r) \/ MarkRunning(r)
        PROVE  QueueUntouched
    BY <1>4 DEF Spawn, SpawnFails, MarkRunning
  <1>5. ASSUME NEW r \in Runs, Reap(r) \/ SaveFinal(r) \/ Release(r) \/ RetryFails(r)
        PROVE  QueueUntouched
    BY <1>5 DEF Reap, SaveFinal, Release, RetryFails
  <1>6. ASSUME NEW p \in Runs, NEW r \in Runs, InsertRetry(p, r)
        PROVE  QueueUntouched
    BY <1>6 DEF InsertRetry, Create
  <1>7. ASSUME NEW r \in Runs, Execute(r)
        PROVE  QueueUntouched
    BY <1>7 DEF Execute, Exit, Killed, TimeOut, Finish, OrphanExits
  <1>8. CASE Operate
    BY <1>8 DEF Operate, Kill, ChangeState, ReleaseChanged, DeleteJob
  <1>9. CASE UNCHANGED pipeVars
    BY <1>9 DEF pipeVars
  <1> QED
    BY <1>1, <1>2, <1>3, <1>4, <1>5, <1>6, <1>7, <1>8, <1>9
       DEF PipeNext, Tick, OffTick, Work

LEMMA QueueStep == TypeOK /\ TypeOK' /\ QueueInv /\ [PipeNext]_pipeVars => QueueInv'
  <1> SUFFICES ASSUME TypeOK, TypeOK', QueueInv, [PipeNext]_pipeVars PROVE QueueInv'
    OBVIOUS
  <1>1. CASE QueueUntouched
    BY <1>1 DEF QueueUntouched, QueueInv, TypeOK
  <1>2. ASSUME NEW r \in Runs, Enqueue(r) PROVE QueueInv'
    <2>1. /\ Len(queue') = Len(queue) + 1 /\ Len(queue) \in Nat
          /\ DOMAIN queue' = 1 .. Len(queue) + 1 /\ DOMAIN queue = 1 .. Len(queue)
          /\ \A i \in DOMAIN queue : queue'[i] = queue[i]
          /\ queue'[Len(queue) + 1] = r
      <3>1. queue \in Seq(Runs) /\ queue' = Append(queue, r)
        BY <1>2 DEF Enqueue, TypeOK
      <3> QED
        BY <3>1
    <2>2. \A i \in DOMAIN queue : queue[i] \in Runs /\ queue[i] # r
      BY <1>2 DEF Enqueue, QueueInv, TypeOK
    <2>3. Len(queue') <= QueueCap
      BY <1>2, <2>1, PipelineAssumption DEF Enqueue
    <2>4. /\ stage'[r] = "queued"
          /\ \A s \in Runs : s # r => stage'[s] = stage[s]
      BY <1>2 DEF Enqueue, Goto, TypeOK
    <2>5. \A i \in DOMAIN queue' : stage'[queue'[i]] = "queued"
      BY <2>1, <2>2, <2>4 DEF QueueInv
    <2>6. \A i, k \in DOMAIN queue' : queue'[i] = queue'[k] => i = k
      BY <2>1, <2>2 DEF QueueInv
    <2>7. \A s \in Runs : stage'[s] = "queued" => \E i \in DOMAIN queue' : queue'[i] = s
      BY <2>1, <2>4 DEF QueueInv
    <2> QED
      BY <2>3, <2>5, <2>6, <2>7 DEF QueueInv
  <1>3. CASE Receive
    <2>1. /\ Len(queue) \in Nat /\ Len(queue) > 0
          /\ DOMAIN queue = 1 .. Len(queue) /\ DOMAIN queue' = 1 .. Len(queue) - 1
          /\ Len(queue') = Len(queue) - 1
          /\ \A i \in DOMAIN queue' : queue'[i] = queue[i + 1]
          /\ Head(queue) = queue[1] /\ queue[1] \in Runs
      BY <1>3 DEF Receive, TypeOK
    <2>2. /\ stage'[queue[1]] = "taken"
          /\ \A s \in Runs : s # queue[1] => stage'[s] = stage[s]
      BY <1>3, <2>1 DEF Receive, Goto, TypeOK
    <2>3. \A i \in DOMAIN queue' : i + 1 \in DOMAIN queue /\ queue[i + 1] \in Runs
                                     /\ queue[i + 1] # queue[1]
      <3> SUFFICES ASSUME NEW i \in DOMAIN queue'
                   PROVE  i + 1 \in DOMAIN queue /\ queue[i + 1] \in Runs
                            /\ queue[i + 1] # queue[1]
        OBVIOUS
      <3>1. i \in 1 .. Len(queue) - 1
        BY <2>1
      <3>2. i + 1 \in DOMAIN queue /\ 1 \in DOMAIN queue /\ i + 1 # 1
        BY <2>1, <3>1
      <3>3. queue[i + 1] \in Runs
        BY <3>2 DEF TypeOK
      <3> QED
        BY <3>2, <3>3 DEF QueueInv
    <2>4. Len(queue') <= QueueCap
      BY <2>1, PipelineAssumption DEF QueueInv
    <2>5. \A i \in DOMAIN queue' : stage'[queue'[i]] = "queued"
      BY <2>1, <2>2, <2>3 DEF QueueInv
    <2>6. \A i, k \in DOMAIN queue' : queue'[i] = queue'[k] => i = k
      <3> SUFFICES ASSUME NEW i \in DOMAIN queue', NEW k \in DOMAIN queue',
                          queue'[i] = queue'[k]
                   PROVE  i = k
        OBVIOUS
      <3>1. i + 1 = k + 1
        BY <2>1, <2>3 DEF QueueInv
      <3> QED
        BY <2>1, <3>1
    <2>7. ASSUME NEW s \in Runs, stage'[s] = "queued"
          PROVE  \E i \in DOMAIN queue' : queue'[i] = s
      <3>1. s # queue[1] /\ stage[s] = "queued"
        BY <2>2, <2>7
      <3>2. PICK i \in DOMAIN queue : queue[i] = s
        BY <3>1 DEF QueueInv
      <3>3. i - 1 \in DOMAIN queue' /\ queue'[i - 1] = s
        BY <2>1, <3>1, <3>2
      <3> QED
        BY <3>3
    <2> QED
      BY <2>4, <2>5, <2>6, <2>7 DEF QueueInv
  <1>4. CASE Restart
    BY <1>4, PipelineAssumption DEF Restart, QueueInv, Moving
  <1> QED
    BY <1>1, <1>2, <1>3, <1>4, QueueCases

(* An intent is in the queue once while its run is queued, and nowhere     *)
(* else: no run is handed to two tasks and none is lost.                   *)
THEOREM QueueSafe == PipeSafe => []IntentOnce
  <1>1. PipeInit => QueueInv
    BY PipelineAssumption DEF PipeInit, QueueInv
  <1>2. QueueInv /\ TypeOK => IntentOnce
    <2> SUFFICES ASSUME QueueInv, TypeOK, NEW r \in Runs
                 PROVE  Cardinality({i \in DOMAIN queue : queue[i] = r})
                          = IF stage[r] = "queued" THEN 1 ELSE 0
      BY DEF IntentOnce, QueueInv
    <2>1. CASE stage[r] = "queued"
      <3>1. PICK i \in DOMAIN queue : queue[i] = r
        BY <2>1 DEF QueueInv
      <3>2. {k \in DOMAIN queue : queue[k] = r} = {i}
        BY <3>1 DEF QueueInv
      <3> QED
        BY <2>1, <3>2, FS_Singleton
    <2>2. CASE stage[r] # "queued"
      <3>1. {k \in DOMAIN queue : queue[k] = r} = {}
        BY <2>2 DEF QueueInv
      <3> QED
        BY <2>2, <3>1, FS_EmptySet
    <2> QED
      BY <2>1, <2>2
  <1> QED
    BY <1>1, <1>2, QueueStep, TypeCorrect, PTL DEF PipeSafe

-----------------------------------------------------------------------------
(* The holds.  A run has its claims exactly between Acquire and Release,   *)
(* but for change-status calls and the early returns.                      *)

HoldsInv ==
    /\ ClaimsHeld
    /\ HoldsAccounted
    /\ \A r \in Runs : stage[r] = "sending" => origin[r] = "retry"

(* A step that leaves the holds and the identity of runs alone keeps the   *)
(* invariant if no run enters the claiming stages, or leaves them for a    *)
(* stage that accounts for no hold.                                        *)
LEMMA HoldsKept ==
    ASSUME TypeOK, HoldsInv,
           UNCHANGED <<holds, origin, jobOf, overridden>>,
           \A r \in Runs :
              /\ stage'[r] \in Claiming /\ origin[r] = "due" => stage[r] \in Claiming
              /\ stage[r] \in Claiming \cup Leaking => stage'[r] \in Claiming \cup Leaking
              /\ stage'[r] = "sending" => stage[r] = "sending"
    PROVE  HoldsInv'
  <1>1. HoldsAccounted'
    BY DEF HoldsInv, HoldsAccounted, TypeOK
  <1>2. ClaimsHeld'
    <2>1. \A r \in Runs : Tokens(r, jobOf[r])' = Tokens(r, jobOf[r])
      BY DEF Tokens
    <2> QED
      BY <2>1 DEF HoldsInv, ClaimsHeld
  <1>3. \A r \in Runs : stage'[r] = "sending" => origin'[r] = "retry"
    BY DEF HoldsInv
  <1> QED
    BY <1>1, <1>2, <1>3 DEF HoldsInv

LEMMA HoldsStep == TypeOK /\ QueueInv /\ HoldsInv /\ [PipeNext]_pipeVars => HoldsInv'
  <1> SUFFICES ASSUME TypeOK, QueueInv, HoldsInv, [PipeNext]_pipeVars PROVE HoldsInv'
    OBVIOUS
  <1> DEFINE NewHolder(r) == \A t \in holds : t[1] # r
  <1>1. ASSUME NEW r \in Runs, stage[r] \notin Claiming \cup Leaking
        PROVE  NewHolder(r)
    BY <1>1 DEF HoldsInv, HoldsAccounted
  <1>2. ASSUME NEW r \in Runs, NEW j \in Jobs, Acquire(j, r) PROVE HoldsInv'
    <2>1. NewHolder(r)
      BY <1>1, <1>2 DEF Acquire, Create, Claiming, InWorker, Leaking
    <2>2. /\ origin' = [origin EXCEPT ![r] = "due"] /\ jobOf' = [jobOf EXCEPT ![r] = j]
          /\ stage' = [stage EXCEPT ![r] = "held"] /\ holds' = holds \cup Tokens(r, j)
          /\ overridden' = overridden
      BY <1>2 DEF Acquire, Create, Goto, calls
    <2>3. \A t \in Tokens(r, j) : t[1] = r
      BY DEF Tokens
    <2>4. HoldsAccounted'
      <3> SUFFICES ASSUME NEW t \in holds'
                   PROVE  origin'[t[1]] = "due" /\ stage'[t[1]] \in Claiming \cup Leaking
        BY DEF HoldsAccounted
      <3>1. CASE t \in holds
        BY <2>1, <2>2, <3>1 DEF HoldsInv, HoldsAccounted, TypeOK
      <3>2. CASE t \in Tokens(r, j)
        BY <2>2, <2>3, <3>2 DEF TypeOK, Claiming
      <3> QED
        BY <2>2, <3>1, <3>2
    <2>5. ClaimsHeld'
      <3> SUFFICES ASSUME NEW s \in Runs, origin'[s] = "due", stage'[s] \in Claiming,
                          s \notin overridden'
                   PROVE  Tokens(s, jobOf'[s]) \subseteq holds'
        BY DEF ClaimsHeld, Tokens
      <3>1. CASE s = r
        BY <2>2, <3>1 DEF TypeOK
      <3>2. CASE s # r
        BY <2>2, <3>2 DEF HoldsInv, ClaimsHeld, TypeOK
      <3> QED
        BY <3>1, <3>2
    <2>6. \A s \in Runs : stage'[s] = "sending" => origin'[s] = "retry"
      BY <2>2 DEF HoldsInv, TypeOK
    <2> QED
      BY <2>4, <2>5, <2>6 DEF HoldsInv
  <1>3. ASSUME NEW r \in Runs, NEW j \in Jobs, InsertCondition(j, r) PROVE HoldsInv'
    <2>1. NewHolder(r)
      BY <1>1, <1>3 DEF InsertCondition, Create, Claiming, InWorker, Leaking
    <2>2. /\ origin' = [origin EXCEPT ![r] = "condition"] /\ jobOf' = [jobOf EXCEPT ![r] = j]
          /\ stage' = [stage EXCEPT ![r] = "inserted"] /\ holds' = holds
          /\ overridden' = overridden
      BY <1>3 DEF InsertCondition, Create, Goto, calls
    <2>3. HoldsAccounted'
      BY <2>1, <2>2 DEF HoldsInv, HoldsAccounted, TypeOK
    <2>4. ClaimsHeld'
      <3> SUFFICES ASSUME NEW s \in Runs, origin'[s] = "due", stage'[s] \in Claiming,
                          s \notin overridden'
                   PROVE  Tokens(s, jobOf'[s]) \subseteq holds'
        BY DEF ClaimsHeld, Tokens
      <3>1. s # r
        BY <2>2 DEF TypeOK
      <3> QED
        BY <2>2, <3>1 DEF HoldsInv, ClaimsHeld, TypeOK
    <2>5. \A s \in Runs : stage'[s] = "sending" => origin'[s] = "retry"
      BY <2>2 DEF HoldsInv, TypeOK
    <2> QED
      BY <2>3, <2>4, <2>5 DEF HoldsInv
  <1>4. ASSUME NEW p \in Runs, NEW r \in Runs, InsertRetry(p, r) PROVE HoldsInv'
    <2>1. NewHolder(r) /\ NewHolder(p)
      BY <1>1, <1>4 DEF InsertRetry, Create, Claiming, InWorker, Leaking
    <2>2. /\ origin' = [origin EXCEPT ![r] = "retry"]
          /\ jobOf' = [jobOf EXCEPT ![r] = jobOf[p]]
          /\ stage' = [stage EXCEPT ![p] = "done", ![r] = "sending"]
          /\ holds' = holds /\ overridden' = overridden
      BY <1>4 DEF InsertRetry, Create, calls
    <2>3. HoldsAccounted'
      BY <2>1, <2>2 DEF HoldsInv, HoldsAccounted, TypeOK
    <2>4. ClaimsHeld'
      <3> SUFFICES ASSUME NEW s \in Runs, origin'[s] = "due", stage'[s] \in Claiming,
                          s \notin overridden'
                   PROVE  Tokens(s, jobOf'[s]) \subseteq holds'
        BY DEF ClaimsHeld, Tokens
      <3>1. s # r /\ s # p
        BY <2>2 DEF TypeOK, Claiming, InWorker
      <3> QED
        BY <2>2, <3>1 DEF HoldsInv, ClaimsHeld, TypeOK
    <2>5. \A s \in Runs : stage'[s] = "sending" => origin'[s] = "retry"
      BY <2>2 DEF HoldsInv, TypeOK
    <2> QED
      BY <2>3, <2>4, <2>5 DEF HoldsInv
  <1>5. ASSUME NEW r \in Runs, NEW h \in {holds, Released(r)}, holds' = h,
               stage[r] \in {"inserted", "saved"}, origin[r] # "due" \/ h = Released(r),
               NEW g \in {"dropped", "backoff", "done"}, Goto(r, g),
               UNCHANGED <<origin, jobOf, overridden>>
        PROVE  HoldsInv'
    <2>1. \A t \in holds' : t \in holds /\ t[1] # r
      BY <1>5 DEF Released, HeldBy, HoldsInv, HoldsAccounted
    <2>2. \A s \in Runs \ {r} : stage'[s] = stage[s]
      BY <1>5 DEF Goto, TypeOK
    <2>3. stage'[r] = g
      BY <1>5 DEF Goto, TypeOK
    <2>4. HoldsAccounted'
      BY <1>5, <2>1, <2>2 DEF HoldsInv, HoldsAccounted, TypeOK
    <2>5. ClaimsHeld'
      <3> SUFFICES ASSUME NEW s \in Runs, origin[s] = "due", stage'[s] \in Claiming,
                          s \notin overridden
                   PROVE  Tokens(s, jobOf[s]) \subseteq holds'
        BY <1>5 DEF ClaimsHeld, Tokens
      <3>1. s # r
        BY <2>3 DEF Claiming, InWorker
      <3>2. Tokens(s, jobOf[s]) \subseteq holds
        BY <2>2, <3>1 DEF HoldsInv, ClaimsHeld
      <3>3. \A t \in Tokens(s, jobOf[s]) : t[1] = s
        BY DEF Tokens
      <3> QED
        BY <1>5, <3>1, <3>2, <3>3 DEF Released, HeldBy
    <2>6. \A s \in Runs : stage'[s] = "sending" => origin'[s] = "retry"
      BY <1>5, <2>2, <2>3 DEF HoldsInv
    <2> QED
      BY <2>4, <2>5, <2>6 DEF HoldsInv
  <1>6. ASSUME NEW r \in Runs, TrySendFull(r) PROVE HoldsInv'
    BY <1>5, <1>6 DEF TrySendFull, identity, calls
  <1>7. ASSUME NEW r \in Runs, Release(r) PROVE HoldsInv'
    BY <1>5, <1>7 DEF Release, identity, calls
  <1>8. ASSUME NEW r \in Runs, ReleaseChanged(r) PROVE HoldsInv'
    <2>1. UNCHANGED <<origin, jobOf, stage, overridden>> /\ holds' = Released(r)
          /\ r \in overridden
      BY <1>8 DEF ReleaseChanged, identity, TypeOK
    <2>2. HoldsAccounted'
      BY <2>1 DEF HoldsInv, HoldsAccounted, Released
    <2>3. ClaimsHeld'
      <3> SUFFICES ASSUME NEW q \in Runs, origin[q] = "due", stage[q] \in Claiming,
                          q \notin overridden, q # r
                   PROVE  Tokens(q, jobOf[q]) \subseteq Released(r)
        BY <2>1 DEF ClaimsHeld, Tokens
      <3>1. \A t \in Tokens(q, jobOf[q]) : t[1] = q
        BY DEF Tokens
      <3> QED
        BY <3>1 DEF HoldsInv, ClaimsHeld, Released, HeldBy
    <2> QED
      BY <2>1, <2>2, <2>3 DEF HoldsInv
  <1>9. CASE Receive
    <2>1. Head(queue) \in Runs /\ stage[Head(queue)] = "queued"
      BY <1>9 DEF Receive, QueueInv, TypeOK
    <2> QED
      BY <1>9, <2>1, HoldsKept
         DEF Receive, Goto, Claiming, InWorker, Leaking, TypeOK, store, identity, calls
  <1> USE HoldsKept DEF Goto, Claiming, InWorker, Leaking, TypeOK, store, identity, calls
  <1>10. ASSUME NEW r \in Runs, InsertRun(r) \/ InsertFails(r) PROVE HoldsInv'
    BY <1>10 DEF InsertRun, InsertFails
  <1>11. ASSUME NEW r \in Runs, TrySend(r) PROVE HoldsInv'
    BY <1>11 DEF TrySend
  <1>12. ASSUME NEW r \in Runs, SendRetry(r) PROVE HoldsInv'
    BY <1>12 DEF SendRetry, HoldsInv
  <1>13. ASSUME NEW r \in Runs, Spawn(r) \/ SpawnFails(r) \/ MarkRunning(r) PROVE HoldsInv'
    BY <1>13 DEF Spawn, SpawnFails, MarkRunning
  <1>14. ASSUME NEW r \in Runs, Reap(r) \/ SaveFinal(r) \/ RetryFails(r) PROVE HoldsInv'
    BY <1>14 DEF Reap, SaveFinal, RetryFails
  <1>15. ASSUME NEW r \in Runs, Execute(r) PROVE HoldsInv'
    BY <1>15 DEF Execute, Exit, Killed, TimeOut, Finish, OrphanExits
  <1>16. ASSUME NEW r \in Runs, Kill(r) PROVE HoldsInv'
    BY <1>16 DEF Kill
  <1>20. ASSUME NEW r \in Runs, NEW s \in OperatorStates, ChangeState(r, s) PROVE HoldsInv'
    <2>1. UNCHANGED <<holds, origin, jobOf, stage>> /\ overridden' = overridden \cup {r}
      BY <1>20 DEF ChangeState
    <2>2. \A q \in Runs : Tokens(q, jobOf[q])' = Tokens(q, jobOf[q])
      BY <2>1 DEF Tokens
    <2> QED
      BY <2>1, <2>2 DEF HoldsInv, HoldsAccounted, ClaimsHeld
  <1>17. ASSUME NEW j \in Jobs, DeleteJob(j) PROVE HoldsInv'
    BY <1>17 DEF DeleteJob
  <1>18. CASE Restart
    BY <1>18 DEF Restart, Moving
  <1>19. CASE UNCHANGED pipeVars
    BY <1>19 DEF pipeVars
  <1> QED
    BY <1>2, <1>3, <1>4, <1>6, <1>7, <1>8, <1>9, <1>10, <1>11, <1>12, <1>13, <1>14, <1>15,
       <1>16, <1>17, <1>18, <1>19, <1>20
       DEF PipeNext, Tick, OffTick, Work, Operate

LEMMA PipelineInvariants == PipeSafe => [](TypeOK /\ QueueInv /\ HoldsInv)
  <1>1. PipeInit => QueueInv /\ HoldsInv
    BY PipelineAssumption DEF PipeInit, QueueInv, HoldsInv, ClaimsHeld, HoldsAccounted, Claiming, InWorker
  <1> QED
    BY <1>1, QueueStep, HoldsStep, TypeCorrect, PTL DEF PipeSafe

(* A run admitted by its claims keeps them until its task has written the  *)
(* last state, unless an operator changed the state of the run.            *)
THEOREM ClaimsSafe == PipeSafe => []ClaimsHeld
  BY PipelineInvariants, PTL DEF HoldsInv

(* The only holds that outlive their run are those of a refused insert, a  *)
(* failed spawn and a restart.                                             *)
THEOREM HoldsSafe == PipeSafe => []HoldsAccounted
  BY PipelineInvariants, PTL DEF HoldsInv

-----------------------------------------------------------------------------
(* Processes, outcomes and the registry follow the task of the run.        *)

Before == {"unused", "held", "inserted", "sending", "queued", "taken"}
After  == {"reaped", "saved", "backoff", "done"}

ProcInv == \A r \in Runs :
    /\ proc[r] = "live" => /\ stage[r] \in {"spawned", "running"}
                           /\ outcome[r] = "none" /\ r \in registry \cup killSent
    /\ stage[r] \in Before => proc[r] = "none" /\ outcome[r] = "none" /\ r \notin registry
    /\ r \in registry => stage[r] \in {"spawned", "running"}
    /\ stage[r] \in After => outcome[r] # "none"

(* A step that starts, ends or registers no process, and moves runs only   *)
(* forward in the order of the stages.                                     *)
LEMMA ProcKept ==
    ASSUME ProcInv, UNCHANGED <<proc, outcome, registry, killSent>>,
           \A r \in Runs :
              /\ stage'[r] \in Before => stage[r] \in Before
              /\ stage[r] \in {"spawned", "running"} => stage'[r] \in {"spawned", "running"}
              /\ stage'[r] \in After => stage[r] \in After
    PROVE  ProcInv'
  BY DEF ProcInv

LEMMA ProcStep == TypeOK /\ QueueInv /\ ProcInv /\ [PipeNext]_pipeVars => ProcInv'
  <1> SUFFICES ASSUME TypeOK, QueueInv, ProcInv, [PipeNext]_pipeVars PROVE ProcInv'
    OBVIOUS
  <1> USE DEF Before, After, Goto, TypeOK
  <1>1. ASSUME NEW r \in Runs, Spawn(r) PROVE ProcInv'
    BY <1>1 DEF Spawn, ProcInv
  <1>2. ASSUME NEW r \in Runs, NEW o \in Outcomes \ {"none"}, Finish(r, o) PROVE ProcInv'
    BY <1>2 DEF Finish, ProcInv
  <1>3. ASSUME NEW r \in Runs, OrphanExits(r) PROVE ProcInv'
    BY <1>3 DEF OrphanExits, ProcInv
  <1>4. ASSUME NEW r \in Runs, Execute(r) PROVE ProcInv'
    BY <1>2, <1>3, <1>4 DEF Execute, Exit, Killed, TimeOut, Outcomes
  <1>5. ASSUME NEW r \in Runs, Reap(r) PROVE ProcInv'
    BY <1>5 DEF Reap, ProcInv
  <1>6. ASSUME NEW r \in Runs, Kill(r) PROVE ProcInv'
    BY <1>6 DEF Kill, ProcInv
  <1>7. CASE Restart
    BY <1>7 DEF Restart, ProcInv, Moving, InWorker
  <1>8. CASE Receive
    <2>1. Head(queue) \in Runs /\ stage[Head(queue)] = "queued"
      BY <1>8 DEF Receive, QueueInv
    <2> QED
      BY <1>8, <2>1, ProcKept DEF Receive, process
  <1> USE ProcKept DEF process
  <1>9. ASSUME NEW r \in Runs, NEW j \in Jobs, Acquire(j, r) \/ InsertCondition(j, r)
        PROVE  ProcInv'
    BY <1>9 DEF Acquire, InsertCondition, Create
  <1>10. ASSUME NEW r \in Runs, InsertRun(r) \/ TrySend(r) \/ SendRetry(r) PROVE ProcInv'
    BY <1>10 DEF InsertRun, TrySend, SendRetry
  <1>11. ASSUME NEW r \in Runs, InsertFails(r) \/ TrySendFull(r) \/ SpawnFails(r) PROVE ProcInv'
    BY <1>11 DEF InsertFails, TrySendFull, SpawnFails
  <1>12. ASSUME NEW r \in Runs, MarkRunning(r) \/ SaveFinal(r) \/ Release(r) \/ RetryFails(r)
         PROVE  ProcInv'
    BY <1>12 DEF MarkRunning, SaveFinal, Release, RetryFails
  <1>13. ASSUME NEW p \in Runs, NEW r \in Runs, InsertRetry(p, r) PROVE ProcInv'
    BY <1>13 DEF InsertRetry, Create
  <1>14. ASSUME NEW r \in Runs, NEW s \in OperatorStates, ChangeState(r, s) PROVE ProcInv'
    BY <1>14 DEF ChangeState
  <1>20. ASSUME NEW r \in Runs, ReleaseChanged(r) PROVE ProcInv'
    BY <1>20 DEF ReleaseChanged
  <1>15. ASSUME NEW j \in Jobs, DeleteJob(j) PROVE ProcInv'
    BY <1>15 DEF DeleteJob
  <1>16. CASE UNCHANGED pipeVars
    BY <1>16 DEF pipeVars
  <1> QED
    BY <1>1, <1>4, <1>5, <1>6, <1>7, <1>8, <1>9, <1>10, <1>11, <1>12, <1>13, <1>14, <1>15, <1>16, <1>20
       DEF PipeNext, Tick, OffTick, Work, Operate

(* A live process can be killed, and no registry entry outlives its task.  *)
THEOREM KillSafe == PipeSafe => []KillReaches
  <1>1. PipeInit => ProcInv
    BY DEF PipeInit, ProcInv, After
  <1>2. ProcInv => KillReaches
    BY DEF ProcInv, KillReaches
  <1> QED
    BY <1>1, <1>2, ProcStep, PipelineInvariants, PTL DEF PipeSafe

-----------------------------------------------------------------------------
(* The final row.  After SaveFinal the outcome is settled, and no task     *)
(* writes the row of the run again.                                        *)

LEMMA RowKept ==
    ASSUME TypeOK, ProcInv, RowTellsOutcome,
           \A r \in Runs :
              /\ stage'[r] \in {"saved", "backoff", "done"} =>
                    /\ stage[r] \in {"saved", "backoff", "done"}
                    /\ outcome'[r] = outcome[r]
                    /\ row'[r] \in {row[r], "absent"} \/ r \in overridden'
              /\ r \in overridden => r \in overridden'
    PROVE  RowTellsOutcome'
  BY DEF RowTellsOutcome, Verdict

LEMMA RowStep ==
    TypeOK /\ QueueInv /\ ProcInv /\ RowTellsOutcome /\ [PipeNext]_pipeVars => RowTellsOutcome'
  <1> SUFFICES ASSUME TypeOK, QueueInv, ProcInv, RowTellsOutcome, [PipeNext]_pipeVars
               PROVE  RowTellsOutcome'
    OBVIOUS
  <1>1. ASSUME NEW r \in Runs, SaveFinal(r) PROVE RowTellsOutcome'
    BY <1>1 DEF SaveFinal, RowTellsOutcome, RowSet, Verdict, Goto, TypeOK, process, calls
  <1>2. CASE Receive
    <2>1. Head(queue) \in Runs /\ stage[Head(queue)] = "queued"
      BY <1>2 DEF Receive, QueueInv, TypeOK
    <2> QED
      BY <1>2, <2>1, RowKept DEF Receive, Goto, TypeOK, store, process, calls
  <1> USE RowKept DEF Goto, TypeOK, RowSet, store, process, calls
  <1>3. ASSUME NEW r \in Runs, NEW j \in Jobs, Acquire(j, r) \/ InsertCondition(j, r)
        PROVE  RowTellsOutcome'
    BY <1>3 DEF Acquire, InsertCondition, Create
  <1>4. ASSUME NEW r \in Runs, InsertRun(r) \/ InsertFails(r) \/ TrySend(r) \/ SendRetry(r)
        PROVE  RowTellsOutcome'
    BY <1>4 DEF InsertRun, InsertFails, TrySend, SendRetry
  <1>5. ASSUME NEW r \in Runs, TrySendFull(r) \/ Spawn(r) \/ SpawnFails(r) \/ MarkRunning(r)
        PROVE  RowTellsOutcome'
    BY <1>5 DEF TrySendFull, Spawn, SpawnFails, MarkRunning
  <1>6. ASSUME NEW r \in Runs, NEW o \in Outcomes, Finish(r, o) PROVE RowTellsOutcome'
    BY <1>6 DEF Finish, ProcInv
  <1>7. ASSUME NEW r \in Runs, Execute(r) PROVE RowTellsOutcome'
    BY <1>6, <1>7 DEF Execute, Exit, Killed, TimeOut, OrphanExits, Outcomes
  <1>8. ASSUME NEW r \in Runs, Reap(r) \/ Release(r) \/ RetryFails(r) PROVE RowTellsOutcome'
    BY <1>8 DEF Reap, Release, RetryFails
  <1>9. ASSUME NEW p \in Runs, NEW r \in Runs, InsertRetry(p, r) PROVE RowTellsOutcome'
    BY <1>9 DEF InsertRetry, Create
  <1>10. ASSUME NEW r \in Runs, Kill(r) PROVE RowTellsOutcome'
    BY <1>10 DEF Kill
  <1>11. ASSUME NEW r \in Runs, NEW s \in OperatorStates, ChangeState(r, s) PROVE RowTellsOutcome'
    BY <1>11 DEF ChangeState
  <1>20. ASSUME NEW r \in Runs, ReleaseChanged(r) PROVE RowTellsOutcome'
    BY <1>20 DEF ReleaseChanged
  <1>12. ASSUME NEW j \in Jobs, DeleteJob(j) PROVE RowTellsOutcome'
    BY <1>12 DEF DeleteJob
  <1>13. CASE Restart
    BY <1>13 DEF Restart
  <1>14. CASE UNCHANGED pipeVars
    BY <1>14 DEF pipeVars
  <1> QED
    BY <1>1, <1>2, <1>3, <1>4, <1>5, <1>7, <1>8, <1>9, <1>10, <1>11, <1>12, <1>13, <1>14, <1>20
       DEF PipeNext, Tick, OffTick, Work, Operate

(* The row of a finished run tells what its process did, unless an         *)
(* operator changed it or the job is deleted.                              *)
THEOREM RowSafe == PipeSafe => []RowTellsOutcome
  <1>1. PipeInit => ProcInv /\ RowTellsOutcome
    BY DEF PipeInit, ProcInv, After, RowTellsOutcome
  <1> QED
    BY <1>1, ProcStep, RowStep, PipelineInvariants, PTL DEF PipeSafe

-----------------------------------------------------------------------------
(* Retries.  A run sleeping before its retry has failed, has an attempt    *)
(* left and no child yet; a run with a child is done for good.             *)

Failed(r) == outcome[r] \in {"failure", "timeout"}

ChainInv ==
    /\ \A r \in Runs : origin[r] = "retry" =>
          /\ parent[r] \in Runs /\ stage[parent[r]] = "done" /\ Failed(parent[r])
          /\ jobOf[r] = jobOf[parent[r]]
          /\ attempt[r] = attempt[parent[r]] + 1 /\ attempt[r] <= MaxAttempts[jobOf[r]]
    /\ \A r \in Runs : origin[r] # "retry" => parent[r] = NoRun
    /\ \A r, s \in Runs : parent[r] = parent[s] /\ parent[r] # NoRun => r = s
    /\ \A r \in Runs : stage[r] = "backoff" =>
          Failed(r) /\ attempt[r] < MaxAttempts[jobOf[r]]

LEMMA ChainKept ==
    ASSUME ChainInv, UNCHANGED <<origin, jobOf, attempt, parent>>,
           \A r \in Runs :
              /\ stage[r] = "done" => stage'[r] = "done"
              /\ stage[r] \in {"backoff", "done"} => outcome'[r] = outcome[r]
              /\ stage'[r] = "backoff" =>
                    stage[r] = "backoff"
                    \/ /\ outcome'[r] \in {"failure", "timeout"}
                       /\ attempt[r] < MaxAttempts[jobOf[r]]
    PROVE  ChainInv'
  BY DEF ChainInv, Failed

(* A run id is given out once, so that what is known of other runs stays.  *)
LEMMA ChainCreate ==
    ASSUME TypeOK, ChainInv, NEW r \in Runs, NEW j \in Jobs, NEW o \in {"due", "condition"},
           Create(r, j, o, 1, NoRun), UNCHANGED outcome,
           NEW g \in {"held", "inserted"}, Goto(r, g)
    PROVE  ChainInv'
  <1>1. /\ stage[r] = "unused"
        /\ \A q \in Runs \ {r} : /\ stage'[q] = stage[q] /\ origin'[q] = origin[q]
                                 /\ jobOf'[q] = jobOf[q] /\ attempt'[q] = attempt[q]
                                 /\ parent'[q] = parent[q]
        /\ stage'[r] = g /\ origin'[r] = o /\ parent'[r] = NoRun
    BY DEF Create, Goto, TypeOK
  <1>2. \A q \in Runs : origin[q] = "retry" => parent[q] \in Runs \ {r}
    BY <1>1 DEF ChainInv
  <1> QED
    BY <1>1, <1>2 DEF ChainInv, Failed

LEMMA ChainRetry ==
    ASSUME TypeOK, ChainInv, NEW p \in Runs, NEW r \in Runs, InsertRetry(p, r)
    PROVE  ChainInv'
  <1>1. /\ stage[r] = "unused" /\ stage[p] = "backoff" /\ p # r
        /\ \A q \in Runs \ {r} : /\ origin'[q] = origin[q] /\ jobOf'[q] = jobOf[q]
                                 /\ attempt'[q] = attempt[q] /\ parent'[q] = parent[q]
        /\ \A q \in Runs \ {p, r} : stage'[q] = stage[q]
        /\ stage'[r] = "sending" /\ stage'[p] = "done"
        /\ origin'[r] = "retry" /\ parent'[r] = p /\ jobOf'[r] = jobOf[p]
        /\ attempt'[r] = attempt[p] + 1
        /\ outcome' = outcome
    BY DEF InsertRetry, Create, TypeOK, process
  <1>2. \A q \in Runs : origin[q] = "retry" => parent[q] \in Runs \ {p, r}
    BY <1>1 DEF ChainInv
  <1>3. \A q \in Runs \ {r} : parent[q] # p
    BY <1>1, <1>2, PipelineAssumption DEF ChainInv
  <1>4. jobOf[p] \in Jobs
    BY DEF InsertRetry, TypeOK
  <1>5. /\ attempt[p] \in Nat /\ MaxAttempts[jobOf[p]] \in Nat
        /\ Failed(p) /\ attempt[p] < MaxAttempts[jobOf[p]]
    BY <1>1, <1>4, PipelineAssumption DEF ChainInv, TypeOK
  <1>6. attempt'[r] <= MaxAttempts[jobOf'[r]]
    BY <1>1, <1>5
  <1>7. ASSUME NEW q \in Runs, origin'[q] = "retry"
        PROVE  /\ parent'[q] \in Runs /\ stage'[parent'[q]] = "done" /\ Failed(parent[q])'
               /\ jobOf'[q] = jobOf'[parent'[q]]
               /\ attempt'[q] = attempt'[parent'[q]] + 1
               /\ attempt'[q] <= MaxAttempts[jobOf'[q]]
    <2>1. CASE q = r
      BY <1>1, <1>5, <1>6, <2>1 DEF Failed
    <2>2. CASE q # r
      BY <1>1, <1>2, <1>7, <2>2 DEF ChainInv, Failed
    <2> QED
      BY <2>1, <2>2
  <1>8. \A q \in Runs : origin'[q] # "retry" => parent'[q] = NoRun
    BY <1>1 DEF ChainInv
  <1>9. \A q, s \in Runs : parent'[q] = parent'[s] /\ parent'[q] # NoRun => q = s
    BY <1>1, <1>3 DEF ChainInv
  <1>10. \A q \in Runs : stage'[q] = "backoff" =>
            Failed(q)' /\ attempt'[q] < MaxAttempts[jobOf'[q]]
    BY <1>1 DEF ChainInv, Failed
  <1> QED
    BY <1>7, <1>8, <1>9, <1>10 DEF ChainInv

LEMMA ChainStep ==
    TypeOK /\ QueueInv /\ ProcInv /\ ChainInv /\ [PipeNext]_pipeVars => ChainInv'
  <1> SUFFICES ASSUME TypeOK, QueueInv, ProcInv, ChainInv, [PipeNext]_pipeVars
               PROVE  ChainInv'
    OBVIOUS
  <1>1. ASSUME NEW r \in Runs, NEW j \in Jobs, Acquire(j, r) \/ InsertCondition(j, r)
        PROVE  ChainInv'
    BY <1>1, ChainCreate DEF Acquire, InsertCondition, process
  <1>2. ASSUME NEW p \in Runs, NEW r \in Runs, InsertRetry(p, r) PROVE ChainInv'
    BY <1>2, ChainRetry
  <1>3. ASSUME NEW r \in Runs, Release(r) PROVE ChainInv'
    <2>1. stage[r] = "saved" /\ UNCHANGED <<identity, outcome>>
          /\ stage' = [stage EXCEPT ![r] = IF Retries(r) THEN "backoff" ELSE "done"]
      BY <1>3 DEF Release, Goto, process
    <2>2. Retries(r) => Failed(r) /\ attempt[r] < MaxAttempts[jobOf[r]]
      BY <2>1 DEF Retries, Verdict, Failed, ProcInv, After, TypeOK, Outcomes
    <2> QED
      BY <2>1, <2>2, ChainKept DEF TypeOK, Failed, identity
  <1>4. CASE Receive
    <2>1. Head(queue) \in Runs /\ stage[Head(queue)] = "queued"
      BY <1>4 DEF Receive, QueueInv, TypeOK
    <2> QED
      BY <1>4, <2>1, ChainKept DEF Receive, Goto, TypeOK, process, identity
  <1> USE ChainKept DEF Goto, TypeOK, process, identity
  <1>5. ASSUME NEW r \in Runs, InsertRun(r) \/ InsertFails(r) \/ TrySend(r) \/ SendRetry(r)
        PROVE  ChainInv'
    BY <1>5 DEF InsertRun, InsertFails, TrySend, SendRetry
  <1>6. ASSUME NEW r \in Runs, TrySendFull(r) \/ Spawn(r) \/ SpawnFails(r) \/ MarkRunning(r)
        PROVE  ChainInv'
    BY <1>6 DEF TrySendFull, Spawn, SpawnFails, MarkRunning
  <1>7. ASSUME NEW r \in Runs, NEW o \in Outcomes, Finish(r, o) PROVE ChainInv'
    BY <1>7 DEF Finish, ProcInv
  <1>8. ASSUME NEW r \in Runs, Execute(r) PROVE ChainInv'
    BY <1>7, <1>8 DEF Execute, Exit, Killed, TimeOut, OrphanExits, Outcomes
  <1>9. ASSUME NEW r \in Runs, Reap(r) \/ SaveFinal(r) \/ RetryFails(r) PROVE ChainInv'
    BY <1>9 DEF Reap, SaveFinal, RetryFails
  <1>10. ASSUME NEW r \in Runs, Kill(r) PROVE ChainInv'
    BY <1>10 DEF Kill
  <1>11. ASSUME NEW r \in Runs, NEW s \in OperatorStates, ChangeState(r, s) PROVE ChainInv'
    BY <1>11 DEF ChangeState
  <1>20. ASSUME NEW r \in Runs, ReleaseChanged(r) PROVE ChainInv'
    BY <1>20 DEF ReleaseChanged
  <1>12. ASSUME NEW j \in Jobs, DeleteJob(j) PROVE ChainInv'
    BY <1>12 DEF DeleteJob
  <1>13. CASE Restart
    BY <1>13 DEF Restart, Moving, InWorker
  <1>14. CASE UNCHANGED pipeVars
    BY <1>14 DEF pipeVars
  <1> QED
    BY <1>1, <1>2, <1>3, <1>4, <1>5, <1>6, <1>8, <1>9, <1>10, <1>11, <1>12, <1>13, <1>14, <1>20
       DEF PipeNext, Tick, OffTick, Work, Operate

(* Retries form a chain: one child of a run at most, one more attempt of   *)
(* the same job within max_attempts, and only after a failure whose holds  *)
(* are back.                                                               *)
THEOREM RetrySafe == PipeSafe => []RetryChain
  <1>1. PipeInit => ProcInv /\ ChainInv
    BY PipelineAssumption DEF PipeInit, ProcInv, After, ChainInv
  <1>2. ChainInv /\ HoldsInv => RetryChain
    <2> SUFFICES ASSUME ChainInv, HoldsInv PROVE RetryChain
      OBVIOUS
    <2>1. \A p \in Runs : stage[p] = "done" => HeldBy(p) = {}
      BY DEF HoldsInv, HoldsAccounted, HeldBy, Claiming, InWorker, Leaking
    <2> QED
      BY <2>1 DEF ChainInv, RetryChain, Failed
  <1> QED
    BY <1>1, <1>2, ProcStep, ChainStep, PipelineInvariants, PTL DEF PipeSafe

-----------------------------------------------------------------------------
(* The pipeline implements the abstract life of runs (module RunLife).     *)

(* What the life of a run is made of, once the invariants are known: before*)
(* its process it waits, from the outcome on it is what the outcome says.  *)
LEMMA LifeIs ==
    ASSUME TypeOK, ProcInv, NEW r \in Runs
    PROVE  /\ LifeOf(r) = "unborn" <=> stage[r] = "unused"
           /\ stage[r] \in Before \ {"unused"} => LifeOf(r) = "waiting"
           /\ proc[r] = "live" => LifeOf(r) = "executing"
           /\ LifeOf(r) \in {"waiting", "executing"} => stage[r] \in Moving /\ outcome[r] = "none"
           /\ stage[r] \in Moving /\ outcome[r] = "none" => LifeOf(r) \in {"waiting", "executing"}
           /\ stage[r] # "unused" /\ Failed(r) => LifeOf(r) = "failed"
  <1> USE DEF ProcInv, LifeOf, Before, After, Failed
  <1>1. LifeOf(r) = "unborn" <=> stage[r] = "unused"
    OBVIOUS
  <1>2. stage[r] \in Before \ {"unused"} => LifeOf(r) = "waiting"
    OBVIOUS
  <1>3. proc[r] = "live" => LifeOf(r) = "executing"
    OBVIOUS
  <1>4. LifeOf(r) \in {"waiting", "executing"} => stage[r] \in Moving /\ outcome[r] = "none"
    BY DEF TypeOK, Outcomes, Stages, Moving, InWorker, Ended
  <1>5. stage[r] \in Moving /\ outcome[r] = "none" => LifeOf(r) \in {"waiting", "executing"}
    BY DEF Moving, InWorker
  <1>6. stage[r] # "unused" /\ Failed(r) => LifeOf(r) = "failed"
    OBVIOUS
  <1> QED
    BY <1>1, <1>2, <1>3, <1>4, <1>5, <1>6

(* A step that leaves every run in its part of the life is none at all.    *)
LEMMA LifeStutter ==
    ASSUME UNCHANGED identity, \A r \in Runs : LifeOf(r)' = LifeOf(r)
    PROVE  UNCHANGED Life!lifeVars
  BY DEF Life!lifeVars, identity

(* One run moves on, the others stay where they are. *)
LEMMA LifeMove ==
    ASSUME NEW r \in Runs, NEW a, NEW B, LifeOf(r) = a, LifeOf(r)' \in B,
           \A q \in Runs \ {r} : LifeOf(q)' = LifeOf(q), UNCHANGED identity
    PROVE  Life!Move(r, a, B)
  BY DEF Life!Move, identity

(* A run is born. *)
LEMMA LifeBorn ==
    ASSUME TypeOK, NEW r \in Runs, NEW j, NEW o, NEW n, NEW p, Create(r, j, o, n, p),
           LifeOf(r) = "unborn", LifeOf(r)' = "waiting",
           \A q \in Runs \ {r} : LifeOf(q)' = LifeOf(q)
    PROVE  Life!Born(r, j, n, p)
  BY DEF Life!Born, Create

-----------------------------------------------------------------------------
(* Each step of the pipeline as a step of the life, or none. *)

LifeInv == TypeOK /\ QueueInv /\ ProcInv /\ ChainInv

LEMMA LifeInvariant == PipeSafe => []LifeInv
  <1>1. PipeInit => ProcInv /\ ChainInv
    BY PipelineAssumption DEF PipeInit, ProcInv, After, ChainInv
  <1> QED
    BY <1>1, ProcStep, ChainStep, PipelineInvariants, PTL DEF PipeSafe, LifeInv

LEMMA FireIsFire ==
    ASSUME LifeInv, LifeInv', NEW r \in Runs, NEW j \in Jobs,
           Acquire(j, r) \/ InsertCondition(j, r)
    PROVE  Life!Fire(r)
  <1>1. PICK o \in {"due", "condition"}, g \in {"held", "inserted"} :
          Create(r, j, o, 1, NoRun) /\ Goto(r, g) /\ UNCHANGED process
    BY DEF Acquire, InsertCondition
  <1>2. LifeOf(r) = "unborn"
    BY <1>1, LifeIs DEF Create, LifeInv
  <1>3. LifeOf(r)' = "waiting"
    <2>1. stage'[r] = g
      BY <1>1 DEF Goto, LifeInv, TypeOK
    <2>2. outcome'[r] = "none" /\ proc'[r] = "none"
      BY <2>1 DEF LifeInv, ProcInv, Before
    <2> QED
      BY <2>1, <2>2 DEF LifeOf
  <1>4. \A q \in Runs \ {r} : LifeOf(q)' = LifeOf(q)
    BY <1>1 DEF Goto, process, LifeOf, LifeInv, TypeOK
  <1>5. Life!Born(r, j, 1, NoRun)
    BY <1>1, <1>2, <1>3, <1>4, LifeBorn DEF LifeInv
  <1> QED
    BY <1>5 DEF Life!Fire

LEMMA RetryIsRetry ==
    ASSUME LifeInv, LifeInv', NEW p \in Runs, NEW r \in Runs, InsertRetry(p, r)
    PROVE  Life!Retry(p, r)
  <1>1. /\ stage[p] = "backoff" /\ stage[r] = "unused" /\ p # r
        /\ stage' = [stage EXCEPT ![p] = "done", ![r] = "sending"]
        /\ Create(r, jobOf[p], "retry", attempt[p] + 1, p) /\ UNCHANGED process
    BY DEF InsertRetry, Create
  <1>2. Failed(p) /\ attempt[p] < MaxAttempts[jobOf[p]]
    BY <1>1 DEF LifeInv, ChainInv
  <1>3. LifeOf(p) = "failed" /\ LifeOf(r) = "unborn"
    BY <1>1, <1>2, LifeIs DEF LifeInv
  <1>4. \A s \in Runs : parent[s] # p
    BY <1>1, PipelineAssumption DEF LifeInv, ChainInv
  <1>5. stage'[r] = "sending" /\ stage'[p] = "done"
        /\ \A q \in Runs \ {p, r} : stage'[q] = stage[q]
    BY <1>1 DEF LifeInv, TypeOK
  <1>6. LifeOf(r)' = "waiting"
    <2>1. outcome'[r] = "none" /\ proc'[r] = "none"
      BY <1>5 DEF LifeInv, ProcInv, Before
    <2> QED
      BY <1>5, <2>1 DEF LifeOf
  <1>7. \A q \in Runs \ {r} : LifeOf(q)' = LifeOf(q)
    <2>1. LifeOf(p)' = "failed"
      BY <1>1, <1>2, <1>5 DEF LifeOf, Failed, process
    <2>2. \A q \in Runs \ {p, r} : LifeOf(q)' = LifeOf(q)
      BY <1>1, <1>5 DEF LifeOf, process
    <2> QED
      BY <1>3, <2>1, <2>2
  <1>8. Life!Born(r, jobOf[p], attempt[p] + 1, p)
    BY <1>1, <1>3, <1>6, <1>7, LifeBorn DEF LifeInv
  <1> QED
    BY <1>2, <1>3, <1>4, <1>8 DEF Life!Retry

LEMMA SpawnIsStart ==
    ASSUME LifeInv, NEW r \in Runs, Spawn(r)
    PROVE  Life!Start(r)
  <1>1. LifeOf(r) = "waiting"
    BY LifeIs DEF Spawn, Before, LifeInv
  <1>2. LifeOf(r)' = "executing" /\ \A q \in Runs \ {r} : LifeOf(q)' = LifeOf(q)
    BY DEF Spawn, Goto, LifeOf, LifeInv, TypeOK, ProcInv, Before
  <1> QED
    BY <1>1, <1>2, LifeMove DEF Life!Start, Spawn

LEMMA EarlyReturnIsDrop ==
    ASSUME LifeInv, NEW r \in Runs, InsertFails(r) \/ TrySendFull(r) \/ SpawnFails(r)
    PROVE  Life!Drop(r)
  <1>1. /\ stage[r] \in {"held", "inserted", "taken"} /\ UNCHANGED <<identity, process>>
        /\ \E g \in {"aborted", "dropped", "unspawned"} : Goto(r, g)
    BY DEF InsertFails, TrySendFull, SpawnFails
  <1>2. LifeOf(r) = "waiting"
    BY <1>1, LifeIs DEF Before, LifeInv
  <1>3. LifeOf(r)' = "dropped" /\ \A q \in Runs \ {r} : LifeOf(q)' = LifeOf(q)
    BY <1>1 DEF Goto, LifeOf, LifeInv, TypeOK, ProcInv, Before, process
  <1> QED
    BY <1>1, <1>2, <1>3, LifeMove DEF Life!Drop

LEMMA FinishIsEnd ==
    ASSUME LifeInv, NEW r \in Runs, NEW o \in Outcomes \ {"none"}, Finish(r, o)
    PROVE  Life!End(r)
  <1>1. LifeOf(r) = "executing" /\ stage[r] # "unused"
    BY LifeIs DEF Finish, LifeInv, ProcInv
  <1>2. LifeOf(r)' \in Life!Ends
    BY <1>1 DEF Finish, LifeOf, LifeInv, TypeOK, Outcomes, Life!Ends
  <1>3. \A q \in Runs \ {r} : LifeOf(q)' = LifeOf(q)
    BY DEF Finish, LifeOf, LifeInv, TypeOK
  <1> QED
    BY <1>1, <1>2, <1>3, LifeMove DEF Life!End, Finish

LEMMA RestartIsCut ==
    ASSUME LifeInv, Restart
    PROVE  Life!Cut
  <1>1. ASSUME NEW r \in Runs
        PROVE  LifeOf(r)' = IF LifeOf(r) \in {"waiting", "executing"} THEN "cut" ELSE LifeOf(r)
    <2>1. stage'[r] = (IF stage[r] \in Moving THEN "vanished" ELSE stage[r])
          /\ outcome' = outcome
      BY DEF Restart
    <2>2. CASE LifeOf(r) \in {"waiting", "executing"}
      <3>1. stage'[r] = "vanished" /\ outcome'[r] = "none"
        BY <2>1, <2>2, LifeIs DEF LifeInv
      <3> QED
        BY <2>2, <3>1 DEF LifeOf
    <2>3. CASE LifeOf(r) \notin {"waiting", "executing"} /\ stage[r] \in Moving
      <3>1. outcome[r] \in Outcomes \ {"none"} /\ stage[r] # "unused" /\ stage'[r] = "vanished"
        BY <2>1, <2>3, LifeIs DEF LifeInv, TypeOK, Moving, InWorker
      <3> QED
        BY <2>1, <2>3, <3>1 DEF LifeOf, Outcomes
    <2>4. CASE LifeOf(r) \notin {"waiting", "executing"} /\ stage[r] \notin Moving
      BY <2>1, <2>4 DEF LifeOf, LifeInv, ProcInv, Moving, InWorker
    <2> QED
      BY <2>2, <2>3, <2>4
  <1> QED
    BY <1>1 DEF Life!Cut, Restart, identity

(* The steps between a birth and an execution, after an execution, and of  *)
(* those who only look on.                                                 *)
LEMMA OthersStutter ==
    ASSUME LifeInv, LifeInv', UNCHANGED <<identity, proc, outcome>>,
           \A r \in Runs : stage'[r] # stage[r] =>
              \/ stage[r] \in Before \ {"unused"} /\ stage'[r] \in Before \ {"unused"}
              \/ /\ stage[r] \in {"spawned", "running"} \cup After
                 /\ stage'[r] \in {"spawned", "running"} \cup After
    PROVE  UNCHANGED Life!lifeVars
  <1>1. ASSUME NEW r \in Runs PROVE LifeOf(r)' = LifeOf(r)
    BY DEF LifeOf, Before, After
  <1> QED
    BY <1>1, LifeStutter

LEMMA LifeStep == LifeInv /\ LifeInv' /\ [PipeNext]_pipeVars => [Life!Next]_(Life!lifeVars)
  <1> SUFFICES ASSUME LifeInv, LifeInv', [PipeNext]_pipeVars
               PROVE  [Life!Next]_(Life!lifeVars)
    OBVIOUS
  <1> USE DEF Life!Next
  <1>1. ASSUME NEW r \in Runs, NEW j \in Jobs, Acquire(j, r) \/ InsertCondition(j, r)
        PROVE  Life!Next
    BY <1>1, FireIsFire
  <1>2. ASSUME NEW p \in Runs, NEW r \in Runs, InsertRetry(p, r) PROVE Life!Next
    BY <1>2, RetryIsRetry
  <1>3. ASSUME NEW r \in Runs, Spawn(r) PROVE Life!Next
    BY <1>3, SpawnIsStart
  <1>4. ASSUME NEW r \in Runs, InsertFails(r) \/ TrySendFull(r) \/ SpawnFails(r) PROVE Life!Next
    BY <1>4, EarlyReturnIsDrop
  <1>5. ASSUME NEW r \in Runs, NEW o \in Outcomes \ {"none"}, Finish(r, o) PROVE Life!Next
    BY <1>5, FinishIsEnd
  <1>6. CASE Restart
    BY <1>6, RestartIsCut
  <1>7. ASSUME NEW r \in Runs, OrphanExits(r) PROVE UNCHANGED Life!lifeVars
    <2>1. \A q \in Runs : LifeOf(q)' = LifeOf(q)
      BY <1>7 DEF OrphanExits, LifeOf, LifeInv, TypeOK
    <2> QED
      BY <1>7, <2>1, LifeStutter DEF OrphanExits
  <1>8. ASSUME NEW r \in Runs, Execute(r) PROVE [Life!Next]_(Life!lifeVars)
    BY <1>5, <1>7, <1>8 DEF Execute, Exit, Killed, TimeOut, Outcomes
  <1> USE DEF LifeInv, TypeOK, Goto, Before, After, process, calls
  <1>9. CASE Receive
    <2>1. Head(queue) \in Runs /\ stage[Head(queue)] = "queued"
      BY <1>9 DEF Receive, QueueInv
    <2> QED
      BY <1>9, <2>1, OthersStutter DEF Receive
  <1>10. ASSUME NEW r \in Runs, InsertRun(r) \/ TrySend(r) \/ SendRetry(r)
         PROVE  UNCHANGED Life!lifeVars
    BY <1>10, OthersStutter DEF InsertRun, TrySend, SendRetry
  <1>11. ASSUME NEW r \in Runs, MarkRunning(r) \/ Reap(r) \/ SaveFinal(r)
         PROVE  UNCHANGED Life!lifeVars
    BY <1>11, OthersStutter DEF MarkRunning, Reap, SaveFinal
  <1>12. ASSUME NEW r \in Runs, Release(r) \/ RetryFails(r) PROVE UNCHANGED Life!lifeVars
    BY <1>12, OthersStutter DEF Release, RetryFails
  <1>13. ASSUME NEW r \in Runs, Kill(r) \/ ReleaseChanged(r)
                                \/ \E st \in OperatorStates : ChangeState(r, st)
         PROVE  UNCHANGED Life!lifeVars
    BY <1>13, OthersStutter DEF Kill, ReleaseChanged, ChangeState
  <1>14. ASSUME NEW j \in Jobs, DeleteJob(j) PROVE UNCHANGED Life!lifeVars
    BY <1>14, OthersStutter DEF DeleteJob
  <1>15. CASE UNCHANGED pipeVars
    BY <1>15, OthersStutter DEF pipeVars
  <1>16. CASE Tick
    BY <1>16, <1>1, <1>4, <1>10 DEF Tick
  <1>17. ASSUME NEW r \in Runs, Work(r) PROVE [Life!Next]_(Life!lifeVars)
    BY <1>17, <1>2, <1>3, <1>4, <1>10, <1>11, <1>12 DEF Work
  <1> QED
    BY <1>6, <1>8, <1>9, <1>13, <1>14, <1>15, <1>16, <1>17 DEF PipeNext, OffTick, Operate

(* Refinement: a run is executed at most once, ends or is dropped before   *)
(* its execution or cut by a restart, and only an execution that failed is *)
(* retried, once, within max_attempts.                                     *)
THEOREM LifeRefined == PipeSafe => ImplementsLife
  <1>1. PipeInit => Life!Init
    BY DEF PipeInit, Life!Init, LifeOf
  <1> QED
    BY <1>1, LifeStep, LifeInvariant, PTL DEF PipeSafe, ImplementsLife, Life!Spec

-----------------------------------------------------------------------------
(* The tick loop. *)

(* Where the tick has a run in hand, and where it has a job in hand. *)
RunInHand == {"insert", "send", "advance", "condsend", "condadvance"}
JobInHand == RunInHand \cup {"condinsert"}

(* The tick gives the pipeline only runs and jobs there are. *)
TickInv ==
    /\ tick.at \in RunInHand => tick.run \in Runs
    /\ tick.at \in JobInHand => tick.job \in Jobs

(* The tick in the shape of a record. *)
LEMMA PassIs ==
    ASSUME NEW place, NEW T
    PROVE  [Idle EXCEPT !.at = place, !.todo = T]
             = [at |-> place, todo |-> T, job |-> NoJob, run |-> NoRun]
  <1> DEFINE new == [Idle EXCEPT !.at = place, !.todo = T]
             Fields == {"at", "todo", "job", "run"}
  <1>1. DOMAIN new = Fields /\ new = [f \in Fields |-> new[f]]
    BY DEF Idle
  <1>2. new.at = place
    BY DEF Idle
  <1>3. new.todo = T
    BY DEF Idle
  <1>4. new.job = NoJob /\ new.run = NoRun
    BY DEF Idle
  <1>5. new = [at |-> place, todo |-> T, job |-> NoJob, run |-> NoRun]
    <2> HIDE DEF new
    <2> QED
      BY <1>1, <1>2, <1>3, <1>4
  <1> QED
    BY <1>5

LEMMA AtIs ==
    ASSUME SchedulerTypeOK, NEW place, NEW j, NEW r, At(place, j, r)
    PROVE  tick' = [at |-> place, todo |-> tick.todo, job |-> j, run |-> r]
  BY DEF SchedulerTypeOK, At

LEMMA TickStepInv == SchedulerTypeOK /\ TickInv /\ [Next]_vars => TickInv'
  <1> SUFFICES ASSUME SchedulerTypeOK, TickInv, [Next]_vars PROVE TickInv'
    OBVIOUS
  <1> USE DEF TickInv, SchedulerTypeOK, RunInHand, JobInHand
  <1>1. CASE TickStart \/ TickConditions \/ TickEnd
    <2>1. CASE TickStart \/ TickConditions
      BY <2>1, PassIs DEF TickStart, TickConditions
    <2>2. CASE TickEnd
      BY <2>2 DEF TickEnd, Idle
    <2> QED
      BY <1>1, <2>1, <2>2
  <1>2. ASSUME NEW j \in Jobs, TickCalendarSkip(j) \/ TickNoUnits(j) \/ TickCondSkip(j)
        PROVE  TickInv'
    BY <1>2 DEF TickCalendarSkip, TickNoUnits, TickCondSkip, Skip
  <1>3. ASSUME NEW j \in Jobs, TickAcquire(j) \/ TickCondTrue(j) PROVE TickInv'
    BY <1>3 DEF TickAcquire, TickCondTrue, At
  <1>4. CASE TickInsert \/ TickSend \/ TickCondSend
    BY <1>4 DEF TickInsert, TickSend, TickCondSend, At
  <1>5. CASE TickCondInsert
    BY <1>5 DEF TickCondInsert, At
  <1>6. CASE TickInsertFails \/ TickCondInsertFails \/ TickComputeFails
    BY <1>6 DEF TickInsertFails, TickCondInsertFails, TickComputeFails, Idle
  <1>7. CASE TickSendFull \/ TickAdvance \/ TickCondSendFull \/ TickCondAdvance
    BY <1>7 DEF TickSendFull, TickAdvance, TickCondSendFull, TickCondAdvance, Skip
  <1>8. ASSUME NEW j \in Jobs, Clock(j) \/ Request(j) \/ Pause(j) \/ Resume(j) \/ UpdateRead(j)
        PROVE  TickInv'
    BY <1>8 DEF Clock, Request, Pause, Resume, UpdateRead
  <1>9. CASE UpdateWrite \/ PipelineStep
    BY <1>9 DEF UpdateWrite, PipelineStep
  <1>10. CASE Reboot
    BY <1>10 DEF Reboot, Idle
  <1>11. CASE UNCHANGED vars
    BY <1>11 DEF vars
  <1> QED
    BY <1>1, <1>2, <1>3, <1>4, <1>5, <1>6, <1>7, <1>8, <1>9, <1>10, <1>11 DEF Next, TickStep

-----------------------------------------------------------------------------
(* The composition.  What the tick, the clock and the handlers of jobs do  *)
(* is a step of the pipeline, or nothing to it.                            *)

LEMMA StepMaps == TickInv /\ [Next]_vars => [PipeNext]_pipeVars
  <1> SUFFICES ASSUME TickInv, [Next]_vars PROVE [PipeNext]_pipeVars
    OBVIOUS
  <1> USE DEF TickInv, RunInHand, JobInHand
  <1>1. CASE TickStart \/ TickConditions \/ TickEnd \/ TickAdvance \/ TickCondAdvance
             \/ TickCondInsertFails \/ TickComputeFails
    BY <1>1 DEF TickStart, TickConditions, TickEnd, TickAdvance, TickCondAdvance,
                TickCondInsertFails, TickComputeFails
  <1>2. ASSUME NEW j \in Jobs, TickCalendarSkip(j) \/ TickNoUnits(j) \/ TickCondSkip(j)
                               \/ TickCondTrue(j)
        PROVE  [PipeNext]_pipeVars
    BY <1>2 DEF TickCalendarSkip, TickNoUnits, TickCondSkip, TickCondTrue
  <1>3. ASSUME NEW j \in Jobs, TickAcquire(j) PROVE [PipeNext]_pipeVars
    BY <1>3 DEF TickAcquire, PipeNext, Tick
  <1>4. CASE TickCondInsert
    BY <1>4 DEF TickCondInsert, PipeNext, Tick
  <1>5. CASE TickInsert \/ TickInsertFails
    BY <1>5 DEF TickInsert, TickInsertFails, PipeNext, Tick
  <1>6. CASE TickSend \/ TickSendFull \/ TickCondSend \/ TickCondSendFull
    BY <1>6 DEF TickSend, TickSendFull, TickCondSend, TickCondSendFull, PipeNext, Tick
  <1>7. ASSUME NEW j \in Jobs, Clock(j) \/ Request(j) \/ Pause(j) \/ Resume(j) \/ UpdateRead(j)
        PROVE  [PipeNext]_pipeVars
    BY <1>7 DEF Clock, Request, Pause, Resume, UpdateRead
  <1>8. CASE UpdateWrite \/ PipelineStep \/ Reboot
    BY <1>8 DEF UpdateWrite, PipelineStep, Reboot, PipeNext
  <1>9. CASE UNCHANGED vars
    BY <1>9 DEF vars
  <1> QED
    BY <1>1, <1>2, <1>3, <1>4, <1>5, <1>6, <1>7, <1>8, <1>9 DEF Next, TickStep

-----------------------------------------------------------------------------
(* Types, and the composition.  What the tick does needs the types of     *)
(* the pipeline, and what it hands the pipeline needs its own.             *)

LEMMA TickType == SchedulerTypeOK /\ TickInv /\ TypeOK /\ [Next]_vars => SchedulerTypeOK'
  <1> SUFFICES ASSUME SchedulerTypeOK, TickInv, TypeOK, [Next]_vars PROVE SchedulerTypeOK'
    OBVIOUS
  <1> USE SchedulerAssumption
          DEF SchedulerTypeOK, TickInv, RunInHand, JobInHand, tableVars, boundVars
  <1>0. /\ Due \subseteq Jobs /\ jobs \subseteq Jobs
        /\ \A j : ComputeNext(j) \in {"none", "due", "future"}
    BY DEF Due, TypeOK, ComputeNext
  <1>1. CASE TickStart \/ TickConditions \/ TickEnd
    <2>1. PICK place \in {"due", "cond", "idle"}, T \in SUBSET Jobs :
            tick' = [at |-> place, todo |-> T, job |-> NoJob, run |-> NoRun]
      BY <1>0, <1>1, PassIs DEF TickStart, TickConditions, TickEnd, Idle
    <2> QED
      BY <1>1, <2>1 DEF TickStart, TickConditions, TickEnd
  <1>2. ASSUME NEW j \in Jobs, TickNoUnits(j) \/ TickCondSkip(j) PROVE SchedulerTypeOK'
    BY <1>2 DEF TickNoUnits, TickCondSkip, Skip
  <1>3. ASSUME NEW j \in Jobs, TickCalendarSkip(j) PROVE SchedulerTypeOK'
    BY <1>0, <1>3 DEF TickCalendarSkip, Skip, SetNextFire
  <1>4. ASSUME NEW j \in Jobs, TickAcquire(j) \/ TickCondTrue(j) PROVE SchedulerTypeOK'
    BY <1>4 DEF TickAcquire, TickCondTrue, At
  <1>5. CASE TickInsert \/ TickCondSend
    BY <1>5 DEF TickInsert, TickCondSend, At
  <1>6. CASE TickSend
    <2>1. sent' \in [Jobs -> Nat]
      BY <1>6 DEF TickSend
    <2> QED
      BY <1>6, <2>1, AtIs DEF TickSend
  <1>7. CASE TickCondInsert
    BY <1>7 DEF TickCondInsert, At
  <1>8. CASE TickInsertFails \/ TickCondInsertFails \/ TickComputeFails
    BY <1>8 DEF TickInsertFails, TickCondInsertFails, TickComputeFails, Idle
  <1>9. CASE TickSendFull \/ TickCondSendFull
    BY <1>9 DEF TickSendFull, TickCondSendFull, Skip
  <1>10. CASE TickAdvance \/ TickCondAdvance
    BY <1>0, <1>10 DEF TickAdvance, TickCondAdvance, Skip, SetNextFire
  <1>11. ASSUME NEW j \in Jobs, Clock(j) PROVE SchedulerTypeOK'
    BY <1>11 DEF Clock
  <1>12. ASSUME NEW j \in Jobs, Request(j) PROVE SchedulerTypeOK'
    BY <1>12 DEF Request, SetNextFire
  <1>13. ASSUME NEW j \in Jobs, Pause(j) \/ Resume(j) PROVE SchedulerTypeOK'
    BY <1>13 DEF Pause, Resume, Editing
  <1>14. ASSUME NEW j \in Jobs, UpdateRead(j) PROVE SchedulerTypeOK'
    BY <1>14 DEF UpdateRead, Editing
  <1>15. CASE UpdateWrite
    <2>1. \A j \in Jobs : nextFire'[j] \in {"none", "due", "future"}
      BY <1>15 DEF UpdateWrite, SetNextFire, FirstFire
    <2>2. nextFire' \in [Jobs -> {"none", "due", "future"}]
      BY <1>15, <2>1 DEF UpdateWrite, SetNextFire
    <2> QED
      BY <1>0, <1>15, <2>2 DEF UpdateWrite, NoEdit
  <1>16. CASE PipelineStep
    BY <1>16 DEF PipelineStep
  <1>17. CASE Reboot
    BY <1>17 DEF Reboot, Idle, NoEdit
  <1>18. CASE UNCHANGED vars
    BY <1>18 DEF vars
  <1> QED
    BY <1>1, <1>2, <1>3, <1>4, <1>5, <1>6, <1>7, <1>8, <1>9, <1>10, <1>11, <1>12, <1>13,
       <1>14, <1>15, <1>16, <1>17, <1>18 DEF Next, TickStep

LEMMA TickSafe == SafeSpec => [](SchedulerTypeOK /\ TickInv /\ TypeOK)
  <1>1. Init => SchedulerTypeOK /\ TickInv /\ TypeOK
    <2>1. PipeInit => TypeOK
      BY PipelineAssumption DEF PipeInit, TypeOK, RowState, Origins, Stages, Outcomes
    <2> QED
      BY <2>1, SchedulerAssumption
         DEF Init, FirstFire, SchedulerTypeOK, Idle, NoEdit, TickInv, RunInHand, JobInHand
  <1> QED
    BY <1>1, TickStepInv, TickType, StepMaps, TypeStep, PTL DEF SafeSpec

(* The tick's place, the jobs table and the counters keep their types. *)
THEOREM SchedulerTypeCorrect == SafeSpec => []SchedulerTypeOK
  BY TickSafe, PTL

(* The scheduler is one of the pipelines of RunPipeline: every theorem     *)
(* about PipeSafe holds of the whole scheduler.                            *)
THEOREM SchedulerIsPipeline == SafeSpec => PipeSafe
  <1>1. Init => PipeInit
    BY DEF Init
  <1> QED
    BY <1>1, TickSafe, StepMaps, PTL DEF SafeSpec, PipeSafe

(* With the tick loop in place of an arbitrary tick: units stay within the *)
(* capacity, an intent is queued once, claims last as long as their run,   *)
(* and retries form a chain.                                               *)
THEOREM ComposedSafety ==
    SafeSpec => [](CapacityRespected /\ IntentOnce /\ ClaimsHeld /\ HoldsAccounted
                   /\ RetryChain /\ RowTellsOutcome /\ KillReaches)
  BY SchedulerIsPipeline, CapacitySafe, QueueSafe, ClaimsSafe, HoldsSafe, RetrySafe,
     RowSafe, KillSafe, PTL

(* And the whole scheduler implements the abstract life of runs. *)
THEOREM ComposedLife == SafeSpec => ImplementsLife
  BY SchedulerIsPipeline, LifeRefined

-----------------------------------------------------------------------------
(* One run for each due instant. *)

(* What the tick and the pipeline do to the two variables of the pipeline  *)
(* the invariant speaks of: jobs are only deleted, restarts only counted.  *)
LEMMA JobsAndCrashes ==
    ASSUME TypeOK, [PipeNext]_pipeVars
    PROVE  /\ jobs' \subseteq jobs
           /\ crashes \in Nat /\ crashes' \in Nat
           /\ Restart \/ crashes' = crashes
           /\ Restart => jobs' = jobs /\ crashes' = crashes + 1
  <1> USE PipelineAssumption DEF store, process, calls
  <1>1. ASSUME NEW r \in Runs, NEW j \in Jobs, Acquire(j, r) \/ InsertCondition(j, r)
        PROVE  jobs' = jobs /\ crashes' = crashes
    BY <1>1 DEF Acquire, InsertCondition
  <1>2. ASSUME NEW r \in Runs, InsertRun(r) \/ InsertFails(r) \/ TrySend(r) \/ TrySendFull(r)
        PROVE  jobs' = jobs /\ crashes' = crashes
    BY <1>2 DEF InsertRun, InsertFails, TrySend, TrySendFull
  <1>3. ASSUME NEW r \in Runs, Work(r) PROVE jobs' = jobs /\ crashes' = crashes
    BY <1>3 DEF Work, Spawn, SpawnFails, MarkRunning, Reap, SaveFinal, Release, InsertRetry,
                RetryFails, SendRetry
  <1>4. ASSUME NEW r \in Runs, Execute(r) PROVE jobs' = jobs /\ crashes' = crashes
    BY <1>4 DEF Execute, Exit, Killed, TimeOut, Finish, OrphanExits
  <1>5. ASSUME NEW r \in Runs, Kill(r) \/ ReleaseChanged(r)
                               \/ \E st \in OperatorStates : ChangeState(r, st)
        PROVE  jobs' = jobs /\ crashes' = crashes
    BY <1>5 DEF Kill, ReleaseChanged, ChangeState
  <1>6. ASSUME NEW j \in Jobs, DeleteJob(j) PROVE jobs' \subseteq jobs /\ crashes' = crashes
    BY <1>6 DEF DeleteJob
  <1>7. ASSUME Receive PROVE jobs' = jobs /\ crashes' = crashes
    BY <1>7 DEF Receive
  <1>8. ASSUME UNCHANGED pipeVars PROVE jobs' = jobs /\ crashes' = crashes
    BY <1>8 DEF pipeVars
  <1>9. Restart \/ (jobs' \subseteq jobs /\ crashes' = crashes)
    <2>1. ASSUME Tick PROVE jobs' = jobs /\ crashes' = crashes
      BY <2>1, <1>1, <1>2 DEF Tick
    <2>2. ASSUME Operate PROVE jobs' \subseteq jobs /\ crashes' = crashes
      BY <2>2, <1>5, <1>6 DEF Operate
    <2>3. ASSUME OffTick PROVE jobs' \subseteq jobs /\ crashes' = crashes
      BY <2>2, <2>3, <1>3, <1>4, <1>7 DEF OffTick
    <2> QED
      BY <2>1, <2>3, <1>8 DEF PipeNext
  <1>11. crashes \in Nat
    BY DEF TypeOK
  <1>10. Restart => jobs' = jobs /\ crashes' = crashes + 1
    BY DEF Restart
  <1> QED
    BY <1>9, <1>10, <1>11

(* A due instant has a send to its name only between the send and the new  *)
(* next_fire_at, or after a restart in between: so a job that is due, or   *)
(* that the tick has still to handle, has one for each restart at most.    *)
FireInv ==
    /\ tick.at \in {"insert", "send"} => tick.job \in tick.todo
    /\ \A j \in Jobs \ Garbled :
         /\ sent[j] <= 1 + crashes
         /\ j \in jobs /\ nextFire[j] = "due" /\ ~ (tick.at = "advance" /\ tick.job = j)
               => sent[j] <= crashes
         /\ tick.at \in {"due", "insert", "send"} /\ j \in tick.todo => sent[j] <= crashes
         /\ tick.at = "advance" /\ j \in tick.todo \ {tick.job} => sent[j] <= crashes

LEMMA FireStep ==
    SchedulerTypeOK /\ TickInv /\ TypeOK /\ FireInv /\ [Next]_vars => FireInv'
  <1> SUFFICES ASSUME SchedulerTypeOK, TickInv, TypeOK, FireInv, [Next]_vars PROVE FireInv'
    OBVIOUS
  <1> USE DEF SchedulerTypeOK, FireInv, tableVars, boundVars
  <1>0. /\ jobs' \subseteq jobs /\ jobs \subseteq Jobs
        /\ crashes \in Nat /\ crashes' \in Nat
        /\ Restart \/ crashes' = crashes
        /\ Restart => jobs' = jobs /\ crashes' = crashes + 1
    BY StepMaps, JobsAndCrashes DEF TypeOK
  <1>1. ASSUME UNCHANGED pipeVars PROVE jobs' = jobs /\ crashes' = crashes
    BY <1>1 DEF pipeVars, store, calls
  (* The start of a pass, and what leaves the tick alone. *)
  <1>2. CASE TickStart
    <2>1. tick' = [at |-> "due", todo |-> Due, job |-> NoJob, run |-> NoRun]
      BY <1>2, PassIs DEF TickStart
    <2>2. UNCHANGED <<nextFire, sent, jobs, crashes>> /\ tick.at = "idle"
      BY <1>1, <1>2 DEF TickStart
    <2> QED
      BY <2>1, <2>2 DEF Due
  <1>3. CASE TickConditions \/ TickEnd
    <2>1. tick'.at \in {"cond", "idle"}
      <3>1. CASE TickConditions
        BY <3>1, PassIs DEF TickConditions
      <3>2. CASE TickEnd
        BY <3>2 DEF TickEnd, Idle
      <3> QED
        BY <1>3, <3>1, <3>2
    <2>2. UNCHANGED <<nextFire, sent, jobs, crashes>> /\ tick.at \in {"due", "cond"}
      BY <1>1, <1>3 DEF TickConditions, TickEnd
    <2> QED
      BY <2>1, <2>2
  <1>4. ASSUME NEW j \in Jobs, TickCalendarSkip(j) PROVE FireInv'
    <2>1. /\ tick.at = "due" /\ UNCHANGED <<sent, jobs, crashes>>
          /\ tick' = [at |-> "due", todo |-> tick.todo \ {j}, job |-> NoJob, run |-> NoRun]
          /\ nextFire' = [nextFire EXCEPT ![j] = IF j \in jobs THEN ComputeNext(j) ELSE @]
          /\ ComputeNext(j) # "due"
      BY <1>1, <1>4 DEF TickCalendarSkip, Skip, SetNextFire, ComputeNext
    <2> QED
      BY <2>1
  <1>5. ASSUME NEW j \in Jobs, TickNoUnits(j) \/ TickCondSkip(j) PROVE FireInv'
    <2>1. /\ tick.at \in {"due", "cond"} /\ UNCHANGED <<sent, nextFire, jobs, crashes>>
          /\ tick' = [at |-> tick.at, todo |-> tick.todo \ {j}, job |-> NoJob, run |-> NoRun]
      BY <1>1, <1>5 DEF TickNoUnits, TickCondSkip, Skip
    <2> QED
      BY <2>1
  <1>6. ASSUME NEW j \in Jobs, TickAcquire(j) PROVE FireInv'
    <2>1. PICK r \in Runs :
            /\ tick.at = "due" /\ j \in tick.todo /\ UNCHANGED <<sent, nextFire>>
            /\ tick' = [at |-> "insert", todo |-> tick.todo, job |-> j, run |-> r]
      BY <1>6, AtIs DEF TickAcquire
    <2>2. crashes' = crashes /\ jobs' = jobs
      BY <1>6 DEF TickAcquire, Acquire, calls
    <2> QED
      BY <2>1, <2>2
  <1>7. CASE TickInsert
    <2>1. /\ tick.at = "insert" /\ UNCHANGED <<sent, nextFire>>
          /\ tick' = [at |-> "send", todo |-> tick.todo, job |-> tick.job, run |-> tick.run]
      BY <1>7, AtIs DEF TickInsert
    <2>2. crashes' = crashes /\ jobs' = jobs
      BY <1>7 DEF TickInsert, InsertRun, calls
    <2> QED
      BY <2>1, <2>2
  <1>8. CASE TickSend
    <2>1. /\ tick.at = "send" /\ UNCHANGED nextFire
          /\ tick' = [at |-> "advance", todo |-> tick.todo, job |-> tick.job, run |-> tick.run]
          /\ sent' = [sent EXCEPT ![tick.job] = @ + 1]
      BY <1>8, AtIs DEF TickSend
    <2>2. crashes' = crashes /\ jobs' = jobs
      BY <1>8 DEF TickSend, TrySend, store, calls
    <2>3. tick.job \in Jobs /\ (tick.job \notin Garbled => sent[tick.job] <= crashes)
      BY <2>1 DEF TickInv, RunInHand, JobInHand
    <2>4. \A j \in Jobs : sent'[j] = IF j = tick.job THEN sent[j] + 1 ELSE sent[j]
      BY <2>1
    <2> QED
      BY <1>0, <2>1, <2>2, <2>3, <2>4
  <1>9. CASE TickSendFull
    <2>1. /\ tick.at = "send" /\ UNCHANGED <<sent, nextFire>>
          /\ tick' = [at |-> "due", todo |-> tick.todo \ {tick.job}, job |-> NoJob, run |-> NoRun]
      BY <1>9 DEF TickSendFull, Skip
    <2>2. crashes' = crashes /\ jobs' = jobs
      BY <1>9 DEF TickSendFull, TrySendFull, calls
    <2> QED
      BY <2>1, <2>2
  <1>10. CASE TickAdvance
    <2>1. /\ tick.at = "advance" /\ UNCHANGED <<sent, jobs, crashes>>
          /\ tick' = [at |-> "due", todo |-> tick.todo \ {tick.job}, job |-> NoJob, run |-> NoRun]
          /\ nextFire' = [nextFire EXCEPT ![tick.job] =
                              IF tick.job \in jobs THEN ComputeNext(tick.job) ELSE @]
          /\ ComputeNext(tick.job) # "due"
      BY <1>1, <1>10 DEF TickAdvance, Skip, SetNextFire, ComputeNext
    <2> QED
      BY <2>1
  (* Conditions count for no instant. *)
  <1>11. ASSUME NEW j \in Jobs, TickCondTrue(j) PROVE FireInv'
    <2>1. /\ tick.at = "cond" /\ UNCHANGED <<sent, nextFire, jobs, crashes>>
          /\ tick'.at = "condinsert"
      BY <1>1, <1>11, AtIs DEF TickCondTrue
    <2> QED
      BY <2>1
  <1>12. CASE TickCondInsert \/ TickCondSend
    <2>1. /\ tick.at \in {"condinsert", "condsend"} /\ UNCHANGED <<sent, nextFire>>
          /\ tick'.at \in {"condsend", "condadvance"}
      BY <1>12, AtIs DEF TickCondInsert, TickCondSend
    <2>2. crashes' = crashes /\ jobs' = jobs
      BY <1>12 DEF TickCondInsert, InsertCondition, TickCondSend, TrySend, store, calls
    <2> QED
      BY <2>1, <2>2
  <1>13. CASE TickCondSendFull \/ TickCondAdvance
    <2>1. /\ tick.at \in {"condsend", "condadvance"} /\ UNCHANGED sent
          /\ tick'.at = "cond"
          /\ nextFire' \in {nextFire, [nextFire EXCEPT ![tick.job] = "none"]}
      BY <1>13 DEF TickCondSendFull, TickCondAdvance, Skip, SetNextFire
    <2>2. crashes' = crashes /\ jobs' = jobs
      BY <1>1, <1>13 DEF TickCondSendFull, TickCondAdvance, TrySendFull, calls
    <2> QED
      BY <2>1, <2>2
  <1>14. CASE TickInsertFails \/ TickCondInsertFails \/ TickComputeFails
    <2>1. /\ tick.at \in {"insert", "condinsert"} \/ (tick.at = "advance" /\ tick.job \in Garbled)
             \/ tick.at = "due"
          /\ tick'.at = "idle" /\ UNCHANGED <<sent, nextFire>>
      BY <1>14 DEF TickInsertFails, TickCondInsertFails, TickComputeFails, Idle
    <2>2. crashes' = crashes /\ jobs' = jobs
      BY <1>1, <1>14
         DEF TickInsertFails, TickCondInsertFails, TickComputeFails, InsertFails, store, calls
    <2> QED
      BY <2>1, <2>2
  (* The clock and the handlers. *)
  <1>15. ASSUME NEW j \in Jobs, Clock(j) \/ Request(j) PROVE FireInv'
    <2>1. /\ UNCHANGED <<tick, jobs, crashes>>
          /\ nextFire' = [nextFire EXCEPT ![j] = "due"]
          /\ sent' = [sent EXCEPT ![j] = 0]
      BY <1>1, <1>15 DEF Clock, Request, SetNextFire
    <2> QED
      BY <1>0, <2>1
  <1>16. ASSUME NEW j \in Jobs, Pause(j) \/ Resume(j) \/ UpdateRead(j) PROVE FireInv'
    BY <1>1, <1>16 DEF Pause, Resume, UpdateRead
  <1>17. CASE UpdateWrite
    <2>1. UNCHANGED <<tick, sent, jobs, crashes>>
      BY <1>1, <1>17 DEF UpdateWrite
    <2>2. \A j \in Jobs : nextFire'[j] = "due" => nextFire[j] = "due"
      BY <1>17 DEF UpdateWrite, SetNextFire, FirstFire
    <2> QED
      BY <2>1, <2>2
  <1>18. CASE PipelineStep
    <2>1. UNCHANGED <<tick, nextFire, sent>>
      BY <1>18 DEF PipelineStep
    <2>2. crashes' >= crashes
      BY <1>0
    <2> QED
      BY <1>0, <2>1, <2>2
  <1>19. CASE Reboot
    <2>1. tick'.at = "idle" /\ UNCHANGED <<nextFire, sent>> /\ Restart
      BY <1>19 DEF Reboot, Idle
    <2> QED
      BY <1>0, <2>1
  <1>20. CASE UNCHANGED vars
    BY <1>1, <1>20 DEF vars
  <1> QED
    BY <1>2, <1>3, <1>4, <1>5, <1>6, <1>7, <1>8, <1>9, <1>10, <1>11, <1>12, <1>13, <1>14,
       <1>15, <1>16, <1>17, <1>18, <1>19, <1>20 DEF Next, TickStep

(* A due instant puts one run in the queue, and one more for each restart  *)
(* between the send and the new next_fire_at, whatever requests, edits and *)
(* deletions come between the steps of the tick (but for a job whose       *)
(* schedule cannot be read, which is due until it is deleted).             *)
THEOREM FireOnceSafe == SafeSpec => []FireOnce
  <1>1. Init => FireInv
    BY PipelineAssumption DEF Init, PipeInit, FireInv, Idle
  <1>2. FireInv => FireOnce
    BY DEF FireInv, FireOnce
  <1> QED
    BY <1>1, <1>2, FireStep, TickSafe, PTL DEF SafeSpec

-----------------------------------------------------------------------------
(* Condition jobs: one active run at a time. *)

(* Until its process is up the row of a run says "queued", or is gone, so  *)
(* that MarkRunning brings no ended run back to life.                      *)
Waiting == {"inserted", "sending", "queued", "taken", "spawned"}

RowInv ==
    /\ \A r \in Runs : stage[r] \in Waiting /\ r \notin overridden => row[r] \in {"absent", "queued"}
    /\ \A r \in Runs : stage[r] = "held" => origin[r] = "due"

LEMMA RowKeepsWaiting ==
    ASSUME TypeOK, RowInv, UNCHANGED origin, overridden \subseteq overridden',
           \A r \in Runs :
              /\ stage'[r] \in Waiting => stage[r] \in Waiting
              /\ stage'[r] \in Waiting => row'[r] \in {row[r], "absent"} \/ r \in overridden'
              /\ stage'[r] = "held" => stage[r] = "held"
    PROVE  RowInv'
  BY DEF RowInv

LEMMA RowInvStep == TypeOK /\ QueueInv /\ RowInv /\ [PipeNext]_pipeVars => RowInv'
  <1> SUFFICES ASSUME TypeOK, QueueInv, RowInv, [PipeNext]_pipeVars PROVE RowInv'
    OBVIOUS
  <1> USE DEF Waiting, Goto, RowSet
  <1>1. ASSUME NEW r \in Runs, NEW j \in Jobs, Acquire(j, r) \/ InsertCondition(j, r)
        PROVE  RowInv'
    <2>1. CASE Acquire(j, r)
      BY <2>1 DEF Acquire, Create, RowInv, TypeOK, calls
    <2>2. CASE InsertCondition(j, r)
      BY <2>2 DEF InsertCondition, Create, RowInv, TypeOK, calls
    <2> QED
      BY <1>1, <2>1, <2>2
  <1>2. ASSUME NEW r \in Runs, InsertRun(r) PROVE RowInv'
    BY <1>2 DEF InsertRun, RowInv, TypeOK, identity, calls
  <1>3. ASSUME NEW p \in Runs, NEW r \in Runs, InsertRetry(p, r) PROVE RowInv'
    BY <1>3 DEF InsertRetry, Create, RowInv, TypeOK, calls
  <1>4. CASE Receive
    <2>1. Head(queue) \in Runs /\ stage[Head(queue)] = "queued"
      BY <1>4 DEF Receive, QueueInv, TypeOK
    <2> QED
      BY <1>4, <2>1, RowKeepsWaiting DEF Receive, TypeOK, store, identity, calls
  <1>5. ASSUME NEW r \in Runs, NEW st \in OperatorStates, ChangeState(r, st) PROVE RowInv'
    BY <1>5 DEF ChangeState, RowInv, TypeOK, identity
  <1> USE RowKeepsWaiting DEF TypeOK, store, identity, calls
  <1>6. ASSUME NEW r \in Runs, InsertFails(r) \/ TrySendFull(r) \/ Spawn(r) \/ SpawnFails(r)
        PROVE  RowInv'
    BY <1>6 DEF InsertFails, TrySendFull, Spawn, SpawnFails
  <1>7. ASSUME NEW r \in Runs, TrySend(r) \/ SendRetry(r) PROVE RowInv'
    BY <1>7 DEF TrySend, SendRetry
  <1>8. ASSUME NEW r \in Runs, MarkRunning(r) \/ Reap(r) \/ SaveFinal(r) PROVE RowInv'
    BY <1>8 DEF MarkRunning, Reap, SaveFinal
  <1>9. ASSUME NEW r \in Runs, Release(r) \/ RetryFails(r) PROVE RowInv'
    BY <1>9 DEF Release, RetryFails
  <1>10. ASSUME NEW r \in Runs, Execute(r) PROVE RowInv'
    BY <1>10 DEF Execute, Exit, Killed, TimeOut, Finish, OrphanExits
  <1>11. ASSUME NEW r \in Runs, Kill(r) \/ ReleaseChanged(r) PROVE RowInv'
    BY <1>11 DEF Kill, ReleaseChanged
  <1>12. ASSUME NEW j \in Jobs, DeleteJob(j) PROVE RowInv'
    BY <1>12 DEF DeleteJob
  <1>13. CASE Restart
    BY <1>13 DEF Restart, Moving, InWorker
  <1>14. CASE UNCHANGED pipeVars
    BY <1>14 DEF pipeVars
  <1>15. CASE Tick
    BY <1>15, <1>1, <1>2, <1>6, <1>7 DEF Tick
  <1>16. ASSUME NEW r \in Runs, Work(r) PROVE RowInv'
    BY <1>16, <1>3, <1>6, <1>7, <1>8, <1>9 DEF Work
  <1> QED
    BY <1>4, <1>5, <1>10, <1>11, <1>12, <1>13, <1>14, <1>15, <1>16
       DEF PipeNext, OffTick, Operate

(* The runs ConditionSingle counts. *)
Counted(r) == origin[r] = "condition" /\ row[r] \in Active /\ r \notin overridden

CountsKept == \A r \in Runs : Counted(r)' => Counted(r) /\ jobOf'[r] = jobOf[r]

(* Nothing off the tick, and no step of the tick for a due job, adds to    *)
(* the runs that count.                                                    *)
LEMMA OffTickCounts == TypeOK /\ RowInv /\ (OffTick \/ Restart) => CountsKept
  <1> SUFFICES ASSUME TypeOK, RowInv, OffTick \/ Restart PROVE CountsKept
    OBVIOUS
  <1> USE PipelineAssumption
          DEF CountsKept, Counted, Active, TypeOK, RowSet, Goto, store, identity, calls
  <1>1. ASSUME NEW r \in Runs, MarkRunning(r) PROVE CountsKept
    BY <1>1 DEF MarkRunning, RowInv, Waiting
  <1>2. ASSUME NEW r \in Runs, SpawnFails(r) \/ SaveFinal(r) PROVE CountsKept
    BY <1>2 DEF SpawnFails, SaveFinal, Verdict
  <1>3. ASSUME NEW p \in Runs, NEW r \in Runs, InsertRetry(p, r) PROVE CountsKept
    BY <1>3 DEF InsertRetry, Create
  <1>4. ASSUME NEW r \in Runs, Spawn(r) \/ Reap(r) \/ Release(r) \/ RetryFails(r) \/ SendRetry(r)
        PROVE  CountsKept
    BY <1>4 DEF Spawn, Reap, Release, RetryFails, SendRetry
  <1>5. ASSUME NEW r \in Runs, Execute(r) PROVE CountsKept
    BY <1>5 DEF Execute, Exit, Killed, TimeOut, Finish, OrphanExits
  <1>6. ASSUME NEW r \in Runs, Kill(r) \/ ReleaseChanged(r) PROVE CountsKept
    BY <1>6 DEF Kill, ReleaseChanged
  <1>7. ASSUME NEW r \in Runs, NEW st \in OperatorStates, ChangeState(r, st) PROVE CountsKept
    BY <1>7 DEF ChangeState
  <1>8. ASSUME NEW j \in Jobs, DeleteJob(j) PROVE CountsKept
    BY <1>8 DEF DeleteJob
  <1>9. CASE Receive
    BY <1>9 DEF Receive
  <1>10. CASE Restart
    BY <1>10 DEF Restart
  <1>11. ASSUME NEW r \in Runs, Work(r) PROVE CountsKept
    BY <1>1, <1>2, <1>3, <1>4, <1>11 DEF Work
  <1> QED
    BY <1>5, <1>6, <1>7, <1>8, <1>9, <1>10, <1>11 DEF OffTick, Operate

LEMMA DueCounts ==
    ASSUME TypeOK, RowInv, NEW r \in Runs,
           \/ \E j \in Jobs : Acquire(j, r)
           \/ InsertRun(r) \/ InsertFails(r) \/ TrySend(r) \/ TrySendFull(r)
    PROVE  CountsKept
  <1> USE DEF CountsKept, Counted, TypeOK, store, identity, calls
  <1>1. ASSUME NEW j \in Jobs, Acquire(j, r) PROVE CountsKept
    BY <1>1 DEF Acquire, Create
  <1>2. CASE InsertRun(r)
    BY <1>2 DEF InsertRun, RowInv
  <1>3. CASE InsertFails(r) \/ TrySend(r) \/ TrySendFull(r)
    BY <1>3 DEF InsertFails, TrySend, TrySendFull
  <1> QED
    BY <1>1, <1>2, <1>3

(* No counted run of a job appears while the tick is about to insert one.  *)
CondInv ==
    /\ \A r, s \in Runs : Counted(r) /\ Counted(s) /\ jobOf[r] = jobOf[s] => r = s
    /\ tick.at = "condinsert" => \A r \in Runs : Counted(r) => jobOf[r] # tick.job

LEMMA CondKept ==
    ASSUME CondInv, CountsKept, tick' = tick \/ tick'.at # "condinsert"
    PROVE  CondInv'
  BY DEF CondInv, CountsKept

LEMMA CondStep ==
    SchedulerTypeOK /\ TickInv /\ TypeOK /\ RowInv /\ CondInv /\ [Next]_vars => CondInv'
  <1> SUFFICES ASSUME SchedulerTypeOK, TickInv, TypeOK, RowInv, CondInv, [Next]_vars
               PROVE  CondInv'
    OBVIOUS
  <1>0. ASSUME UNCHANGED pipeVars PROVE CountsKept
    BY <1>0 DEF pipeVars, store, identity, calls, CountsKept, Counted
  <1>1. ASSUME NEW j \in Jobs, TickCondTrue(j) PROVE CondInv'
    <2>1. tick' = [at |-> "condinsert", todo |-> tick.todo, job |-> j, run |-> NoRun]
      BY <1>1, AtIs DEF TickCondTrue
    <2>2. \A r \in Runs : Counted(r) => jobOf[r] # j
      BY <1>1 DEF TickCondTrue, HasActive, Counted
    <2>3. CountsKept
      BY <1>0, <1>1 DEF TickCondTrue
    <2> QED
      BY <2>1, <2>2, <2>3 DEF CondInv, CountsKept
  <1>2. CASE TickCondInsert
    <2>1. PICK r \in Runs : InsertCondition(tick.job, r) /\ At("condsend", tick.job, r)
      BY <1>2 DEF TickCondInsert
    <2>2. \A s \in Runs \ {r} : Counted(s)' => Counted(s) /\ jobOf'[s] = jobOf[s]
      BY <2>1 DEF InsertCondition, Create, Counted, TypeOK, calls
    <2>3. jobOf'[r] = tick.job /\ tick'.at = "condsend"
      BY <2>1, AtIs DEF InsertCondition, Create, TypeOK
    <2>4. \A s \in Runs : Counted(s) => jobOf[s] # tick.job
      BY <1>2 DEF TickCondInsert, CondInv
    <2> QED
      BY <2>2, <2>3, <2>4 DEF CondInv
  <1>3. ASSUME NEW j \in Jobs, TickAcquire(j) PROVE CondInv'
    <2>1. CountsKept
      BY <1>3, DueCounts DEF TickAcquire
    <2>2. tick'.at = "insert"
      BY <1>3, AtIs DEF TickAcquire
    <2> QED
      BY <2>1, <2>2, CondKept
  <1>4. CASE TickInsert \/ TickInsertFails \/ TickSend \/ TickSendFull
             \/ TickCondSend \/ TickCondSendFull
    <2>1. tick.run \in Runs
      BY <1>4 DEF TickInsert, TickInsertFails, TickSend, TickSendFull, TickCondSend,
                  TickCondSendFull, TickInv, RunInHand
    <2>2. CountsKept
      BY <1>4, <2>1, DueCounts
         DEF TickInsert, TickInsertFails, TickSend, TickSendFull, TickCondSend, TickCondSendFull
    <2>3. CASE TickInsert \/ TickSend \/ TickCondSend
      BY <2>2, <2>3, AtIs, CondKept DEF TickInsert, TickSend, TickCondSend
    <2>4. CASE TickInsertFails \/ TickSendFull \/ TickCondSendFull
      BY <2>2, <2>4, CondKept DEF TickInsertFails, TickSendFull, TickCondSendFull, Skip, Idle
    <2> QED
      BY <1>4, <2>3, <2>4
  <1>5. CASE TickStart \/ TickConditions
    <2>1. CountsKept
      BY <1>0, <1>5 DEF TickStart, TickConditions
    <2>2. tick'.at \in {"due", "cond"}
      BY <1>5, PassIs DEF TickStart, TickConditions
    <2> QED
      BY <2>1, <2>2, CondKept
  <1>6. ASSUME NEW j \in Jobs, TickCalendarSkip(j) \/ TickNoUnits(j) \/ TickCondSkip(j)
        PROVE  CondInv'
    BY <1>0, <1>6, CondKept DEF TickCalendarSkip, TickNoUnits, TickCondSkip, Skip
  <1>7. CASE TickAdvance \/ TickCondAdvance \/ TickCondInsertFails \/ TickComputeFails \/ TickEnd
    BY <1>0, <1>7, CondKept
       DEF TickAdvance, TickCondAdvance, TickCondInsertFails, TickComputeFails, TickEnd, Skip, Idle
  <1>8. ASSUME NEW j \in Jobs, Clock(j) \/ Request(j) \/ Pause(j) \/ Resume(j) \/ UpdateRead(j)
        PROVE  CondInv'
    BY <1>0, <1>8, CondKept DEF Clock, Request, Pause, Resume, UpdateRead
  <1>9. CASE UpdateWrite
    BY <1>0, <1>9, CondKept DEF UpdateWrite
  <1>10. CASE PipelineStep
    BY <1>10, OffTickCounts, CondKept DEF PipelineStep
  <1>11. CASE Reboot
    BY <1>11, OffTickCounts, CondKept DEF Reboot, Idle
  <1>12. CASE UNCHANGED vars
    BY <1>0, <1>12, CondKept DEF vars
  <1> QED
    BY <1>1, <1>2, <1>3, <1>4, <1>5, <1>6, <1>7, <1>8, <1>9, <1>10, <1>11, <1>12
       DEF Next, TickStep

(* The tick starts no condition job while a run it started for it is       *)
(* active, whatever happens between its look at the runs and its insert.   *)
THEOREM ConditionSingleSafe == SafeSpec => []ConditionSingle
  <1>1. Init => RowInv /\ CondInv
    BY DEF Init, PipeInit, RowInv, Waiting, CondInv, Counted, Idle
  <1>2. CondInv => ConditionSingle
    BY DEF CondInv, ConditionSingle, Counted
  <1>3. SafeSpec => []QueueInv
    BY SchedulerIsPipeline, PipelineInvariants, PTL
  <1> QED
    BY <1>1, <1>2, <1>3, TickSafe, StepMaps, RowInvStep, CondStep, PTL DEF SafeSpec
=============================================================================
