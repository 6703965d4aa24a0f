------------------------------- MODULE MCIntake -------------------------------
(* A small instance of Intake: a directory, a file in it, two jobs. *)
EXTENDS Intake, TLC

OnDir       == [path |-> "dir", mask |-> "create"]
OnDirOrFile == {OnDir, [path |-> "file", mask |-> "any"]}
DirOf(p)    == IF p = "file" THEN "dir" ELSE None

Symmetry == Permutations(Hooks) \cup Permutations(Bodies) \cup Permutations(FileJobs)

(* Hooks and files meet in next_fire_at only, which both only set: a behaviour *)
(* has one of them, with the edits of its own jobs and restarts - with files,  *)
(* four operations, edits and restarts together.                               *)
FilesOnly == hooks' = 0 /\ clock' = 0 /\ HookJob \in jobs' \ paused' /\ ops' + edits' + crashes' <= 4
HooksOnly == /\ ops' = 0 /\ exists' = {} /\ watched' = {}
             /\ FileJobs \subseteq jobs' /\ paused' = {} /\ \A j \in FileJobs : trigger'[j] = OnDir
OneSource == FilesOnly \/ HooksOnly
=============================================================================
