------------------------------ MODULE RunOutput ------------------------------
(***************************************************************************)
(* The output and the end of one run: the child and what it leaves behind  *)
(* write into two pipes, a pump per pipe feeds the bounded log channel,    *)
(* the task of the run persists the chunks up to a cap and, when the       *)
(* channel closes, asks the outcome task how the child ended and writes    *)
(* the final row.  Meanwhile a WebSocket client tails the rows by polling. *)
(*                                                                         *)
(* Output is counted in units: a line of a plugin's stdout (its pump reads *)
(* lines), some bytes of any other pipe.  A line of a plugin may be        *)
(* "broken" (not UTF-8), or a complete event: "complete", with a code or   *)
(* without, or "odd", with a code that is not an integer.                  *)
(***************************************************************************)
EXTENDS Integers, Sequences, FiniteSetsExt, Sums

CONSTANTS
    Codes,           \* exit codes of children and codes of complete events
    NoCode,          \* no code (None)
    MaxExitSuccess, FailCodes, ConditionCode,   \* job.exit_policy
    ChanCap,         \* capacity of the log channel (256 in local.rs)
    ReadMax,         \* units one read of a pipe returns at most (8 KiB)
    LogCap,          \* LOG_CAP in main.rs (100 MiB)
    FetchLimit,      \* rows a tail fetches at once (500)
    FromSeqs,        \* ?from_seq=N of tails
    OperatorStates,  \* the terminal states operators set
    MaxWrites,       \* bound: units written to stdout, to stderr
    MaxOverrides     \* bound: change-status calls

Streams == {"out", "err"}
Terminal == {"success", "failed", "killed", "skipped", "lost"}

ASSUME OutputAssumption ==
    /\ Codes \subseteq Int /\ NoCode \notin Int
    /\ FailCodes \subseteq Int /\ ConditionCode \in Int \cup {NoCode}
    /\ MaxExitSuccess \in Int /\ LogCap \in Nat
    /\ ChanCap \in Nat \ {0} /\ ReadMax \in Nat \ {0} /\ FetchLimit \in Nat \ {0}
    /\ FromSeqs \subseteq Nat /\ OperatorStates \subseteq Terminal
    /\ MaxWrites \in [Streams -> Nat] /\ MaxOverrides \in Nat

VARIABLES
    plugin,      \* job.shell is Plugin
    child,       \* the process: [by, code], by = "running" or how it ended
    behind,      \* a process the child left behind holds the pipes open
    wrote,       \* wrote[s]: what was written to stream s, unit by unit
    read,        \* read[s]: units the pump of s has read
    pump,        \* the pump tasks: "reading" or "ended"
    complete,    \* plugin_complete: a complete event was read
    slot,        \* plugin_exit: the code of the last one (NoCode: None)
    killSent,    \* the kill channel holds a message
    out,         \* the outcome task: "select", "exited", "timedout", "done"
    outcome,     \* what it returned, [kind, code]
    chan,        \* the log channel: chunks [of, len]
    received,    \* history: the chunks taken from it
    bytes, truncated,   \* of the task's loop
    rows,        \* run_logs of the run; rows[i] has seq i - 1
    row,         \* runs.state, "absent" once the job is deleted
    saved,       \* the task has written the final row
    tail,        \* the WebSocket task: [at, next, drained]
    from, got,   \* history: its from_seq, and the rows it sent
    overrides    \* counter for the bound

childVars == <<plugin, child, behind, wrote>>
pumpVars  == <<read, pump, complete, slot>>
outVars   == <<killSent, out, outcome>>
taskVars  == <<received, bytes, truncated, saved>>
dbVars    == <<rows, row, overrides>>
tailVars  == <<tail, from, got>>
outputVars == <<childVars, pumpVars, outVars, chan, taskVars, dbVars, tailVars>>

-----------------------------------------------------------------------------
Unknown == -1      \* the code of a plugin that completed nothing and exited 0

Running == [by |-> "running", code |-> NoCode]
None    == [kind |-> "none", code |-> NoCode]

Line(says, code) == [says |-> says, code |-> code]
Lines == {Line(says, NoCode) : says \in {"text", "broken", "odd"}}
            \cup {Line("complete", c) : c \in Codes \cup {NoCode}}

Chunks      == [of : Streams, len : 1 .. ReadMax]
Chunk(s, n) == [of |-> s, len |-> n]

(* There is a code, and ExitCodePolicy::evaluate is Success or Conditional.*)
Passes(c) ==
    /\ c # NoCode
    /\ c = ConditionCode \/ (c \notin FailCodes /\ c \in 0 .. MaxExitSuccess)

(* What the executor makes of the exit of the child. *)
ExitCode ==
    IF ~ plugin THEN child.code
    ELSE IF complete THEN slot
    ELSE IF child.code \in {NoCode, 0} THEN Unknown ELSE child.code

TimeoutAsState ==                     \* fault: no such run state
    CASE outcome.kind \in {"killed", "timeout"} -> outcome.kind
      [] outcome.kind = "exit" /\ Passes(outcome.code) -> "success"
      [] OTHER -> "failed"

(* What the task writes into the row, of an outcome task that answers. *)
Verdict ==
    CASE outcome.kind = "killed" -> "killed"
      [] outcome.kind = "exit" /\ Passes(outcome.code) -> "success"
      [] OTHER -> "failed"

ByLines(s) == plugin /\ s = "out"

(* The pipe of a stream is closed when all its writers are gone. *)
Open == child.by = "running" \/ behind

Init ==
    /\ plugin \in BOOLEAN /\ behind \in BOOLEAN
    /\ child = Running
    /\ wrote = [s \in Streams |-> << >>]
    /\ read = [s \in Streams |-> 0]
    /\ pump = [s \in Streams |-> "reading"]
    /\ complete = FALSE /\ slot = NoCode
    /\ killSent = FALSE /\ out = "select" /\ outcome = None
    /\ chan = << >>
    /\ received = << >> /\ bytes = 0 /\ truncated = FALSE /\ saved = FALSE
    /\ rows = << >> /\ row = "running" /\ overrides = 0
    /\ from \in FromSeqs /\ got = << >>
    /\ tail = [at |-> "fetch", next |-> from, drained |-> FALSE]

-----------------------------------------------------------------------------
(* The operating system: processes and pipes. *)

Write(s) ==
    /\ Open
    /\ Len(wrote[s]) < MaxWrites[s]
    /\ \E l \in IF ByLines(s) THEN Lines ELSE {Line("text", NoCode)} :
         wrote' = [wrote EXCEPT ![s] = Append(@, l)]
    /\ UNCHANGED <<plugin, child, behind, pumpVars, outVars, chan, taskVars, dbVars, tailVars>>

ExitChild ==
    /\ child = Running
    /\ child' \in [by : {"exit"}, code : Codes] \cup [by : {"signal"}, code : {NoCode}]
    /\ UNCHANGED <<plugin, behind, wrote, pumpVars, outVars, chan, taskVars, dbVars, tailVars>>

BehindEnds ==
    /\ behind
    /\ behind' = FALSE
    /\ UNCHANGED <<plugin, child, wrote, pumpVars, outVars, chan, taskVars, dbVars, tailVars>>

-----------------------------------------------------------------------------
(* The pumps.  (Reading and sending are one step: what a pump holds while  *)
(* the channel is full is nobody else's business.)                         *)

Send(s, n) ==
    /\ Len(chan) < ChanCap
    /\ read[s] + n <= Len(wrote[s])
    /\ chan' = Append(chan, Chunk(s, n))
    /\ read' = [read EXCEPT ![s] = @ + n]

(* stream_pipe: whatever one read returns is a chunk. *)
Pump(s) ==
    /\ pump[s] = "reading" /\ ~ ByLines(s)
    /\ \E n \in 1 .. ReadMax : Send(s, n)
    /\ UNCHANGED <<childVars, pump, complete, slot, outVars, taskVars, dbVars, tailVars>>

(* A complete event without a code means 0, but replaces no code. *)
SlotAfter(l) ==
    IF l.code # NoCode THEN l.code
    ELSE IF l.says = "complete" /\ slot = NoCode THEN 0 ELSE slot

(* stream_plugin_stdout: one line, one chunk. *)
PumpLine(s) ==
    /\ pump[s] = "reading" /\ ByLines(s)
    /\ Send(s, 1)
    /\ LET l == wrote[s][read'[s]] IN
        /\ l.says # "broken"
        /\ IF l.says \in {"complete", "odd"} THEN complete' = TRUE /\ slot' = SlotAfter(l)
                                  ELSE UNCHANGED <<complete, slot>>
    /\ UNCHANGED <<childVars, pump, outVars, taskVars, dbVars, tailVars>>

(* End of file, or a line that is not UTF-8. *)
PumpEnds(s) ==
    /\ pump[s] = "reading"
    /\ IF read[s] = Len(wrote[s]) THEN ~ Open
       ELSE ByLines(s) /\ wrote[s][read[s] + 1].says = "broken"
    /\ pump' = [pump EXCEPT ![s] = "ended"]
    /\ UNCHANGED <<childVars, read, complete, slot, outVars, chan, taskVars, dbVars, tailVars>>

PumpsEnded == \A s \in Streams : pump[s] = "ended"

-----------------------------------------------------------------------------
(* The outcome task: select! over exit, kill and timeout. *)

OutExit ==
    /\ out = "select" /\ child # Running
    /\ out' = "exited"
    /\ UNCHANGED <<childVars, pumpVars, killSent, outcome, chan, taskVars, dbVars, tailVars>>

Stopped == child' = IF child = Running THEN [by |-> "signal", code |-> NoCode] ELSE child

(* start_kill and wait, then the task is over: the pumps go on alone. *)
OutKill ==
    /\ out = "select" /\ killSent
    /\ Stopped
    /\ out' = "done" /\ outcome' = [kind |-> "killed", code |-> NoCode]
    /\ UNCHANGED <<plugin, behind, wrote, pumpVars, killSent, chan, taskVars, dbVars, tailVars>>

(* (A job without timeout_secs never takes this branch.) *)
OutTimeout ==
    /\ out = "select"
    /\ Stopped
    /\ out' = "timedout"
    /\ UNCHANGED <<plugin, behind, wrote, pumpVars, killSent, outcome, chan, taskVars, dbVars,
                   tailVars>>

OutDoneAtOnce ==                      \* fault: the slots are read before the pumps end
    /\ out \in {"exited", "timedout"}
    /\ outcome' = IF out = "exited" THEN [kind |-> "exit", code |-> ExitCode]
                                    ELSE [kind |-> "timeout", code |-> NoCode]
    /\ out' = "done"
    /\ UNCHANGED <<childVars, pumpVars, killSent, chan, taskVars, dbVars, tailVars>>

(* Both pumps are awaited before the slots are read. *)
OutDone ==
    /\ out \in {"exited", "timedout"} /\ PumpsEnded
    /\ outcome' = IF out = "exited" THEN [kind |-> "exit", code |-> ExitCode]
                                    ELSE [kind |-> "timeout", code |-> NoCode]
    /\ out' = "done"
    /\ UNCHANGED <<childVars, pumpVars, killSent, chan, taskVars, dbVars, tailVars>>

-----------------------------------------------------------------------------
(* The task of the run. *)

FitsAny(c) == ~ truncated /\ bytes < LogCap     \* fault: the chunk's length not counted

FitsLog(c) == ~ truncated /\ bytes + c.len <= LogCap

(* RunLogRepo::append: without the run's row, an error that is ignored.    *)
Appended(c) == IF row = "absent" THEN rows ELSE Append(rows, c)

PersistLate ==                        \* fault: the outcome is awaited before the log
    /\ chan # << >> /\ ~ saved /\ out = "done"
    /\ LET c == Head(chan) IN
        /\ chan' = Tail(chan)
        /\ received' = Append(received, c)
        /\ rows' = IF FitsLog(c) THEN Appended(c) ELSE rows
        /\ truncated' = (truncated \/ ~ FitsLog(c))
        /\ bytes' = bytes + c.len
    /\ UNCHANGED <<childVars, pumpVars, outVars, saved, row, overrides, tailVars>>

(* One chunk: a row while it fits; the first that does not ends the log.   *)
Persist ==
    /\ chan # << >> /\ ~ saved
    /\ LET c == Head(chan) IN
        /\ chan' = Tail(chan)
        /\ received' = Append(received, c)
        /\ rows' = IF FitsLog(c) THEN Appended(c) ELSE rows
        /\ truncated' = (truncated \/ ~ FitsLog(c))
        /\ bytes' = bytes + c.len
    /\ UNCHANGED <<childVars, pumpVars, outVars, saved, row, overrides, tailVars>>

RowSet(s) == row' = IF row = "absent" THEN row ELSE s

SaveEarly ==                          \* fault: the log stream is not drained
    /\ ~ saved /\ out = "done"
    /\ RowSet(Verdict)
    /\ saved' = TRUE
    /\ UNCHANGED <<childVars, pumpVars, outVars, chan, received, bytes, truncated, rows,
                   overrides, tailVars>>

(* The channel is closed and empty, the outcome is in. *)
Save ==
    /\ ~ saved /\ PumpsEnded /\ chan = << >> /\ out = "done"
    /\ RowSet(Verdict)
    /\ saved' = TRUE
    /\ UNCHANGED <<childVars, pumpVars, outVars, chan, received, bytes, truncated, rows,
                   overrides, tailVars>>

-----------------------------------------------------------------------------
(* HTTP handlers. *)

Kill ==
    /\ ~ killSent /\ ~ saved
    /\ killSent' = TRUE
    /\ UNCHANGED <<childVars, pumpVars, out, outcome, chan, taskVars, dbVars, tailVars>>

ChangeState ==
    /\ overrides < MaxOverrides /\ overrides' = overrides + 1
    /\ row # "absent"
    /\ row' \in OperatorStates
    /\ UNCHANGED <<childVars, pumpVars, outVars, chan, taskVars, rows, tailVars>>

(* Run and log rows go by ON DELETE CASCADE. *)
DeleteJob ==
    /\ row # "absent"
    /\ row' = "absent" /\ rows' = << >>
    /\ UNCHANGED <<childVars, pumpVars, outVars, chan, taskVars, overrides, tailVars>>

-----------------------------------------------------------------------------
(* The WebSocket task (one; tails do not know of each other). *)

TailMoves == UNCHANGED <<childVars, pumpVars, outVars, chan, taskVars, dbVars, from>>

RepeatsLast(end) == IF end = 0 THEN 0 ELSE end - 1     \* fault: next_seq = r.seq

NextSeq(end) == end

(* RunLogRepo::fetch: seq >= start, in order, at most so many. (The seq of *)
(* the first row is 0, and there are no gaps.)                             *)
Page(start) == SubSeq(rows, start + 1, Min({Len(rows), start + FetchLimit}))

(* Fetch rows from next_seq on and send each of them. *)
Fetch ==
    /\ tail.at = "fetch"
    /\ LET page == Page(tail.next) IN
        /\ got' = got \o page
        /\ tail' = [at |-> "look", drained |-> page # <<>>,
                    next |-> IF page = <<>> THEN tail.next ELSE NextSeq(tail.next + Len(page))]
    /\ TailMoves

LookNotDrained ==                     \* fault: `drained` means the opposite
    /\ tail.at = "look"
    /\ tail' = [tail EXCEPT !.at = IF row \in Terminal /\ tail.drained THEN "ended" ELSE "sleep"]
    /\ TailMoves /\ UNCHANGED got

(* Read the state; the end frame if it is terminal and nothing was new.    *)
Look ==
    /\ tail.at = "look"
    /\ tail' = [tail EXCEPT !.at = IF row \in Terminal /\ ~ tail.drained THEN "ended" ELSE "sleep"]
    /\ TailMoves /\ UNCHANGED got

Poll ==
    /\ tail.at = "sleep"
    /\ tail' = [tail EXCEPT !.at = "fetch"]
    /\ TailMoves /\ UNCHANGED got

(* The client closes, or 30 minutes have passed. *)
TailCloses ==
    /\ tail.at = "sleep"
    /\ tail' = [tail EXCEPT !.at = "closed"]
    /\ TailMoves /\ UNCHANGED got

-----------------------------------------------------------------------------
PumpStep == \E s \in Streams : Pump(s) \/ PumpLine(s) \/ PumpEnds(s)
TailStep == Fetch \/ Look \/ Poll

Next ==
    \/ \E s \in Streams : Write(s)
    \/ ExitChild \/ BehindEnds
    \/ PumpStep
    \/ OutExit \/ OutKill \/ OutTimeout \/ OutDone
    \/ Persist \/ Save
    \/ Kill \/ ChangeState \/ DeleteJob
    \/ TailStep \/ TailCloses

SafeSpec == Init /\ [][Next]_outputVars

(* tokio runs ready tasks; the child, the operators and the timer of       *)
(* timeout_secs owe nothing.                                               *)
Fairness ==
    /\ WF_outputVars(PumpStep)
    /\ WF_outputVars(OutExit \/ OutDone)
    /\ WF_outputVars(Persist \/ Save)
    /\ WF_outputVars(TailStep)

Spec == SafeSpec /\ Fairness

-----------------------------------------------------------------------------
OutputTypeOK ==
    /\ plugin \in BOOLEAN /\ behind \in BOOLEAN
    /\ child \in [by : {"running", "exit", "signal"}, code : Codes \cup {NoCode}]
    /\ wrote \in [Streams -> Seq(Lines)]
    /\ read \in [Streams -> Nat]
    /\ pump \in [Streams -> {"reading", "ended"}]
    /\ complete \in BOOLEAN /\ slot \in Codes \cup {0, NoCode}
    /\ killSent \in BOOLEAN /\ out \in {"select", "exited", "timedout", "done"}
    /\ outcome \in [kind : {"none", "exit", "timeout", "killed"},
                    code : Codes \cup {0, NoCode, Unknown}]
    /\ chan \in Seq(Chunks) /\ Len(chan) <= ChanCap
    /\ received \in Seq(Chunks)
    /\ bytes \in Nat /\ truncated \in BOOLEAN /\ saved \in BOOLEAN
    /\ rows \in Seq(Chunks)
    /\ row \in {"running", "absent"} \cup Terminal
    /\ tail \in [at : {"fetch", "look", "sleep", "ended", "closed"}, next : Nat, drained : BOOLEAN]
    /\ from \in FromSeqs /\ got \in Seq(Chunks)
    /\ overrides \in 0 .. MaxOverrides

(* The log is the longest part of the output, from its start, that fits in *)
(* the cap: nothing is skipped and resumed, and "truncated" tells whether  *)
(* something is missing.                                                   *)
Lens(q)  == [i \in DOMAIN q |-> q[i].len]
Total(n) == Sum(Lens(received))[n]
Kept     == Max({n \in 0 .. Len(received) : Total(n) <= LogCap})
Log      == SubSeq(received, 1, Kept)

RowsArePrefix ==
    /\ row # "absent" => rows = Log
    /\ truncated <=> Kept < Len(received)

(* When the final row is written, everything that was written before the   *)
(* pipes closed has reached the task (a plugin's stdout up to the first    *)
(* line that is not UTF-8): a kill or a timeout loses no output.           *)
Garbled(s)  == {i \in 1 .. Len(wrote[s]) : ByLines(s) /\ wrote[s][i].says = "broken"}
Readable(s) == IF Garbled(s) = {} THEN Len(wrote[s]) ELSE Min(Garbled(s)) - 1

LensOf(s, q) == [i \in DOMAIN q |-> IF q[i].of = s THEN q[i].len ELSE 0]

LogComplete == saved => \A s \in Streams :
    Readable(s) = Sum(LensOf(s, received))[Len(received)]

(* A plugin that exits is judged by what it said: it succeeds when its     *)
(* last code passes the exit policy, 0 standing for codes it never gave;   *)
(* events with odd codes alone fail it, and without any complete event the *)
(* exit of the process counts, as the code -1 if that was 0 or a signal.   *)
Heard(says) == {i \in 1 .. Readable("out") : wrote["out"][i].says = says}
Coded       == {i \in Heard("complete") : wrote["out"][i].code # NoCode}

PluginVerdict ==
    plugin /\ outcome.kind = "exit" =>
        (Verdict = "success" <=>
            \/ Coded # {} /\ Passes(wrote["out"][Max(Coded)].code)
            \/ Coded = {} /\ Heard("complete") # {} /\ Passes(0)
            \/ /\ Heard("complete") \cup Heard("odd") = {}
               /\ Passes(IF child.code \in {NoCode, 0} THEN Unknown ELSE child.code))

(* A tail sends every row from from_seq on once, in order, without a gap.  *)
TailInOrder ==
    /\ tail.next >= from
    /\ tail.next > from => got = SubSeq(Log, from + 1, tail.next)

(* A run whose process has ended, and nothing of which holds the pipes any *)
(* more, gets its final row however full the log channel was.              *)
RunEnds == child # Running /\ ~ behind ~> saved

(* A tail of a run in a terminal state ends, unless the row is deleted.    *)
TailEnds == row \in Terminal ~> tail.at \in {"ended", "closed"} \/ row = "absent"
=============================================================================
