-------------------------- MODULE RunOutput_proofs --------------------------
(***************************************************************************)
(* The output and the end of a run, for every capacity of the log channel, *)
(* every cap of the log, every size of reads and of fetches, every exit    *)
(* policy and every output.                                                *)
(***************************************************************************)
EXTENDS RunOutput, Sums_proofs, SequenceTheorems

LEMMA MaxIs ==
    ASSUME NEW S \in SUBSET Int, NEW m \in S, \A k \in S : k <= m
    PROVE  Max(S) = m
  <1>1. \E x \in S : \A y \in S : x >= y
    OBVIOUS
  <1> DEFINE x == Max(S)
  <1>2. x \in S /\ \A y \in S : x >= y
    BY <1>1 DEF Max
  <1>3. x = m
    <2> HIDE DEF x
    <2> QED
      BY <1>2
  <1> QED
    BY <1>3

LEMMA MinIs ==
    ASSUME NEW S \in SUBSET Int, NEW m \in S, \A k \in S : m <= k
    PROVE  Min(S) = m
  <1>1. \E x \in S : \A y \in S : x <= y
    OBVIOUS
  <1> DEFINE x == Min(S)
  <1>2. x \in S /\ \A y \in S : x <= y
    BY <1>1 DEF Min
  <1>3. x = m
    <2> HIDE DEF x
    <2> QED
      BY <1>2
  <1> QED
    BY <1>3

LEMMA ChunkLen == ASSUME NEW c \in Chunks PROVE c.len \in Nat \ {0} /\ c.of \in Streams
  BY OutputAssumption DEF Chunks

LEMMA LineCode ==
    ASSUME NEW l \in Lines
    PROVE  /\ l.code \in Codes \cup {NoCode}
           /\ l.says # "complete" => l.code = NoCode
  <1>1. CASE l \in {Line(says, NoCode) : says \in {"text", "broken", "odd"}}
    BY <1>1 DEF Line
  <1>2. CASE l \in {Line("complete", c) : c \in Codes \cup {NoCode}}
    BY <1>2 DEF Line
  <1> QED
    BY <1>1, <1>2 DEF Lines

LEMMA MinOfTwo ==
    ASSUME NEW a \in Int, NEW b \in Int
    PROVE  Min({a, b}) = IF a <= b THEN a ELSE b
  BY MinIs

(* A page is empty, or the rows from its start on. *)
LEMMA PageIs ==
    ASSUME rows \in Seq(Chunks), NEW n \in Nat
    PROVE  /\ Page(n) \in Seq(Chunks)
           /\ Page(n) # << >> => n + Len(Page(n)) <= Len(rows)
           /\ \A i \in 1 .. Len(Page(n)) : Page(n)[i] = rows[n + i]
  <1> DEFINE end == Min({Len(rows), n + FetchLimit})
  <1>1. /\ Len(rows) \in Nat /\ Len(rows) \in Int
        /\ n + FetchLimit \in Nat /\ n + FetchLimit \in Int
    BY OutputAssumption
  <1>2. end = IF Len(rows) <= n + FetchLimit THEN Len(rows) ELSE n + FetchLimit
    BY <1>1, MinOfTwo, Zenon
  <1> HIDE DEF end
  <1>3. end \in Nat /\ end <= Len(rows)
    BY <1>1, <1>2
  <1>4. \A i \in n + 1 .. end : rows[i] \in Chunks
    BY <1>3
  <1> DEFINE page == SubSeq(rows, n + 1, end)
  <1>5. /\ page \in Seq(Chunks)
        /\ Len(page) = IF n + 1 <= end THEN end - n ELSE 0
        /\ \A i \in 1 .. end - n : page[i] = rows[n + i]
    <2>1. /\ page \in Seq(Chunks)
          /\ Len(page) = IF n + 1 <= end THEN end - (n + 1) + 1 ELSE 0
          /\ \A i \in 1 .. end - (n + 1) + 1 : page[i] = rows[n + 1 + i - 1]
      <3>1. n + 1 \in Int /\ end \in Int
        BY <1>3
      <3> QED
        BY <1>4, <3>1, SubSeqProperties
    <2> QED
      BY <1>3, <2>1
  <1> HIDE DEF page
  <1>6. /\ page # << >> => n + Len(page) <= Len(rows)
        /\ \A i \in 1 .. Len(page) : page[i] = rows[n + i]
    BY <1>3, <1>5
  <1>7. Page(n) = page
    BY DEF Page, page, end
  <1> QED
    BY <1>5, <1>6, <1>7

-----------------------------------------------------------------------------
(* Types. *)

LEMMA OutputTypeStep == OutputTypeOK /\ [Next]_outputVars => OutputTypeOK'
  <1> SUFFICES ASSUME OutputTypeOK, [Next]_outputVars PROVE OutputTypeOK'
    OBVIOUS
  <1> USE OutputAssumption
          DEF OutputTypeOK, childVars, pumpVars, outVars, taskVars, dbVars, tailVars
  <1>1. ASSUME NEW s \in Streams, Write(s) PROVE OutputTypeOK'
    <2>1. PICK l \in Lines : wrote' = [wrote EXCEPT ![s] = Append(@, l)]
      BY <1>1 DEF Write, Lines
    <2>2. wrote' \in [Streams -> Seq(Lines)]
      BY <2>1
    <2> QED
      BY <1>1, <2>2 DEF Write
  <1>2. CASE ExitChild
    BY <1>2 DEF ExitChild
  <1>3. CASE BehindEnds
    <2>1. behind' \in BOOLEAN
      BY <1>3 DEF BehindEnds
    <2> QED
      BY <1>3, <2>1 DEF BehindEnds
  <1>4. ASSUME NEW s \in Streams, NEW n \in 1 .. ReadMax, Send(s, n)
        PROVE  /\ chan' \in Seq(Chunks) /\ Len(chan') <= ChanCap
               /\ read' \in [Streams -> Nat]
               /\ read'[s] = read[s] + n /\ read'[s] \in 1 .. Len(wrote[s])
    <2>1. Chunk(s, n) \in Chunks
      BY DEF Chunk, Chunks
    <2> QED
      BY <1>4, <2>1 DEF Send
  <1>5. ASSUME NEW s \in Streams, Pump(s) PROVE OutputTypeOK'
    BY <1>4, <1>5 DEF Pump
  <1>6. ASSUME NEW s \in Streams, PumpLine(s) PROVE OutputTypeOK'
    <2>1. Send(s, 1) /\ 1 \in 1 .. ReadMax
      BY <1>6 DEF PumpLine
    <2>2. wrote[s][read'[s]] \in Lines
      BY <1>4, <2>1
    <2> DEFINE l == wrote[s][read'[s]]
    <2>3. l.code \in Codes \cup {NoCode}
      BY <2>2, LineCode
    <2>4. complete' \in BOOLEAN
      BY <1>6 DEF PumpLine
    <2>5. SlotAfter(l) \in Codes \cup {0, NoCode}
      BY <2>3 DEF SlotAfter
    <2>6. slot' \in {slot, SlotAfter(l)}
      BY <1>6 DEF PumpLine
    <2> QED
      BY <1>4, <1>6, <2>1, <2>4, <2>5, <2>6 DEF PumpLine
  <1>7. ASSUME NEW s \in Streams, PumpEnds(s) PROVE OutputTypeOK'
    BY <1>7 DEF PumpEnds
  <1>8. CASE OutExit
    BY <1>8 DEF OutExit
  <1>9. CASE OutKill \/ OutTimeout
    BY <1>9 DEF OutKill, OutTimeout, Stopped
  <1>10. CASE OutDone
    <2>1. ExitCode \in Codes \cup {0, NoCode, Unknown}
      BY DEF ExitCode
    <2> QED
      BY <1>10, <2>1 DEF OutDone
  <1>11. CASE Persist
    <2>1. Head(chan) \in Chunks /\ chan' = Tail(chan) /\ chan' \in Seq(Chunks)
          /\ Len(chan') <= ChanCap
      BY <1>11 DEF Persist
    <2>2. received' \in Seq(Chunks) /\ rows' \in Seq(Chunks)
      BY <1>11, <2>1 DEF Persist, Appended
    <2>3. bytes' \in Nat
      <3>1. bytes \in Nat /\ bytes' = bytes + Head(chan).len
        BY <1>11 DEF Persist
      <3>2. Head(chan).len \in Nat
        BY <2>1, ChunkLen
      <3> QED
        BY <3>1, <3>2
    <2>4. truncated' \in BOOLEAN
      BY <1>11 DEF Persist, FitsLog
    <2> QED
      BY <1>11, <2>1, <2>2, <2>3, <2>4 DEF Persist
  <1>12. CASE Save
    <2>1. Verdict \in Terminal
      BY DEF Verdict, Terminal
    <2> QED
      BY <1>12, <2>1 DEF Save, RowSet
  <1>13. CASE Kill
    <2>1. killSent' \in BOOLEAN
      BY <1>13 DEF Kill
    <2> QED
      BY <1>13, <2>1 DEF Kill
  <1>17. CASE ChangeState
    <2>1. row' \in Terminal /\ overrides' \in 0 .. MaxOverrides
      BY <1>17 DEF ChangeState
    <2> QED
      BY <1>17, <2>1 DEF ChangeState
  <1>18. CASE DeleteJob
    <2>1. row' = "absent" /\ rows' \in Seq(Chunks)
      BY <1>18 DEF DeleteJob
    <2> QED
      BY <1>18, <2>1 DEF DeleteJob
  <1>14. CASE Fetch
    <2>1. Page(tail.next) \in Seq(Chunks)
      BY PageIs
    <2>2. got' \in Seq(Chunks)
      BY <1>14, <2>1 DEF Fetch
    <2>3. tail' \in [at : {"look"}, next : Nat, drained : BOOLEAN]
      <3>1. Len(Page(tail.next)) \in Nat
        BY <2>1
      <3> QED
        BY <1>14, <3>1 DEF Fetch, NextSeq
    <2> QED
      BY <1>14, <2>2, <2>3 DEF Fetch, TailMoves
  <1>15. CASE Look \/ Poll \/ TailCloses
    <2>1. \E a \in {"fetch", "sleep", "ended", "closed"} : tail' = [tail EXCEPT !.at = a]
      BY <1>15 DEF Look, Poll, TailCloses
    <2>2. UNCHANGED <<childVars, pumpVars, outVars, chan, taskVars, dbVars, from, got>>
      BY <1>15 DEF Look, Poll, TailCloses, TailMoves
    <2>3. tail' \in [at : {"fetch", "look", "sleep", "ended", "closed"}, next : Nat,
                    drained : BOOLEAN]
      BY <2>1
    <2> QED
      BY <2>2, <2>3
  <1>16. CASE UNCHANGED outputVars
    BY <1>16 DEF outputVars
  <1> QED
    BY <1>1, <1>2, <1>3, <1>5, <1>6, <1>7, <1>8, <1>9, <1>10, <1>11, <1>12, <1>13, <1>14,
       <1>15, <1>16, <1>17, <1>18 DEF Next, PumpStep, TailStep

(* Every variable of the run's output keeps its type. *)
THEOREM OutputTypeCorrect == SafeSpec => []OutputTypeOK
  <1>1. Init => OutputTypeOK
    <2> SUFFICES ASSUME Init PROVE OutputTypeOK
      OBVIOUS
    <2> USE OutputAssumption DEF Init
    <2>1. /\ plugin \in BOOLEAN /\ behind \in BOOLEAN
          /\ child \in [by : {"running", "exit", "signal"}, code : Codes \cup {NoCode}]
          /\ outcome \in [kind : {"none", "exit", "timeout", "killed"},
                          code : Codes \cup {0, NoCode, Unknown}]
      BY DEF Running, None
    <2>2. /\ wrote \in [Streams -> Seq(Lines)]
          /\ read \in [Streams -> Nat]
          /\ pump \in [Streams -> {"reading", "ended"}]
      OBVIOUS
    <2>3. /\ chan \in Seq(Chunks) /\ Len(chan) <= ChanCap
          /\ received \in Seq(Chunks) /\ rows \in Seq(Chunks) /\ got \in Seq(Chunks)
      OBVIOUS
    <2>4. tail \in [at : {"fetch", "look", "sleep", "ended", "closed"}, next : Nat,
                   drained : BOOLEAN]
      OBVIOUS
    <2>5. /\ complete \in BOOLEAN /\ slot \in {NoCode} /\ killSent \in BOOLEAN /\ out = "select"
          /\ bytes = 0 /\ truncated \in BOOLEAN /\ saved \in BOOLEAN /\ row = "running"
          /\ overrides = 0
      OBVIOUS
    <2> HIDE DEF Init
    <2> QED
      BY <2>1, <2>2, <2>3, <2>4, <2>5 DEF OutputTypeOK, Init
  <1> QED
    BY <1>1, OutputTypeStep, PTL DEF SafeSpec

-----------------------------------------------------------------------------
(* The cap.  Of a sequence of chunks, the longest prefix that fits.        *)

Size(q)   == Sum(Lens(q))[Len(q)]
KeptOf(q) == Max({n \in 0 .. Len(q) : Sum(Lens(q))[n] <= LogCap})
LogOf(q)  == SubSeq(q, 1, KeptOf(q))

LEMMA LensType ==
    ASSUME NEW q \in Seq(Chunks)
    PROVE  /\ Lens(q) \in Seq(Nat) /\ Lens(q) \in Seq(Int) /\ Len(Lens(q)) = Len(q)
           /\ \A i \in 1 .. Len(q) : Lens(q)[i] = q[i].len
  <1>1. \A i \in 1 .. Len(q) : q[i].len \in Nat
    BY ChunkLen
  <1>2. Lens(q) = [i \in 1 .. Len(q) |-> q[i].len]
    BY DEF Lens
  <1> QED
    BY <1>1, <1>2

LEMMA LensAppend ==
    ASSUME NEW q \in Seq(Chunks), NEW c \in Chunks
    PROVE  /\ \A n \in 0 .. Len(q) : Sum(Lens(Append(q, c)))[n] = Sum(Lens(q))[n]
           /\ Size(Append(q, c)) = Size(q) + c.len
  <1> DEFINE p == Append(q, c)
             v == Lens(p)
             w == Lens(q)
  <1>1. p \in Seq(Chunks) /\ Len(p) = Len(q) + 1 /\ p[Len(q) + 1] = c
        /\ \A i \in 1 .. Len(q) : p[i] = q[i]
    OBVIOUS
  <1> HIDE DEF p
  <1>2. /\ w \in Seq(Nat) /\ Len(w) = Len(q)
        /\ \A i \in 1 .. Len(q) : w[i] = q[i].len
    BY LensType
  <1>3. /\ v \in Seq(Nat) /\ Len(v) = Len(p)
        /\ \A i \in 1 .. Len(p) : v[i] = p[i].len
    BY <1>1, LensType
  <1>5. Size(q) = Sum(w)[Len(q)] /\ Size(p) = Sum(v)[Len(p)]
    BY DEF Size
  <1> HIDE DEF v, w
  <1>4. /\ Len(v) = Len(w) + 1 /\ v[Len(v)] = c.len
        /\ \A i \in 1 .. Len(w) : v[i] = w[i]
    <2>1. Len(q) \in Nat
      OBVIOUS
    <2>2. Len(p) \in 1 .. Len(p) /\ \A i \in 1 .. Len(q) : i \in 1 .. Len(p)
      BY <1>1, <2>1
    <2>3. v[Len(p)] = c.len
      BY <1>1, <1>3, <2>2
    <2>4. ASSUME NEW i \in 1 .. Len(q) PROVE v[i] = w[i]
      BY <1>1, <1>2, <1>3, <2>2
    <2> QED
      BY <1>1, <1>2, <1>3, <2>3, <2>4
  <1>6. /\ \A n \in 0 .. Len(w) : Sum(v)[n] = Sum(w)[n]
        /\ Sum(v)[Len(v)] = Sum(w)[Len(w)] + v[Len(v)]
    BY <1>2, <1>3, <1>4, SumMore
  <1> QED
    BY <1>2, <1>3, <1>4, <1>5, <1>6 DEF p, v, w

LEMMA KeptIsMax ==
    ASSUME NEW q \in Seq(Chunks)
    PROVE  /\ KeptOf(q) \in 0 .. Len(q) /\ Sum(Lens(q))[KeptOf(q)] <= LogCap
           /\ \A n \in 0 .. Len(q) : Sum(Lens(q))[n] <= LogCap => n <= KeptOf(q)
  <1> DEFINE n == Len(q)
             Fit == {k \in 0 .. n : Sum(Lens(q))[k] <= LogCap}
  <1>0. n \in Nat
    OBVIOUS
  <1>1. Fit \in SUBSET (0 .. n) /\ Fit \in SUBSET Int
    OBVIOUS
  <1>2. Sum(Lens(q))[0] = 0
    BY LensType, SumDef
  <1>3. 0 \in Fit
    BY <1>0, <1>2, OutputAssumption
  <1>4. PICK m \in Fit : \A k \in Fit : k <= m
    <2> HIDE DEF Fit, n
    <2> QED
      BY <1>0, <1>1, <1>3, GreatestMember
  <1>5. Max(Fit) = m
    <2> HIDE DEF Fit
    <2> QED
      BY <1>1, <1>4, MaxIs
  <1>6. KeptOf(q) = m
    BY <1>5 DEF KeptOf
  <1> QED
    BY <1>4, <1>6

LEMMA LogIs ==
    ASSUME NEW q \in Seq(Chunks)
    PROVE  /\ LogOf(q) \in Seq(Chunks) /\ Len(LogOf(q)) = KeptOf(q)
           /\ \A i \in 1 .. KeptOf(q) : LogOf(q)[i] = q[i]
           /\ KeptOf(q) < Len(q) <=> Size(q) > LogCap
           /\ Size(q) <= LogCap => KeptOf(q) = Len(q) /\ LogOf(q) = q
           /\ Size(q) \in Nat
  <1> DEFINE k == KeptOf(q)
  <1>1. k \in 0 .. Len(q) /\ Sum(Lens(q))[k] <= LogCap
        /\ \A n \in 0 .. Len(q) : Sum(Lens(q))[n] <= LogCap => n <= k
    BY KeptIsMax
  <1> HIDE DEF k
  <1>2. Size(q) \in Nat
    BY LensType, SumType DEF Size
  <1>3. k < Len(q) <=> Size(q) > LogCap
    BY <1>1, <1>2, OutputAssumption DEF Size
  <1>4. /\ SubSeq(q, 1, k) \in Seq(Chunks) /\ Len(SubSeq(q, 1, k)) = k
        /\ \A i \in 1 .. k : SubSeq(q, 1, k)[i] = q[i]
    BY <1>1
  <1>5. Size(q) <= LogCap => k = Len(q) /\ SubSeq(q, 1, k) = q
    BY <1>1, <1>3, <1>2, SubSeqFull, OutputAssumption
  <1> QED
    BY <1>2, <1>3, <1>4, <1>5 DEF LogOf, k

(* One more chunk: the log grows by it, if all fitted and it still does,   *)
(* or is what it was.                                                      *)
LEMMA LogAppend ==
    ASSUME NEW q \in Seq(Chunks), NEW c \in Chunks
    PROVE  /\ Size(q) + c.len <= LogCap => LogOf(Append(q, c)) = Append(LogOf(q), c)
           /\ Size(q) + c.len > LogCap => LogOf(Append(q, c)) = LogOf(q)
           /\ KeptOf(Append(q, c)) >= KeptOf(q)
  <1> DEFINE p == Append(q, c)
  <1>1. p \in Seq(Chunks) /\ Len(p) = Len(q) + 1
        /\ \A i \in 1 .. Len(q) : p[i] = q[i]
    OBVIOUS
  <1>2. Size(p) = Size(q) + c.len /\ c.len \in Nat /\ Size(q) \in Nat
        /\ \A n \in 0 .. Len(q) : Sum(Lens(p))[n] = Sum(Lens(q))[n]
    BY LensAppend, ChunkLen, LogIs
  <1>3. ASSUME Size(q) + c.len <= LogCap
        PROVE  LogOf(p) = p /\ KeptOf(p) = Len(p) /\ LogOf(q) = q /\ KeptOf(q) = Len(q)
    <2> HIDE DEF p
    <2>1. Size(p) <= LogCap /\ Size(q) <= LogCap
      BY <1>2, <1>3, OutputAssumption
    <2>2. LogOf(p) = p /\ KeptOf(p) = Len(p)
      BY <1>1, <2>1, LogIs
    <2>3. LogOf(q) = q /\ KeptOf(q) = Len(q)
      BY <2>1, LogIs
    <2> QED
      BY <2>2, <2>3
  <1>4. ASSUME Size(q) + c.len > LogCap PROVE KeptOf(p) = KeptOf(q)
    <2> HIDE DEF p
    <2>1. KeptOf(p) \in 0 .. Len(q)
      <3>1. KeptOf(p) \in 0 .. Len(p) /\ Len(q) \in Nat
        BY <1>1, KeptIsMax
      <3>2. Size(p) > LogCap
        BY <1>2, <1>4
      <3>3. KeptOf(p) < Len(p)
        BY <1>1, <3>2, LogIs
      <3> QED
        BY <1>1, <3>1, <3>3
    <2>2. KeptOf(q) \in 0 .. Len(q)
      BY KeptIsMax
    <2>3. KeptOf(p) <= KeptOf(q)
      <3>1. Sum(Lens(p))[KeptOf(p)] <= LogCap
        BY <1>1, KeptIsMax
      <3>2. Sum(Lens(q))[KeptOf(p)] <= LogCap
        BY <1>2, <2>1, <3>1
      <3> QED
        BY <2>1, <3>2, KeptIsMax
    <2>4. KeptOf(q) <= KeptOf(p)
      <3>1. Sum(Lens(q))[KeptOf(q)] <= LogCap
        BY KeptIsMax
      <3>2. Sum(Lens(p))[KeptOf(q)] <= LogCap
        BY <1>2, <2>2, <3>1
      <3>3. KeptOf(q) \in 0 .. Len(p)
        BY <1>1, <2>2
      <3> QED
        BY <1>1, <3>2, <3>3, KeptIsMax
    <2> QED
      BY <2>1, <2>2, <2>3, <2>4
  <1>5. ASSUME Size(q) + c.len > LogCap PROVE LogOf(p) = LogOf(q)
    <2> HIDE DEF p
    <2>1. KeptOf(q) \in 0 .. Len(q)
      BY KeptIsMax
    <2>2. /\ LogOf(p) \in Seq(Chunks) /\ LogOf(q) \in Seq(Chunks)
          /\ Len(LogOf(p)) = Len(LogOf(q))
      BY <1>1, <1>4, <1>5, LogIs
    <2>3. KeptOf(p) = KeptOf(q) /\ Len(LogOf(q)) = KeptOf(q)
          /\ \A i \in 1 .. KeptOf(q) : LogOf(q)[i] = q[i]
      BY <1>4, <1>5, LogIs
    <2>5. \A i \in 1 .. KeptOf(p) : LogOf(p)[i] = p[i]
      BY <1>1, LogIs
    <2>4. \A i \in 1 .. Len(LogOf(q)) : LogOf(p)[i] = LogOf(q)[i]
      BY <1>1, <2>1, <2>3, <2>5
    <2> QED
      BY <2>2, <2>4
  <1>6. KeptOf(p) >= KeptOf(q)
    <2> HIDE DEF p
    <2>1. KeptOf(q) \in 0 .. Len(q)
      BY KeptIsMax
    <2> QED
      BY <1>1, <1>2, <1>3, <1>4, <2>1, OutputAssumption
  <1> QED
    BY <1>3, <1>5, <1>6

-----------------------------------------------------------------------------
(* What the task has counted, what it has kept of it, and what a tail has  *)
(* sent of that.                                                           *)

LogInv ==
    /\ bytes = Size(received)
    /\ truncated <=> bytes > LogCap
    /\ rows = IF row = "absent" THEN << >> ELSE LogOf(received)

TailInv ==
    /\ tail.next >= from /\ Len(got) = tail.next - from
    /\ tail.next > from => tail.next <= KeptOf(received)
    /\ \A i \in 1 .. Len(got) : got[i] = received[from + i]

LEMMA LogPersist == OutputTypeOK /\ LogInv /\ Persist => LogInv'
  <1> SUFFICES ASSUME OutputTypeOK, LogInv, Persist PROVE LogInv'
    OBVIOUS
  <1> DEFINE c == Head(chan)
             q == received
  <1>1. /\ c \in Chunks /\ q \in Seq(Chunks) /\ received' = Append(q, c)
        /\ bytes' = bytes + c.len /\ truncated' = (truncated \/ ~ FitsLog(c))
        /\ rows' = IF FitsLog(c) THEN Appended(c) ELSE rows
        /\ row' = row
    BY DEF OutputTypeOK, Persist, dbVars
  <1> HIDE DEF c
  <1>2. /\ c.len \in Nat /\ Size(q) \in Nat /\ bytes = Size(q)
        /\ truncated <=> Size(q) > LogCap
        /\ rows = IF row = "absent" THEN << >> ELSE LogOf(q)
    BY <1>1, ChunkLen, LogIs DEF LogInv
  <1>3. /\ Size(received') = Size(q) + c.len
        /\ Size(q) + c.len <= LogCap => LogOf(received') = Append(LogOf(q), c)
        /\ Size(q) + c.len > LogCap => LogOf(received') = LogOf(q)
    BY <1>1, LensAppend, LogAppend
  <1>4. FitsLog(c) <=> Size(q) + c.len <= LogCap
    BY <1>2, OutputAssumption DEF FitsLog
  <1>5. bytes' = Size(received') /\ (truncated' <=> bytes' > LogCap)
    <2>1. bytes' = Size(received') /\ bytes' = Size(q) + c.len
      BY <1>1, <1>2, <1>3
    <2>2. truncated' <=> (Size(q) > LogCap \/ ~ (Size(q) + c.len <= LogCap))
      BY <1>1, <1>2, <1>4, Zenon
    <2>3. (Size(q) > LogCap \/ ~ (Size(q) + c.len <= LogCap)) <=> Size(q) + c.len > LogCap
      BY <1>2, OutputAssumption
    <2> QED
      BY <2>1, <2>2, <2>3, Zenon
  <1>6. rows' = IF row' = "absent" THEN << >> ELSE LogOf(received')
    <2>1. CASE Size(q) + c.len <= LogCap
      <3>1. rows' = Appended(c) /\ LogOf(received') = Append(LogOf(q), c)
        BY <1>1, <1>3, <1>4, <2>1
      <3> QED
        BY <1>1, <1>2, <3>1 DEF Appended
    <2>2. CASE ~ (Size(q) + c.len <= LogCap)
      <3>1. Size(q) + c.len > LogCap
        BY <1>2, <2>2, OutputAssumption
      <3>2. rows' = rows /\ LogOf(received') = LogOf(q)
        BY <1>1, <1>3, <1>4, <2>2, <3>1
      <3> QED
        BY <1>1, <1>2, <3>2
    <2> QED
      BY <2>1, <2>2
  <1> QED
    BY <1>5, <1>6 DEF LogInv

LEMMA LogStep == OutputTypeOK /\ LogInv /\ [Next]_outputVars => LogInv'
  <1> SUFFICES ASSUME OutputTypeOK, LogInv, [Next]_outputVars PROVE LogInv'
    OBVIOUS
  <1> USE DEF LogInv, taskVars, dbVars
  <1>1. ASSUME UNCHANGED <<taskVars, dbVars>> PROVE LogInv'
    BY <1>1
  <1>2. ASSUME NEW s \in Streams, Write(s) \/ Pump(s) \/ PumpLine(s) \/ PumpEnds(s)
        PROVE  LogInv'
    <2> HIDE DEF LogInv
    <2> QED
      BY <1>1, <1>2 DEF Write, Pump, PumpLine, PumpEnds
  <1>3. CASE \/ ExitChild \/ BehindEnds \/ OutExit \/ OutKill \/ OutTimeout \/ OutDone
             \/ Kill \/ TailStep \/ TailCloses \/ UNCHANGED outputVars
    <2> HIDE DEF LogInv
    <2> QED
      BY <1>1, <1>3 DEF ExitChild, BehindEnds, OutExit, OutKill, OutTimeout, OutDone, Kill,
         TailStep, Fetch, Look, Poll, TailCloses, TailMoves, outputVars
  <1>4. CASE Persist
    <2> HIDE DEF LogInv
    <2> QED
      BY <1>4, LogPersist
  <1>5. CASE Save
    <2>1. row' = "absent" <=> row = "absent"
      BY <1>5 DEF Save, RowSet, Verdict
    <2> QED
      BY <1>5, <2>1 DEF Save
  <1>6. CASE ChangeState
    <2>1. row # "absent" /\ row' # "absent"
      BY <1>6, OutputAssumption DEF ChangeState, Terminal
    <2> QED
      BY <1>6, <2>1 DEF ChangeState
  <1>7. CASE DeleteJob
    BY <1>7 DEF DeleteJob
  <1> QED
    BY <1>2, <1>3, <1>4, <1>5, <1>6, <1>7 DEF Next, PumpStep

LEMMA TailFetch == OutputTypeOK /\ LogInv /\ TailInv /\ Fetch => TailInv'
  <1> SUFFICES ASSUME OutputTypeOK, LogInv, TailInv, Fetch PROVE TailInv'
    OBVIOUS
  <1> DEFINE n == tail.next
             page == Page(n)
  <1>1. n \in Nat /\ from \in Nat /\ rows \in Seq(Chunks) /\ received \in Seq(Chunks)
        /\ got \in Seq(Chunks)
    BY OutputAssumption DEF OutputTypeOK
  <1>2. got' = got \o page /\ tail'.next = (IF page = << >> THEN n ELSE n + Len(page))
        /\ UNCHANGED <<from, received>>
    BY DEF Fetch, TailMoves, NextSeq, taskVars
  <1>3. /\ page \in Seq(Chunks)
        /\ page # << >> => n + Len(page) <= Len(rows)
        /\ \A i \in 1 .. Len(page) : page[i] = rows[n + i]
    BY <1>1, PageIs
  <1> HIDE DEF page
  <1>4. CASE page = << >>
    <2>1. got' = got /\ tail'.next = n
      BY <1>1, <1>2, <1>4
    <2> QED
      BY <1>2, <2>1 DEF TailInv
  <1>5. CASE page # << >>
    <2>1. /\ Len(page) \in Nat \ {0} /\ Len(got) \in Nat /\ Len(got') = Len(got) + Len(page)
          /\ \A i \in 1 .. Len(got) : got'[i] = got[i]
          /\ \A i \in 1 .. Len(page) : got'[Len(got) + i] = page[i]
      BY <1>1, <1>2, <1>3, <1>5
    <2>2. Len(rows) <= KeptOf(received) /\ \A i \in 1 .. Len(rows) : rows[i] = received[i]
      <3>1. CASE row = "absent"
        BY <1>1, <3>1, KeptIsMax DEF LogInv
      <3>2. CASE row # "absent"
        BY <1>1, <3>2, LogIs, KeptIsMax DEF LogInv
      <3> QED
        BY <3>1, <3>2
    <2>3. KeptOf(received) \in Nat /\ Len(rows) \in Nat
      BY <1>1, KeptIsMax
    <2>4. n >= from /\ Len(got) = n - from /\ tail'.next = n + Len(page)
      BY <1>2, <1>5 DEF TailInv
    <2>5. ASSUME NEW i \in 1 .. Len(got') PROVE got'[i] = received[from + i]
      <3>1. CASE i <= Len(got)
        BY <2>1, <3>1 DEF TailInv
      <3>2. CASE i > Len(got)
        <4> DEFINE j == i - Len(got)
        <4>1. j \in 1 .. Len(page) /\ i = Len(got) + j /\ n + j = from + i
          <5>1. i \in 1 .. Len(got) + Len(page) /\ Len(got) \in Nat /\ Len(page) \in Nat
            BY <2>1
          <5>2. n \in Nat /\ from \in Nat /\ Len(got) = n - from
            BY <1>1, <2>4
          <5> HIDE DEF n
          <5> QED
            BY <3>2, <5>1, <5>2
        <4> HIDE DEF j
        <4>2. got'[i] = rows[n + j]
          BY <1>3, <2>1, <4>1
        <4>3. n + j \in 1 .. Len(rows)
          BY <1>1, <1>3, <1>5, <2>1, <2>3, <4>1
        <4> QED
          BY <2>2, <4>1, <4>2, <4>3
      <3> QED
        BY <2>1, <3>1, <3>2
    <2>6. tail'.next >= from /\ Len(got') = tail'.next - from /\ tail'.next <= KeptOf(received)
      BY <1>1, <1>3, <1>5, <2>1, <2>2, <2>3, <2>4
    <2> QED
      BY <1>2, <2>5, <2>6 DEF TailInv
  <1> QED
    BY <1>4, <1>5

LEMMA TailSafeStep == OutputTypeOK /\ LogInv /\ TailInv /\ [Next]_outputVars => TailInv'
  <1> SUFFICES ASSUME OutputTypeOK, LogInv, TailInv, [Next]_outputVars PROVE TailInv'
    OBVIOUS
  <1>1. ASSUME UNCHANGED <<tail.next, from, got, received>> PROVE TailInv'
    BY <1>1 DEF TailInv
  <1> USE DEF tailVars, taskVars
  <1>2. ASSUME NEW s \in Streams, Write(s) \/ Pump(s) \/ PumpLine(s) \/ PumpEnds(s)
        PROVE  TailInv'
    BY <1>1, <1>2 DEF Write, Pump, PumpLine, PumpEnds
  <1>3. CASE \/ ExitChild \/ BehindEnds \/ OutExit \/ OutKill \/ OutTimeout \/ OutDone
             \/ Kill \/ Save \/ ChangeState \/ DeleteJob \/ UNCHANGED outputVars
    BY <1>1, <1>3 DEF ExitChild, BehindEnds, OutExit, OutKill, OutTimeout, OutDone, Kill,
       Save, ChangeState, DeleteJob, outputVars
  <1>4. CASE Look \/ Poll \/ TailCloses
    <2>1. \E a \in {"fetch", "sleep", "ended", "closed"} : tail' = [tail EXCEPT !.at = a]
      BY <1>4 DEF Look, Poll, TailCloses
    <2>2. tail'.next = tail.next
      BY <2>1 DEF OutputTypeOK
    <2> QED
      BY <1>1, <1>4, <2>2 DEF Look, Poll, TailCloses, TailMoves
  <1>5. CASE Fetch
    BY <1>5, TailFetch
  <1>6. CASE Persist
    <2> DEFINE c == Head(chan)
    <2>1. /\ c \in Chunks /\ received \in Seq(Chunks) /\ received' = Append(received, c)
          /\ UNCHANGED <<tail, from, got>>
          /\ tail.next \in Nat /\ from \in Nat /\ Len(got) \in Nat
      BY <1>6, OutputAssumption DEF OutputTypeOK, Persist
    <2> HIDE DEF c
    <2>2. /\ KeptOf(received') >= KeptOf(received)
          /\ KeptOf(received) \in Nat /\ KeptOf(received) <= Len(received)
          /\ KeptOf(received') \in Nat
      <3>1. received' \in Seq(Chunks)
        BY <2>1
      <3>2. KeptOf(received) \in 0 .. Len(received) /\ KeptOf(received') \in 0 .. Len(received')
        BY <2>1, <3>1, KeptIsMax
      <3> QED
        BY <2>1, <3>1, <3>2, LogAppend
    <2>3. tail.next > from => tail.next <= KeptOf(received')
      BY <2>1, <2>2 DEF TailInv
    <2>4. ASSUME NEW i \in 1 .. Len(got) PROVE got[i] = received'[from + i]
      <3>1. got[i] = received[from + i] /\ Len(got) = tail.next - from
            /\ (tail.next > from => tail.next <= KeptOf(received))
        BY DEF TailInv
      <3>2. from + i \in 1 .. Len(received)
        <4>1. tail.next > from /\ i <= tail.next - from /\ i >= 1
          BY <2>1, <3>1
        <4>2. tail.next <= KeptOf(received)
          BY <3>1, <4>1
        <4>3. Len(received) \in Nat /\ i \in Nat /\ from \in Nat /\ tail.next \in Nat
              /\ KeptOf(received) \in Nat /\ KeptOf(received) <= Len(received)
          BY <2>1, <2>2
        <4> QED
          BY <4>1, <4>2, <4>3
      <3> QED
        BY <2>1, <3>1, <3>2
    <2> QED
      BY <2>1, <2>3, <2>4 DEF TailInv
  <1> QED
    BY <1>2, <1>3, <1>4, <1>5, <1>6 DEF Next, PumpStep, TailStep

LEMMA LogInvariant == SafeSpec => []LogInv
  <1>1. Init => LogInv
    <2> SUFFICES ASSUME Init PROVE LogInv
      OBVIOUS
    <2>1. << >> \in Seq(Chunks) /\ Lens(<< >>) = << >>
      BY DEF Lens
    <2>2. Size(<< >>) = 0
      <3>1. << >> \in Seq(Int)
        OBVIOUS
      <3>2. Sum(<< >>)[0] = 0
        BY <3>1, SumDef
      <3> QED
        BY <2>1, <3>2 DEF Size
    <2>3. LogOf(<< >>) = << >>
      <3> DEFINE e == << >>
      <3>1. e \in Seq(Chunks) /\ Size(e) = 0
        BY <2>1, <2>2
      <3> HIDE DEF e
      <3>2. LogOf(e) = e
        BY <3>1, LogIs, OutputAssumption
      <3> QED
        BY <3>2 DEF e
    <2> QED
      BY <2>2, <2>3, OutputAssumption DEF Init, LogInv
  <1> QED
    BY <1>1, LogStep, OutputTypeCorrect, PTL DEF SafeSpec

(* The log of a run is the longest prefix of its output that fits in the   *)
(* cap, and "truncated" tells whether something is missing.                *)
THEOREM RowsArePrefixSafe == SafeSpec => []RowsArePrefix
  <1>2. OutputTypeOK /\ LogInv => RowsArePrefix
    <2> SUFFICES ASSUME OutputTypeOK, LogInv PROVE RowsArePrefix
      OBVIOUS
    <2>1. received \in Seq(Chunks)
      BY DEF OutputTypeOK
    <2>2. Kept = KeptOf(received) /\ Log = LogOf(received)
      BY DEF Kept, KeptOf, Log, LogOf, Total
    <2>3. KeptOf(received) < Len(received) <=> Size(received) > LogCap
      BY <2>1, LogIs
    <2> QED
      BY <2>2, <2>3 DEF RowsArePrefix, LogInv
  <1> QED
    BY <1>2, LogInvariant, OutputTypeCorrect, PTL

(* A tail sends the rows of the log from from_seq on, each once, in order. *)
THEOREM TailInOrderSafe == SafeSpec => []TailInOrder
  <1>1. Init => TailInv
    <2> SUFFICES ASSUME Init PROVE TailInv
      OBVIOUS
    <2>1. tail.next = from /\ got = << >> /\ from \in Nat
      BY OutputAssumption DEF Init
    <2> QED
      BY <2>1 DEF TailInv
  <1>2. OutputTypeOK /\ TailInv => TailInOrder
    <2> SUFFICES ASSUME OutputTypeOK, TailInv, tail.next > from
                 PROVE  got = SubSeq(Log, from + 1, tail.next)
      BY DEF TailInOrder, TailInv
    <2> DEFINE log == LogOf(received)
               n == tail.next
    <2>1. /\ received \in Seq(Chunks) /\ got \in Seq(Chunks) /\ n \in Nat /\ from \in Nat
          /\ Len(got) = n - from /\ n <= KeptOf(received)
          /\ \A i \in 1 .. Len(got) : got[i] = received[from + i]
      BY OutputAssumption DEF OutputTypeOK, TailInv
    <2>2. /\ log \in Seq(Chunks) /\ Len(log) = KeptOf(received) /\ KeptOf(received) \in Nat
          /\ \A i \in 1 .. KeptOf(received) : log[i] = received[i]
      <3>1. received \in Seq(Chunks) /\ Len(received) \in Nat
        BY <2>1
      <3>2. KeptOf(received) \in 0 .. Len(received)
        BY <3>1, KeptIsMax
      <3>3. /\ log \in Seq(Chunks) /\ Len(log) = KeptOf(received)
            /\ \A i \in 1 .. KeptOf(received) : log[i] = received[i]
        BY <3>1, LogIs
      <3> QED
        BY <3>1, <3>2, <3>3
    <2> HIDE DEF log
    <2>3. \A i \in from + 1 .. n : log[i] \in Chunks
      BY <2>1, <2>2
    <2> DEFINE part == SubSeq(log, from + 1, n)
    <2>4. /\ part \in Seq(Chunks)
          /\ Len(part) = (IF from + 1 <= n THEN n - (from + 1) + 1 ELSE 0)
          /\ \A i \in 1 .. n - (from + 1) + 1 : part[i] = log[from + 1 + i - 1]
      <3>1. from + 1 \in Int /\ n \in Int
        BY <2>1
      <3> QED
        BY <2>3, <3>1, SubSeqProperties
    <2> HIDE DEF part
    <2>5. Len(part) = Len(got) /\ Len(got) \in Nat
      BY <2>1, <2>4
    <2>6. ASSUME NEW i \in 1 .. Len(got) PROVE got[i] = part[i]
      <3>1. from + 1 + i - 1 = from + i /\ from + i \in 1 .. KeptOf(received)
            /\ i \in 1 .. n - (from + 1) + 1
        BY <2>1, <2>2, <2>5
      <3> QED
        BY <2>1, <2>2, <2>4, <3>1
    <2>7. got = part
      <3>1. got \in Seq(Chunks) /\ part \in Seq(Chunks)
        BY <2>1, <2>4
      <3> QED
        BY <2>5, <2>6, <3>1
    <2> QED
      BY <2>7 DEF part, log, Log, LogOf, Kept, KeptOf, Total
  <1> QED
    BY <1>1, <1>2, LogInvariant, TailSafeStep, OutputTypeCorrect, PTL DEF SafeSpec

-----------------------------------------------------------------------------
(* What the pumps have read is in the channel or with the task.            *)

Sent        == received \o chan
Units(s, q) == Sum(LensOf(s, q))[Len(q)]

StreamInv(s) ==
    /\ read[s] = Units(s, Sent)
    /\ read[s] <= Len(wrote[s])
    /\ ByLines(s) => \A i \in 1 .. read[s] : wrote[s][i].says # "broken"
    /\ pump[s] = "ended" =>
          IF read[s] = Len(wrote[s]) THEN ~ Open
          ELSE ByLines(s) /\ wrote[s][read[s] + 1].says = "broken"

PumpInv == \A s \in Streams : StreamInv(s)
SaveInv == saved => PumpsEnded /\ chan = << >>

LEMMA LensOfType ==
    ASSUME NEW s, NEW q \in Seq(Chunks)
    PROVE  /\ LensOf(s, q) \in Seq(Nat) /\ Len(LensOf(s, q)) = Len(q)
           /\ \A i \in 1 .. Len(q) : LensOf(s, q)[i] = IF q[i].of = s THEN q[i].len ELSE 0
  <1>1. \A i \in 1 .. Len(q) : q[i].len \in Nat
    BY ChunkLen
  <1>2. LensOf(s, q) = [i \in 1 .. Len(q) |-> IF q[i].of = s THEN q[i].len ELSE 0]
    BY DEF LensOf
  <1> QED
    BY <1>1, <1>2

LEMMA UnitsAppend ==
    ASSUME NEW s, NEW q \in Seq(Chunks), NEW c \in Chunks
    PROVE  Units(s, Append(q, c)) = Units(s, q) + IF c.of = s THEN c.len ELSE 0
  <1> DEFINE p == Append(q, c)
             v == LensOf(s, p)
             w == LensOf(s, q)
             n == IF c.of = s THEN c.len ELSE 0
  <1>1. p \in Seq(Chunks) /\ Len(p) = Len(q) + 1 /\ p[Len(q) + 1] = c
        /\ \A i \in 1 .. Len(q) : p[i] = q[i]
    OBVIOUS
  <1> HIDE DEF p
  <1>2. /\ w \in Seq(Nat) /\ Len(w) = Len(q)
        /\ \A i \in 1 .. Len(q) : w[i] = IF q[i].of = s THEN q[i].len ELSE 0
    BY LensOfType
  <1>3. /\ v \in Seq(Nat) /\ Len(v) = Len(p)
        /\ \A i \in 1 .. Len(p) : v[i] = IF p[i].of = s THEN p[i].len ELSE 0
    BY <1>1, LensOfType
  <1>4. Units(s, q) = Sum(w)[Len(q)] /\ Units(s, p) = Sum(v)[Len(p)]
    BY DEF Units
  <1> HIDE DEF v, w
  <1>5. /\ Len(v) = Len(w) + 1 /\ v[Len(v)] = n
        /\ \A i \in 1 .. Len(w) : v[i] = w[i]
    <2>1. Len(q) \in Nat
      OBVIOUS
    <2>2. Len(p) \in 1 .. Len(p) /\ \A i \in 1 .. Len(q) : i \in 1 .. Len(p)
      BY <1>1, <2>1
    <2>3. v[Len(p)] = n
      BY <1>1, <1>3, <2>2
    <2>4. ASSUME NEW i \in 1 .. Len(q) PROVE v[i] = w[i]
      BY <1>1, <1>2, <1>3, <2>2
    <2> QED
      BY <1>1, <1>2, <1>3, <2>3, <2>4
  <1>6. Sum(v)[Len(v)] = Sum(w)[Len(w)] + v[Len(v)]
    BY <1>2, <1>3, <1>5, SumMore
  <1> QED
    BY <1>2, <1>3, <1>4, <1>5, <1>6 DEF p

(* Taking a chunk from the channel loses nothing.                          *)
LEMMA HandOver ==
    ASSUME NEW q \in Seq(Chunks), NEW r \in Seq(Chunks), r # << >>
    PROVE  Append(q, Head(r)) \o Tail(r) = q \o r
  <1> DEFINE h == Head(r)
             t == Tail(r)
             one == <<h>>
  <1>1. h \in Chunks /\ h = r[1] /\ t \in Seq(Chunks) /\ one \in Seq(Chunks)
    BY HeadTailProperties
  <1>2. one \o t = r
    <2>1. Len(r) \in Nat \ {0}
      BY EmptySeq
    <2>2. 1 \in 1 .. Len(r) /\ Len(r) \in 1 .. Len(r)
      BY <2>1
    <2>3. SubSeq(r, 1, Len(r)) = <<r[1]>> \o SubSeq(r, 1 + 1, Len(r))
      BY <2>2, SubSeqRecursiveFirst
    <2>4. SubSeq(r, 1, Len(r)) = r /\ t = SubSeq(r, 2, Len(r))
      BY SubSeqFull, TailIsSubSeq
    <2>5. 1 + 1 = 2
      OBVIOUS
    <2> QED
      BY <1>1, <2>3, <2>4, <2>5, Zenon
  <1>3. Append(q, h) = q \o one
    BY <1>1, AppendIsConcat
  <1>4. (q \o one) \o t = q \o (one \o t)
    <2> HIDE DEF one, t
    <2>1. one \in Seq(Chunks) /\ t \in Seq(Chunks) /\ q \in Seq(Chunks)
      BY <1>1
    <2> QED
      BY <2>1, ConcatAssociative
  <1> QED
    BY <1>2, <1>3, <1>4, Zenon

(* A step that reads nothing from s and opens no pipe.                     *)
LEMMA StreamKept ==
    ASSUME NEW s \in Streams, StreamInv(s), plugin' = plugin, read'[s] = read[s],
           wrote'[s] = wrote[s], pump'[s] = pump[s], Sent' = Sent, Open' => Open
    PROVE  StreamInv(s)'
  <1>1. ByLines(s)' <=> ByLines(s)
    BY DEF ByLines
  <1>2. Units(s, Sent)' = Units(s, Sent)
    OBVIOUS
  <1> QED
    BY <1>1, <1>2 DEF StreamInv

LEMMA StreamSend ==
    ASSUME OutputTypeOK, NEW s \in Streams, NEW n \in 1 .. ReadMax, Send(s, n),
           UNCHANGED <<childVars, pump, received>>, pump[s] = "reading",
           ByLines(s) => n = 1 /\ wrote[s][read[s] + 1].says # "broken",
           NEW t \in Streams, StreamInv(t)
    PROVE  StreamInv(t)'
  <1> USE DEF childVars
  <1>1. /\ Sent \in Seq(Chunks) /\ Chunk(s, n) \in Chunks
        /\ Sent' = Append(Sent, Chunk(s, n))
    <2>1. chan \in Seq(Chunks) /\ received \in Seq(Chunks) /\ Chunk(s, n) \in Chunks
      BY DEF OutputTypeOK, Chunk, Chunks
    <2>2. chan' = Append(chan, Chunk(s, n)) /\ received' = received
      BY DEF Send
    <2> QED
      BY <2>1, <2>2 DEF Sent
  <1>2. Units(t, Sent') = Units(t, Sent) + IF s = t THEN n ELSE 0
    <2>1. Chunk(s, n).of = s /\ Chunk(s, n).len = n
      BY DEF Chunk
    <2> QED
      BY <1>1, <2>1, UnitsAppend
  <1>3. /\ read[s] \in Nat /\ read' = [read EXCEPT ![s] = @ + n]
        /\ read[s] + n <= Len(wrote[s]) /\ Len(wrote[s]) \in Nat /\ n \in Nat
        /\ read \in [Streams -> Nat]
    <2>1. n \in Nat
      BY OutputAssumption
    <2>2. read \in [Streams -> Nat] /\ wrote[s] \in Seq(Lines)
      BY DEF OutputTypeOK
    <2>3. read' = [read EXCEPT ![s] = @ + n] /\ read[s] + n <= Len(wrote[s])
      BY DEF Send
    <2> QED
      BY <2>1, <2>2, <2>3
  <1>4. ByLines(t)' <=> ByLines(t)
    BY DEF ByLines
  <1>5. CASE t = s
    <2>1. read'[t] = read[s] + n
      BY <1>3, <1>5
    <2>2. read'[t] = Units(t, Sent)'
      BY <1>2, <1>5, <2>1 DEF StreamInv
    <2>3. ASSUME ByLines(t), NEW i \in 1 .. read'[t] PROVE wrote[t][i].says # "broken"
      <3>1. n = 1 /\ wrote[s][read[s] + 1].says # "broken"
        BY <1>5, <2>3
      <3>2. i \in 1 .. read[s] \/ i = read[s] + 1
        BY <1>3, <2>1, <3>1
      <3> QED
        BY <1>5, <2>3, <3>1, <3>2 DEF StreamInv
    <2> QED
      BY <1>3, <1>4, <1>5, <2>1, <2>2, <2>3 DEF StreamInv
  <1>6. CASE t # s
    <2>1. read'[t] = read[t] /\ read[t] \in Nat
      BY <1>3, <1>6
    <2>2. Units(t, Sent') = Units(t, Sent)
      BY <1>2, <1>6, <2>1 DEF StreamInv
    <2>3. Open' <=> Open
      BY DEF Open
    <2> QED
      BY <1>4, <2>1, <2>2, <2>3 DEF StreamInv
  <1> QED
    BY <1>5, <1>6

LEMMA PumpSafeStep == OutputTypeOK /\ PumpInv /\ [Next]_outputVars => PumpInv'
  <1> SUFFICES ASSUME OutputTypeOK, PumpInv, [Next]_outputVars, NEW t \in Streams
               PROVE  StreamInv(t)'
    BY DEF PumpInv
  <1>0. StreamInv(t)
    BY DEF PumpInv
  <1> USE DEF childVars, pumpVars, outVars, taskVars, dbVars, tailVars
  <1>1. ASSUME NEW s \in Streams, Write(s) PROVE StreamInv(t)'
    <2>1. /\ Open /\ UNCHANGED <<plugin, child, behind, read, pump, received, chan>>
          /\ \E l : wrote' = [wrote EXCEPT ![s] = Append(@, l)]
      BY <1>1 DEF Write
    <2>2. Sent' = Sent /\ Open' = Open
      BY <2>1 DEF Sent, Open
    <2>3. CASE t # s
      <3>1. wrote'[t] = wrote[t]
        BY <2>1, <2>3 DEF OutputTypeOK
      <3> QED
        BY <1>0, <2>1, <2>2, <3>1, StreamKept
    <2>4. CASE t = s
      <3>1. PICK l \in Lines : wrote' = [wrote EXCEPT ![s] = Append(@, l)]
        BY <1>1 DEF Write, Lines
      <3>2. /\ wrote[t] \in Seq(Lines) /\ wrote'[t] = Append(wrote[t], l)
            /\ read[t] \in Nat /\ read'[t] = read[t]
        BY <2>1, <2>4, <3>1 DEF OutputTypeOK
      <3>3. /\ Len(wrote'[t]) = Len(wrote[t]) + 1 /\ Len(wrote[t]) \in Nat
            /\ \A i \in 1 .. Len(wrote[t]) : wrote'[t][i] = wrote[t][i]
        BY <3>2
      <3>4. ByLines(t)' <=> ByLines(t)
        BY <2>1 DEF ByLines
      <3>5. Units(t, Sent)' = Units(t, Sent)
        BY <2>2
      <3>6. /\ read[t] = Units(t, Sent) /\ read[t] <= Len(wrote[t])
            /\ ByLines(t) => \A i \in 1 .. read[t] : wrote[t][i].says # "broken"
            /\ pump[t] = "ended" => /\ read[t] # Len(wrote[t]) /\ ByLines(t)
                                    /\ wrote[t][read[t] + 1].says = "broken"
        BY <1>0, <2>1 DEF StreamInv
      <3>7. ByLines(t) => \A i \in 1 .. read[t] : wrote'[t][i].says # "broken"
        <4>1. \A i \in 1 .. read[t] : i \in 1 .. Len(wrote[t])
          BY <3>2, <3>3, <3>6
        <4> QED
          BY <3>3, <3>6, <4>1
      <3>8. pump[t] = "ended" => wrote'[t][read[t] + 1].says = "broken"
        <4>1. read[t] # Len(wrote[t]) => read[t] + 1 \in 1 .. Len(wrote[t])
          BY <3>2, <3>3, <3>6
        <4> QED
          BY <3>3, <3>6, <4>1
      <3>9. read[t] <= Len(wrote'[t]) /\ read[t] # Len(wrote'[t])
        BY <3>2, <3>3, <3>6
      <3> QED
        BY <2>1, <3>2, <3>4, <3>5, <3>6, <3>7, <3>8, <3>9 DEF StreamInv
    <2> QED
      BY <2>3, <2>4
  <1>2. CASE ExitChild \/ BehindEnds \/ OutKill \/ OutTimeout
    <2>1. UNCHANGED <<plugin, wrote, read, pump, received, chan>>
      BY <1>2 DEF ExitChild, BehindEnds, OutKill, OutTimeout
    <2>2. Open' => Open
      BY <1>2 DEF ExitChild, BehindEnds, OutKill, OutTimeout, Stopped, Open, Running
    <2>3. Sent' = Sent
      BY <2>1 DEF Sent
    <2> QED
      BY <1>0, <2>1, <2>2, <2>3, StreamKept
  <1>3. ASSUME NEW s \in Streams, Pump(s) PROVE StreamInv(t)'
    <2>1. PICK n \in 1 .. ReadMax : Send(s, n)
      BY <1>3 DEF Pump
    <2> QED
      BY <1>0, <1>3, <2>1, StreamSend DEF Pump
  <1>4. ASSUME NEW s \in Streams, PumpLine(s) PROVE StreamInv(t)'
    <2>1. Send(s, 1) /\ 1 \in 1 .. ReadMax /\ read'[s] = read[s] + 1
      BY <1>4, OutputAssumption DEF PumpLine, Send, OutputTypeOK
    <2>2. wrote[s][read[s] + 1].says # "broken"
      BY <1>4, <2>1 DEF PumpLine
    <2> QED
      BY <1>0, <1>4, <2>1, <2>2, StreamSend DEF PumpLine
  <1>5. ASSUME NEW s \in Streams, PumpEnds(s) PROVE StreamInv(t)'
    <2>1. UNCHANGED <<plugin, child, behind, wrote, read, received, chan>>
      BY <1>5 DEF PumpEnds
    <2>2. Sent' = Sent /\ Open' = Open
      BY <2>1 DEF Sent, Open
    <2>3. CASE t # s
      <3>1. pump'[t] = pump[t]
        BY <1>5, <2>3 DEF PumpEnds, OutputTypeOK
      <3> QED
        BY <1>0, <2>1, <2>2, <3>1, StreamKept
    <2>4. CASE t = s
      <3>1. ByLines(t)' <=> ByLines(t)
        BY <2>1 DEF ByLines
      <3>2. Units(t, Sent)' = Units(t, Sent)
        BY <2>2
      <3> QED
        BY <1>0, <1>5, <2>1, <2>2, <2>4, <3>1, <3>2 DEF StreamInv, PumpEnds
    <2> QED
      BY <2>3, <2>4
  <1>6. CASE Persist
    <2>1. UNCHANGED <<plugin, child, behind, wrote, read, pump>>
      BY <1>6 DEF Persist
    <2>2. Open' = Open
      BY <2>1 DEF Open
    <2>3. Sent' = Sent
      <3>1. /\ chan \in Seq(Chunks) /\ received \in Seq(Chunks) /\ chan # << >>
            /\ chan' = Tail(chan) /\ received' = Append(received, Head(chan))
        BY <1>6 DEF Persist, OutputTypeOK
      <3>2. Append(received, Head(chan)) \o Tail(chan) = received \o chan
        BY <3>1, HandOver
      <3> QED
        BY <3>1, <3>2 DEF Sent
    <2> QED
      BY <1>0, <2>1, <2>2, <2>3, StreamKept
  <1>7. CASE \/ OutExit \/ OutDone \/ Save \/ Kill \/ ChangeState \/ DeleteJob
             \/ TailStep \/ TailCloses \/ UNCHANGED outputVars
    <2>1. UNCHANGED <<plugin, child, behind, wrote, read, pump, received, chan>>
      BY <1>7 DEF OutExit, OutDone, Save, Kill, ChangeState, DeleteJob, TailStep, Fetch, Look,
         Poll, TailCloses, TailMoves, outputVars
    <2>2. Sent' = Sent /\ Open' = Open
      BY <2>1 DEF Sent, Open
    <2> QED
      BY <1>0, <2>1, <2>2, StreamKept
  <1> QED
    BY <1>1, <1>2, <1>3, <1>4, <1>5, <1>6, <1>7 DEF Next, PumpStep

LEMMA SaveStep == SaveInv /\ [Next]_outputVars => SaveInv'
  <1> SUFFICES ASSUME SaveInv, [Next]_outputVars PROVE SaveInv'
    OBVIOUS
  <1> USE DEF SaveInv, PumpsEnded, childVars, pumpVars, outVars, taskVars, dbVars, tailVars
  <1>1. ASSUME NEW s \in Streams, Write(s) PROVE SaveInv'
    BY <1>1 DEF Write
  <1>2. ASSUME NEW s \in Streams, pump[s] = "reading", saved' = saved PROVE SaveInv'
    BY <1>2
  <1>3. ASSUME NEW s \in Streams, Pump(s) \/ PumpLine(s) \/ PumpEnds(s) PROVE SaveInv'
    BY <1>2, <1>3 DEF Pump, PumpLine, PumpEnds
  <1>4. CASE ExitChild \/ BehindEnds \/ OutExit \/ OutKill \/ OutTimeout \/ OutDone
    BY <1>4 DEF ExitChild, BehindEnds, OutExit, OutKill, OutTimeout, OutDone
  <1>5. CASE Persist \/ Save
    BY <1>5 DEF Persist, Save
  <1>6. CASE Kill \/ ChangeState \/ DeleteJob \/ TailStep \/ TailCloses \/ UNCHANGED outputVars
    BY <1>6 DEF Kill, ChangeState, DeleteJob, TailStep, Fetch, Look, Poll, TailCloses, TailMoves,
       outputVars
  <1> QED
    BY <1>1, <1>3, <1>4, <1>5, <1>6 DEF Next, PumpStep

LEMMA PumpInvariant == SafeSpec => [](PumpInv /\ SaveInv)
  <1>1. Init => PumpInv /\ SaveInv
    <2> SUFFICES ASSUME Init PROVE PumpInv /\ SaveInv
      OBVIOUS
    <2>1. Sent = << >>
      BY DEF Init, Sent
    <2>2. ASSUME NEW s \in Streams PROVE Units(s, << >>) = 0
      <3> DEFINE e == << >>
                 w == LensOf(s, e)
      <3>1. e \in Seq(Chunks) /\ Len(e) = 0
        OBVIOUS
      <3> HIDE DEF e
      <3>2. w \in Seq(Nat) /\ Len(w) = 0
        BY <3>1, LensOfType
      <3>3. Units(s, e) = Sum(w)[0]
        BY <3>1 DEF Units
      <3> HIDE DEF w
      <3>4. w \in Seq(Int)
        BY <3>2
      <3>5. Units(s, e) = 0
        BY <3>3, <3>4, SumDef
      <3> QED
        BY <3>5 DEF e
    <2>3. ASSUME NEW s \in Streams PROVE StreamInv(s)
      <3>1. read[s] = 0 /\ wrote[s] = << >> /\ pump[s] = "reading"
        BY DEF Init
      <3> QED
        BY <2>1, <2>2, <3>1 DEF StreamInv
    <2> QED
      BY <2>3 DEF Init, PumpInv, SaveInv
  <1> QED
    BY <1>1, PumpSafeStep, SaveStep, OutputTypeCorrect, PTL DEF SafeSpec

(* A pump that has ended has read all that could be read.                  *)
LEMMA ReadableIs ==
    ASSUME OutputTypeOK, NEW s \in Streams, StreamInv(s), pump[s] = "ended"
    PROVE  Readable(s) = read[s]
  <1>1. /\ read[s] \in Nat /\ Len(wrote[s]) \in Nat /\ read[s] <= Len(wrote[s])
        /\ ByLines(s) => \A i \in 1 .. read[s] : wrote[s][i].says # "broken"
        /\ read[s] # Len(wrote[s]) => ByLines(s) /\ wrote[s][read[s] + 1].says = "broken"
    <2>1. read[s] \in Nat /\ Len(wrote[s]) \in Nat
      BY DEF OutputTypeOK
    <2>2. /\ read[s] <= Len(wrote[s])
          /\ ByLines(s) => \A i \in 1 .. read[s] : wrote[s][i].says # "broken"
          /\ read[s] # Len(wrote[s]) => ByLines(s) /\ wrote[s][read[s] + 1].says = "broken"
      BY DEF StreamInv
    <2> QED
      BY <2>1, <2>2
  <1>2. CASE read[s] = Len(wrote[s])
    <2>1. Garbled(s) = {}
      BY <1>1, <1>2 DEF Garbled
    <2> QED
      BY <1>2, <2>1 DEF Readable
  <1>3. CASE read[s] # Len(wrote[s])
    <2> DEFINE m == read[s] + 1
               G == Garbled(s)
    <2>1. G \in SUBSET Int /\ m \in G
      BY <1>1, <1>3 DEF Garbled
    <2>2. \A k \in G : m <= k
      BY <1>1, <1>3 DEF Garbled
    <2> HIDE DEF G
    <2>3. Min(G) = m
      <3> HIDE DEF m
      <3> QED
        BY <2>1, <2>2, MinIs
    <2>4. Readable(s) = m - 1
      BY <2>1, <2>3 DEF Readable, G
    <2> QED
      BY <1>1, <2>4
  <1> QED
    BY <1>2, <1>3

(* Once the final row is written, the task has had all of the output (of a *)
(* plugin's stdout, all before the first line that is not UTF-8): a kill   *)
(* or a timeout loses nothing, however small the channel.                  *)
THEOREM LogCompleteSafe == SafeSpec => []LogComplete
  <1>1. OutputTypeOK /\ PumpInv /\ SaveInv => LogComplete
    <2> SUFFICES ASSUME OutputTypeOK, PumpInv, SaveInv, saved, NEW s \in Streams
                 PROVE  Readable(s) = Units(s, received)
      BY DEF LogComplete, Units
    <2>1. StreamInv(s) /\ pump[s] = "ended" /\ chan = << >> /\ received \in Seq(Chunks)
      BY DEF PumpInv, SaveInv, PumpsEnded, OutputTypeOK
    <2>2. Sent = received
      BY <2>1, ConcatEmptySeq DEF Sent
    <2> QED
      BY <2>1, <2>2, ReadableIs DEF StreamInv
  <1> QED
    BY <1>1, PumpInvariant, OutputTypeCorrect, PTL

-----------------------------------------------------------------------------
(* What a plugin said.                                                     *)

Coding(w, i) == w[i].says = "complete" /\ w[i].code # NoCode

(* The code of the last line that has one, 0 if none of the complete       *)
(* events has one, no code if there was no complete event.                 *)
SlotIs(c, w, n) ==
    \/ \E i \in 1 .. n : /\ Coding(w, i) /\ c = w[i].code
                          /\ \A k \in i + 1 .. n : ~ Coding(w, k)
    \/ /\ \A i \in 1 .. n : ~ Coding(w, i)
       /\ c = IF \E i \in 1 .. n : w[i].says = "complete" THEN 0 ELSE NoCode

Completed(w, n) == \E i \in 1 .. n : w[i].says \in {"complete", "odd"}

ToldInv == plugin => /\ complete <=> Completed(wrote["out"], read["out"])
                     /\ SlotIs(slot, wrote["out"], read["out"])

(* The outcome is what the child and the slots said, and they say no more. *)
OutcomeInv ==
    /\ out = "exited" \/ outcome.kind = "exit" => child # Running
    /\ outcome.kind = "exit" => out = "done" /\ PumpsEnded /\ outcome.code = ExitCode

LEMMA ToldMore ==
    ASSUME NEW w \in Seq(Lines), NEW v \in Seq(Lines), NEW n \in Nat, NEW c,
           n <= Len(w), n <= Len(v), \A i \in 1 .. n : v[i] = w[i]
    PROVE  /\ Completed(v, n) <=> Completed(w, n)
           /\ SlotIs(c, v, n) <=> SlotIs(c, w, n)
  <1>1. Completed(v, n) <=> Completed(w, n)
    BY DEF Completed
  <1>2. \A i \in 1 .. n : Coding(v, i) <=> Coding(w, i)
    BY DEF Coding
  <1>3. \A i \in 1 .. n : \A k \in i + 1 .. n : k \in 1 .. n
    OBVIOUS
  <1>4. (\E i \in 1 .. n : v[i].says = "complete") <=> (\E i \in 1 .. n : w[i].says = "complete")
    OBVIOUS
  <1>5. (\E i \in 1 .. n : /\ Coding(v, i) /\ c = v[i].code
                           /\ \A k \in i + 1 .. n : ~ Coding(v, k))
        <=> (\E i \in 1 .. n : /\ Coding(w, i) /\ c = w[i].code
                             /\ \A k \in i + 1 .. n : ~ Coding(w, k))
    BY <1>2, <1>3
  <1>6. (\A i \in 1 .. n : ~ Coding(v, i)) <=> (\A i \in 1 .. n : ~ Coding(w, i))
    BY <1>2
  <1> QED
    BY <1>1, <1>4, <1>5, <1>6 DEF SlotIs

(* Reading one line more.                                                  *)
LEMMA ToldNext ==
    ASSUME NEW w \in Seq(Lines), NEW n \in Nat, n + 1 <= Len(w), SlotIs(slot, w, n)
    PROVE  /\ w[n + 1].says \in {"complete", "odd"} => SlotIs(SlotAfter(w[n + 1]), w, n + 1)
           /\ w[n + 1].says \notin {"complete", "odd"} => SlotIs(slot, w, n + 1)
           /\ Completed(w, n + 1) <=>
                 Completed(w, n) \/ w[n + 1].says \in {"complete", "odd"}
  <1> DEFINE l == w[n + 1]
  <1>1. /\ l \in Lines
        /\ l.code \in Codes \cup {NoCode} /\ (l.says # "complete" => l.code = NoCode)
        /\ Coding(w, n + 1) <=> l.code # NoCode
    <2>1. l \in Lines
      OBVIOUS
    <2>2. l.code \in Codes \cup {NoCode} /\ (l.says # "complete" => l.code = NoCode)
      BY <2>1, LineCode
    <2> QED
      BY <2>1, <2>2 DEF Coding
  <1>2. Completed(w, n + 1) <=> Completed(w, n) \/ l.says \in {"complete", "odd"}
    <2>1. \A i \in 1 .. n + 1 : i \in 1 .. n \/ i = n + 1
      OBVIOUS
    <2>2. n + 1 \in 1 .. n + 1 /\ \A i \in 1 .. n : i \in 1 .. n + 1
      OBVIOUS
    <2> QED
      BY <2>1, <2>2 DEF Completed
  <1>3. CASE l.code # NoCode
    <2>1. SlotAfter(l) = l.code /\ l.says = "complete"
      BY <1>1, <1>3 DEF SlotAfter
    <2>2. n + 1 \in 1 .. n + 1 /\ \A k \in n + 1 + 1 .. n + 1 : FALSE
      OBVIOUS
    <2>3. Coding(w, n + 1)
      BY <1>1, <1>3
    <2>4. SlotIs(l.code, w, n + 1)
      BY <2>2, <2>3 DEF SlotIs
    <2> QED
      BY <1>2, <2>1, <2>4
  <1>4. CASE l.code = NoCode
    <2> DEFINE c == IF l.says = "complete" /\ slot = NoCode THEN 0 ELSE slot
    <2>1. SlotAfter(l) = c /\ ~ Coding(w, n + 1)
      BY <1>1, <1>4 DEF SlotAfter
    <2>2. \A i \in 1 .. n + 1 : i \in 1 .. n \/ i = n + 1
      OBVIOUS
    <2>3. CASE \E i \in 1 .. n : /\ Coding(w, i) /\ slot = w[i].code
                                /\ \A k \in i + 1 .. n : ~ Coding(w, k)
      <3>1. PICK i \in 1 .. n : /\ Coding(w, i) /\ slot = w[i].code
                                /\ \A k \in i + 1 .. n : ~ Coding(w, k)
        BY <2>3
      <3>2. c = slot
        BY <3>1 DEF Coding
      <3>3. i \in 1 .. n + 1 /\ \A k \in i + 1 .. n + 1 : k \in i + 1 .. n \/ k = n + 1
        OBVIOUS
      <3>4. SlotIs(slot, w, n + 1)
        BY <2>1, <3>1, <3>3 DEF SlotIs
      <3> QED
        BY <1>2, <2>1, <3>2, <3>4
    <2>4. CASE /\ \A i \in 1 .. n : ~ Coding(w, i)
               /\ slot = IF \E i \in 1 .. n : w[i].says = "complete" THEN 0 ELSE NoCode
      <3>1. \A i \in 1 .. n + 1 : ~ Coding(w, i)
        BY <2>1, <2>2, <2>4
      <3>2. (\E i \in 1 .. n + 1 : w[i].says = "complete")
            <=> (\E i \in 1 .. n : w[i].says = "complete") \/ l.says = "complete"
        <4>1. n + 1 \in 1 .. n + 1 /\ \A i \in 1 .. n : i \in 1 .. n + 1
          OBVIOUS
        <4> QED
          BY <2>2, <4>1
      <3>3. c = IF \E i \in 1 .. n + 1 : w[i].says = "complete" THEN 0 ELSE NoCode
        BY <2>4, <3>2, OutputAssumption
      <3>4. SlotIs(c, w, n + 1)
        BY <3>1, <3>3 DEF SlotIs
      <3>5. l.says # "complete" => c = slot
        OBVIOUS
      <3> QED
        BY <1>2, <2>1, <3>4, <3>5
    <2> QED
      BY <2>3, <2>4 DEF SlotIs
  <1> QED
    BY <1>3, <1>4

LEMMA ToldStep ==
    OutputTypeOK /\ PumpInv /\ ToldInv /\ [Next]_outputVars => ToldInv'
  <1> SUFFICES ASSUME OutputTypeOK, PumpInv, ToldInv, [Next]_outputVars, plugin'
               PROVE  /\ complete' <=> Completed(wrote'["out"], read'["out"])
                      /\ SlotIs(slot', wrote'["out"], read'["out"])
    BY DEF ToldInv
  <1> DEFINE w == wrote["out"]
             n == read["out"]
             Goal == /\ complete' <=> Completed(wrote'["out"], read'["out"])
                     /\ SlotIs(slot', wrote'["out"], read'["out"])
  <1> USE DEF childVars, pumpVars, outVars, taskVars, dbVars, tailVars
  <1>1. plugin' = plugin
    BY DEF Next, Write, ExitChild, BehindEnds, PumpStep, Pump, PumpLine, PumpEnds, OutExit, OutKill,
       OutTimeout, OutDone, Persist, Save, Kill, ChangeState, DeleteJob, TailStep, Fetch, Look,
       Poll, TailCloses, TailMoves, outputVars
  <1>2. /\ w \in Seq(Lines) /\ n \in Nat /\ n <= Len(w) /\ "out" \in Streams
        /\ complete <=> Completed(w, n)
        /\ SlotIs(slot, w, n)
    BY <1>1 DEF OutputTypeOK, PumpInv, StreamInv, ToldInv, Streams
  <1>3. ASSUME UNCHANGED <<complete, slot, wrote>>, read'["out"] = n PROVE Goal
    BY <1>2, <1>3
  <1>4. ASSUME NEW s \in Streams, Write(s) PROVE Goal
    <2>1. PICK l \in Lines : wrote' = [wrote EXCEPT ![s] = Append(@, l)]
      BY <1>4 DEF Write, Lines
    <2>2. UNCHANGED <<read, complete, slot>>
      BY <1>4 DEF Write
    <2> DEFINE v == wrote'["out"]
    <2>3. v = IF s = "out" THEN Append(w, l) ELSE w
      BY <1>2, <2>1 DEF OutputTypeOK
    <2> HIDE DEF w, n, v
    <2>4. v \in Seq(Lines) /\ n <= Len(v) /\ \A i \in 1 .. n : v[i] = w[i]
      BY <1>2, <2>3
    <2>5. Completed(v, n) <=> Completed(w, n)
      BY <1>2, <2>4, ToldMore
    <2>6. SlotIs(slot, v, n) <=> SlotIs(slot, w, n)
      BY <1>2, <2>4, ToldMore
    <2> QED
      BY <1>2, <2>2, <2>5, <2>6 DEF n, v
  <1>5. ASSUME NEW s \in Streams, Pump(s) PROVE Goal
    <2>1. s # "out"
      BY <1>1, <1>5 DEF Pump, ByLines
    <2>2. UNCHANGED <<complete, slot, wrote>> /\ read'["out"] = n
      BY <1>5, <2>1 DEF Pump, Send, OutputTypeOK
    <2> QED
      BY <1>3, <2>2
  <1>6. ASSUME NEW s \in Streams, PumpLine(s) PROVE Goal
    <2>1. /\ s = "out" /\ read' = [read EXCEPT ![s] = @ + 1] /\ n + 1 <= Len(w)
          /\ wrote' = wrote
      BY <1>6 DEF PumpLine, ByLines, Send
    <2>2. read'["out"] = n + 1
      BY <1>2, <2>1 DEF OutputTypeOK
    <2> DEFINE l == w[n + 1]
    <2>3. IF l.says \in {"complete", "odd"} THEN complete' = TRUE /\ slot' = SlotAfter(l)
                                            ELSE complete' = complete /\ slot' = slot
      BY <1>6, <2>1, <2>2 DEF PumpLine
    <2> HIDE DEF w, n
    <2>4. /\ l.says \in {"complete", "odd"} => SlotIs(SlotAfter(l), w, n + 1)
          /\ l.says \notin {"complete", "odd"} => SlotIs(slot, w, n + 1)
          /\ Completed(w, n + 1) <=> Completed(w, n) \/ l.says \in {"complete", "odd"}
      BY <1>2, <2>1, ToldNext
    <2> HIDE DEF l
    <2>5. CASE l.says \in {"complete", "odd"}
      <3>1. Completed(w, n + 1) /\ SlotIs(slot', w, n + 1) /\ complete'
        BY <2>3, <2>4, <2>5
      <3> QED
        BY <2>1, <2>2, <3>1 DEF w
    <2>6. CASE ~ (l.says \in {"complete", "odd"})
      <3>1. (Completed(w, n + 1) <=> Completed(w, n)) /\ SlotIs(slot', w, n + 1)
            /\ complete' = complete
        BY <2>3, <2>4, <2>6
      <3> QED
        BY <1>2, <2>1, <2>2, <3>1 DEF w
    <2> QED
      BY <2>5, <2>6
  <1>7. ASSUME NEW s \in Streams, PumpEnds(s) PROVE Goal
    BY <1>3, <1>7 DEF PumpEnds
  <1>8. CASE \/ ExitChild \/ BehindEnds \/ OutExit \/ OutKill \/ OutTimeout \/ OutDone
             \/ Persist \/ Save \/ Kill \/ ChangeState \/ DeleteJob \/ TailStep \/ TailCloses
             \/ UNCHANGED outputVars
    <2>1. UNCHANGED <<complete, slot, wrote, read>>
      BY <1>8 DEF ExitChild, BehindEnds, OutExit, OutKill, OutTimeout, OutDone, Persist, Save,
         Kill, ChangeState, DeleteJob, TailStep, Fetch, Look, Poll, TailCloses, TailMoves,
         outputVars
    <2> QED
      BY <1>3, <2>1
  <1> QED
    BY <1>4, <1>5, <1>6, <1>7, <1>8 DEF Next, PumpStep

LEMMA OutcomeStep == OutputTypeOK /\ OutcomeInv /\ [Next]_outputVars => OutcomeInv'
  <1> SUFFICES ASSUME OutputTypeOK, OutcomeInv, [Next]_outputVars PROVE OutcomeInv'
    OBVIOUS
  <1> USE DEF childVars, pumpVars, outVars, taskVars, dbVars, tailVars
  <1>1. ASSUME UNCHANGED <<plugin, child, pump, complete, slot, out, outcome>> PROVE OutcomeInv'
    BY <1>1 DEF OutcomeInv, ExitCode, PumpsEnded
  <1>2. ASSUME NEW s \in Streams, pump[s] = "reading", UNCHANGED <<child, out, outcome>>
        PROVE  OutcomeInv'
    BY <1>2 DEF OutcomeInv, PumpsEnded
  <1>3. ASSUME NEW s \in Streams, Pump(s) \/ PumpLine(s) \/ PumpEnds(s) PROVE OutcomeInv'
    BY <1>2, <1>3 DEF Pump, PumpLine, PumpEnds
  <1>4. ASSUME NEW s \in Streams, Write(s) PROVE OutcomeInv'
    BY <1>1, <1>4 DEF Write
  <1>5. CASE \/ BehindEnds \/ Persist \/ Save \/ Kill \/ ChangeState \/ DeleteJob \/ TailStep
             \/ TailCloses \/ UNCHANGED outputVars
    BY <1>1, <1>5 DEF BehindEnds, Persist, Save, Kill, ChangeState, DeleteJob, TailStep, Fetch,
       Look, Poll, TailCloses, TailMoves, outputVars
  <1>6. CASE ExitChild
    <2>1. child = Running /\ UNCHANGED <<out, outcome>>
      BY <1>6 DEF ExitChild
    <2> QED
      BY <2>1 DEF OutcomeInv
  <1>7. CASE OutExit
    <2>1. /\ out = "select" /\ child # Running /\ out' = "exited"
          /\ UNCHANGED <<child, outcome>>
      BY <1>7 DEF OutExit
    <2> QED
      BY <2>1 DEF OutcomeInv
  <1>8. CASE OutKill \/ OutTimeout
    <2>1. /\ out = "select" /\ out' \in {"done", "timedout"}
          /\ outcome' = outcome \/ outcome'.kind = "killed"
      BY <1>8 DEF OutKill, OutTimeout
    <2> QED
      BY <2>1 DEF OutcomeInv
  <1>9. CASE OutDone
    <2>1. /\ out' = "done" /\ PumpsEnded /\ PumpsEnded' /\ child' = child
          /\ ExitCode' = ExitCode
          /\ \/ out = "exited" /\ outcome'.kind = "exit" /\ outcome'.code = ExitCode
             \/ outcome'.kind = "timeout"
      BY <1>9 DEF OutDone, PumpsEnded, ExitCode
    <2> QED
      BY <2>1 DEF OutcomeInv
  <1> QED
    BY <1>3, <1>4, <1>5, <1>6, <1>7, <1>8, <1>9 DEF Next, PumpStep

(* A plugin that exits is judged by what it said.                          *)
THEOREM PluginVerdictSafe == SafeSpec => []PluginVerdict
  <1>1. Init => ToldInv /\ OutcomeInv
    <2> SUFFICES ASSUME Init PROVE ToldInv /\ OutcomeInv
      OBVIOUS
    <2>1. /\ read["out"] = 0 /\ complete = FALSE /\ slot = NoCode
          /\ out = "select" /\ outcome.kind = "none"
      BY DEF Init, Streams, None
    <2> QED
      BY <2>1 DEF ToldInv, OutcomeInv, Completed, SlotIs
  <1>2. OutputTypeOK /\ PumpInv /\ ToldInv /\ OutcomeInv => PluginVerdict
    <2> SUFFICES ASSUME OutputTypeOK, PumpInv, ToldInv, OutcomeInv, plugin, outcome.kind = "exit"
                 PROVE  Verdict = "success" <=>
                          \/ Coded # {} /\ Passes(wrote["out"][Max(Coded)].code)
                          \/ Coded = {} /\ Heard("complete") # {} /\ Passes(0)
                          \/ /\ Heard("complete") \cup Heard("odd") = {}
                             /\ Passes(IF child.code \in {NoCode, 0} THEN Unknown ELSE child.code)
      BY DEF PluginVerdict
    <2> DEFINE w == wrote["out"]
               n == read["out"]
               exit == IF child.code \in {NoCode, 0} THEN Unknown ELSE child.code
    <2>1. Verdict = "success" <=> Passes(outcome.code)
      BY DEF Verdict
    <2>2. /\ outcome.code = IF complete THEN slot ELSE exit
          /\ complete <=> Completed(w, n)
          /\ SlotIs(slot, w, n)
      BY DEF OutcomeInv, ExitCode, ToldInv
    <2>3. n \in Nat /\ Readable("out") = n
      BY ReadableIs DEF OutcomeInv, PumpsEnded, PumpInv, Streams, OutputTypeOK
    <2> HIDE DEF w, n, exit
    <2>4. \A says : Heard(says) = {i \in 1 .. n : w[i].says = says}
      BY <2>3 DEF Heard, w
    <2>5. Coded = {i \in 1 .. n : Coding(w, i)}
      BY <2>4 DEF Coded, Coding, w
    <2>6. Completed(w, n) <=> Heard("complete") \cup Heard("odd") # {}
      BY <2>4 DEF Completed
    <2>7. CASE \E i \in 1 .. n : /\ Coding(w, i) /\ slot = w[i].code
                                 /\ \A k \in i + 1 .. n : ~ Coding(w, k)
      <3>1. PICK i \in 1 .. n : /\ Coding(w, i) /\ slot = w[i].code
                                /\ \A k \in i + 1 .. n : ~ Coding(w, k)
        BY <2>7
      <3> DEFINE S == Coded
      <3>2. S \in SUBSET Int /\ i \in S /\ \A k \in S : k <= i
        BY <2>3, <2>5, <3>1
      <3> HIDE DEF S
      <3>3. Max(S) = i
        BY <3>2, MaxIs
      <3>4. Coded # {} /\ Max(Coded) = i
        BY <3>2, <3>3 DEF S
      <3>5. Heard("complete") # {} /\ complete
        BY <2>2, <2>4, <2>6, <3>1 DEF Coding
      <3> QED
        BY <2>1, <2>2, <3>1, <3>4, <3>5 DEF w
    <2>8. CASE /\ \A i \in 1 .. n : ~ Coding(w, i)
               /\ slot = IF \E i \in 1 .. n : w[i].says = "complete" THEN 0 ELSE NoCode
      <3>1. Coded = {}
        BY <2>5, <2>8
      <3>2. CASE Heard("complete") # {}
        <4>1. slot = 0 /\ complete
          BY <2>2, <2>4, <2>6, <2>8, <3>2
        <4> QED
          BY <2>1, <2>2, <3>1, <3>2, <4>1
      <3>3. CASE Heard("complete") = {} /\ Heard("odd") # {}
        <4>1. slot = NoCode /\ complete
          BY <2>2, <2>4, <2>6, <2>8, <3>3
        <4>2. ~ Passes(NoCode)
          BY DEF Passes
        <4> QED
          BY <2>1, <2>2, <3>1, <3>3, <4>1, <4>2
      <3>4. CASE Heard("complete") = {} /\ Heard("odd") = {}
        <4>1. ~ complete
          BY <2>2, <2>6, <3>4
        <4> QED
          BY <2>1, <2>2, <3>1, <3>4, <4>1 DEF exit
      <3> QED
        BY <3>2, <3>3, <3>4
    <2> QED
      BY <2>2, <2>7, <2>8 DEF SlotIs
  <1> QED
    BY <1>1, <1>2, ToldStep, OutcomeStep, PumpInvariant, OutputTypeCorrect, PTL DEF SafeSpec
=============================================================================
