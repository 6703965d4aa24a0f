--------------------------- MODULE Formulas_proofs ---------------------------
(***************************************************************************)
(* The rules of Policies for all runs, delays and instants, and the reading*)
(* of documents of any length.                                             *)
(***************************************************************************)
EXTENDS Formulas, Sums_proofs, FiniteSetTheorems

-----------------------------------------------------------------------------
(* Runs that move forward. *)

LEMMA DoneStays ==
    ASSUME NEW a \in States, NEW b \in States, Forward(a, b)
    PROVE  /\ a \in Done => b = a
           /\ b \in {"queued", "running"} => a \in {"queued", "running", None}
           /\ b = None => a = None
  BY StatesAssumption DEF Forward, States, RunStates, Done

(* An expression of outcomes stays true: its atoms are resolved for ever, and   *)
(* those that are true stay so.                                                *)
LEMMA HoldsStays ==
    ASSUME NEW m \in Moves, NEW x \in BoxExprs(Jobs) \cup {None},
           OfOutcomes(x), Holds(x, m.before)
    PROVE  Holds(x, m.after)
  <1> DEFINE says(state) == {a \in x.atoms : state[a.job] \in StatesOf(a)}
  <1>1. x # None
    BY DEF Holds
  <1>2. PICK A0 \in SUBSET Atoms(Jobs) : x \in [atoms : {A0}, true : SUBSET SUBSET A0]
    BY <1>1 DEF BoxExprs
  <1>3. x.atoms \in SUBSET Atoms(Jobs)
    BY <1>2
  <1>4. \A a \in x.atoms : a.job \in Jobs
    BY <1>3 DEF Atoms
  <1>5. \A j \in Jobs : /\ m.before[j] \in Done => m.after[j] = m.before[j]
                        /\ m.after[j] = None => m.before[j] = None
    BY DoneStays DEF Moves
  <1>6. /\ \A a \in x.atoms : StatesOf(a) \subseteq Done
        /\ \A A \in x.true, B \in SUBSET x.atoms : A \subseteq B => B \in x.true
    BY <1>1 DEF OfOutcomes
  <1>7. says(m.before) \subseteq says(m.after)
    BY <1>4, <1>5, <1>6
  <1>8. says(m.before) \in x.true
    BY DEF Holds
  <1>9. says(m.after) \in x.true
    <2>1. says(m.after) \in SUBSET x.atoms
      OBVIOUS
    <2> HIDE DEF says
    <2> QED
      BY <1>6, <1>7, <1>8, <2>1
  <1>10. \A a \in x.atoms : ~ Unresolved(a, m.after)
    <2>1. \A a \in x.atoms : ~ Unresolved(a, m.before)
      BY DEF Holds
    <2> QED
      BY <1>4, <1>5, <2>1 DEF Unresolved
  <1> QED
    BY <1>1, <1>9, <1>10 DEF Holds

LEMMA RulesStay ==
    ASSUME NEW m \in Moves, DefaultRules(Jobs, m.before) \in {"failed", "success"}
    PROVE  DefaultRules(Jobs, m.after) = DefaultRules(Jobs, m.before)
  <1>1. \A j \in Jobs : /\ m.before[j] \in States /\ m.after[j] \in States
                        /\ Forward(m.before[j], m.after[j])
    BY DEF Moves
  <1>2. \A j \in Jobs : m.before[j] \in Done => m.after[j] = m.before[j]
    BY <1>1, DoneStays
  <1> DEFINE are(state) == {state[c] : c \in Jobs}
             bad == {"failed", "killed", "lost"}
  <1>3. ASSUME are(m.before) \cap bad # {} PROVE are(m.after) \cap bad # {}
    BY <1>2, <1>3 DEF Done
  <1>4. ASSUME are(m.before) = {"success"} PROVE are(m.after) = {"success"}
    BY <1>2, <1>4 DEF Done
  <1>5. DefaultRules(Jobs, m.before) = "failed" => DefaultRules(Jobs, m.after) = "failed"
    BY <1>3 DEF DefaultRules
  <1>6. DefaultRules(Jobs, m.before) = "success" => DefaultRules(Jobs, m.after) = "success"
    <2> SUFFICES ASSUME DefaultRules(Jobs, m.before) = "success"
                 PROVE  DefaultRules(Jobs, m.after) = "success"
      OBVIOUS
    <2>1. are(m.before) = {"success"}
      BY DEF DefaultRules
    <2>2. are(m.after) = {"success"}
      BY <1>4, <2>1
    <2> QED
      BY <2>2 DEF DefaultRules
  <1> QED
    BY <1>5, <1>6

LEMMA BoxStays ==
    ASSUME NEW m \in Moves, NEW box \in Boxes
    PROVE  OutcomeStays(m, box)
  <1> DEFINE old == BoxState(box, Jobs, m.before)
             new == BoxState(box, Jobs, m.after)
             f == box.failure
             s == box.success
  <1> SUFFICES ASSUME OfOutcomes(f), OfOutcomes(s)
               PROVE  /\ old = "failed" =>
                            \/ new = "failed"
                            \/ /\ new = "success" /\ ~ Holds(s, m.before) /\ Holds(s, m.after)
                               /\ ~ Holds(f, m.before)
                      /\ old = "success" =>
                            \/ new = "success"
                            \/ new = "failed" /\ ~ Holds(f, m.before) /\ Holds(f, m.after)
    BY DEF OutcomeStays
  <1>1. /\ Holds(f, m.before) => Holds(f, m.after)
        /\ Holds(s, m.before) => Holds(s, m.after)
    BY HoldsStays DEF Boxes
  <1>2. DefaultRules(Jobs, m.before) \in {"failed", "success"}
          => DefaultRules(Jobs, m.after) = DefaultRules(Jobs, m.before)
    BY RulesStay
  <1> QED
    BY <1>1, <1>2 DEF BoxState

LEMMA DepsStay ==
    ASSUME NEW m \in Moves, NEW deps \in SUBSET Edges, DepsSatisfied(deps, m.before)
    PROVE  DepsSatisfied(deps, m.after)
  <1>1. \A j \in Jobs : m.before[j] \in Done => m.after[j] = m.before[j]
    BY DoneStays DEF Moves
  <1> DEFINE of(c) == {d \in deps : d.condition = c}
             group(c, state) == {state[e.upstream] : e \in of(c)}
  <1>2. \A c : \A e \in of(c) : e.upstream \in Jobs
    BY DEF Edges
  <1>3. "success" \in Done
    BY DEF Done
  <1>4. group("all_succeed", m.after) \subseteq {"success"}
    <2>1. group("all_succeed", m.before) \subseteq {"success"}
      BY DEF DepsSatisfied
    <2>2. \A e \in of("all_succeed") : m.before[e.upstream] = "success"
      BY <2>1
    <2> QED
      BY <1>1, <1>2, <1>3, <2>2
  <1>5. group("any_succeed", m.after) = {} \/ "success" \in group("any_succeed", m.after)
    <2>1. group("any_succeed", m.before) = {} \/ "success" \in group("any_succeed", m.before)
      BY DEF DepsSatisfied
    <2> QED
      BY <1>1, <1>2, <1>3, <2>1
  <1>6. group("any_finish", m.after) = {} \/ group("any_finish", m.after) \cap Done # {}
    <2>1. group("any_finish", m.before) = {} \/ group("any_finish", m.before) \cap Done # {}
      BY DEF DepsSatisfied
    <2> QED
      BY <1>1, <1>2, <2>1
  <1> QED
    BY <1>4, <1>5, <1>6 DEF DepsSatisfied

-----------------------------------------------------------------------------
(* Delays. *)

Doubles(f, n) == f = [i \in 0 .. n |-> IF i = 0 THEN 1 ELSE 2 * f[i - 1]]

(* The recursive definition of Power defines a function. *)
LEMMA PowerDef == /\ Power[0] = 1
                  /\ \A n \in Nat : Power[n + 1] = 2 * Power[n]
  <1> DEFINE Is(f) == f = [n \in Nat |-> IF n = 0 THEN 1 ELSE 2 * f[n - 1]]
             S == {n \in Nat : \E f \in [0 .. n -> Nat] : Doubles(f, n)}
             P == [n \in Nat |-> (CHOOSE f \in [0 .. n -> Nat] : Doubles(f, n))[n]]
  <1>1. 0 \in S
    <2> DEFINE f == [i \in 0 .. 0 |-> 1]
    <2>1. f \in [0 .. 0 -> Nat] /\ Doubles(f, 0)
      BY DEF Doubles
    <2> QED
      BY <2>1
  <1>2. ASSUME NEW n \in Nat, n \in S PROVE n + 1 \in S
    <2>1. PICK f \in [0 .. n -> Nat] : Doubles(f, n)
      BY <1>2
    <2> DEFINE g == [i \in 0 .. n + 1 |-> IF i = n + 1 THEN 2 * f[n] ELSE f[i]]
    <2>2. g \in [0 .. n + 1 -> Nat]
      BY <2>1
    <2>3. ASSUME NEW i \in 0 .. n + 1 PROVE g[i] = IF i = 0 THEN 1 ELSE 2 * g[i - 1]
      <3>1. CASE i = n + 1
        BY <3>1
      <3>2. CASE i \in 0 .. n
        BY <2>1, <3>2 DEF Doubles
      <3> QED
        BY <3>1, <3>2
    <2>4. Doubles(g, n + 1)
      BY <2>2, <2>3 DEF Doubles
    <2> QED
      BY <2>2, <2>4
  <1>3. \A n \in Nat : n \in S
    <2> HIDE DEF S
    <2> QED
      BY <1>1, <1>2, Induction
  <1>4. ASSUME NEW m \in Nat, NEW n \in Nat, m <= n,
               NEW f \in [0 .. m -> Nat], Doubles(f, m),
               NEW g \in [0 .. n -> Nat], Doubles(g, n)
        PROVE  f[m] = g[m]
    <2> DEFINE T == {k \in Nat : k <= m => f[k] = g[k]}
    <2>1. 0 \in T
      BY <1>4 DEF Doubles
    <2>2. ASSUME NEW k \in Nat, k \in T PROVE k + 1 \in T
      <3> SUFFICES ASSUME k + 1 <= m PROVE f[k + 1] = g[k + 1]
        OBVIOUS
      <3>1. f[k] = g[k]
        BY <2>2
      <3>2. k + 1 \in 0 .. m /\ k + 1 \in 0 .. n /\ k + 1 # 0 /\ (k + 1) - 1 = k
        BY <1>4
      <3>3. f[k + 1] = 2 * f[k] /\ g[k + 1] = 2 * g[k]
        BY <1>4, <3>2 DEF Doubles
      <3> QED
        BY <3>1, <3>3
    <2> HIDE DEF T
    <2>3. m \in T
      BY <2>1, <2>2, Induction
    <2> QED
      BY <2>3 DEF T
  <1> DEFINE F(n) == CHOOSE f \in [0 .. n -> Nat] : Doubles(f, n)
  <1>5. ASSUME NEW n \in Nat PROVE F(n) \in [0 .. n -> Nat] /\ Doubles(F(n), n) /\ P[n] = F(n)[n]
    <2>1. \E f \in [0 .. n -> Nat] : Doubles(f, n)
      BY <1>3
    <2> QED
      BY <2>1
  <1> HIDE DEF F, P, S
  <1>6. P[0] = 1
    <2>1. F(0)[0] = 1
      BY <1>5 DEF Doubles
    <2> QED
      BY <1>5, <2>1
  <1>7. ASSUME NEW n \in Nat PROVE P[n + 1] = 2 * P[n]
    <2> DEFINE g == F(n + 1)
    <2>1. g \in [0 .. n + 1 -> Nat] /\ Doubles(g, n + 1) /\ P[n + 1] = g[n + 1]
      BY <1>5
    <2>2. F(n) \in [0 .. n -> Nat] /\ Doubles(F(n), n) /\ P[n] = F(n)[n]
      BY <1>5
    <2> HIDE DEF g
    <2>3. F(n)[n] = g[n]
      BY <1>4, <2>1, <2>2
    <2>4. g[n + 1] = 2 * g[n]
      <3>1. n + 1 \in 0 .. n + 1 /\ n + 1 # 0 /\ (n + 1) - 1 = n
        OBVIOUS
      <3> QED
        BY <2>1, <3>1 DEF Doubles
    <2> QED
      BY <2>1, <2>2, <2>3, <2>4
  <1>8. P = [n \in Nat |-> P[n]]
    BY DEF P
  <1>9. ASSUME NEW n \in Nat PROVE P[n] = IF n = 0 THEN 1 ELSE 2 * P[n - 1]
    <2>1. CASE n = 0
      BY <1>6, <2>1
    <2>2. CASE n # 0
      <3>1. n - 1 \in Nat /\ (n - 1) + 1 = n
        BY <2>2
      <3>2. P[(n - 1) + 1] = 2 * P[n - 1]
        BY <1>7, <3>1
      <3> QED
        BY <2>2, <3>1, <3>2
    <2> QED
      BY <2>1, <2>2
  <1>10. Is(P)
    <2>1. [n \in Nat |-> P[n]] = [n \in Nat |-> IF n = 0 THEN 1 ELSE 2 * P[n - 1]]
      BY <1>9
    <2> QED
      BY <1>8, <2>1
  <1>11. Power = CHOOSE f : Is(f)
    BY DEF Power
  <1>12. Is(Power)
    <2> HIDE DEF Is
    <2> QED
      BY <1>10, <1>11
  <1>13. \A n \in Nat : Power[n] = IF n = 0 THEN 1 ELSE 2 * Power[n - 1]
    <2> DEFINE p == Power
    <2>1. p = [n \in Nat |-> IF n = 0 THEN 1 ELSE 2 * p[n - 1]]
      BY <1>12
    <2> HIDE DEF p
    <2>2. \A n \in Nat : p[n] = IF n = 0 THEN 1 ELSE 2 * p[n - 1]
      BY <2>1
    <2> QED
      BY <2>2 DEF p
  <1>14. ASSUME NEW n \in Nat PROVE Power[n + 1] = 2 * Power[n]
    <2>1. n + 1 \in Nat /\ n + 1 # 0 /\ (n + 1) - 1 = n
      OBVIOUS
    <2>2. Power[n + 1] = IF n + 1 = 0 THEN 1 ELSE 2 * Power[(n + 1) - 1]
      BY <1>13, <2>1
    <2> QED
      BY <2>1, <2>2
  <1> QED
    BY <1>13, <1>14

LEMMA PowerType == \A n \in Nat : Power[n] \in Nat
  <1> DEFINE S == {n \in Nat : Power[n] \in Nat}
  <1>1. 0 \in S
    BY PowerDef
  <1>2. ASSUME NEW n \in Nat, n \in S PROVE n + 1 \in S
    BY PowerDef, <1>2
  <1> HIDE DEF S
  <1>3. \A n \in Nat : n \in S
    BY <1>1, <1>2, Induction
  <1> QED
    BY <1>3 DEF S

LEMMA Products ==
    ASSUME NEW b \in Nat, NEW p \in Nat
    PROVE  b * p \in Nat /\ b * (2 * p) = 2 * (b * p)
  OBVIOUS

(* The exponent of an attempt, and the delay before it is cut to the maximum. *)
Exponent(n) == Least(IF n = 0 THEN 0 ELSE n - 1, MaxExp)

LEMMA ExponentGrows ==
    ASSUME NEW n \in Nat
    PROVE  /\ Exponent(n) \in Nat
           /\ Exponent(n + 1) \in {Exponent(n), Exponent(n) + 1}
           /\ n \in 1 .. MaxExp + 1 => Exponent(n) = n - 1
  BY PoliciesAssumption DEF Exponent, Least

LEMMA ExponentialDelay ==
    ASSUME NEW b \in [kind : {"exponential"}, base : Word, max : Word], NEW n \in Nat
    PROVE  /\ b.base * Power[Exponent(n)] \in Nat
           /\ DelayFor(b, n) = Least(b.base * Power[Exponent(n)], b.max)
  <1>1. b.kind = "exponential" /\ b.base \in Nat /\ b.max \in 0 .. MaxWord /\ MaxWord \in Nat
    BY PoliciesAssumption DEF Word
  <1>2. Exponent(n) \in Nat
    BY ExponentGrows
  <1>3. b.base * Power[Exponent(n)] \in Nat
    BY <1>1, <1>2, PowerType, Products
  <1>4. DelayFor(b, n) = Least(Least(b.base * Power[Exponent(n)], MaxWord), b.max)
    BY <1>1, Zenon DEF DelayFor, Exponent
  <1> DEFINE x == b.base * Power[Exponent(n)]
  <1> HIDE DEF x
  <1>5. x \in Nat => Least(Least(x, MaxWord), b.max) = Least(x, b.max)
    BY <1>1 DEF Least
  <1> QED
    BY <1>3, <1>4, <1>5 DEF x

LEMMA DelaysGrow ==
    ASSUME NEW b \in Backoff, NEW n \in Nat
    PROVE  WaitsMore(b, n)
  <1>1. CASE b.kind = "none"
    <2>1. DelayFor(b, n) = 0 /\ DelayFor(b, n + 1) = 0
      BY <1>1 DEF DelayFor
    <2> QED
      BY <1>1, <2>1 DEF WaitsMore
  <1>2. CASE b.kind = "fixed"
    <2>1. DelayFor(b, n) = b.delay /\ DelayFor(b, n + 1) = b.delay
      BY <1>2 DEF DelayFor
    <2>2. b.delay \in Nat
      BY <1>2, PoliciesAssumption DEF Backoff, Word
    <2> QED
      BY <1>2, <2>1, <2>2 DEF WaitsMore
  <1>3. CASE b.kind = "exponential"
    <2>1. b \in [kind : {"exponential"}, base : Word, max : Word]
      BY <1>3 DEF Backoff
    <2>2. b.max \in Nat /\ b.base \in Nat
      BY <2>1, PoliciesAssumption DEF Word
    <2> DEFINE e == Exponent(n)
               f == Exponent(n + 1)
               x == b.base * Power[e]
               y == b.base * Power[f]
    <2>3. /\ x \in Nat /\ DelayFor(b, n) = Least(x, b.max)
          /\ y \in Nat /\ DelayFor(b, n + 1) = Least(y, b.max)
      BY <2>1, ExponentialDelay, n + 1 \in Nat
    <2>4. x <= y
      <3>1. e \in Nat /\ f \in {e, e + 1}
        BY ExponentGrows
      <3>2. CASE f = e
        BY <2>3, <3>2
      <3>3. CASE f = e + 1
        <4> HIDE DEF e, f
        <4>1. Power[f] = 2 * Power[e] /\ Power[e] \in Nat
          BY <3>1, <3>3, PowerDef, PowerType
        <4>2. y = 2 * x
          BY <2>2, <4>1, Products
        <4> HIDE DEF x, y
        <4> QED
          BY <2>3, <4>2
      <3> QED
        BY <3>1, <3>2, <3>3
    <2>5. n \in 1 .. MaxExp + 1 => x = b.base * Power[n - 1]
      BY ExponentGrows
    <2> HIDE DEF x, y, e, f
    <2>6. DelayFor(b, n) <= DelayFor(b, n + 1) /\ DelayFor(b, n) <= b.max
      BY <2>2, <2>3, <2>4 DEF Least
    <2> QED
      BY <2>3, <2>5, <2>6 DEF WaitsMore
  <1> QED
    BY <1>1, <1>2, <1>3 DEF Backoff

-----------------------------------------------------------------------------
(* Instants. *)

LEMMA SameDay ==
    ASSUME NEW n \in Nat, (n + 1) % Day # 0
    PROVE  (n + 1) \div Day = n \div Day /\ n \div Day \in Nat
  <1> DEFINE p == n \div Day
             q == (n + 1) \div Day
             r == n % Day
             s == (n + 1) % Day
  <1>1. Day \in Nat /\ Day > 0
    BY FormulasAssumption
  <1>2. p \in Nat /\ r \in 0 .. Day - 1 /\ n = Day * p + r
    BY <1>1
  <1>3. q \in Nat /\ s \in 1 .. Day - 1 /\ n + 1 = Day * q + s
    BY <1>1
  <1> HIDE DEF p, q, r, s
  <1>4. ASSUME NEW i \in Nat, NEW j \in Nat, i < j PROVE Day * i + Day <= Day * j
    <2>1. Day * (j - (i + 1)) \in Nat
      <3>1. j - (i + 1) \in Nat
        BY <1>4
      <3> QED
        BY <1>1, <3>1, Products
    <2>2. Day * (j - (i + 1)) = Day * j - Day * i - Day
      BY <1>1
    <2> QED
      BY <1>1, <2>1, <2>2
  <1>5. Day * p \in Nat /\ Day * q \in Nat
    BY <1>1, <1>2, <1>3, Products
  <1>6. ~ p < q
    BY <1>1, <1>2, <1>3, <1>4, <1>5
  <1>7. ~ q < p
    BY <1>1, <1>2, <1>3, <1>4, <1>5
  <1>8. p = q
    BY <1>2, <1>3, <1>6, <1>7
  <1> QED
    BY <1>2, <1>8 DEF p, q

LEMMA MissedStays ==
    ASSUME NEW c \in Clocks
    PROVE  StaysMissed(c)
  <1>1. /\ c.now \in Nat /\ c.started \in Nat \cup {None} /\ c.must \in SUBSET (0 .. Day - 1)
        /\ c.scheduled \in Nat /\ c.sla \in Nat /\ c.grace \in Nat
    BY DEF Clocks
  <1>2. None \notin Int
    BY PoliciesAssumption
  <1>3. ASSUME MustTimes(Day, c.now, c.started, c.must, c.must) # "none", (c.now + 1) % Day # 0
        PROVE  MustTimes(Day, c.now + 1, c.started, c.must, c.must)
                 = MustTimes(Day, c.now, c.started, c.must, c.must)
    <2> DEFINE d == (c.now \div Day) * Day
    <2>1. ((c.now + 1) \div Day) * Day = d /\ d \in Nat
      <3>1. (c.now + 1) \div Day = c.now \div Day /\ c.now \div Day \in Nat
        BY <1>1, <1>3, SameDay
      <3> DEFINE k == c.now \div Day
      <3> HIDE DEF k
      <3>2. k \in Nat => k * Day \in Nat
        BY FormulasAssumption, Products
      <3> QED
        BY <3>1, <3>2 DEF k
    <2> HIDE DEF d
    <2>2. \A t \in c.must : t \in Nat
      BY <1>1, FormulasAssumption
    <2>3. \A t \in c.must : c.now > d + t => c.now + 1 > d + t
      BY <1>1, <2>1, <2>2
    <2> DEFINE of(now) ==
           IF c.started = None
           THEN IF c.must # {} /\ \A t \in c.must : now > d + t THEN "late_start" ELSE "none"
           ELSE IF \E t \in c.must : d + t > c.started /\ now > d + t THEN "sla_miss" ELSE "none"
    <2>4. /\ MustTimes(Day, c.now, c.started, c.must, c.must) = of(c.now)
          /\ MustTimes(Day, c.now + 1, c.started, c.must, c.must) = of(c.now + 1)
      BY <2>1, Zenon DEF MustTimes, d
    <2>5. of(c.now) # "none" => of(c.now + 1) = of(c.now)
      BY <2>3, Zenon
    <2> QED
      BY <1>3, <2>4, <2>5
  <1>4. ASSUME EvaluateSla(c.now, c.scheduled, c.started, c.sla, c.grace) # "none"
        PROVE  EvaluateSla(c.now + 1, c.scheduled, c.started, c.sla, c.grace)
                 = EvaluateSla(c.now, c.scheduled, c.started, c.sla, c.grace)
    BY <1>1, <1>2, <1>4 DEF EvaluateSla
  <1> QED
    BY <1>3, <1>4 DEF StaysMissed

-----------------------------------------------------------------------------
(* The runs, delays and instants of the inputs (evaluate_box_state,            *)
(* deps_satisfied, delay_for, evaluate_sla, evaluate_must_times): what is      *)
(* decided stays so, whatever the jobs, the cap, the width and the day are,    *)
(* and the outcome of a box changes only as one of its expressions, of any     *)
(* size, becomes true with the states of the children.                         *)
THEOREM ForwardOnlySafe == input \in Inputs => ForwardOnly
  <1> SUFFICES ASSUME input \in Inputs PROVE ForwardOnly
    OBVIOUS
  <1>1. /\ input.kind = "move"  => input \in Forwards
        /\ input.kind = "delay" => input \in Attempts
        /\ input.kind = "clock" => input \in Clocks
    BY DEF Inputs, Documents, Forwards, Attempts, Clocks
  <1>2. ASSUME input \in Forwards PROVE NoWayBack(input.move, input.box, input.deps)
    <2>1. input.move \in Moves /\ input.box \in Boxes /\ input.deps \in SUBSET Edges
      BY <1>2 DEF Forwards
    <2> QED
      BY <2>1, BoxStays, DepsStay DEF NoWayBack
  <1>3. ASSUME input \in Attempts PROVE WaitsMore(input.backoff, input.attempt)
    BY <1>3, DelaysGrow DEF Attempts
  <1>4. ASSUME input \in Clocks PROVE StaysMissed(input)
    BY <1>4, MissedStays
  <1> QED
    BY <1>1, <1>2, <1>3, <1>4 DEF ForwardOnly

-----------------------------------------------------------------------------
(* The members of a set of numbers in order. *)

Rank(S, i) == Cardinality({m \in S : m <= i})

LEMMA FiniteRanks ==
    ASSUME NEW n \in Nat, NEW S \in SUBSET (1 .. n)
    PROVE  /\ IsFiniteSet(S) /\ Cardinality(S) \in Nat
           /\ \A i : IsFiniteSet({m \in S : m <= i}) /\ Rank(S, i) \in Nat
           /\ \A i \in S : Rank(S, i) \in 1 .. Cardinality(S)
  <1>1. IsFiniteSet(1 .. n)
    BY FS_Interval
  <1>2. IsFiniteSet(S)
    BY <1>1, FS_Subset
  <1>3. \A i : {m \in S : m <= i} \in SUBSET S
    OBVIOUS
  <1>4. \A i : /\ IsFiniteSet({m \in S : m <= i})
               /\ Cardinality({m \in S : m <= i}) <= Cardinality(S)
    BY <1>2, <1>3, FS_Subset
  <1>5. \A i : Rank(S, i) \in Nat
    BY <1>4, FS_CardinalityType DEF Rank
  <1>6. \A i \in S : Rank(S, i) # 0
    <2> TAKE i \in S
    <2>1. i \in {m \in S : m <= i}
      OBVIOUS
    <2> QED
      BY <1>4, <2>1, FS_EmptySet DEF Rank
  <1>7. \A i : Rank(S, i) <= Cardinality(S)
    BY <1>4 DEF Rank
  <1>8. Cardinality(S) \in Nat
    BY <1>2, FS_CardinalityType
  <1>9. \A i \in S : Rank(S, i) \in 1 .. Cardinality(S)
    BY <1>5, <1>6, <1>7, <1>8
  <1> QED
    BY <1>2, <1>4, <1>5, <1>8, <1>9

LEMMA RankUnique ==
    ASSUME NEW n \in Nat, NEW S \in SUBSET (1 .. n), NEW i \in S, NEW j \in S,
           Rank(S, i) = Rank(S, j)
    PROVE  i = j
  <1>1. ASSUME NEW a \in S, NEW b \in S, a < b PROVE Rank(S, a) # Rank(S, b)
    <2> DEFINE A == {m \in S : m <= a}
               B == {m \in S : m <= b}
    <2>1. a \in Nat /\ b \in Nat /\ \A m \in S : m \in Nat
      OBVIOUS
    <2>2. ~ b <= a /\ b <= b /\ \A m \in S : m <= a => m <= b
      BY <1>1, <2>1
    <2>3. A \in SUBSET B /\ b \in B /\ b \notin A
      BY <2>2
    <2>4. IsFiniteSet(B)
      BY FiniteRanks
    <2>5. Cardinality(A) # Cardinality(B)
      BY <2>3, <2>4, FS_Subset
    <2> QED
      BY <2>5 DEF Rank
  <1> QED
    BY <1>1

LEMMA RankMore ==
    ASSUME NEW n \in Nat, NEW S \in SUBSET (1 .. n)
    PROVE  /\ Cardinality(S \cup {n + 1}) = Cardinality(S) + 1
           /\ Rank(S \cup {n + 1}, n + 1) = Cardinality(S) + 1
           /\ \A i \in S : Rank(S \cup {n + 1}, i) = Rank(S, i)
  <1>1. IsFiniteSet(S) /\ n + 1 \notin S
    BY FiniteRanks
  <1>2. Cardinality(S \cup {n + 1}) = Cardinality(S) + 1
    BY <1>1, FS_AddElement
  <1>3. {m \in S \cup {n + 1} : m <= n + 1} = S \cup {n + 1}
    <2>1. \A m \in S \cup {n + 1} : m <= n + 1
      OBVIOUS
    <2> QED
      BY <2>1
  <1>4. \A i \in S : {m \in S \cup {n + 1} : m <= i} = {m \in S : m <= i}
    <2> TAKE i \in S
    <2>1. i \in 1 .. n
      OBVIOUS
    <2>2. ~ n + 1 <= i
      BY <2>1
    <2> QED
      BY <2>2
  <1> QED
    BY <1>2, <1>3, <1>4 DEF Rank

LEMMA RankExists ==
    \A n \in Nat : \A S \in SUBSET (1 .. n) : \A k \in 1 .. Cardinality(S) :
        \E i \in S : Rank(S, i) = k
  <1> DEFINE P(n) == \A S \in SUBSET (1 .. n) : \A k \in 1 .. Cardinality(S) :
                        \E i \in S : Rank(S, i) = k
             I == {n \in Nat : P(n)}
  <1>1. P(0)
    <2>1. 1 .. 0 = {}
      OBVIOUS
    <2>2. \A S \in SUBSET (1 .. 0) : S = {}
      BY <2>1
    <2>3. 1 .. Cardinality({}) = {}
      BY <2>1, FS_EmptySet
    <2> QED
      BY <2>2, <2>3
  <1>2. ASSUME NEW n \in Nat, P(n) PROVE P(n + 1)
    <2> SUFFICES ASSUME NEW S \in SUBSET (1 .. n + 1), NEW k \in 1 .. Cardinality(S)
                 PROVE  \E i \in S : Rank(S, i) = k
      OBVIOUS
    <2>1. CASE n + 1 \notin S
      <3>1. S \in SUBSET (1 .. n)
        BY <2>1
      <3> QED
        BY <1>2, <3>1
    <2>2. CASE n + 1 \in S
      <3> DEFINE T == S \ {n + 1}
      <3>1. T \in SUBSET (1 .. n) /\ S = T \cup {n + 1}
        BY <2>2
      <3> HIDE DEF T
      <3>2. Cardinality(T) \in Nat
        BY <3>1, FiniteRanks
      <3>3. /\ Cardinality(S) = Cardinality(T) + 1
            /\ Rank(S, n + 1) = Cardinality(T) + 1
            /\ \A i \in T : Rank(S, i) = Rank(T, i)
        BY <3>1, RankMore
      <3>4. CASE k = Cardinality(T) + 1
        BY <2>2, <3>3, <3>4
      <3>5. CASE k \in 1 .. Cardinality(T)
        <4>1. PICK i \in T : Rank(T, i) = k
          BY <1>2, <3>1, <3>5
        <4> QED
          BY <3>1, <3>3, <4>1
      <3> QED
        BY <3>2, <3>3, <3>4, <3>5
    <2> QED
      BY <2>1, <2>2
  <1>3. 0 \in I /\ \A n \in Nat : n \in I => n + 1 \in I
    <2> HIDE DEF P
    <2> QED
      BY <1>1, <1>2
  <1>4. \A n \in Nat : n \in I
    <2> HIDE DEF I
    <2> QED
      BY <1>3, Induction
  <1> QED
    BY <1>4

LEMMA InOrderIs ==
    ASSUME NEW n \in Nat, NEW S \in SUBSET (1 .. n)
    PROVE  /\ InOrder(S) \in Seq(S) /\ Len(InOrder(S)) = Cardinality(S)
           /\ \A k \in 1 .. Cardinality(S) : /\ InOrder(S)[k] \in S
                                            /\ Rank(S, InOrder(S)[k]) = k
           /\ \A i \in S : InOrder(S)[Rank(S, i)] = i
  <1> DEFINE c == Cardinality(S)
  <1>1. c \in Nat
    BY FiniteRanks
  <1>2. InOrder(S) = [k \in 1 .. c |-> CHOOSE i \in S : Rank(S, i) = k]
    BY DEF InOrder, Rank
  <1>3. ASSUME NEW k \in 1 .. c
        PROVE  InOrder(S)[k] \in S /\ Rank(S, InOrder(S)[k]) = k
    <2>1. InOrder(S)[k] = CHOOSE i \in S : Rank(S, i) = k
      BY <1>2
    <2>2. \E i \in S : Rank(S, i) = k
      BY RankExists
    <2> QED
      BY <2>1, <2>2
  <1>4. InOrder(S) \in [1 .. c -> S]
    BY <1>2, <1>3
  <1>5. InOrder(S) \in Seq(S) /\ Len(InOrder(S)) = c
    BY <1>1, <1>4
  <1>6. \A i \in S : InOrder(S)[Rank(S, i)] = i
    BY <1>3, FiniteRanks, RankUnique
  <1> QED
    BY <1>3, <1>5, <1>6

(* A greater number comes last. *)
LEMMA InOrderMore ==
    ASSUME NEW n \in Nat, NEW S \in SUBSET (1 .. n)
    PROVE  InOrder(S \cup {n + 1}) = Append(InOrder(S), n + 1)
  <1> DEFINE T == S \cup {n + 1}
             c == Cardinality(S)
             s == InOrder(S)
             t == InOrder(T)
  <1>1. T \in SUBSET (1 .. n + 1)
    OBVIOUS
  <1>2. c \in Nat /\ Cardinality(T) = c + 1 /\ Rank(T, n + 1) = c + 1
        /\ \A i \in S : Rank(T, i) = Rank(S, i)
    BY RankMore, FiniteRanks
  <1>3. s \in Seq(S) /\ Len(s) = c
        /\ \A k \in 1 .. c : s[k] \in S /\ Rank(S, s[k]) = k
    BY InOrderIs
  <1>4. t \in Seq(T) /\ Len(t) = c + 1 /\ \A i \in T : t[Rank(T, i)] = i
    <2> HIDE DEF T, t
    <2>1. n + 1 \in Nat
      OBVIOUS
    <2>2. /\ InOrder(T) \in Seq(T) /\ Len(InOrder(T)) = Cardinality(T)
          /\ \A i \in T : InOrder(T)[Rank(T, i)] = i
      BY <1>1, <2>1, InOrderIs
    <2> QED
      BY <1>2, <2>2 DEF t, T
  <1> HIDE DEF T, c, s, t
  <1>5. t[c + 1] = n + 1
    BY <1>2, <1>4 DEF T
  <1>6. \A k \in 1 .. c : t[k] = s[k]
    <2> TAKE k \in 1 .. c
    <2>1. s[k] \in S /\ Rank(T, s[k]) = k
      BY <1>2, <1>3
    <2> QED
      BY <1>4, <2>1 DEF T
  <1>7. t = Append(s, n + 1)
    <2>1. s \in Seq(T) /\ n + 1 \in T
      BY <1>3 DEF T
    <2> QED
      BY <1>2, <1>3, <1>4, <1>5, <1>6, <2>1
  <1> QED
    BY <1>7 DEF s, t, T

LEMMA InOrderNone == InOrder({}) = << >>
  <1>1. Cardinality({}) = 0
    BY FS_EmptySet
  <1> QED
    BY <1>1, InOrderIs, 0 \in Nat

(* The greatest number comes last. *)
LEMMA InOrderLast ==
    ASSUME NEW n \in Nat, NEW S \in SUBSET (1 .. n), NEW i \in S, \A m \in S : m <= i
    PROVE  /\ Len(InOrder(S)) \in Nat /\ Len(InOrder(S)) >= 1
           /\ InOrder(S)[Len(InOrder(S))] = i
           /\ \A k \in 1 .. Len(InOrder(S)) - 1 : InOrder(S)[k] # i
  <1>1. {m \in S : m <= i} = S
    OBVIOUS
  <1>2. Rank(S, i) = Cardinality(S)
    BY <1>1 DEF Rank
  <1>3. Rank(S, i) \in 1 .. Cardinality(S) /\ Cardinality(S) \in Nat
    BY FiniteRanks
  <1>4. Len(InOrder(S)) = Cardinality(S) /\ InOrder(S)[Rank(S, i)] = i
    BY InOrderIs
  <1>5. \A k \in 1 .. Cardinality(S) : Rank(S, InOrder(S)[k]) = k
    BY InOrderIs
  <1> QED
    BY <1>2, <1>3, <1>4, <1>5

-----------------------------------------------------------------------------
(* The recursive definition of ReadLines defines a function. *)

Reads(f, d, n) == f = [i \in 0 .. n |-> IF i = 0 THEN Unread ELSE ReadLine(f[i - 1], d[i])]

LEMMA ReadsExists ==
    ASSUME NEW d \in Seq(JilLines)
    PROVE  \E f : Reads(f, d, Len(d))
  <1> DEFINE S == {n \in Nat : \E f : Reads(f, d, n)}
  <1>1. 0 \in S
    <2>1. Reads([i \in 0 .. 0 |-> Unread], d, 0)
      BY DEF Reads
    <2> QED
      BY <2>1
  <1>2. ASSUME NEW n \in Nat, n \in S PROVE n + 1 \in S
    <2>1. PICK f : Reads(f, d, n)
      BY <1>2
    <2> DEFINE g == [i \in 0 .. n + 1 |-> IF i = n + 1 THEN ReadLine(f[n], d[n + 1]) ELSE f[i]]
    <2>2. ASSUME NEW i \in 0 .. n + 1
          PROVE  g[i] = IF i = 0 THEN Unread ELSE ReadLine(g[i - 1], d[i])
      <3>1. CASE i = n + 1
        BY <3>1
      <3>2. CASE i \in 0 .. n
        BY <2>1, <3>2 DEF Reads
      <3> QED
        BY <3>1, <3>2
    <2>3. Reads(g, d, n + 1)
      BY <2>2 DEF Reads
    <2> QED
      BY <2>3
  <1> HIDE DEF S
  <1>3. Len(d) \in S
    BY <1>1, <1>2, Induction
  <1> QED
    BY <1>3 DEF S

LEMMA ReadLinesDef ==
    ASSUME NEW d \in Seq(JilLines)
    PROVE  /\ ReadLines(d)[0] = Unread
           /\ \A n \in 1 .. Len(d) : ReadLines(d)[n] = ReadLine(ReadLines(d)[n - 1], d[n])
  <1>1. Reads(ReadLines(d), d, Len(d))
    BY ReadsExists DEF ReadLines, Reads
  <1> HIDE DEF Reads
  <1> DEFINE r == ReadLines(d)
  <1>2. Reads(r, d, Len(d))
    BY <1>1
  <1> HIDE DEF r
  <1>3. \A i \in 0 .. Len(d) : r[i] = IF i = 0 THEN Unread ELSE ReadLine(r[i - 1], d[i])
    BY <1>2, Zenon DEF Reads
  <1> QED
    BY <1>3 DEF r

-----------------------------------------------------------------------------
(* The blocks of the first n lines. *)

Verbs  == {"insert", "update", "delete"}
Blocks == [verb : Verbs, name : Names, attrs : Seq(Attrs)]

VerbsTo(d, n)    == {i \in 1 .. n : d[i].kind = "verb"}
AttrsTo(d, i, n) == {a \in 1 .. n : d[a].kind = "attr" /\ i \in Owner(d, a)}

BodyTo(d, i, n) ==
    [k \in 1 .. Len(InOrder(AttrsTo(d, i, n))) |-> AttrOf(d[InOrder(AttrsTo(d, i, n))[k]])]

BlockTo(d, i, n) ==
    [verb |-> d[i].verb, name |-> d[i].name,
     attrs |-> IF d[i].verb = "delete" THEN <<>> ELSE d[i].attrs \o BodyTo(d, i, n)]

BlocksTo(d, n) ==
    [k \in 1 .. Len(InOrder(VerbsTo(d, n))) |-> BlockTo(d, InOrder(VerbsTo(d, n))[k], n)]

Offends(d, n) == \E i \in 1 .. n : d[i].kind = "attr" /\ LooksLikeVerb(d[i].key) /\ ~ InBlock(d, i)

LEMMA LineType ==
    ASSUME NEW l \in JilLines
    PROVE  /\ l.kind \in {"blank", "text", "stray", "verb", "attr"}
           /\ l.kind = "verb" => l.verb \in Verbs /\ l.name \in Names /\ l.attrs \in Seq(Attrs)
           /\ l.kind = "attr" => AttrOf(l) \in Attrs
  BY DEF JilLines, Verbs, AttrOf, Attrs

LEMMA OwnerFirst ==
    ASSUME NEW d \in Seq(JilLines)
    PROVE  Owner(d, 1) = {}
  BY DEF Owner, Starts

LEMMA OwnerUnique ==
    ASSUME NEW d \in Seq(JilLines), NEW n \in Nat, NEW i \in Owner(d, n)
    PROVE  /\ i \in DOMAIN d /\ i < n /\ d[i].kind \in {"verb", "stray"}
           /\ \A j \in Owner(d, n) : j = i
           /\ \A j \in DOMAIN d : j < n /\ d[j].kind = "verb" => j <= i
  BY DEF Owner, Starts

LEMMA OwnerNext ==
    ASSUME NEW d \in Seq(JilLines), NEW n \in 1 .. Len(d)
    PROVE  Owner(d, n + 1) = IF d[n].kind \in {"verb", "stray"} THEN {n} ELSE Owner(d, n)
  <1>1. \A k \in Starts(d) : k \in Nat /\ (k < n + 1 <=> k < n \/ k = n)
    BY DEF Starts
  <1>2. n \in Starts(d) <=> d[n].kind \in {"verb", "stray"}
    BY DEF Starts
  <1>3. CASE n \in Starts(d)
    BY <1>1, <1>2, <1>3 DEF Owner
  <1>4. CASE n \notin Starts(d)
    BY <1>1, <1>2, <1>4 DEF Owner
  <1> QED
    BY <1>3, <1>4

LEMMA SeqOfMore ==
    ASSUME NEW T, NEW S \in SUBSET T, NEW s \in Seq(S)
    PROVE  s \in Seq(T)
  OBVIOUS

LEMMA BodyType ==
    ASSUME NEW d \in Seq(JilLines), NEW n \in 0 .. Len(d), NEW i
    PROVE  BodyTo(d, i, n) \in Seq(Attrs)
  <1> DEFINE A == AttrsTo(d, i, n)
             own == InOrder(A)
  <1>1. A \in SUBSET (1 .. n) /\ \A a \in A : AttrOf(d[a]) \in Attrs
    BY LineType DEF AttrsTo
  <1>2. own \in Seq(A)
    <2>1. n \in Nat
      OBVIOUS
    <2> HIDE DEF A
    <2> QED
      BY <1>1, <2>1, InOrderIs
  <1> HIDE DEF A, own
  <1>3. [k \in 1 .. Len(own) |-> AttrOf(d[own[k]])] \in Seq(Attrs)
    <2>1. Len(own) \in Nat /\ \A k \in 1 .. Len(own) : own[k] \in A
      BY <1>2
    <2>2. \A k \in 1 .. Len(own) : AttrOf(d[own[k]]) \in Attrs
      BY <1>1, <2>1
    <2> QED
      BY <2>1, <2>2
  <1> QED
    BY <1>3 DEF BodyTo, own, A

LEMMA BodyNext ==
    ASSUME NEW d \in Seq(JilLines), NEW n \in 0 .. Len(d) - 1, NEW i
    PROVE  BodyTo(d, i, n + 1) = IF d[n + 1].kind = "attr" /\ i \in Owner(d, n + 1)
                                 THEN Append(BodyTo(d, i, n), AttrOf(d[n + 1]))
                                 ELSE BodyTo(d, i, n)
  <1> DEFINE A == AttrsTo(d, i, n)
             B == AttrsTo(d, i, n + 1)
  <1>1. B = IF d[n + 1].kind = "attr" /\ i \in Owner(d, n + 1) THEN A \cup {n + 1} ELSE A
    BY DEF AttrsTo
  <1>2. CASE ~ (d[n + 1].kind = "attr" /\ i \in Owner(d, n + 1))
    <2>1. B = A
      BY <1>1, <1>2
    <2>2. BodyTo(d, i, n + 1) = BodyTo(d, i, n)
      BY <2>1, Zenon DEF BodyTo
    <2> QED
      BY <1>2, <2>2
  <1>3. CASE d[n + 1].kind = "attr" /\ i \in Owner(d, n + 1)
    <2>1. A \in SUBSET (1 .. n) /\ n \in Nat /\ B = A \cup {n + 1}
      BY <1>1, <1>3 DEF AttrsTo
    <2> HIDE DEF A, B
    <2>2. InOrder(B) = Append(InOrder(A), n + 1)
      BY <2>1, InOrderMore
    <2>3. InOrder(A) \in Seq(A)
      BY <2>1, InOrderIs
    <2>4. A \in SUBSET Nat /\ n + 1 \in Nat
      BY <2>1
    <2> DEFINE own == InOrder(A)
               more == InOrder(B)
    <2>5. /\ BodyTo(d, i, n) = [k \in 1 .. Len(own) |-> AttrOf(d[own[k]])]
          /\ BodyTo(d, i, n + 1) = [k \in 1 .. Len(more) |-> AttrOf(d[more[k]])]
      BY Zenon DEF BodyTo, A, B
    <2> HIDE DEF own, more
    <2>6. own \in Seq(Nat) /\ more = Append(own, n + 1)
      <3>1. own \in Seq(Nat)
        BY <2>3, <2>4, SeqOfMore DEF own
      <3> QED
        BY <2>2, <3>1 DEF own, more
    <2>7. /\ Len(own) \in Nat /\ Len(more) = Len(own) + 1 /\ more[Len(own) + 1] = n + 1
          /\ \A k \in 1 .. Len(own) : more[k] = own[k]
      BY <2>6
    <2>8. [k \in 1 .. Len(more) |-> AttrOf(d[more[k]])]
            = Append([k \in 1 .. Len(own) |-> AttrOf(d[own[k]])], AttrOf(d[n + 1]))
      BY <2>7
    <2> QED
      BY <1>3, <2>5, <2>8
  <1> QED
    BY <1>2, <1>3

LEMMA ConcatAppend ==
    ASSUME NEW S, NEW p \in Seq(S), NEW q \in Seq(S), NEW x \in S
    PROVE  p \o Append(q, x) = Append(p \o q, x)
  <1> DEFINE l == p \o Append(q, x)
             r == Append(p \o q, x)
  <1>1. Append(q, x) \in Seq(S) /\ Len(Append(q, x)) = Len(q) + 1 /\ p \o q \in Seq(S)
    OBVIOUS
  <1>2. l \in Seq(S) /\ r \in Seq(S) /\ Len(l) = Len(p) + Len(q) + 1 /\ Len(r) = Len(l)
    BY <1>1
  <1>3. ASSUME NEW k \in 1 .. Len(p) + Len(q) + 1 PROVE l[k] = r[k]
    <2>1. CASE k <= Len(p)
      BY <1>1, <2>1
    <2>2. CASE k > Len(p) /\ k <= Len(p) + Len(q)
      <3>1. l[k] = Append(q, x)[k - Len(p)]
        BY <1>1, <2>2
      <3>2. r[k] = (p \o q)[k]
        BY <1>1, <2>2
      <3>3. (p \o q)[k] = q[k - Len(p)]
        BY <2>2
      <3>4. Append(q, x)[k - Len(p)] = q[k - Len(p)]
        BY <2>2
      <3> QED
        BY <3>1, <3>2, <3>3, <3>4
    <2>3. CASE k = Len(p) + Len(q) + 1
      BY <1>1, <2>3
    <2> QED
      BY <2>1, <2>2, <2>3
  <1> HIDE DEF l, r
  <1>4. l = r
    BY <1>2, <1>3
  <1> QED
    BY <1>4 DEF l, r

LEMMA BlocksType ==
    ASSUME NEW d \in Seq(JilLines), NEW n \in 0 .. Len(d)
    PROVE  /\ InOrder(VerbsTo(d, n)) \in Seq(VerbsTo(d, n))
           /\ BlocksTo(d, n) \in Seq(Blocks)
           /\ Len(BlocksTo(d, n)) = Len(InOrder(VerbsTo(d, n)))
  <1> DEFINE V == VerbsTo(d, n)
             verbs == InOrder(V)
  <1>1. V \in SUBSET (1 .. n) /\ n \in Nat
    BY DEF VerbsTo
  <1>2. verbs \in Seq(V)
    BY <1>1, InOrderIs
  <1>3. ASSUME NEW i \in V PROVE BlockTo(d, i, n) \in Blocks
    <2>1. d[i].verb \in Verbs /\ d[i].name \in Names /\ d[i].attrs \in Seq(Attrs)
      <3>1. d[i] \in JilLines /\ d[i].kind = "verb"
        BY <1>3 DEF VerbsTo
      <3> QED
        BY <3>1, LineType
    <2>2. BodyTo(d, i, n) \in Seq(Attrs)
      BY BodyType
    <2>3. (IF d[i].verb = "delete" THEN <<>> ELSE d[i].attrs \o BodyTo(d, i, n)) \in Seq(Attrs)
      BY <2>1, <2>2
    <2> QED
      BY <2>1, <2>3 DEF BlockTo, Blocks
  <1>4. BlocksTo(d, n) = [k \in 1 .. Len(verbs) |-> BlockTo(d, verbs[k], n)]
    BY DEF BlocksTo
  <1> HIDE DEF V, verbs
  <1>5. Len(verbs) \in Nat /\ \A k \in 1 .. Len(verbs) : verbs[k] \in V
    BY <1>2
  <1>6. BlocksTo(d, n) \in [1 .. Len(verbs) -> Blocks]
    BY <1>3, <1>4, <1>5
  <1> QED
    BY <1>2, <1>5, <1>6 DEF V, verbs

LEMMA BlocksVerb ==
    ASSUME NEW d \in Seq(JilLines), NEW n \in 0 .. Len(d) - 1, d[n + 1].kind = "verb"
    PROVE  BlocksTo(d, n + 1) =
             Append(BlocksTo(d, n),
                    [verb |-> d[n + 1].verb, name |-> d[n + 1].name,
                     attrs |-> IF d[n + 1].verb = "delete" THEN <<>> ELSE d[n + 1].attrs])
  <1> DEFINE V == VerbsTo(d, n)
             verbs == InOrder(V)
             more == InOrder(VerbsTo(d, n + 1))
             block == [verb |-> d[n + 1].verb, name |-> d[n + 1].name,
                       attrs |-> IF d[n + 1].verb = "delete" THEN <<>> ELSE d[n + 1].attrs]
  <1>1. V \in SUBSET (1 .. n) /\ n \in Nat /\ n \in 0 .. Len(d) /\ n + 1 \in 1 .. Len(d)
    BY DEF VerbsTo
  <1>2. VerbsTo(d, n + 1) = V \cup {n + 1}
    BY <1>1 DEF VerbsTo
  <1>3. more = Append(verbs, n + 1)
    <2> HIDE DEF V
    <2> QED
      BY <1>1, <1>2, InOrderMore
  <1>4. verbs \in Seq(V)
    BY <1>1, BlocksType
  <1>5. \A i : BlockTo(d, i, n + 1) = BlockTo(d, i, n)
    <2>1. \A i : BodyTo(d, i, n + 1) = BodyTo(d, i, n)
      BY BodyNext
    <2> QED
      BY <2>1, Zenon DEF BlockTo
  <1>6. BlockTo(d, n + 1, n + 1) = block
    <2>1. AttrsTo(d, n + 1, n + 1) = {}
      BY <1>1 DEF AttrsTo, Owner
    <2>2. BodyTo(d, n + 1, n + 1) = << >>
      <3>1. InOrder(AttrsTo(d, n + 1, n + 1)) = << >>
        BY <2>1, InOrderNone
      <3> DEFINE own == InOrder(AttrsTo(d, n + 1, n + 1))
      <3>2. BodyTo(d, n + 1, n + 1) = [k \in 1 .. Len(own) |-> AttrOf(d[own[k]])]
        BY DEF BodyTo
      <3> HIDE DEF own
      <3>3. Len(own) = 0
        BY <3>1 DEF own
      <3>4. [k \in 1 .. Len(own) |-> AttrOf(d[own[k]])] = << >>
        BY <3>3
      <3> QED
        BY <3>2, <3>4
    <2>3. d[n + 1].attrs \in Seq(Attrs)
      BY <1>1, LineType
    <2>4. d[n + 1].attrs \o << >> = d[n + 1].attrs
      BY <2>3
    <2> QED
      BY <2>2, <2>4, Zenon DEF BlockTo
  <1>7. /\ BlocksTo(d, n) = [k \in 1 .. Len(verbs) |-> BlockTo(d, verbs[k], n)]
        /\ BlocksTo(d, n + 1) = [k \in 1 .. Len(more) |-> BlockTo(d, more[k], n + 1)]
    BY DEF BlocksTo
  <1> HIDE DEF V, verbs, more, block
  <1>8. /\ Len(verbs) \in Nat /\ Len(more) = Len(verbs) + 1 /\ more[Len(verbs) + 1] = n + 1
        /\ \A k \in 1 .. Len(verbs) : more[k] = verbs[k]
    <2>1. V \in SUBSET Nat
      BY <1>1
    <2>2. verbs \in Seq(Nat)
      BY <1>4, <2>1, SeqOfMore
    <2> QED
      BY <1>1, <1>3, <2>2
  <1>9. BlocksTo(d, n + 1) = Append(BlocksTo(d, n), block)
    BY <1>5, <1>6, <1>7, <1>8
  <1> QED
    BY <1>9 DEF block

LEMMA BlocksSame ==
    ASSUME NEW d \in Seq(JilLines), NEW n \in 0 .. Len(d) - 1, d[n + 1].kind # "verb",
           d[n + 1].kind = "attr" => ~ InBlock(d, n + 1)
    PROVE  BlocksTo(d, n + 1) = BlocksTo(d, n)
  <1> DEFINE verbs == InOrder(VerbsTo(d, n))
  <1>1. n \in 0 .. Len(d)
    OBVIOUS
  <1>2. VerbsTo(d, n + 1) = VerbsTo(d, n)
    BY <1>1 DEF VerbsTo
  <1>3. ASSUME NEW i \in VerbsTo(d, n) PROVE BlockTo(d, i, n + 1) = BlockTo(d, i, n)
    <2>1. CASE d[n + 1].kind = "attr" /\ i \in Owner(d, n + 1)
      <3>1. d[i].kind = "verb"
        BY DEF VerbsTo
      <3>2. d[i].verb = "delete"
        BY <2>1, <3>1 DEF InBlock
      <3> QED
        BY <3>2 DEF BlockTo
    <2>2. CASE ~ (d[n + 1].kind = "attr" /\ i \in Owner(d, n + 1))
      <3>1. BodyTo(d, i, n + 1) = BodyTo(d, i, n)
        BY <2>2, BodyNext
      <3> QED
        BY <3>1, Zenon DEF BlockTo
    <2> QED
      BY <2>1, <2>2
  <1>4. /\ BlocksTo(d, n) = [k \in 1 .. Len(verbs) |-> BlockTo(d, verbs[k], n)]
        /\ BlocksTo(d, n + 1) = [k \in 1 .. Len(verbs) |-> BlockTo(d, verbs[k], n + 1)]
    BY <1>2, Zenon DEF BlocksTo
  <1>5. Len(verbs) \in Nat /\ \A k \in 1 .. Len(verbs) : verbs[k] \in VerbsTo(d, n)
    BY <1>1, BlocksType
  <1> HIDE DEF verbs
  <1> QED
    BY <1>3, <1>4, <1>5

LEMMA AddAttrIs ==
    ASSUME NEW blocks \in Seq(Blocks), blocks # << >>, NEW a \in JilLines, a.kind = "attr"
    PROVE  AddAttr(blocks, a) =
             [k \in 1 .. Len(blocks) |->
                IF k = Len(blocks)
                THEN [verb |-> blocks[k].verb, name |-> blocks[k].name,
                      attrs |-> Append(blocks[k].attrs, AttrOf(a))]
                ELSE blocks[k]]
  <1>1. Len(blocks) \in 1 .. Len(blocks) /\ blocks[Len(blocks)] \in Blocks
    OBVIOUS
  <1>2. \A b \in Blocks : \A x : [b EXCEPT !.attrs = x] = [verb |-> b.verb, name |-> b.name, attrs |-> x]
    BY DEF Blocks
  <1>3. AddAttr(blocks, a) =
          [blocks EXCEPT ![Len(blocks)] =
             [blocks[Len(blocks)] EXCEPT !.attrs = Append(blocks[Len(blocks)].attrs, AttrOf(a))]]
    BY DEF AddAttr, AttrOf
  <1> DEFINE b == blocks[Len(blocks)]
             c == [b EXCEPT !.attrs = Append(b.attrs, AttrOf(a))]
  <1>4. c = [verb |-> b.verb, name |-> b.name, attrs |-> Append(b.attrs, AttrOf(a))]
    BY <1>1, <1>2
  <1>5. AddAttr(blocks, a) = [blocks EXCEPT ![Len(blocks)] = c]
    BY <1>3
  <1> HIDE DEF c
  <1>6. [blocks EXCEPT ![Len(blocks)] = c] =
          [k \in 1 .. Len(blocks) |-> IF k = Len(blocks) THEN c ELSE blocks[k]]
    OBVIOUS
  <1> QED
    BY <1>4, <1>5, <1>6

LEMMA BlocksAttr ==
    ASSUME NEW d \in Seq(JilLines), NEW n \in 0 .. Len(d) - 1, d[n + 1].kind = "attr",
           InBlock(d, n + 1)
    PROVE  BlocksTo(d, n + 1) = AddAttr(BlocksTo(d, n), d[n + 1])
  <1> DEFINE V == VerbsTo(d, n)
             verbs == InOrder(V)
             old == BlocksTo(d, n)
             line == d[n + 1]
  <1>1. n \in 0 .. Len(d) /\ n \in Nat /\ n + 1 \in 1 .. Len(d) /\ n + 1 \in Nat /\ line \in JilLines
    OBVIOUS
  <1>2. PICK i \in Owner(d, n + 1) : d[i].kind = "verb" /\ d[i].verb # "delete"
    BY DEF InBlock
  <1>3. /\ i \in V /\ V \in SUBSET (1 .. n) /\ \A m \in V : m <= i
        /\ \A j \in Owner(d, n + 1) : j = i
    BY <1>1, <1>2, OwnerUnique DEF VerbsTo
  <1>4. VerbsTo(d, n + 1) = V
    BY <1>1 DEF VerbsTo
  <1>5. verbs \in Seq(V) /\ old \in Seq(Blocks) /\ Len(old) = Len(verbs)
    BY <1>1, BlocksType
  <1> HIDE DEF V
  <1>6. /\ Len(verbs) \in Nat /\ Len(verbs) >= 1 /\ verbs[Len(verbs)] = i
        /\ \A k \in 1 .. Len(verbs) - 1 : verbs[k] # i
    BY <1>1, <1>3, InOrderLast
  <1>7. /\ old = [k \in 1 .. Len(verbs) |-> BlockTo(d, verbs[k], n)]
        /\ BlocksTo(d, n + 1) = [k \in 1 .. Len(verbs) |-> BlockTo(d, verbs[k], n + 1)]
    BY <1>4, Zenon DEF BlocksTo, V
  <1>8. ASSUME NEW j, j # i PROVE BlockTo(d, j, n + 1) = BlockTo(d, j, n)
    <2>1. BodyTo(d, j, n + 1) = BodyTo(d, j, n)
      BY <1>3, <1>8, BodyNext
    <2> QED
      BY <2>1, Zenon DEF BlockTo
  <1>9. BlockTo(d, i, n + 1) = [verb |-> BlockTo(d, i, n).verb, name |-> BlockTo(d, i, n).name,
                                attrs |-> Append(BlockTo(d, i, n).attrs, AttrOf(line))]
    <2>1. BodyTo(d, i, n + 1) = Append(BodyTo(d, i, n), AttrOf(line))
      BY BodyNext
    <2>2. /\ BodyTo(d, i, n) \in Seq(Attrs) /\ AttrOf(line) \in Attrs /\ d[i].attrs \in Seq(Attrs)
      <3>1. d[i] \in JilLines
        BY <1>1, <1>3
      <3> QED
        BY <1>1, <1>2, <3>1, BodyType, LineType
    <2>3. d[i].attrs \o BodyTo(d, i, n + 1) = Append(d[i].attrs \o BodyTo(d, i, n), AttrOf(line))
      <3> DEFINE p == d[i].attrs
                 q == BodyTo(d, i, n)
                 x == AttrOf(line)
      <3>1. p \in Seq(Attrs) /\ q \in Seq(Attrs) /\ x \in Attrs
        BY <2>2
      <3> HIDE DEF p, q, x
      <3>2. p \o Append(q, x) = Append(p \o q, x)
        BY <3>1, ConcatAppend
      <3> QED
        BY <2>1, <3>2 DEF p, q, x
    <2> QED
      BY <1>2, <2>3 DEF BlockTo
  <1> HIDE DEF verbs, old, line
  <1>10. old # << >> /\ d[n + 1] = line /\ line.kind = "attr"
    BY <1>5, <1>6 DEF line
  <1>11. AddAttr(old, line) =
           [k \in 1 .. Len(verbs) |->
              IF k = Len(verbs)
              THEN [verb |-> old[k].verb, name |-> old[k].name,
                    attrs |-> Append(old[k].attrs, AttrOf(line))]
              ELSE old[k]]
    BY <1>1, <1>5, <1>10, AddAttrIs
  <1>12. ASSUME NEW k \in 1 .. Len(verbs)
         PROVE  BlockTo(d, verbs[k], n + 1) =
                  IF k = Len(verbs)
                  THEN [verb |-> old[k].verb, name |-> old[k].name,
                        attrs |-> Append(old[k].attrs, AttrOf(line))]
                  ELSE old[k]
    <2>1. old[k] = BlockTo(d, verbs[k], n)
      BY <1>7
    <2>2. CASE k = Len(verbs)
      BY <1>6, <1>9, <2>1, <2>2
    <2>3. CASE k # Len(verbs)
      <3>1. verbs[k] # i
        BY <1>6, <2>3
      <3> QED
        BY <1>8, <2>1, <2>3, <3>1
    <2> QED
      BY <2>2, <2>3
  <1>13. BlocksTo(d, n + 1) = AddAttr(old, line)
    BY <1>7, <1>11, <1>12
  <1> QED
    BY <1>13 DEF old, line

-----------------------------------------------------------------------------
(* What the loop of parse has after n lines. *)

ReadSoFar(d, n) ==
    LET r == ReadLines(d)[n]
    IN  /\ r.error = Offends(d, n)
        /\ r = [error |-> r.error, open |-> r.open, blocks |-> r.blocks]
        /\ r.error \in BOOLEAN /\ r.open \in BOOLEAN
        /\ ~ r.error => /\ r.open = InBlock(d, n + 1)
                        /\ r.blocks = BlocksTo(d, n)

LEMMA OffendsNext ==
    ASSUME NEW d \in Seq(JilLines), NEW n \in 0 .. Len(d) - 1
    PROVE  Offends(d, n + 1) =
             (Offends(d, n) \/ (d[n + 1].kind = "attr" /\ LooksLikeVerb(d[n + 1].key) /\ ~ InBlock(d, n + 1)))
  <1>1. \A i : i \in 1 .. n + 1 <=> i \in 1 .. n \/ i = n + 1
    OBVIOUS
  <1> QED
    BY <1>1, Zenon DEF Offends

LEMMA InBlockNext ==
    ASSUME NEW d \in Seq(JilLines), NEW n \in 1 .. Len(d)
    PROVE  InBlock(d, n + 1) = IF d[n].kind = "verb" THEN d[n].verb # "delete"
                               ELSE IF d[n].kind = "stray" THEN FALSE
                               ELSE InBlock(d, n)
  <1>1. CASE d[n].kind = "verb"
    <2>1. Owner(d, n + 1) = {n}
      BY <1>1, OwnerNext
    <2>2. InBlock(d, n + 1) = (d[n].kind = "verb" /\ d[n].verb # "delete")
      BY <2>1, Zenon DEF InBlock
    <2> QED
      BY <1>1, <2>2
  <1>2. CASE d[n].kind = "stray"
    <2>1. Owner(d, n + 1) = {n}
      BY <1>2, OwnerNext
    <2> QED
      BY <1>2, <2>1 DEF InBlock
  <1>3. CASE d[n].kind \notin {"verb", "stray"}
    <2>1. Owner(d, n + 1) = Owner(d, n)
      BY <1>3, OwnerNext
    <2> QED
      BY <1>3, <2>1, Zenon DEF InBlock
  <1> QED
    BY <1>1, <1>2, <1>3

LEMMA ReadFirst ==
    ASSUME NEW d \in Seq(JilLines)
    PROVE  ReadSoFar(d, 0)
  <1>1. ReadLines(d)[0] = [error |-> FALSE, open |-> FALSE, blocks |-> << >>]
    BY ReadLinesDef DEF Unread
  <1>2. Offends(d, 0) = FALSE
    BY DEF Offends
  <1>3. InBlock(d, 1) = FALSE
    BY OwnerFirst DEF InBlock
  <1>4. BlocksTo(d, 0) = << >>
    <2>1. VerbsTo(d, 0) = {}
      BY DEF VerbsTo
    <2>2. InOrder(VerbsTo(d, 0)) = << >>
      BY <2>1, InOrderNone
    <2>3. Len(BlocksTo(d, 0)) = Len(InOrder(VerbsTo(d, 0))) /\ BlocksTo(d, 0) \in Seq(Blocks)
      BY BlocksType
    <2> QED
      BY <2>2, <2>3
  <1> DEFINE r == ReadLines(d)[0]
  <1>5. /\ r.error = FALSE /\ r.open = FALSE /\ r.blocks = << >>
        /\ r = [error |-> r.error, open |-> r.open, blocks |-> r.blocks]
    BY <1>1
  <1> HIDE DEF r
  <1>6. r.error = Offends(d, 0) /\ r.open = InBlock(d, 0 + 1) /\ r.blocks = BlocksTo(d, 0)
    <2>1. 0 + 1 = 1
      OBVIOUS
    <2>2. InBlock(d, 0 + 1) = FALSE
      BY <1>3, <2>1
    <2> QED
      BY <1>2, <1>4, <1>5, <2>2
  <1> QED
    BY <1>5, <1>6 DEF ReadSoFar, r

LEMMA ReadNext ==
    ASSUME NEW d \in Seq(JilLines), NEW n \in 0 .. Len(d) - 1, ReadSoFar(d, n)
    PROVE  ReadSoFar(d, n + 1)
  <1> DEFINE s == ReadLines(d)[n]
             t == ReadLines(d)[n + 1]
             l == d[n + 1]
  <1>1. /\ s.error = Offends(d, n)
        /\ s = [error |-> s.error, open |-> s.open, blocks |-> s.blocks]
        /\ s.error \in BOOLEAN /\ s.open \in BOOLEAN
        /\ ~ s.error => s.open = InBlock(d, n + 1) /\ s.blocks = BlocksTo(d, n)
    BY DEF ReadSoFar
  <1>2. n + 1 \in 1 .. Len(d) /\ n \in 0 .. Len(d) /\ (n + 1) - 1 = n /\ l \in JilLines
    OBVIOUS
  <1>3. t = ReadLine(s, l)
    BY <1>2, ReadLinesDef
  <1>4. l.kind \in {"blank", "text", "stray", "verb", "attr"}
    BY <1>2, LineType
  <1>5. Offends(d, n + 1) =
          (Offends(d, n) \/ (l.kind = "attr" /\ LooksLikeVerb(l.key) /\ ~ InBlock(d, n + 1)))
    BY OffendsNext
  <1>6. InBlock(d, n + 2) = IF l.kind = "verb" THEN l.verb # "delete"
                            ELSE IF l.kind = "stray" THEN FALSE ELSE InBlock(d, n + 1)
    <2>1. InBlock(d, (n + 1) + 1) = IF l.kind = "verb" THEN l.verb # "delete"
                                    ELSE IF l.kind = "stray" THEN FALSE ELSE InBlock(d, n + 1)
      BY <1>2, InBlockNext
    <2>2. (n + 1) + 1 = n + 2
      OBVIOUS
    <2> QED
      BY <2>1, <2>2
  <1> SUFFICES /\ t.error = Offends(d, n + 1)
               /\ t = [error |-> t.error, open |-> t.open, blocks |-> t.blocks]
               /\ t.error \in BOOLEAN /\ t.open \in BOOLEAN
               /\ ~ t.error => t.open = InBlock(d, n + 2) /\ t.blocks = BlocksTo(d, n + 1)
    <2>1. (n + 1) + 1 = n + 2
      OBVIOUS
    <2> QED
      BY <2>1 DEF ReadSoFar
  <1>7. CASE s.error
    <2>1. t = s
      BY <1>3, <1>7 DEF ReadLine
    <2> QED
      BY <1>1, <1>5, <1>7, <2>1
  <1>8. CASE ~ s.error /\ l.kind = "stray"
    <2>1. t = [s EXCEPT !.open = FALSE]
      BY <1>3, <1>8 DEF ReadLine, Closes
    <2>2. t = [error |-> s.error, open |-> FALSE, blocks |-> s.blocks]
      BY <1>1, <2>1
    <2>3. BlocksTo(d, n + 1) = BlocksTo(d, n)
      BY <1>8, BlocksSame
    <2>4. t.error = s.error /\ t.open = FALSE /\ t.blocks = s.blocks
      BY <2>2
    <2>5. InBlock(d, n + 2) = FALSE
      BY <1>6, <1>8
    <2>6. Offends(d, n + 1) = s.error
      BY <1>1, <1>5, <1>8
    <2> QED
      BY <1>1, <1>8, <2>2, <2>3, <2>4, <2>5, <2>6
  <1>9. CASE ~ s.error /\ l.kind = "verb"
    <2> DEFINE block == [verb |-> l.verb, name |-> l.name,
                         attrs |-> IF l.verb = "delete" THEN <<>> ELSE l.attrs]
    <2>1. t = [s EXCEPT !.open = l.verb # "delete", !.blocks = Append(s.blocks, block)]
      BY <1>3, <1>9 DEF ReadLine, Closes
    <2> HIDE DEF block
    <2>2. t = [error |-> s.error, open |-> l.verb # "delete", blocks |-> Append(s.blocks, block)]
      BY <1>1, <2>1
    <2>3. BlocksTo(d, n + 1) = Append(BlocksTo(d, n), block)
      BY <1>9, BlocksVerb DEF block
    <2>4. (l.verb # "delete") \in BOOLEAN
      OBVIOUS
    <2> QED
      BY <1>1, <1>5, <1>6, <1>9, <2>2, <2>3, <2>4
  <1>10. CASE ~ s.error /\ l.kind = "attr" /\ s.open
    <2>1. t = [s EXCEPT !.blocks = AddAttr(s.blocks, l)]
      BY <1>3, <1>10 DEF ReadLine, Closes
    <2>2. t = [error |-> s.error, open |-> s.open, blocks |-> AddAttr(s.blocks, l)]
      BY <1>1, <2>1
    <2>3. InBlock(d, n + 1)
      BY <1>1, <1>10
    <2>4. BlocksTo(d, n + 1) = AddAttr(BlocksTo(d, n), l)
      BY <1>10, <2>3, BlocksAttr
    <2>5. t.error = s.error /\ t.open = s.open /\ t.blocks = AddAttr(s.blocks, l)
      BY <2>2
    <2>6. InBlock(d, n + 2) = s.open
      BY <1>1, <1>6, <1>10
    <2>7. Offends(d, n + 1) = s.error
      BY <1>1, <1>5, <1>10, <2>3
    <2> QED
      BY <1>1, <1>10, <2>2, <2>4, <2>5, <2>6, <2>7
  <1>11. CASE ~ s.error /\ l.kind = "attr" /\ ~ s.open
    <2>1. t = [s EXCEPT !.error = LooksLikeVerb(l.key)]
      BY <1>3, <1>11 DEF ReadLine, Closes
    <2>2. t = [error |-> LooksLikeVerb(l.key), open |-> s.open, blocks |-> s.blocks]
      BY <1>1, <2>1
    <2>3. ~ InBlock(d, n + 1)
      BY <1>1, <1>11
    <2>4. BlocksTo(d, n + 1) = BlocksTo(d, n)
      BY <1>11, <2>3, BlocksSame
    <2>5. LooksLikeVerb(l.key) \in BOOLEAN
      BY DEF LooksLikeVerb
    <2> QED
      BY <1>1, <1>5, <1>6, <1>11, <2>2, <2>3, <2>4, <2>5
  <1>12. CASE ~ s.error /\ l.kind \in {"blank", "text"}
    <2>1. t = s
      BY <1>3, <1>12 DEF ReadLine, Closes
    <2>2. BlocksTo(d, n + 1) = BlocksTo(d, n)
      BY <1>12, BlocksSame
    <2> QED
      BY <1>1, <1>5, <1>6, <1>12, <2>1, <2>2
  <1> QED
    BY <1>1, <1>4, <1>7, <1>8, <1>9, <1>10, <1>11, <1>12

LEMMA ReadAll ==
    ASSUME NEW d \in Seq(JilLines)
    PROVE  ReadSoFar(d, Len(d))
  <1> DEFINE S == {n \in Nat : n <= Len(d) => ReadSoFar(d, n)}
  <1>1. 0 \in S
    BY ReadFirst
  <1>2. ASSUME NEW n \in Nat, n \in S PROVE n + 1 \in S
    <2> SUFFICES ASSUME n + 1 <= Len(d) PROVE ReadSoFar(d, n + 1)
      OBVIOUS
    <2>1. n \in 0 .. Len(d) - 1 /\ ReadSoFar(d, n)
      BY <1>2
    <2> QED
      BY <2>1, ReadNext
  <1> HIDE DEF S
  <1>3. Len(d) \in S
    BY <1>1, <1>2, Induction
  <1> QED
    BY <1>3 DEF S

LEMMA WhatItSaysIs ==
    ASSUME NEW d \in Seq(JilLines)
    PROVE  WhatItSays(d) =
             IF \/ Offends(d, Len(d))
                \/ \E k \in DOMAIN BlocksTo(d, Len(d)) : BadValue(BlocksTo(d, Len(d))[k])
             THEN NoDocument
             ELSE [error |-> FALSE, blocks |-> BlocksTo(d, Len(d))]
  <1>1. DOMAIN d = 1 .. Len(d) /\ Len(d) \in 0 .. Len(d)
    OBVIOUS
  <1>2. \A i : Body(d, i) = BodyTo(d, i, Len(d))
    <2> TAKE i
    <2> DEFINE A == AttrsTo(d, i, Len(d))
               own == InOrder(A)
    <2>1. {a \in DOMAIN d : d[a].kind = "attr" /\ i \in Owner(d, a)} = A
      BY <1>1, Zenon DEF AttrsTo
    <2>2. own \in Seq(A)
      <3>1. A \in SUBSET (1 .. Len(d)) /\ Len(d) \in Nat
        BY DEF AttrsTo
      <3> QED
        BY <3>1, InOrderIs
    <2>3. Body(d, i) = [k \in DOMAIN own |-> AttrOf(d[own[k]])]
      BY <2>1, Zenon DEF Body
    <2>4. BodyTo(d, i, Len(d)) = [k \in 1 .. Len(own) |-> AttrOf(d[own[k]])]
      BY DEF BodyTo
    <2> HIDE DEF own
    <2>5. DOMAIN own = 1 .. Len(own)
      BY <2>2
    <2> QED
      BY <2>3, <2>4, <2>5
  <1>3. \A i : BlockAt(d, i) = BlockTo(d, i, Len(d))
    BY <1>2, Zenon DEF BlockAt, BlockTo
  <1> DEFINE verbs == InOrder(VerbsTo(d, Len(d)))
  <1>4. {i \in DOMAIN d : d[i].kind = "verb"} = VerbsTo(d, Len(d))
    BY <1>1, Zenon DEF VerbsTo
  <1>5. verbs \in Seq(VerbsTo(d, Len(d)))
    BY <1>1, BlocksType
  <1>6. BlocksTo(d, Len(d)) = [k \in 1 .. Len(verbs) |-> BlockTo(d, verbs[k], Len(d))]
    BY DEF BlocksTo
  <1> HIDE DEF verbs
  <1>7. DOMAIN verbs = 1 .. Len(verbs)
    BY <1>5
  <1>8. BlocksTo(d, Len(d)) = [k \in DOMAIN verbs |-> BlockAt(d, verbs[k])]
    BY <1>3, <1>6, <1>7
  <1>9. Offends(d, Len(d)) = \E i \in DOMAIN d : /\ d[i].kind = "attr" /\ LooksLikeVerb(d[i].key)
                                                /\ ~ InBlock(d, i)
    BY <1>1, Zenon DEF Offends
  <1> QED
    BY <1>4, <1>8, <1>9, Zenon DEF WhatItSays, verbs

(* A document of any length, of any names, keys and values, is read to what    *)
(* it says: no line is lost, doubled or put to another block, by whatever      *)
(* order of verb, attribute, blank and foreign lines (rsched_jil::parse,       *)
(* gather_attrs).                                                              *)
THEOREM BlocksAgreeSafe == input \in Inputs => BlocksAgree
  <1> SUFFICES ASSUME input \in Inputs, input.kind = "lines"
               PROVE  ParseJil(input.lines) = WhatItSays(input.lines)
    BY DEF BlocksAgree
  <1> DEFINE d == input.lines
             end == ReadLines(d)[Len(d)]
  <1>1. d \in Seq(JilLines)
    BY DEF Inputs, Documents, Forwards, Attempts, Clocks
  <1> HIDE DEF d
  <1>2. /\ end.error = Offends(d, Len(d))
        /\ ~ end.error => end.blocks = BlocksTo(d, Len(d))
    BY <1>1, ReadAll DEF ReadSoFar
  <1>3. ParseJil(d) = IF end.error \/ \E i \in DOMAIN end.blocks : BadValue(end.blocks[i])
                      THEN NoDocument ELSE [error |-> FALSE, blocks |-> end.blocks]
    BY DEF ParseJil
  <1> HIDE DEF end
  <1>4. ParseJil(d) = WhatItSays(d)
    <2>1. CASE end.error
      BY <1>1, <1>2, <1>3, <2>1, WhatItSaysIs
    <2>2. CASE ~ end.error
      BY <1>1, <1>2, <1>3, <2>2, WhatItSaysIs
    <2> QED
      BY <2>1, <2>2
  <1> QED
    BY <1>4 DEF d
=============================================================================
