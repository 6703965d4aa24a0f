---------------------------- MODULE Catalog_proofs ----------------------------
(***************************************************************************)
(* The tables of jobs, resources and holds, for every set of ids, names,   *)
(* callers and runs, every capacity and every set of documents.            *)
(***************************************************************************)
EXTENDS Catalog, Sums_proofs, SequenceTheorems, FiniteSetTheorems

-----------------------------------------------------------------------------
(* The units of a finite set of holds.                                     *)

UnitsOf(T) == MapThenSumSet(LAMBDA h : h.units, T)

(* f adds up the units of the sets in D. *)
Tallies(f, D) ==
    f = [s \in D |-> IF s = {} THEN 0
                     ELSE LET x == CHOOSE x \in s : TRUE IN x.units + f[s \ {x}]]

LEMMA UnitsOfIs ==
    ASSUME NEW T
    PROVE  UnitsOf(T) = (CHOOSE f : Tallies(f, SUBSET T))[T]
  BY DEF UnitsOf, MapThenSumSet, MapThenFoldSet, Tallies

FiniteHolds == {T \in SUBSET HoldRows : IsFiniteSet(T)}

LEMMA HoldsCount ==
    ASSUME NEW T \in FiniteHolds
    PROVE  /\ Cardinality(T) \in Nat /\ (Cardinality(T) = 0 <=> T = {})
           /\ \A S \in SUBSET T : S \in FiniteHolds /\ Cardinality(S) <= Cardinality(T)
           /\ \A x \in T : T \ {x} \in FiniteHolds /\ Cardinality(T \ {x}) = Cardinality(T) - 1
           /\ \A x \in HoldRows : T \cup {x} \in FiniteHolds
           /\ \A x \in T : x.units \in Nat
  <1>1. IsFiniteSet(T) /\ T \in SUBSET HoldRows
    BY DEF FiniteHolds
  <1>2. Cardinality(T) \in Nat /\ (Cardinality(T) = 0 <=> T = {})
    BY <1>1, FS_CardinalityType, FS_EmptySet
  <1>3. ASSUME NEW S \in SUBSET T PROVE S \in FiniteHolds /\ Cardinality(S) <= Cardinality(T)
    BY <1>1, FS_Subset DEF FiniteHolds
  <1>4. ASSUME NEW x \in T
        PROVE  T \ {x} \in FiniteHolds /\ Cardinality(T \ {x}) = Cardinality(T) - 1
    BY <1>1, FS_RemoveElement DEF FiniteHolds
  <1>5. ASSUME NEW x \in HoldRows PROVE T \cup {x} \in FiniteHolds
    BY <1>1, FS_AddElement DEF FiniteHolds
  <1>6. \A x \in T : x.units \in Nat
    BY <1>1 DEF HoldRows
  <1> QED
    BY <1>2, <1>3, <1>4, <1>5, <1>6

LEMMA TallyExists ==
    ASSUME NEW T \in FiniteHolds
    PROVE  \E f : Tallies(f, SUBSET T)
  <1> DEFINE D(n) == {s \in SUBSET T : Cardinality(s) <= n}
             S == {n \in Nat : \E f : Tallies(f, D(n))}
  <1>0. \A s \in SUBSET T : s \in FiniteHolds /\ Cardinality(s) \in Nat
    BY HoldsCount
  <1>1. 0 \in S
    <2> DEFINE f == [s \in D(0) |-> 0]
    <2>1. D(0) = {{}}
      BY <1>0, HoldsCount
    <2>2. Tallies(f, D(0))
      BY <2>1 DEF Tallies
    <2> QED
      BY <2>2
  <1>2. ASSUME NEW n \in Nat, n \in S PROVE n + 1 \in S
    <2>1. PICK f : Tallies(f, D(n))
      BY <1>2
    <2> DEFINE Next1(s) == LET x == CHOOSE x \in s : TRUE IN x.units + f[s \ {x}]
               g == [s \in D(n + 1) |-> IF s = {} THEN 0 ELSE Next1(s)]
    <2>2. ASSUME NEW s \in D(n) PROVE s \in D(n + 1) /\ g[s] = f[s]
      <3>1. s \in D(n + 1)
        BY <1>0
      <3>2. f[s] = IF s = {} THEN 0 ELSE Next1(s)
        BY <2>1, Zenon DEF Tallies
      <3> QED
        BY <3>1, <3>2
    <2>3. ASSUME NEW s \in D(n + 1), s # {}, NEW x \in s PROVE s \ {x} \in D(n)
      <3>1. s \in FiniteHolds /\ Cardinality(s) \in Nat /\ Cardinality(s) <= n + 1
        BY <1>0
      <3>2. Cardinality(s \ {x}) = Cardinality(s) - 1
        BY <3>1, HoldsCount
      <3> QED
        BY <3>1, <3>2
    <2>4. ASSUME NEW s \in D(n + 1)
          PROVE  g[s] = IF s = {} THEN 0 ELSE LET x == CHOOSE x \in s : TRUE IN x.units + g[s \ {x}]
      <3> DEFINE x == CHOOSE x \in s : TRUE
      <3>1. CASE s = {}
        BY <3>1
      <3>2. CASE s # {}
        <4>1. x \in s
          BY <3>2
        <4>2. s \ {x} \in D(n)
          <5> HIDE DEF x, D
          <5> QED
            BY <2>3, <3>2, <4>1
        <4>3. g[s \ {x}] = f[s \ {x}]
          <5> HIDE DEF x, D, g
          <5> QED
            BY <2>2, <4>2
        <4>4. g[s] = x.units + f[s \ {x}]
          BY <3>2
        <4> QED
          BY <3>2, <4>3, <4>4
      <3> QED
        BY <3>1, <3>2
    <2>5. Tallies(g, D(n + 1))
      <3>1. g = [s \in D(n + 1) |-> g[s]]
        OBVIOUS
      <3> HIDE DEF g, D
      <3>2. [s \in D(n + 1) |-> g[s]]
             = [s \in D(n + 1) |-> IF s = {} THEN 0
                                  ELSE LET x == CHOOSE x \in s : TRUE IN x.units + g[s \ {x}]]
        BY <2>4
      <3>3. g = [s \in D(n + 1) |-> IF s = {} THEN 0
                                  ELSE LET x == CHOOSE x \in s : TRUE IN x.units + g[s \ {x}]]
        BY <3>1, <3>2, Zenon
      <3> QED
        BY <3>3 DEF Tallies
    <2> QED
      BY <2>5
  <1>3. Cardinality(T) \in Nat /\ Cardinality(T) \in S
    <2> HIDE DEF S
    <2>1. Cardinality(T) \in Nat
      BY HoldsCount
    <2> QED
      BY <1>1, <1>2, <2>1, Induction
  <1>4. D(Cardinality(T)) = SUBSET T
    BY HoldsCount
  <1> QED
    BY <1>3, <1>4

(* Two tallies agree where both are defined.                               *)
LEMMA TalliesAgree ==
    ASSUME NEW T \in FiniteHolds, NEW U \in FiniteHolds, NEW f, NEW g,
           Tallies(f, SUBSET T), Tallies(g, SUBSET U)
    PROVE  \A s \in SUBSET (T \cap U) : f[s] = g[s]
  <1> DEFINE S == {n \in Nat : \A s \in SUBSET (T \cap U) : Cardinality(s) = n => f[s] = g[s]}
  <1>0. ASSUME NEW s \in SUBSET (T \cap U)
        PROVE  /\ s \in FiniteHolds /\ Cardinality(s) \in Nat
               /\ f[s] = (IF s = {} THEN 0 ELSE LET x == CHOOSE x \in s : TRUE IN x.units + f[s \ {x}])
               /\ g[s] = (IF s = {} THEN 0 ELSE LET x == CHOOSE x \in s : TRUE IN x.units + g[s \ {x}])
    <2>1. s \in SUBSET T /\ s \in SUBSET U
      OBVIOUS
    <2>2. s \in FiniteHolds
      BY <2>1, HoldsCount
    <2>3. f[s] = (IF s = {} THEN 0 ELSE LET x == CHOOSE x \in s : TRUE IN x.units + f[s \ {x}])
      BY <2>1, Zenon DEF Tallies
    <2>4. g[s] = (IF s = {} THEN 0 ELSE LET x == CHOOSE x \in s : TRUE IN x.units + g[s \ {x}])
      BY <2>1, Zenon DEF Tallies
    <2> QED
      BY <2>2, <2>3, <2>4, HoldsCount
  <1>1. 0 \in S
    BY <1>0, HoldsCount
  <1>2. ASSUME NEW n \in Nat, n \in S PROVE n + 1 \in S
    <2> SUFFICES ASSUME NEW s \in SUBSET (T \cap U), Cardinality(s) = n + 1 PROVE f[s] = g[s]
      OBVIOUS
    <2> DEFINE x == CHOOSE x \in s : TRUE
    <2>1. s # {} /\ s \in FiniteHolds
      BY <1>0, HoldsCount
    <2>2. x \in s
      BY <2>1
    <2>3. f[s] = x.units + f[s \ {x}] /\ g[s] = x.units + g[s \ {x}]
      BY <1>0, <2>1
    <2> HIDE DEF x
    <2>4. Cardinality(s \ {x}) = n /\ s \ {x} \in SUBSET (T \cap U)
      <3>1. Cardinality(s \ {x}) = Cardinality(s) - 1
        BY <2>1, <2>2, HoldsCount
      <3>2. n + 1 - 1 = n
        OBVIOUS
      <3> QED
        BY <3>1, <3>2
    <2> QED
      BY <1>2, <2>3, <2>4
  <1>3. \A n \in Nat : n \in S
    <2> HIDE DEF S
    <2> QED
      BY <1>1, <1>2, Induction
  <1> QED
    BY <1>0, <1>3

LEMMA UnitsOfDef ==
    ASSUME NEW T \in FiniteHolds
    PROVE  /\ T = {} => UnitsOf(T) = 0
           /\ T # {} => \E x \in T : UnitsOf(T) = x.units + UnitsOf(T \ {x})
  <1> DEFINE f == CHOOSE f : Tallies(f, SUBSET T)
  <1>1. Tallies(f, SUBSET T)
    BY TallyExists
  <1>2. UnitsOf(T) = f[T]
    BY UnitsOfIs
  <1> HIDE DEF f
  <1>3. f[T] = IF T = {} THEN 0 ELSE LET x == CHOOSE x \in T : TRUE IN x.units + f[T \ {x}]
    BY <1>1, Zenon DEF Tallies
  <1>4. ASSUME T # {} PROVE \E x \in T : UnitsOf(T) = x.units + UnitsOf(T \ {x})
    <2> DEFINE x == CHOOSE x \in T : TRUE
    <2>1. x \in T /\ UnitsOf(T) = x.units + f[T \ {x}]
      BY <1>2, <1>3, <1>4
    <2> HIDE DEF x
    <2> DEFINE U == T \ {x}
               g == CHOOSE g : Tallies(g, SUBSET U)
    <2>2. U \in FiniteHolds /\ U \in SUBSET (T \cap U)
      BY <2>1, HoldsCount
    <2>3. UnitsOf(U) = g[U]
      BY UnitsOfIs
    <2>4. Tallies(g, SUBSET U)
      BY <2>2, TallyExists
    <2> HIDE DEF g, U
    <2>5. f[U] = g[U]
      BY <1>1, <2>2, <2>4, TalliesAgree
    <2> QED
      BY <2>1, <2>3, <2>5 DEF U
  <1> QED
    BY <1>2, <1>3, <1>4

LEMMA UnitsOfNat ==
    ASSUME NEW T \in FiniteHolds
    PROVE  UnitsOf(T) \in Nat
  <1> DEFINE S == {n \in Nat : \A U \in FiniteHolds : Cardinality(U) = n => UnitsOf(U) \in Nat}
  <1>1. 0 \in S
    BY HoldsCount, UnitsOfDef
  <1>2. ASSUME NEW n \in Nat, n \in S PROVE n + 1 \in S
    <2> SUFFICES ASSUME NEW U \in FiniteHolds, Cardinality(U) = n + 1 PROVE UnitsOf(U) \in Nat
      OBVIOUS
    <2>1. U # {}
      BY HoldsCount
    <2>2. PICK y \in U : UnitsOf(U) = y.units + UnitsOf(U \ {y})
      BY <2>1, UnitsOfDef
    <2>3. U \ {y} \in FiniteHolds /\ Cardinality(U \ {y}) = n /\ y.units \in Nat
      BY HoldsCount
    <2> QED
      BY <1>2, <2>2, <2>3
  <1>3. Cardinality(T) \in Nat /\ Cardinality(T) \in S
    <2> HIDE DEF S
    <2>1. Cardinality(T) \in Nat
      BY HoldsCount
    <2> QED
      BY <1>1, <1>2, <2>1, Induction
  <1> QED
    BY <1>3

(* Whatever is taken away first. *)
LEMMA UnitsOfMinus ==
    ASSUME NEW T \in FiniteHolds
    PROVE  \A x \in T : UnitsOf(T) = x.units + UnitsOf(T \ {x})
  <1> DEFINE Ok(U) == \A x \in U : UnitsOf(U) = x.units + UnitsOf(U \ {x})
             S == {n \in Nat : \A U \in FiniteHolds : Cardinality(U) = n => Ok(U)}
  <1>1. 0 \in S
    BY HoldsCount
  <1>2. ASSUME NEW n \in Nat, n \in S PROVE n + 1 \in S
    <2> SUFFICES ASSUME NEW U \in FiniteHolds, Cardinality(U) = n + 1 PROVE Ok(U)
      OBVIOUS
    <2>0. ASSUME NEW V \in FiniteHolds, Cardinality(V) = n PROVE Ok(V)
      BY <1>2, <2>0
    <2>1. U # {}
      BY HoldsCount
    <2>2. PICK y \in U : UnitsOf(U) = y.units + UnitsOf(U \ {y})
      BY <2>1, UnitsOfDef
    <2>3. ASSUME NEW x \in U
          PROVE  /\ U \ {x} \in FiniteHolds /\ Cardinality(U \ {x}) = n /\ x.units \in Nat
      BY HoldsCount
    <2> HIDE DEF Ok
    <2>4. ASSUME NEW x \in U PROVE Ok(U \ {x})
      BY <2>0, <2>3
    <2>5. ASSUME NEW x \in U, x # y PROVE UnitsOf(U) = x.units + UnitsOf(U \ {x})
      <3> DEFINE V == (U \ {x}) \ {y}
      <3>1. x \in U \ {y} /\ y \in U \ {x} /\ (U \ {y}) \ {x} = V
        BY <2>5
      <3>2. UnitsOf(U \ {y}) = x.units + UnitsOf((U \ {y}) \ {x})
        BY <2>4, <3>1 DEF Ok
      <3>6. UnitsOf(U \ {y}) = x.units + UnitsOf(V)
        BY <3>1, <3>2
      <3>3. UnitsOf(U \ {x}) = y.units + UnitsOf(V)
        BY <2>4, <3>1 DEF Ok
      <3>4. V \in FiniteHolds
        BY <2>3, <3>1, HoldsCount
      <3> HIDE DEF V
      <3>5. UnitsOf(V) \in Nat
        BY <3>4, UnitsOfNat
      <3> QED
        <4>1. x.units \in Nat /\ y.units \in Nat
          BY <2>3
        <4> QED
          BY <2>2, <3>3, <3>5, <3>6, <4>1
    <2> QED
      BY <2>2, <2>5 DEF Ok
  <1>3. Cardinality(T) \in Nat /\ Cardinality(T) \in S
    <2> HIDE DEF S
    <2>1. Cardinality(T) \in Nat
      BY HoldsCount
    <2> QED
      BY <1>1, <1>2, <2>1, Induction
  <1> QED
    BY <1>3

LEMMA UnitsOfPlus ==
    ASSUME NEW T \in FiniteHolds, NEW x \in HoldRows, x \notin T
    PROVE  UnitsOf(T \cup {x}) = UnitsOf(T) + x.units
  <1>1. T \cup {x} \in FiniteHolds /\ (T \cup {x}) \ {x} = T
    BY HoldsCount
  <1>2. UnitsOf(T \cup {x}) = x.units + UnitsOf((T \cup {x}) \ {x})
    BY <1>1, UnitsOfMinus
  <1>3. x.units \in Nat /\ UnitsOf(T) \in Nat
    BY UnitsOfNat DEF HoldRows
  <1>4. UnitsOf((T \cup {x}) \ {x}) = UnitsOf(T)
    BY <1>1
  <1> QED
    BY <1>2, <1>3, <1>4

LEMMA UnitsOfLess ==
    ASSUME NEW T \in FiniteHolds, NEW U \in SUBSET T
    PROVE  UnitsOf(U) <= UnitsOf(T)
  <1> DEFINE S == {n \in Nat : \A V \in FiniteHolds :
                      Cardinality(V) = n /\ U \subseteq V => UnitsOf(U) <= UnitsOf(V)}
  <1>0. U \in FiniteHolds /\ UnitsOf(U) \in Nat
    BY HoldsCount, UnitsOfNat
  <1>1. 0 \in S
    <2> SUFFICES ASSUME NEW V \in FiniteHolds, Cardinality(V) = 0, U \subseteq V
                 PROVE  UnitsOf(U) <= UnitsOf(V)
      OBVIOUS
    <2>1. U = V
      BY HoldsCount
    <2> QED
      BY <1>0, <2>1
  <1>2. ASSUME NEW n \in Nat, n \in S PROVE n + 1 \in S
    <2> SUFFICES ASSUME NEW V \in FiniteHolds, Cardinality(V) = n + 1, U \subseteq V
                 PROVE  UnitsOf(U) <= UnitsOf(V)
      OBVIOUS
    <2>1. CASE U = V
      BY <1>0, <2>1
    <2>2. CASE U # V
      <3>1. PICK x \in V : x \notin U
        BY <2>2
      <3>2. /\ V \ {x} \in FiniteHolds /\ Cardinality(V \ {x}) = n /\ x.units \in Nat
            /\ U \subseteq V \ {x}
        <4>1. V \ {x} \in FiniteHolds /\ Cardinality(V \ {x}) = Cardinality(V) - 1
              /\ x.units \in Nat
          BY <3>1, HoldsCount
        <4>2. n + 1 - 1 = n
          OBVIOUS
        <4> QED
          BY <3>1, <4>1, <4>2
      <3>3. UnitsOf(U) <= UnitsOf(V \ {x})
        BY <1>2, <3>2
      <3>4. UnitsOf(V) = x.units + UnitsOf(V \ {x}) /\ UnitsOf(V \ {x}) \in Nat
        BY <3>2, UnitsOfMinus, UnitsOfNat
      <3> QED
        BY <1>0, <3>2, <3>3, <3>4
    <2> QED
      BY <2>1, <2>2
  <1>3. Cardinality(T) \in Nat /\ Cardinality(T) \in S
    <2> HIDE DEF S
    <2>1. Cardinality(T) \in Nat
      BY HoldsCount
    <2> QED
      BY <1>1, <1>2, <2>1, Induction
  <1> QED
    BY <1>3

(* What a resource is used: by a hold more, by fewer holds, by none. *)
LEMMA UsedIs ==
    ASSUME NEW H \in FiniteHolds, NEW r
    PROVE  /\ Used(H, r) \in Nat
           /\ (\A h \in H : h.res # r) => Used(H, r) = 0
           /\ \A x \in HoldRows \ H :
                 Used(H \cup {x}, r) = Used(H, r) + IF x.res = r THEN x.units ELSE 0
           /\ \A G \in SUBSET H : Used(G, r) <= Used(H, r)
  <1> DEFINE Of(G) == {h \in G : h.res = r}
  <1>0. \A G : Used(G, r) = UnitsOf(Of(G))
    BY DEF Used, UnitsOf
  <1>1. ASSUME NEW G \in SUBSET H PROVE Of(G) \in FiniteHolds /\ Of(G) \in SUBSET Of(H)
    BY HoldsCount
  <1>2. Of(H) \in FiniteHolds /\ UnitsOf(Of(H)) \in Nat
    BY <1>1, UnitsOfNat
  <1>3. (\A h \in H : h.res # r) => Used(H, r) = 0
    <2> SUFFICES ASSUME \A h \in H : h.res # r PROVE Used(H, r) = 0
      OBVIOUS
    <2>1. Of(H) = {}
      OBVIOUS
    <2> QED
      BY <1>0, <1>2, <2>1, UnitsOfDef
  <1>4. ASSUME NEW x \in HoldRows \ H
        PROVE  Used(H \cup {x}, r) = Used(H, r) + IF x.res = r THEN x.units ELSE 0
    <2>1. CASE x.res = r
      <3>1. Of(H \cup {x}) = Of(H) \cup {x} /\ x \notin Of(H)
        BY <1>4, <2>1
      <3>2. x \in HoldRows
        BY <1>4
      <3> HIDE DEF Of
      <3>3. UnitsOf(Of(H) \cup {x}) = UnitsOf(Of(H)) + x.units
        BY <1>2, <3>1, <3>2, UnitsOfPlus
      <3> QED
        BY <1>0, <2>1, <3>1, <3>3
    <2>2. CASE x.res # r
      <3>1. Of(H \cup {x}) = Of(H)
        BY <2>2
      <3> HIDE DEF Of
      <3> QED
        BY <1>0, <1>2, <2>2, <3>1
    <2> QED
      BY <2>1, <2>2
  <1>5. ASSUME NEW G \in SUBSET H PROVE Used(G, r) <= Used(H, r)
    <2> HIDE DEF Of
    <2> QED
      BY <1>0, <1>1, <1>2, UnitsOfLess
  <1> QED
    BY <1>0, <1>2, <1>3, <1>4, <1>5

-----------------------------------------------------------------------------
(* Types. *)

Due       == [id : JobIds, row : JobRows]
Contents  == [name : Names, trigger : Triggers \cup {"file"}, claims : Seq(Claims)]
CallPlace == {"idle", "put", "cli", "drop", "import", "jil", "stopped", "import_delete", "jil_delete"}
CallRows  == [at : CallPlace, id : JobIds \cup ResIds \cup {None}, seen : JobRows \cup Blocks \cup {None},
              doc : Seq(Blocks), start : SUBSET Contents, told : Seq(BOOLEAN)]
TickRows  == [at : {"idle", "pass", "insert", "advance", "conditions", "clear"}, todo : SUBSET Due,
              job : Due \cup {None}, run : Runs \cup {None}]

TableType ==
    /\ job \in [JobIds -> {None} \cup JobRows]
    /\ from \in [JobIds -> {None, "post", "import"}]
    /\ \A i \in Rows : from[i] # None
    /\ fired \subseteq JobIds
HoldType ==
    /\ resource \in [ResIds -> {None} \cup Resources]
    /\ holds \in FiniteHolds
PassType ==
    /\ run \in [Runs -> {"unused", "live", "ended", "lost"}]
    /\ tick \in TickRows
    /\ tick.at \in {"insert", "advance", "clear"} => tick.job \in tick.todo
    /\ tick.at \in {"insert", "advance"} => tick.run \in Runs
CallType ==
    /\ call \in [Callers -> CallRows]
    /\ \A c \in Callers :
        /\ call[c].at = "put" => call[c].id \in JobIds /\ call[c].seen \in JobRows
        /\ call[c].at = "cli" => call[c].id \in JobIds
        /\ call[c].at = "drop" => call[c].id \in ResIds
        /\ call[c].at \in {"import_delete", "jil_delete"} =>
              call[c].id \in JobIds /\ call[c].seen \in Blocks

TypeInv == TableType /\ HoldType /\ PassType /\ CallType

LEMMA RowIs ==
    ASSUME NEW n \in Names, NEW t \in Triggers \cup {"file"}, NEW claims \in Seq(Claims)
    PROVE  Row(n, t, claims) \in JobRows
  BY DEF Row, JobRows, FirstFire

LEMMA NoneIsNoRow == None \notin JobRows /\ None \notin Resources /\ None \notin Callers
  BY CatalogAssumption

LEMMA BlockIs ==
    ASSUME NEW b \in Blocks
    PROVE  /\ b.name \in Names
           /\ b.verb \in {"insert", "update", "delete"}
           /\ IntoJob(b.attrs).claims \in Seq(Claims)
           /\ IntoJob(b.attrs).trigger \in Triggers \cup {"file"}
  <1>1. b.name \in Names
    BY DEF Names
  <1>2. IntoJob(b.attrs).trigger = BuildTrigger(b.attrs)
    BY DEF IntoJob
  <1>3. BuildTrigger(b.attrs) \in Triggers \cup {"file"}
    BY DEF BuildTrigger, Triggers
  <1> QED
    BY <1>1, <1>2, <1>3, CatalogAssumption

LEMMA ContentType == TypeInv => Content \in SUBSET Contents
  BY DEF TypeInv, TableType, Content, Contents, Rows, JobRows

LEMMA CallingType ==
    ASSUME NEW place \in CallPlace, NEW id \in JobIds \cup ResIds \cup {None},
           NEW seen \in JobRows \cup Blocks \cup {None}
    PROVE  Calling(place, id, seen) \in CallRows
  <1>1. << >> \in Seq(Blocks) /\ << >> \in Seq(BOOLEAN) /\ {} \in SUBSET Contents
    OBVIOUS
  <1> QED
    BY <1>1 DEF Calling, CallRows

(* A row is written, or its due time or its pause.                         *)
LEMMA TableUpdate ==
    ASSUME TableType, NEW i \in JobIds, NEW row \in JobRows, Update(i, row)
    PROVE  TableType'
  BY NoneIsNoRow DEF TableType, Update, Rows

LEMMA TableErase == ASSUME TableType, NEW i \in JobIds, Erase(i) PROVE TableType'
  BY DEF TableType, Erase, Rows

LEMMA TableInsert ==
    ASSUME TableType, NEW i, NEW row \in JobRows, NEW origin \in {"post", "import"},
           Insert(i, row, origin)
    PROVE  TableType'
  BY CatalogAssumption DEF TableType, Insert, NewId, Rows

LEMMA TableField ==
    ASSUME TableType, from' = from, fired' \subseteq fired, NEW i \in Rows,
           \/ \E p \in BOOLEAN : job' = [job EXCEPT ![i].paused = p]
           \/ \E t \in {"none", "future", "due"} : job' = [job EXCEPT ![i].next = t]
    PROVE  TableType'
  <1>1. job[i] \in JobRows /\ i \in JobIds
    BY DEF TableType, Rows
  <1>2. ASSUME NEW p \in BOOLEAN PROVE [job[i] EXCEPT !.paused = p] \in JobRows
    BY <1>1, <1>2 DEF JobRows
  <1>3. ASSUME NEW t \in {"none", "future", "due"} PROVE [job[i] EXCEPT !.next = t] \in JobRows
    BY <1>1, <1>3 DEF JobRows
  <1>4. \E row \in JobRows : job' = [job EXCEPT ![i] = row]
    BY <1>2, <1>3
  <1> QED
    BY <1>1, <1>4, NoneIsNoRow DEF TableType, Rows

(* A call begins, moves on, ends. *)
CallFits(state) ==
    /\ state \in CallRows
    /\ state.at = "put" => state.id \in JobIds /\ state.seen \in JobRows
    /\ state.at = "cli" => state.id \in JobIds
    /\ state.at = "drop" => state.id \in ResIds
    /\ state.at \in {"import_delete", "jil_delete"} => state.id \in JobIds /\ state.seen \in Blocks

LEMMA CallMoves ==
    ASSUME CallType, NEW c \in Callers, NEW state, CallFits(state),
           call' = [call EXCEPT ![c] = state]
    PROVE  CallType'
  <1>1. ASSUME NEW d \in Callers PROVE call'[d] = IF d = c THEN state ELSE call[d]
    BY DEF CallType
  <1>2. call' \in [Callers -> CallRows]
    BY DEF CallType, CallFits
  <1> QED
    BY <1>1, <1>2 DEF CallType, CallFits

LEMMA QuietFits == CallFits(Quiet)
  <1>1. "idle" \in CallPlace
    BY DEF CallPlace
  <1>2. Quiet \in CallRows
    BY <1>1, CallingType DEF Quiet
  <1>3. Quiet.at = "idle"
    BY DEF Quiet, Calling
  <1> QED
    BY <1>2, <1>3 DEF CallFits

LEMMA CallFinish == ASSUME CallType, NEW c \in Callers, Finish(c) PROVE CallType'
  BY CallMoves, QuietFits DEF Finish

LEMMA TellIs ==
    ASSUME CallType, NEW c \in Callers, NEW b \in Blocks, NEW ok \in BOOLEAN, Tell(c, b, ok)
    PROVE  /\ CallType'
           /\ call'[c].at = IF Server(c) THEN "import" ELSE IF ok THEN "jil" ELSE "stopped"
           /\ call'[c].doc = Append(call[c].doc, b) /\ call'[c].told = Append(call[c].told, ok)
           /\ call'[c].start = call[c].start
           /\ \A d \in Callers \ {c} : call'[d] = call[d]
  <1> DEFINE place == IF Server(c) THEN "import" ELSE IF ok THEN "jil" ELSE "stopped"
             state == [at |-> place, id |-> None, seen |-> None, start |-> call[c].start,
                       doc |-> Append(call[c].doc, b), told |-> Append(call[c].told, ok)]
  <1>1. place \in {"import", "jil", "stopped"} /\ place \in CallPlace
    BY DEF CallPlace
  <1>2. call[c] \in CallRows /\ call \in [Callers -> CallRows]
    BY DEF CallType
  <1>3. call' = [call EXCEPT ![c] = state]
    BY DEF Tell
  <1> HIDE DEF place
  <1>4. call[c].doc \in Seq(Blocks) /\ call[c].told \in Seq(BOOLEAN)
        /\ call[c].start \in SUBSET Contents
    BY <1>2 DEF CallRows
  <1>5. Append(call[c].doc, b) \in Seq(Blocks) /\ Append(call[c].told, ok) \in Seq(BOOLEAN)
    BY <1>4
  <1>6. state \in CallRows
    BY <1>1, <1>4, <1>5 DEF CallRows
  <1>7. /\ state.at = place /\ state.doc = Append(call[c].doc, b)
        /\ state.told = Append(call[c].told, ok) /\ state.start = call[c].start
    OBVIOUS
  <1> HIDE DEF state
  <1>8. CallFits(state)
    BY <1>1, <1>6, <1>7 DEF CallFits
  <1>9. CallType'
    BY <1>3, <1>8, CallMoves
  <1>10. call'[c] = state /\ \A d \in Callers \ {c} : call'[d] = call[d]
    BY <1>2, <1>3
  <1> QED
    BY <1>7, <1>9, <1>10 DEF place

-----------------------------------------------------------------------------
(* try_acquire. *)

Accs  == [answer : {"yes", "no", "error"}, holds : FiniteHolds]
Start == [answer |-> "yes", holds |-> holds]

Acquires(f, r, claims, n) ==
    f = [k \in 0 .. n |-> IF k = 0 THEN Start ELSE AcquireOne(r, f[k - 1], claims[k])]

LEMMA AcquireExists ==
    ASSUME NEW r, NEW claims \in Seq(Claims)
    PROVE  \E f : Acquires(f, r, claims, Len(claims))
  <1> DEFINE S == {n \in Nat : \E f : Acquires(f, r, claims, n)}
  <1>1. 0 \in S
    <2> DEFINE f == [k \in 0 .. 0 |-> Start]
    <2>1. f = [k \in 0 .. 0 |-> IF k = 0 THEN Start ELSE AcquireOne(r, f[k - 1], claims[k])]
      OBVIOUS
    <2>2. Acquires(f, r, claims, 0)
      BY <2>1 DEF Acquires
    <2> QED
      BY <2>2
  <1>2. ASSUME NEW n \in Nat, n \in S PROVE n + 1 \in S
    <2>1. PICK f : Acquires(f, r, claims, n)
      BY <1>2
    <2> DEFINE g == [k \in 0 .. n + 1 |-> IF k = n + 1 THEN AcquireOne(r, f[n], claims[n + 1]) ELSE f[k]]
    <2>2. \A k \in 0 .. n : f[k] = IF k = 0 THEN Start ELSE AcquireOne(r, f[k - 1], claims[k])
      BY <2>1, Zenon DEF Acquires
    <2>3. \A k \in 0 .. n : g[k] = f[k]
      OBVIOUS
    <2>4. g[n + 1] = AcquireOne(r, f[n], claims[n + 1])
      OBVIOUS
    <2>5. g = [k \in 0 .. n + 1 |-> g[k]]
      OBVIOUS
    <2> HIDE DEF g
    <2>6. ASSUME NEW k \in 0 .. n + 1
          PROVE  g[k] = IF k = 0 THEN Start ELSE AcquireOne(r, g[k - 1], claims[k])
      <3>1. CASE k = n + 1
        <4>1. k - 1 = n /\ n \in 0 .. n /\ k # 0
          BY <3>1
        <4>2. g[k - 1] = f[n] /\ g[k] = AcquireOne(r, f[n], claims[k])
          BY <2>3, <2>4, <3>1, <4>1
        <4> QED
          BY <4>1, <4>2
      <3>2. CASE k # n + 1
        <4>1. k \in 0 .. n /\ (k # 0 => k - 1 \in 0 .. n)
          BY <3>2
        <4>2. g[k] = f[k] /\ (k # 0 => g[k - 1] = f[k - 1])
          BY <2>3, <4>1
        <4> QED
          BY <2>2, <4>1, <4>2
      <3> QED
        BY <3>1, <3>2
    <2>7. Acquires(g, r, claims, n + 1)
      <3>1. [k \in 0 .. n + 1 |-> g[k]]
             = [k \in 0 .. n + 1 |-> IF k = 0 THEN Start ELSE AcquireOne(r, g[k - 1], claims[k])]
        BY <2>6
      <3>2. g = [k \in 0 .. n + 1 |-> IF k = 0 THEN Start ELSE AcquireOne(r, g[k - 1], claims[k])]
        BY <2>5, <3>1, Zenon
      <3> QED
        BY <3>2 DEF Acquires
    <2> QED
      BY <2>7
  <1>3. Len(claims) \in S
    <2> HIDE DEF S
    <2>1. Len(claims) \in Nat
      OBVIOUS
    <2> QED
      BY <1>1, <1>2, <2>1, Induction
  <1> QED
    BY <1>3

LEMMA AcquireDef ==
    ASSUME NEW r, NEW claims \in Seq(Claims)
    PROVE  \E f : /\ TryAcquire(r, claims) = f[Len(claims)]
                 /\ f[0] = Start
                 /\ \A k \in 1 .. Len(claims) : f[k] = AcquireOne(r, f[k - 1], claims[k])
  <1> DEFINE f == CHOOSE f : Acquires(f, r, claims, Len(claims))
  <1>1. TryAcquire(r, claims) = f[Len(claims)]
    BY DEF TryAcquire, Acquires, Start
  <1>2. Acquires(f, r, claims, Len(claims))
    BY AcquireExists
  <1> HIDE DEF f
  <1>3. \A k \in 0 .. Len(claims) : f[k] = IF k = 0 THEN Start ELSE AcquireOne(r, f[k - 1], claims[k])
    BY <1>2, Zenon DEF Acquires
  <1>4. f[0] = Start
    <2>1. 0 \in 0 .. Len(claims)
      OBVIOUS
    <2> QED
      BY <1>3, <2>1
  <1>5. ASSUME NEW k \in 1 .. Len(claims) PROVE f[k] = AcquireOne(r, f[k - 1], claims[k])
    <2>1. k \in 0 .. Len(claims) /\ k # 0
      OBVIOUS
    <2> QED
      BY <1>3, <2>1
  <1> QED
    BY <1>1, <1>4, <1>5

LEMMA AcquireNothing == \A r : TryAcquire(r, << >>) = Start
  <1> TAKE r
  <1> DEFINE none == << >>
  <1>1. none \in Seq(Claims) /\ Len(none) = 0
    OBVIOUS
  <1> HIDE DEF none
  <1>2. TryAcquire(r, none) = Start
    BY <1>1, AcquireDef
  <1> QED
    BY <1>2 DEF none

(* The capacity of the resources, and holds only of resources there are.   *)
Within(H) ==
    /\ \A s \in ResIds : resource[s] # None => Used(H, s) <= resource[s].cap
    /\ \A h \in H : resource[h.res] # None

Acquired(r, acc) ==
    /\ acc \in Accs
    /\ holds \subseteq acc.holds /\ \A h \in acc.holds \ holds : h.run = r
    /\ Within(holds) => Within(acc.holds)

LEMMA AcquireOneOk ==
    ASSUME HoldType, NEW r \in Runs, NEW acc, Acquired(r, acc), NEW claim \in Claims
    PROVE  Acquired(r, AcquireOne(r, acc, claim))
  <1> DEFINE new == AcquireOne(r, acc, claim)
             id  == CHOOSE i \in ResNamed(claim.res) : TRUE
             hold == [run |-> r, res |-> id, units |-> claim.units]
             more == [acc EXCEPT !.holds = @ \cup {hold}]
  <1> SUFFICES Acquired(r, new)
    OBVIOUS
  <1>1. CASE new = acc
    BY <1>1
  <1>2. CASE \E a \in {"no", "error"} : new = [acc EXCEPT !.answer = a]
    <2>1. acc \in Accs
      BY DEF Acquired
    <2>2. new \in Accs /\ new.holds = acc.holds
      BY <1>2, <2>1 DEF Accs
    <2> HIDE DEF new
    <2> QED
      BY <2>2 DEF Acquired
  <1>3. CASE /\ ResNamed(claim.res) # {} /\ Used(acc.holds, id) + claim.units <= resource[id].cap
             /\ ~ \E h \in acc.holds : h.run = r /\ h.res = id
             /\ new = more
    <2>1. id \in ResIds /\ resource[id] # None /\ claim.units \in Nat
      BY <1>3 DEF ResNamed, Claims
    <2> HIDE DEF id
    <2>2. hold \in HoldRows /\ hold.res = id /\ hold.run = r /\ hold.units = claim.units
      BY <2>1 DEF HoldRows
    <2>3. hold \notin acc.holds
      BY <1>3, <2>2
    <2>4. acc \in Accs /\ acc.holds \in FiniteHolds /\ holds \subseteq acc.holds
          /\ \A h \in acc.holds \ holds : h.run = r
      BY DEF Acquired, Accs
    <2> HIDE DEF hold
    <2> DEFINE H == acc.holds \cup {hold}
    <2>5. H \in FiniteHolds
      BY <2>2, <2>4, HoldsCount
    <2>6. more \in Accs /\ more.holds = H
      BY <2>4, <2>5 DEF Accs
    <2>7. holds \subseteq H /\ \A h \in H \ holds : h.run = r
      BY <2>2, <2>4
    <2>8. ASSUME Within(holds) PROVE Within(H)
      <3>1. Within(acc.holds)
        BY <2>8 DEF Acquired
      <3>2. ASSUME NEW s \in ResIds, resource[s] # None PROVE Used(H, s) <= resource[s].cap
        <4>1. Used(H, s) = Used(acc.holds, s) + (IF hold.res = s THEN hold.units ELSE 0)
              /\ Used(acc.holds, s) \in Nat
          BY <2>2, <2>3, <2>4, UsedIs
        <4>2. Used(acc.holds, s) <= resource[s].cap
          BY <3>1, <3>2 DEF Within
        <4>3. CASE s = id
          BY <1>3, <2>2, <4>1, <4>3
        <4>4. CASE s # id
          BY <2>2, <4>1, <4>2, <4>4
        <4> QED
          BY <4>3, <4>4
      <3>3. \A h \in H : resource[h.res] # None
        BY <2>1, <2>2, <3>1 DEF Within
      <3> QED
        BY <3>2, <3>3 DEF Within
    <2> HIDE DEF H
    <2>9. new \in Accs /\ new.holds = H
      BY <1>3, <2>6
    <2> HIDE DEF new
    <2> QED
      BY <2>7, <2>8, <2>9 DEF Acquired
  <1>4. \/ new = acc
        \/ \E a \in {"no", "error"} : new = [acc EXCEPT !.answer = a]
        \/ /\ ResNamed(claim.res) # {} /\ ~ (Used(acc.holds, id) + claim.units > resource[id].cap)
           /\ ~ \E h \in acc.holds : h.run = r /\ h.res = id
           /\ new = more
    BY DEF AcquireOne
  <1>5. ASSUME ResNamed(claim.res) # {}, ~ (Used(acc.holds, id) + claim.units > resource[id].cap)
        PROVE  Used(acc.holds, id) + claim.units <= resource[id].cap
    <2>1. id \in ResIds /\ resource[id] # None /\ claim.units \in Nat
      BY <1>5 DEF ResNamed, Claims
    <2> HIDE DEF id
    <2>2. resource[id].cap \in Nat
      BY <2>1 DEF HoldType, Resources
    <2>3. Used(acc.holds, id) \in Nat
      BY UsedIs DEF Acquired, Accs
    <2> QED
      BY <1>5, <2>1, <2>2, <2>3
  <1> HIDE DEF new, id, more
  <1> QED
    BY <1>1, <1>2, <1>3, <1>4, <1>5

LEMMA AcquireOk ==
    ASSUME HoldType, NEW r \in Runs, NEW claims \in Seq(Claims)
    PROVE  Acquired(r, TryAcquire(r, claims))
  <1>1. PICK f : /\ TryAcquire(r, claims) = f[Len(claims)]
                 /\ f[0] = Start
                 /\ \A k \in 1 .. Len(claims) : f[k] = AcquireOne(r, f[k - 1], claims[k])
    BY AcquireDef
  <1> DEFINE S == {n \in Nat : n <= Len(claims) => Acquired(r, f[n])}
  <1>2. 0 \in S
    <2>1. Start \in Accs /\ Start.holds = holds
      BY DEF Start, Accs, HoldType
    <2> QED
      BY <1>1, <2>1 DEF Acquired
  <1>3. ASSUME NEW n \in Nat, n \in S PROVE n + 1 \in S
    <2> SUFFICES ASSUME n + 1 <= Len(claims) PROVE Acquired(r, f[n + 1])
      OBVIOUS
    <2>1. n + 1 \in 1 .. Len(claims) /\ n + 1 - 1 = n /\ n <= Len(claims)
      OBVIOUS
    <2>2. Acquired(r, f[n]) /\ claims[n + 1] \in Claims
      BY <1>3, <2>1
    <2>3. f[n + 1] = AcquireOne(r, f[n], claims[n + 1])
      BY <1>1, <2>1
    <2> QED
      BY <2>2, <2>3, AcquireOneOk
  <1>4. Len(claims) \in Nat /\ Len(claims) \in S
    <2> HIDE DEF S
    <2>1. Len(claims) \in Nat
      OBVIOUS
    <2> QED
      BY <1>2, <1>3, <2>1, Induction
  <1> QED
    BY <1>1, <1>4

-----------------------------------------------------------------------------
(* The types hold throughout. *)

LEMMA TableSame == ASSUME TableType, UNCHANGED <<job, from>>, fired' \subseteq JobIds PROVE TableType'
  BY DEF TableType, Rows

LEMMA HoldSame == ASSUME HoldType, UNCHANGED resVars PROVE HoldType'
  BY DEF HoldType, resVars

LEMMA PassSame == ASSUME PassType, UNCHANGED <<tick, run>> PROVE PassType'
  BY DEF PassType

LEMMA CallSame == ASSUME CallType, UNCHANGED call PROVE CallType'
  BY DEF CallType

LEMMA TypeInit == CatalogInit => TypeInv
  <1> SUFFICES ASSUME CatalogInit PROVE TypeInv
    OBVIOUS
  <1>1. TableType
    <2>1. job \in [JobIds -> {None} \cup InitRows]
          /\ from = [i \in JobIds |-> IF job[i] = None THEN None ELSE "import"] /\ fired = {}
      BY DEF CatalogInit
    <2>2. InitRows \subseteq JobRows /\ None # "import"
      BY CatalogAssumption
    <2> QED
      BY <2>1, <2>2 DEF TableType, Rows
  <1>2. HoldType
    <2>1. resource \in [ResIds -> {None} \cup [name : ResNames, cap : {Capacity}]] /\ holds = {}
      BY DEF CatalogInit
    <2>2. Capacity \in Nat
      BY CatalogAssumption
    <2>3. {} \in FiniteHolds
      BY FS_EmptySet DEF FiniteHolds
    <2> QED
      BY <2>1, <2>2, <2>3 DEF HoldType, Resources
  <1>3. PassType
    BY DEF CatalogInit, PassType, Resting, Pass, TickRows
  <1>4. CallType
    <2>1. call = [c \in Callers |-> Quiet] /\ Quiet \in CallRows /\ Quiet.at = "idle"
      BY QuietFits DEF CatalogInit, CallFits, Quiet, Calling
    <2> QED
      BY <2>1 DEF CallType
  <1> QED
    BY <1>1, <1>2, <1>3, <1>4 DEF TypeInv

LEMMA RequestTypes == ASSUME TypeInv, RequestNext PROVE TypeInv'
  <1> USE DEF TypeInv
  <1>1. ASSUME NEW n \in JobNames, NEW t \in Triggers, CreateJob(n, t) PROVE TypeInv'
    <2>1. Row(n, t, << >>) \in JobRows
      <3>1. n \in Names /\ t \in Triggers \cup {"file"} /\ << >> \in Seq(Claims)
        BY DEF Names
      <3> QED
        BY <3>1, RowIs
    <2>2. TableType'
      BY <1>1, <2>1, TableInsert DEF CreateJob
    <2> QED
      BY <1>1, <2>2, HoldSame, PassSame, CallSame DEF CreateJob, passVars
  <1>2. ASSUME NEW i \in JobIds, DeleteJob(i) PROVE TypeInv'
    BY <1>2, TableErase, HoldSame, PassSame, CallSame DEF DeleteJob, passVars
  <1>3. ASSUME NEW i \in JobIds, TriggerJob(i) PROVE TypeInv'
    BY <1>3, TableField, HoldSame, PassSame, CallSame DEF TriggerJob, passVars
  <1>4. ASSUME NEW i \in JobIds, NEW p \in BOOLEAN, SetPaused(i, p) PROVE TypeInv'
    BY <1>4, TableField, HoldSame, PassSame, CallSame DEF SetPaused, passVars
  <1>5. ASSUME NEW r \in ResIds, NEW n \in ResNames, CreateResource(r, n) PROVE TypeInv'
    <2>1. [name |-> n, cap |-> Capacity] \in Resources
      BY CatalogAssumption DEF Resources
    <2>2. HoldType'
      BY <1>5, <2>1 DEF CreateResource, HoldType
    <2>3. TableType'
      BY <1>5, TableSame DEF CreateResource, jobVars, TableType
    <2> QED
      BY <1>5, <2>2, <2>3, PassSame, CallSame DEF CreateResource, passVars
  <1> QED
    BY <1>1, <1>2, <1>3, <1>4, <1>5 DEF RequestNext

(* A request of several steps begins. *)
LEMMA BeginTypes ==
    ASSUME TypeInv, NEW c \in Callers, NEW state, CallFits(state), Begin(c, state)
    PROVE  TypeInv'
  <1>1. CallType'
    BY CallMoves DEF TypeInv, Begin
  <1>2. TableType'
    BY TableSame DEF TypeInv, Begin, TableType
  <1> QED
    BY <1>1, <1>2, HoldSame, PassSame DEF TypeInv, Begin, passVars

LEMMA CallingFits ==
    ASSUME NEW place \in {"put", "cli", "drop", "import", "jil"}, NEW id, NEW seen,
           \/ place = "put" /\ id \in JobIds /\ seen \in JobRows
           \/ place = "cli" /\ id \in JobIds /\ seen = None
           \/ place = "drop" /\ id \in ResIds /\ seen = None
           \/ place \in {"import", "jil"} /\ id = None /\ seen = None
    PROVE  CallFits(Calling(place, id, seen))
  <1>1. place \in CallPlace /\ id \in JobIds \cup ResIds \cup {None}
        /\ seen \in JobRows \cup Blocks \cup {None}
    BY DEF CallPlace
  <1>2. Calling(place, id, seen) \in CallRows
    BY <1>1, CallingType
  <1>3. Calling(place, id, seen).at = place /\ Calling(place, id, seen).id = id
        /\ Calling(place, id, seen).seen = seen
    BY DEF Calling
  <1> QED
    BY <1>2, <1>3 DEF CallFits

(* The steps of the calls but those of a document. *)
CallSteps(c) ==
    \/ \E i \in JobIds : UpdateRead(c, i)
    \/ \E n \in JobNames : CliResolve(c, n) \/ \E t \in Triggers : UpdateWrite(c, n, t)
    \/ UpdateRefused(c) \/ CliDelete(c) \/ CliTrigger(c) \/ \E p \in BOOLEAN : CliSetPaused(c, p)
    \/ \E n \in ResNames : DeleteResourceFind(c, n)
    \/ DeleteResource(c)

DocumentSteps(c) ==
    \/ \E kind \in {"import", "jil"} : DocumentBegin(c, kind)
    \/ \E b \in Blocks : BlockInsert(c, b) \/ BlockFails(c, b) \/ BlockFind(c, b)
    \/ BlockDelete(c) \/ DocumentEnd(c)

LEMMA PutRowIs ==
    ASSUME NEW seen \in JobRows, NEW n \in JobNames, NEW t \in Triggers
    PROVE  /\ PutRow(seen, n, t) \in JobRows
           /\ PutRow(seen, n, t).name = n /\ PutRow(seen, n, t).trigger = t
           /\ PutRow(seen, n, t).claims = seen.claims /\ PutRow(seen, n, t).paused = seen.paused
  <1>1. n \in Names /\ t \in Triggers \cup {"file"} /\ seen.claims \in Seq(Claims) /\ seen.paused \in BOOLEAN
    BY DEF Names, JobRows
  <1>2. Row(n, t, seen.claims) \in JobRows
    BY <1>1, RowIs
  <1> QED
    BY <1>1, <1>2 DEF PutRow, Row, JobRows

LEMMA CallStepTypes == ASSUME TypeInv, NEW c \in Callers, CallSteps(c) PROVE TypeInv'
  <1> USE DEF TypeInv
  <1>1. ASSUME NEW i \in JobIds, UpdateRead(c, i) PROVE TypeInv'
    <2>1. job[i] \in JobRows
      BY <1>1 DEF UpdateRead, Rows, TableType
    <2>2. CallFits(Calling("put", i, job[i]))
      BY <2>1, CallingFits
    <2> QED
      BY <1>1, <2>2, BeginTypes DEF UpdateRead
  <1>2. ASSUME NEW n \in JobNames, CliResolve(c, n) PROVE TypeInv'
    <2>1. PICK i \in Named(n) : Begin(c, Calling("cli", i, None))
      BY <1>2 DEF CliResolve
    <2>2. i \in JobIds
      BY <2>1 DEF Named, Rows
    <2>3. CallFits(Calling("cli", i, None))
      BY <2>2, CallingFits
    <2> QED
      BY <2>1, <2>3, BeginTypes
  <1>3. ASSUME NEW n \in JobNames, NEW t \in Triggers, UpdateWrite(c, n, t) PROVE TypeInv'
    <2>1. call[c].id \in JobIds /\ call[c].seen \in JobRows
      BY <1>3 DEF UpdateWrite, CallType
    <2>2. PutRow(call[c].seen, n, t) \in JobRows
      BY <2>1, PutRowIs
    <2>3. TableType'
      BY <1>3, <2>1, <2>2, TableUpdate DEF UpdateWrite
    <2> QED
      BY <1>3, <2>3, CallFinish, HoldSame, PassSame DEF UpdateWrite, passVars
  <1>4. ASSUME UpdateRefused(c) PROVE TypeInv'
    <2>1. TableType'
      BY <1>4, TableSame DEF UpdateRefused, jobVars, TableType
    <2> QED
      BY <1>4, <2>1, CallFinish, HoldSame, PassSame DEF UpdateRefused, passVars
  <1>5. ASSUME CliDelete(c) PROVE TypeInv'
    <2>1. call[c].id \in JobIds
      BY <1>5 DEF CliDelete, CallType
    <2> QED
      BY <1>5, <2>1, TableErase, CallFinish, HoldSame, PassSame DEF CliDelete, passVars
  <1>6. ASSUME CliTrigger(c) PROVE TypeInv'
    <2>1. TableType'
      <3>1. CASE call[c].id \in Rows
        BY <1>6, <3>1, TableField DEF CliTrigger
      <3>2. CASE call[c].id \notin Rows
        BY <1>6, <3>2, TableSame DEF CliTrigger, TableType
      <3> QED
        BY <3>1, <3>2
    <2> QED
      BY <1>6, <2>1, CallFinish, HoldSame, PassSame DEF CliTrigger, passVars
  <1>7. ASSUME NEW p \in BOOLEAN, CliSetPaused(c, p) PROVE TypeInv'
    <2>1. TableType'
      <3>1. CASE call[c].id \in Rows
        BY <1>7, <3>1, TableField DEF CliSetPaused
      <3>2. CASE call[c].id \notin Rows
        BY <1>7, <3>2, TableSame DEF CliSetPaused, TableType
      <3> QED
        BY <3>1, <3>2
    <2> QED
      BY <1>7, <2>1, CallFinish, HoldSame, PassSame DEF CliSetPaused, passVars
  <1>8. ASSUME NEW n \in ResNames, DeleteResourceFind(c, n) PROVE TypeInv'
    <2>1. PICK r \in ResNamed(n) : Begin(c, Calling("drop", r, None))
      BY <1>8 DEF DeleteResourceFind
    <2>2. r \in ResIds
      BY <2>1 DEF ResNamed
    <2>3. CallFits(Calling("drop", r, None))
      BY <2>2, CallingFits
    <2> QED
      BY <2>1, <2>3, BeginTypes
  <1>9. ASSUME DeleteResource(c) PROVE TypeInv'
    <2>1. call[c].id \in ResIds
      BY <1>9 DEF DeleteResource, CallType
    <2>2. resource' \in [ResIds -> {None} \cup Resources]
      BY <1>9, <2>1 DEF DeleteResource, HoldType
    <2>3. holds' \in FiniteHolds
      BY <1>9, HoldsCount DEF DeleteResource, HoldType
    <2>4. TableType'
      BY <1>9, TableSame DEF DeleteResource, jobVars, TableType
    <2>5. HoldType'
      BY <2>2, <2>3 DEF HoldType
    <2> QED
      BY <1>9, <2>4, <2>5, CallFinish, PassSame DEF DeleteResource, passVars
  <1> QED
    BY <1>1, <1>2, <1>3, <1>4, <1>5, <1>6, <1>7, <1>8, <1>9 DEF CallSteps

(* A block that goes: found, then deleted. *)
Finding(c) == IF Server(c) THEN "import_delete" ELSE "jil_delete"

LEMMA FindIs ==
    ASSUME TypeInv, NEW c \in Callers, NEW b \in Blocks, BlockFind(c, b)
    PROVE  \E i \in Named(b.name) :
           /\ CallType'
           /\ call'[c].at = Finding(c)
           /\ call'[c].id = i /\ call'[c].seen = b /\ call'[c].doc = call[c].doc
           /\ call'[c].told = call[c].told /\ call'[c].start = call[c].start
           /\ \A d \in Callers \ {c} : call'[d] = call[d]
  <1>1. Finding(c) \in {"import_delete", "jil_delete"} /\ Finding(c) \in CallPlace
    BY DEF CallPlace, Finding
  <1>2. call[c] \in CallRows /\ call \in [Callers -> CallRows]
    BY DEF TypeInv, CallType
  <1>3. PICK i \in Named(b.name) :
           call' = [call EXCEPT ![c] = [call[c] EXCEPT !.at = Finding(c), !.id = i, !.seen = b]]
    BY Zenon DEF BlockFind, Finding
  <1>4. i \in JobIds
    BY DEF Named, Rows
  <1> DEFINE state == [call[c] EXCEPT !.at = Finding(c), !.id = i, !.seen = b]
  <1>5. state \in CallRows
    BY <1>1, <1>2, <1>4 DEF CallRows
  <1>6. /\ state.at = Finding(c) /\ state.id = i /\ state.seen = b /\ state.doc = call[c].doc
        /\ state.told = call[c].told /\ state.start = call[c].start
    BY <1>2 DEF CallRows
  <1>7. call' = [call EXCEPT ![c] = state]
    BY <1>3
  <1> HIDE DEF state
  <1>8. CallFits(state)
    BY <1>1, <1>4, <1>5, <1>6 DEF CallFits
  <1>9. CallType'
    BY <1>7, <1>8, CallMoves DEF TypeInv
  <1>10. call'[c] = state /\ \A d \in Callers \ {c} : call'[d] = call[d]
    BY <1>2, <1>7
  <1> QED
    BY <1>6, <1>9, <1>10

LEMMA DocumentStepTypes == ASSUME TypeInv, NEW c \in Callers, DocumentSteps(c) PROVE TypeInv'
  <1> USE DEF TypeInv
  <1>1. ASSUME NEW kind \in {"import", "jil"}, DocumentBegin(c, kind) PROVE TypeInv'
    <2> DEFINE state == [Calling(kind, None, None) EXCEPT !.start = Content]
    <2>1. CallFits(Calling(kind, None, None)) /\ Calling(kind, None, None).at = kind
      BY CallingFits DEF Calling
    <2>2. state \in CallRows /\ state.at = kind
      BY <2>1, ContentType DEF CallFits, CallRows
    <2>3. CallFits(state)
      BY <2>2 DEF CallFits
    <2> QED
      BY <1>1, <2>3, BeginTypes DEF DocumentBegin
  <1>2. ASSUME NEW b \in Blocks, BlockInsert(c, b) PROVE TypeInv'
    <2> DEFINE out == IntoJob(b.attrs)
    <2>1. ClaimsSent(c, out) \in Seq(Claims)
      BY BlockIs DEF ClaimsSent
    <2>2. Row(b.name, out.trigger, ClaimsSent(c, out)) \in JobRows
      BY <2>1, BlockIs, RowIs
    <2> DEFINE row == Row(b.name, out.trigger, ClaimsSent(c, out))
               origin == IF Server(c) THEN "import" ELSE "post"
    <2>3. \E i \in JobIds : Insert(i, row, origin)
      BY <1>2 DEF BlockInsert
    <2>4. origin \in {"post", "import"}
      OBVIOUS
    <2> HIDE DEF row, origin
    <2>5. TableType'
      BY <2>2, <2>3, <2>4, TableInsert DEF row
    <2>6. CallType'
      BY <1>2, TellIs DEF BlockInsert
    <2> QED
      BY <1>2, <2>5, <2>6, HoldSame, PassSame DEF BlockInsert, passVars
  <1>3. ASSUME NEW b \in Blocks, BlockFails(c, b) PROVE TypeInv'
    <2>1. CallType'
      BY <1>3, TellIs DEF BlockFails
    <2>2. TableType'
      BY <1>3, TableSame DEF BlockFails, jobVars, TableType
    <2> QED
      BY <1>3, <2>1, <2>2, HoldSame, PassSame DEF BlockFails, passVars
  <1>4. ASSUME NEW b \in Blocks, BlockFind(c, b) PROVE TypeInv'
    <2>2. CallType'
      BY <1>4, FindIs
    <2>3. TableType'
      BY <1>4, TableSame DEF BlockFind, jobVars, TableType
    <2> QED
      BY <1>4, <2>2, <2>3, HoldSame, PassSame DEF BlockFind, passVars
  <1>5. ASSUME BlockDelete(c) PROVE TypeInv'
    <2>1. call[c].id \in JobIds /\ call[c].seen \in Blocks
      BY <1>5 DEF BlockDelete, CallType
    <2>2. TableType'
      BY <1>5, <2>1, TableErase DEF BlockDelete
    <2>3. CallType'
      BY <1>5, <2>1, TellIs DEF BlockDelete
    <2> QED
      BY <1>5, <2>2, <2>3, HoldSame, PassSame DEF BlockDelete, passVars
  <1>6. ASSUME DocumentEnd(c) PROVE TypeInv'
    <2>1. TableType'
      BY <1>6, TableSame DEF DocumentEnd, jobVars, TableType
    <2> QED
      BY <1>6, <2>1, CallFinish, HoldSame, PassSame DEF DocumentEnd, passVars
  <1> QED
    BY <1>1, <1>2, <1>3, <1>4, <1>5, <1>6 DEF DocumentSteps

(* The pass goes on with the rest of its copy. *)
GoesOn == tick' = [tick EXCEPT !.at = "pass", !.todo = @ \ {tick.job}, !.job = None, !.run = None]

LEMMA GoesOnIs ==
    ASSUME tick \in TickRows, GoesOn
    PROVE  tick' \in TickRows /\ tick'.at = "pass" /\ tick'.todo = tick.todo \ {tick.job}
           /\ tick'.run = None
  BY DEF GoesOn, TickRows

LEMMA RestingIs == Resting \in TickRows /\ Resting.at = "idle" /\ Resting.todo = {} /\ Resting.run = None
  BY DEF Resting, Pass, TickRows

(* What a pass that gets a run started has, and what is left to do.        *)
Answered(r, d, got) ==
    \/ /\ got.answer = "yes"
       /\ tick' = [tick EXCEPT !.at = "insert", !.job = d, !.run = r]
       /\ holds' = got.holds /\ UNCHANGED culprit
    \/ /\ got.answer = "no"
       /\ tick' = [tick EXCEPT !.todo = @ \ {d}] /\ UNCHANGED <<holds, culprit>>
    \/ /\ got.answer = "error"
       /\ tick' = Resting /\ culprit' = culprit \cup {d.id} /\ UNCHANGED holds

LEMMA TickAcquireIs ==
    ASSUME TypeInv, NEW r \in Runs, NEW d \in tick.todo, TickAcquire(d, r)
    PROVE  /\ d \in Due /\ Acquired(r, TryAcquire(r, d.row.claims))
           /\ Answered(r, d, TryAcquire(r, d.row.claims))
  <1> DEFINE got == TryAcquire(r, d.row.claims)
  <1>1. d \in Due
    BY DEF TypeInv, PassType, TickRows
  <1>2. d.row.claims \in Seq(Claims)
    BY <1>1 DEF Due, JobRows
  <1>3. Acquired(r, got)
    BY <1>2, AcquireOk DEF TypeInv
  <1>4. got.answer \in {"yes", "no", "error"}
    <2> HIDE DEF got
    <2> QED
      BY <1>3 DEF Acquired, Accs
  <1>5. /\ got.answer = "yes" => /\ tick' = [tick EXCEPT !.at = "insert", !.job = d, !.run = r]
                                 /\ holds' = got.holds /\ UNCHANGED culprit
        /\ got.answer = "no" => tick' = [tick EXCEPT !.todo = @ \ {d}] /\ UNCHANGED <<holds, culprit>>
        /\ got.answer = "error" =>
              tick' = Resting /\ culprit' = culprit \cup {d.id} /\ UNCHANGED holds
    BY DEF TickAcquire
  <1> HIDE DEF got
  <1>6. Answered(r, d, got)
    BY <1>4, <1>5 DEF Answered
  <1> QED
    BY <1>1, <1>3, <1>6 DEF got

(* The pass over the conditions goes on with the rest of its copy. *)
Moved(d) == tick' = [tick EXCEPT !.at = "conditions", !.todo = @ \ {d}, !.job = None]

LEMMA MovedIs ==
    ASSUME tick \in TickRows, NEW d, Moved(d)
    PROVE  tick' \in TickRows /\ tick'.at = "conditions" /\ tick'.todo = tick.todo \ {d}
  BY DEF Moved, TickRows

(* The copies that a pass works on. *)
LEMMA CopyIs ==
    ASSUME TableType, NEW S \in SUBSET Rows, NEW place \in {"pass", "conditions"},
           tick' = Pass(place, {[id |-> i, row |-> job[i]] : i \in S})
    PROVE  /\ tick' \in TickRows /\ tick'.at = place
           /\ \A d \in tick'.todo : \E i \in Rows : d.id = i /\ d.row = job[i]
  <1>1. {[id |-> i, row |-> job[i]] : i \in S} \in SUBSET Due
    BY DEF Due, TableType, Rows
  <1> QED
    BY <1>1 DEF Pass, TickRows

LEMMA ConditionTypes ==
    ASSUME TypeInv
    PROVE  /\ TickConditions => TypeInv'
           /\ \A d \in tick.todo : TickHolds(d) => TypeInv'
           /\ \A d \in tick.todo, r \in Runs : TickFires(d, r) => TypeInv'
           /\ TickClear => TypeInv'
  <1> USE DEF TypeInv
  <1>1. ASSUME TickConditions PROVE TypeInv'
    <2>1. tick' \in TickRows /\ tick'.at = "conditions"
      BY <1>1, CopyIs DEF TickConditions
    <2>2. PassType'
      BY <1>1, <2>1 DEF TickConditions, PassType
    <2>3. TableType'
      BY <1>1, TableSame DEF TickConditions, jobVars, TableType
    <2> QED
      BY <1>1, <2>2, <2>3, HoldSame, CallSame DEF TickConditions
  <1>2. ASSUME NEW d \in tick.todo, TickHolds(d) PROVE TypeInv'
    <2>1. PassType'
      BY <1>2 DEF TickHolds, PassType, TickRows
    <2>2. TableType'
      BY <1>2, TableSame DEF TickHolds, jobVars, TableType
    <2> QED
      BY <1>2, <2>1, <2>2, HoldSame, CallSame DEF TickHolds
  <1>3. ASSUME NEW d \in tick.todo, NEW r \in Runs, TickFires(d, r) PROVE TypeInv'
    <2>1. tick \in TickRows /\ run \in [Runs -> {"unused", "live", "ended", "lost"}]
      BY DEF PassType
    <2>2. ASSUME tick' = [tick EXCEPT !.at = "clear", !.job = d], run' = [run EXCEPT ![r] = "live"]
          PROVE  PassType'
      BY <2>1, <2>2 DEF PassType, TickRows
    <2>3. ASSUME tick' = Resting, UNCHANGED run PROVE PassType'
      BY <2>1, <2>3, RestingIs DEF PassType
    <2>4. PassType'
      BY <1>3, <2>2, <2>3 DEF TickFires
    <2>5. TableType'
      BY <1>3, TableSame DEF TickFires, jobVars, TableType
    <2> QED
      BY <1>3, <2>4, <2>5, HoldSame, CallSame DEF TickFires
  <1>4. ASSUME TickClear PROVE TypeInv'
    <2>1. Moved(tick.job) /\ tick \in TickRows
      BY <1>4 DEF TickClear, Moved, PassType
    <2>2. PassType'
      BY <1>4, <2>1, MovedIs DEF TickClear, PassType
    <2>3. TableType'
      <3>1. CASE tick.job.id \in Rows
        BY <1>4, <3>1, TableField DEF TickClear
      <3>2. CASE tick.job.id \notin Rows
        BY <1>4, <3>2, TableSame DEF TickClear, TableType
      <3> QED
        BY <3>1, <3>2
    <2> QED
      BY <1>4, <2>2, <2>3, HoldSame, CallSame DEF TickClear
  <1> QED
    BY <1>1, <1>2, <1>3, <1>4

LEMMA PassTypes == ASSUME TypeInv, PassNext PROVE TypeInv'
  <1> USE DEF TypeInv
  <1>1. ASSUME TickStart PROVE TypeInv'
    <2>2. tick' \in TickRows /\ tick'.at = "pass"
      BY <1>1, CopyIs DEF TickStart
    <2>3. PassType'
      BY <1>1, <2>2 DEF TickStart, PassType
    <2>4. TableType'
      BY <1>1, TableSame DEF TickStart, jobVars, TableType
    <2> QED
      BY <1>1, <2>3, <2>4, HoldSame, CallSame DEF TickStart
  <1>2. ASSUME NEW r \in Runs, NEW d \in tick.todo, TickAcquire(d, r) PROVE TypeInv'
    <2> DEFINE got == TryAcquire(r, d.row.claims)
    <2>1. TableType' /\ CallType'
      BY <1>2, TableSame, CallSame DEF TickAcquire, jobVars, TableType
    <2>2. d \in Due /\ Acquired(r, got) /\ Answered(r, d, got)
      BY <1>2, TickAcquireIs
    <2> HIDE DEF got
    <2>3. got.holds \in FiniteHolds /\ (holds' = got.holds \/ holds' = holds)
      BY <2>2 DEF Answered, Acquired, Accs
    <2>4. HoldType'
      BY <1>2, <2>3 DEF TickAcquire, HoldType
    <2>5. tick \in TickRows /\ run' = run
      BY <1>2 DEF PassType, TickAcquire
    <2>6. CASE tick' = [tick EXCEPT !.at = "insert", !.job = d, !.run = r]
      BY <2>1, <2>2, <2>4, <2>5, <2>6 DEF PassType, TickRows
    <2>7. CASE tick' = [tick EXCEPT !.todo = @ \ {d}]
      <3>1. tick.at = "pass"
        BY <1>2 DEF TickAcquire
      <3> QED
        BY <2>1, <2>4, <2>5, <2>7, <3>1 DEF PassType, TickRows
    <2>8. CASE tick' = Resting
      BY <2>1, <2>4, <2>5, <2>8, RestingIs DEF PassType
    <2> QED
      BY <2>2, <2>6, <2>7, <2>8 DEF Answered
  <1>3. ASSUME TickSend PROVE TypeInv'
    <2>1. tick \in TickRows /\ tick.job \in tick.todo /\ tick.run \in Runs /\ tick.job.id \in JobIds
      BY <1>3 DEF TickSend, PassType, TickRows, Due
    <2>2. TableType'
      BY <1>3, <2>1, TableSame DEF TickSend, TableType
    <2>3. CASE tick.job.id \in Rows
      <3>1. /\ tick' = [tick EXCEPT !.at = "advance"]
            /\ run' = [run EXCEPT ![tick.run] = "live"]
        BY <1>3, <2>3 DEF TickSend
      <3>2. PassType'
        BY <2>1, <3>1 DEF PassType, TickRows
      <3> QED
        BY <1>3, <2>2, <3>2, HoldSame, CallSame DEF TickSend
    <2>4. CASE tick.job.id \notin Rows
      <3>1. /\ tick' = Resting
            /\ run' = [run EXCEPT ![tick.run] = "lost"]
        BY <1>3, <2>4 DEF TickSend
      <3>2. PassType'
        BY <2>1, <3>1, RestingIs DEF PassType
      <3> QED
        BY <1>3, <2>2, <3>2, HoldSame, CallSame DEF TickSend
    <2> QED
      BY <2>3, <2>4
  <1>4. ASSUME TickFull PROVE TypeInv'
    <2>1. tick \in TickRows /\ tick.run \in Runs /\ GoesOn
      BY <1>4 DEF TickFull, PassType, GoesOn
    <2>2. PassType'
      BY <1>4, <2>1, GoesOnIs DEF TickFull, PassType
    <2>3. HoldType'
      BY <1>4, HoldsCount DEF TickFull, HoldType
    <2>4. TableType'
      BY <1>4, TableSame DEF TickFull, jobVars, TableType
    <2> QED
      BY <1>4, <2>2, <2>3, <2>4, CallSame DEF TickFull
  <1>5. ASSUME TickAdvance PROVE TypeInv'
    <2>1. tick \in TickRows /\ tick.job \in Due
      BY <1>5 DEF TickAdvance, PassType, TickRows
    <2>2. CASE Readable(tick.job.row.trigger)
      <3>1. GoesOn
        BY <1>5, <2>2 DEF TickAdvance, GoesOn
      <3>2. PassType'
        BY <1>5, <2>1, <3>1, GoesOnIs DEF TickAdvance, PassType
      <3>3. FirstFire(tick.job.row.trigger) \in {"none", "future", "due"}
        BY DEF FirstFire
      <3>4. TableType'
        <4>1. CASE tick.job.id \in Rows
          BY <1>5, <2>2, <3>3, <4>1, TableField DEF TickAdvance
        <4>2. CASE tick.job.id \notin Rows
          BY <1>5, <2>2, <4>2, TableSame DEF TickAdvance, TableType
        <4> QED
          BY <4>1, <4>2
      <3> QED
        BY <1>5, <3>2, <3>4, HoldSame, CallSame DEF TickAdvance
    <2>3. CASE ~ Readable(tick.job.row.trigger)
      <3>1. tick' = Resting /\ UNCHANGED <<job, fired>>
        BY <1>5, <2>3 DEF TickAdvance
      <3>2. PassType'
        BY <1>5, <3>1, RestingIs DEF TickAdvance, PassType
      <3>3. TableType'
        BY <1>5, <3>1, TableSame DEF TickAdvance, TableType
      <3> QED
        BY <1>5, <3>2, <3>3, HoldSame, CallSame DEF TickAdvance
    <2> QED
      BY <2>2, <2>3
  <1>6. ASSUME TickEnd PROVE TypeInv'
    <2>1. PassType'
      BY <1>6, RestingIs DEF TickEnd, PassType
    <2>2. TableType'
      BY <1>6, TableSame DEF TickEnd, jobVars, TableType
    <2> QED
      BY <1>6, <2>1, <2>2, HoldSame, CallSame DEF TickEnd
  <1>7. ASSUME NEW r \in Runs, RunEnds(r) PROVE TypeInv'
    <2>1. PassType'
      BY <1>7 DEF RunEnds, PassType
    <2>2. HoldType'
      BY <1>7, HoldsCount DEF RunEnds, HoldType
    <2>3. TableType'
      BY <1>7, TableSame DEF RunEnds, jobVars, TableType
    <2> QED
      BY <1>7, <2>1, <2>2, <2>3, CallSame DEF RunEnds
  <1>8. ASSUME NEW i \in JobIds, TimeComes(i) PROVE TypeInv'
    <2>1. TableType'
      BY <1>8, TableField DEF TimeComes
    <2> QED
      BY <1>8, <2>1, HoldSame, PassSame, CallSame DEF TimeComes, passVars
  <1> QED
    BY <1>1, <1>2, <1>3, <1>4, <1>5, <1>6, <1>7, <1>8, ConditionTypes DEF PassNext

LEMMA CallNextIs ==
    ASSUME CallNext PROVE \E c \in Callers : CallSteps(c) \/ DocumentSteps(c)
  BY Zenon DEF CallNext, CallSteps, DocumentSteps

LEMMA Unchanged == ASSUME TypeInv, UNCHANGED vars PROVE TypeInv'
  BY TableSame, HoldSame, PassSame, CallSame DEF TypeInv, vars, jobVars, passVars, TableType

(* The server ends: of itself or in a condition. *)
LEMMA EndsIs ==
    ASSUME Restart \/ \E d \in tick.todo : TickPanics(d) PROVE ServerEnds
  BY DEF Restart, TickPanics

LEMMA EndsCalls ==
    ASSUME ServerEnds
    PROVE  /\ UNCHANGED <<job, from, touched, resVars, culprit>> /\ fired' \subseteq fired
           /\ \A c \in Callers : call'[c] = Quiet \/ call'[c] = call[c]
  BY DEF ServerEnds

LEMMA EndsTypes == ASSUME TypeInv, ServerEnds PROVE TypeInv'
  <1> USE DEF TypeInv
  <1>1. TableType'
    BY TableSame, EndsCalls DEF TableType
  <1>2. PassType'
    BY RestingIs DEF ServerEnds, PassType
  <1>3. CallType'
    <2>1. PICK gone \in SUBSET Callers : call' = [c \in Callers |-> IF c \in gone THEN Quiet ELSE call[c]]
      BY DEF ServerEnds
    <2>2. Quiet \in CallRows /\ Quiet.at = "idle"
      BY QuietFits DEF CallFits, Quiet, Calling
    <2> QED
      BY <2>1, <2>2 DEF CallType
  <1> QED
    BY <1>1, <1>2, <1>3, EndsCalls, HoldSame

LEMMA TypeStep == ASSUME TypeInv, [Next]_vars PROVE TypeInv'
  BY RequestTypes, CallNextIs, CallStepTypes, DocumentStepTypes, PassTypes, EndsIs, EndsTypes, Unchanged
     DEF Next

(* The rows of the tables, the calls and the pass have their types. *)
THEOREM CatalogTypeCorrect == Spec => []TypeInv
  <1>1. TypeInv /\ [Next]_vars => TypeInv'
    BY TypeStep
  <1> QED
    BY <1>1, TypeInit, PTL DEF Spec

-----------------------------------------------------------------------------
(* The units held, against the capacities and the runs.                    *)

Owned(h) == run[h.run] \in {"live", "lost"} \/ (tick.at = "insert" /\ tick.run = h.run)

HoldInv == Within(holds) /\ \A h \in holds : Owned(h)

LEMMA HoldRowIs == ASSUME HoldType PROVE \A h \in holds : h \in HoldRows /\ h.run \in Runs /\ h.res \in ResIds
  BY DEF HoldType, FiniteHolds, HoldRows

LEMMA HoldInit == CatalogInit => HoldInv
  <1> SUFFICES ASSUME CatalogInit PROVE HoldInv
    OBVIOUS
  <1>1. holds = {} /\ resource \in [ResIds -> {None} \cup Resources]
    BY TypeInit DEF CatalogInit, TypeInv, HoldType
  <1>2. holds \in FiniteHolds
    BY TypeInit DEF TypeInv, HoldType
  <1>3. ASSUME NEW s \in ResIds, resource[s] # None PROVE Used(holds, s) <= resource[s].cap
    <2>1. Used(holds, s) = 0
      BY <1>1, <1>2, UsedIs
    <2>2. resource[s].cap \in Nat
      BY <1>1, <1>3 DEF Resources
    <2> QED
      BY <2>1, <2>2
  <1> QED
    BY <1>1, <1>3 DEF HoldInv, Within

LEMMA HoldsSame ==
    ASSUME HoldInv, UNCHANGED <<resource, holds>>, \A h \in holds : Owned(h) => Owned(h)'
    PROVE  HoldInv'
  BY DEF HoldInv, Within

LEMMA HoldsStill == ASSUME HoldInv, UNCHANGED <<resource, holds, run, tick>> PROVE HoldInv'
  BY DEF HoldInv, Within, Owned

(* Fewer holds of the same resources. *)
LEMMA HoldsLess ==
    ASSUME TypeInv, HoldInv, holds' \subseteq holds, UNCHANGED resource,
           \A h \in holds' : Owned(h) => Owned(h)'
    PROVE  HoldInv'
  <1>1. holds \in FiniteHolds /\ holds' \in SUBSET holds
    BY DEF TypeInv, HoldType
  <1>2. ASSUME NEW s \in ResIds, resource[s] # None PROVE Used(holds', s) <= resource[s].cap
    <2>1. Used(holds', s) <= Used(holds, s) /\ Used(holds, s) \in Nat
      BY <1>1, UsedIs
    <2>2. holds' \in FiniteHolds
      BY <1>1, HoldsCount
    <2>3. Used(holds', s) \in Nat
      BY <2>2, UsedIs
    <2>4. Used(holds, s) <= resource[s].cap
      BY <1>2 DEF HoldInv, Within
    <2>5. resource[s].cap \in Nat
      BY <1>2 DEF TypeInv, HoldType, Resources
    <2> QED
      BY <2>1, <2>3, <2>4, <2>5
  <1>3. Within(holds)'
    BY <1>2 DEF HoldInv, Within
  <1>4. \A h \in holds' : Owned(h)'
    BY DEF HoldInv
  <1> QED
    BY <1>3, <1>4 DEF HoldInv

LEMMA RequestHolds == ASSUME TypeInv, HoldInv, RequestNext PROVE HoldInv'
  <1>1. ASSUME NEW r \in ResIds, NEW n \in ResNames, CreateResource(r, n) PROVE HoldInv'
    <2>1. /\ resource' = [resource EXCEPT ![r] = [name |-> n, cap |-> Capacity]]
          /\ \A h \in holds : h.res # r
          /\ UNCHANGED <<holds, run, tick>>
      BY <1>1 DEF CreateResource, passVars
    <2>2. holds \in FiniteHolds /\ resource \in [ResIds -> {None} \cup Resources]
      BY DEF TypeInv, HoldType
    <2>3. ASSUME NEW s \in ResIds, resource'[s] # None PROVE Used(holds, s) <= resource'[s].cap
      <3>1. CASE s = r
        <4>1. Used(holds, r) = 0
          BY <2>1, <2>2, UsedIs
        <4>2. resource'[r].cap \in Nat
          BY <2>1, <2>2, CatalogAssumption
        <4> QED
          BY <3>1, <4>1, <4>2
      <3>2. CASE s # r
        BY <2>1, <2>2, <2>3, <3>2 DEF HoldInv, Within
      <3> QED
        BY <3>1, <3>2
    <2>4. \A h \in holds : resource'[h.res] # None
      BY <2>1, <2>2, HoldRowIs DEF TypeInv, HoldInv, Within
    <2>5. Within(holds)'
      BY <2>1, <2>3, <2>4 DEF Within
    <2>6. \A h \in holds' : Owned(h)'
      BY <2>1 DEF HoldInv, Owned
    <2> QED
      BY <2>5, <2>6 DEF HoldInv
  <1>2. CASE UNCHANGED <<resVars, passVars>>
    BY <1>2, HoldsStill DEF resVars, passVars
  <1> QED
    BY <1>1, <1>2 DEF RequestNext, CreateJob, DeleteJob, TriggerJob, SetPaused

LEMMA CallHolds == ASSUME TypeInv, HoldInv, CallNext PROVE HoldInv'
  <1>1. ASSUME NEW c \in Callers, DeleteResource(c) PROVE HoldInv'
    <2> DEFINE r == call[c].id
    <2>1. /\ r \in ResIds /\ resource' = [resource EXCEPT ![r] = None]
          /\ holds' = {h \in holds : h.res # r} /\ UNCHANGED <<run, tick>>
      BY <1>1 DEF DeleteResource, passVars, TypeInv, CallType
    <2> HIDE DEF r
    <2>2. holds \in FiniteHolds /\ resource \in [ResIds -> {None} \cup Resources]
      BY DEF TypeInv, HoldType
    <2>3. holds' \in SUBSET holds /\ holds' \in FiniteHolds
      BY <2>1, <2>2, HoldsCount
    <2>4. ASSUME NEW s \in ResIds, resource'[s] # None PROVE Used(holds', s) <= resource'[s].cap
      <3>1. s # r /\ resource'[s] = resource[s] /\ resource[s].cap \in Nat
        BY <2>1, <2>2, <2>4 DEF Resources
      <3>2. Used(holds', s) <= Used(holds, s) /\ Used(holds, s) \in Nat
        BY <2>2, <2>3, UsedIs
      <3>3. Used(holds', s) \in Nat
        BY <2>3, UsedIs
      <3>4. Used(holds, s) <= resource[s].cap
        BY <2>4, <3>1 DEF HoldInv, Within
      <3> QED
        BY <3>1, <3>2, <3>3, <3>4
    <2>5. \A h \in holds' : resource'[h.res] # None
      BY <2>1, <2>2, HoldRowIs DEF TypeInv, HoldInv, Within
    <2>6. Within(holds)'
      BY <2>4, <2>5 DEF Within
    <2>7. \A h \in holds' : Owned(h)'
      BY <2>1 DEF HoldInv, Owned
    <2> QED
      BY <2>6, <2>7 DEF HoldInv
  <1>2. CASE UNCHANGED <<resVars, passVars>>
    BY <1>2, HoldsStill DEF resVars, passVars
  <1>3. ASSUME NEW c \in Callers, CallSteps(c) \/ DocumentSteps(c)
        PROVE  DeleteResource(c) \/ UNCHANGED <<resVars, passVars>>
    <2> USE DEF Begin
    <2>1. ASSUME CallSteps(c) PROVE DeleteResource(c) \/ UNCHANGED <<resVars, passVars>>
      BY <2>1, Zenon DEF CallSteps, UpdateRead, CliResolve, UpdateWrite, UpdateRefused, CliDelete,
                         CliTrigger, CliSetPaused, DeleteResourceFind
    <2>2. ASSUME DocumentSteps(c) PROVE UNCHANGED <<resVars, passVars>>
      BY <2>2, Zenon DEF DocumentSteps, DocumentBegin, BlockInsert, BlockFails, BlockFind,
                         BlockDelete, DocumentEnd
    <2> QED
      BY <1>3, <2>1, <2>2
  <1> QED
    BY <1>1, <1>2, <1>3, CallNextIs

LEMMA PassHolds == ASSUME TypeInv, HoldInv, PassNext PROVE HoldInv'
  <1>0. \A h \in holds : h.run \in Runs /\ Owned(h)
    BY HoldRowIs DEF TypeInv, HoldInv
  <1>1. ASSUME TickStart PROVE HoldInv'
    <2>1. tick.at = "idle" /\ UNCHANGED <<resource, holds, run>>
      BY <1>1 DEF TickStart, resVars
    <2> QED
      BY <1>0, <2>1, HoldsSame DEF Owned
  <1>2. ASSUME NEW r \in Runs, NEW d \in tick.todo, TickAcquire(d, r) PROVE HoldInv'
    <2> DEFINE got == TryAcquire(r, d.row.claims)
    <2>1. Acquired(r, got) /\ Answered(r, d, got)
      BY <1>2, TickAcquireIs
    <2> HIDE DEF got
    <2>2. tick.at = "pass" /\ run[r] = "unused" /\ UNCHANGED <<resource, run>>
      BY <1>2 DEF TickAcquire
    <2>3. \A h \in holds : run[h.run] \in {"live", "lost"}
      BY <1>0, <2>2 DEF Owned
    <2>4. CASE UNCHANGED holds
      BY <2>2, <2>3, <2>4, HoldsSame DEF Owned
    <2>5. CASE holds' = got.holds /\ tick' = [tick EXCEPT !.at = "insert", !.job = d, !.run = r]
      <3>1. Within(got.holds)
        BY <2>1 DEF Acquired, HoldInv
      <3>2. Within(holds)'
        BY <2>2, <2>5, <3>1 DEF Within
      <3>3. tick'.at = "insert" /\ tick'.run = r
        BY <2>5 DEF TypeInv, PassType, TickRows
      <3>4. \A h \in got.holds \ holds : h.run = r
        BY <2>1 DEF Acquired
      <3>5. \A h \in holds' : Owned(h)'
        BY <2>2, <2>3, <2>5, <3>3, <3>4 DEF Owned
      <3> QED
        BY <3>2, <3>5 DEF HoldInv
    <2> QED
      BY <2>1, <2>4, <2>5 DEF Answered
  <1>3. ASSUME TickSend PROVE HoldInv'
    <2>1. UNCHANGED <<resource, holds>> /\ tick.at = "insert" /\ tick.run \in Runs
      BY <1>3 DEF TickSend, resVars, TypeInv, PassType
    <2>2. \E s \in {"live", "lost"} : run' = [run EXCEPT ![tick.run] = s]
      BY <1>3 DEF TickSend
    <2>3. run \in [Runs -> {"unused", "live", "ended", "lost"}]
      BY DEF TypeInv, PassType
    <2> QED
      BY <1>0, <2>1, <2>2, <2>3, HoldsSame DEF Owned
  <1>4. ASSUME TickFull PROVE HoldInv'
    <2>1. /\ tick.run \in Runs /\ tick.at = "insert" /\ UNCHANGED resource
          /\ run' = [run EXCEPT ![tick.run] = "ended"] /\ holds' = {h \in holds : h.run # tick.run}
      BY <1>4 DEF TickFull, TypeInv, PassType
    <2>2. run \in [Runs -> {"unused", "live", "ended", "lost"}]
      BY DEF TypeInv, PassType
    <2>3. \A h \in holds' : Owned(h)'
      BY <1>0, <2>1, <2>2 DEF Owned
    <2> QED
      BY <2>1, <2>3, HoldsLess
  <1>5. ASSUME TickAdvance PROVE HoldInv'
    <2>1. tick.at = "advance" /\ UNCHANGED <<resource, holds, run>>
      BY <1>5 DEF TickAdvance, resVars
    <2> QED
      BY <1>0, <2>1, HoldsSame DEF Owned
  <1>6. ASSUME TickEnd PROVE HoldInv'
    <2>1. tick.at = "conditions" /\ UNCHANGED <<resource, holds, run>>
      BY <1>6 DEF TickEnd, resVars
    <2> QED
      BY <1>0, <2>1, HoldsSame DEF Owned
  <1>7. ASSUME NEW r \in Runs, RunEnds(r) PROVE HoldInv'
    <2>1. /\ UNCHANGED <<resource, tick>>
          /\ run' = [run EXCEPT ![r] = "ended"] /\ holds' = {h \in holds : h.run # r}
      BY <1>7 DEF RunEnds
    <2>2. run \in [Runs -> {"unused", "live", "ended", "lost"}]
      BY DEF TypeInv, PassType
    <2>3. \A h \in holds' : Owned(h)'
      BY <1>0, <2>1, <2>2 DEF Owned
    <2> QED
      BY <2>1, <2>3, HoldsLess
  <1>8. ASSUME NEW i \in JobIds, TimeComes(i) PROVE HoldInv'
    BY <1>8, HoldsStill DEF TimeComes, resVars, passVars
  <1>9. ASSUME TickConditions \/ TickClear \/ \E d \in tick.todo : TickHolds(d) PROVE HoldInv'
    <2>1. tick.at # "insert" /\ UNCHANGED <<resource, holds, run>>
      BY <1>9 DEF TickConditions, TickClear, TickHolds, resVars
    <2> QED
      BY <1>0, <2>1, HoldsSame DEF Owned
  <1>10. ASSUME NEW r \in Runs, NEW d \in tick.todo, TickFires(d, r) PROVE HoldInv'
    <2>1. /\ tick.at = "conditions" /\ UNCHANGED <<resource, holds>>
          /\ run' = [run EXCEPT ![r] = "live"] \/ UNCHANGED run
      BY <1>10 DEF TickFires, resVars
    <2>2. run \in [Runs -> {"unused", "live", "ended", "lost"}]
      BY DEF TypeInv, PassType
    <2> QED
      BY <1>0, <2>1, <2>2, HoldsSame DEF Owned
  <1> QED
    BY <1>1, <1>2, <1>3, <1>4, <1>5, <1>6, <1>7, <1>8, <1>9, <1>10 DEF PassNext

(* The holds of a server that ends are kept by runs that are lost. *)
LEMMA EndsHolds == ASSUME TypeInv, HoldInv, ServerEnds PROVE HoldInv'
  <1>1. /\ UNCHANGED <<resource, holds>>
        /\ \A r \in Runs : run'[r] = IF run[r] = "live" \/ (tick.at = "insert" /\ tick.run = r)
                                     THEN "lost" ELSE run[r]
    BY DEF ServerEnds, resVars
  <1>2. \A h \in holds : h.run \in Runs
    BY HoldRowIs DEF TypeInv
  <1> QED
    BY <1>1, <1>2, HoldsSame DEF Owned


LEMMA HoldStep == ASSUME TypeInv, HoldInv, [Next]_vars PROVE HoldInv'
  <1>1. UNCHANGED vars => HoldInv'
    BY HoldsStill DEF vars, resVars, passVars
  <1> QED
    BY <1>1, RequestHolds, CallHolds, PassHolds, EndsIs, EndsHolds DEF Next

(* The units held of a resource never exceed its capacity, also when it    *)
(* was deleted and created anew, and a hold is of a resource that exists   *)
(* and of a run that is live, being sent or lost its job (try_acquire,     *)
(* release, delete_resource): for every number of resources, jobs, claims  *)
(* and units.                                                              *)
THEOREM HoldsMatchSafe == Spec => []HoldsMatch
  <1>1. CatalogInit => TypeInv /\ HoldInv
    BY TypeInit, HoldInit
  <1>2. (TypeInv /\ HoldInv) /\ [Next]_vars => (TypeInv /\ HoldInv)'
    BY TypeStep, HoldStep
  <1>3. HoldInv => HoldsMatch
    BY DEF HoldInv, Within, Owned, HoldsMatch
  <1> QED
    BY <1>1, <1>2, <1>3, PTL DEF Spec

-----------------------------------------------------------------------------
(* What can end a pass early, and where it comes from.                     *)

(* No row that came by POST or PUT can do any harm to a pass. *)
Harmless(row) == row.claims = << >> /\ Readable(row.trigger)

RowsOrigin == \A i \in Rows : from[i] = "post" => Harmless(job[i])
CopyOrigin == \A d \in tick.todo : from[d.id] # None /\ (from[d.id] = "post" => Harmless(d.row))
PutOrigin  == \A c \in Callers : call[c].at = "put" =>
    from[call[c].id] # None /\ (from[call[c].id] = "post" => call[c].seen.claims = << >>)
FiredOrigin == \A i \in fired :
    from[i] # None /\ (from[i] = "post" => tick.at = "advance" /\ tick.job.id = i)
CulpritOrigin == \A i \in culprit :
    i \in JobIds /\ from[i] # None /\ (from[i] = "import" \/ i \notin Rows)

OriginInv == RowsOrigin /\ CopyOrigin /\ PutOrigin /\ FiredOrigin /\ CulpritOrigin

(* An id keeps the way it came about, and is not used again. *)
FromKeeps == \A i \in JobIds : from[i] # None =>
    from'[i] = from[i] /\ (job[i] = None => job'[i] = None)

LEMMA InsertOrigin ==
    ASSUME TypeInv, RowsOrigin, NEW i, NEW row, NEW origin \in {"post", "import"},
           Insert(i, row, origin), origin = "post" => Harmless(row)
    PROVE  RowsOrigin' /\ FromKeeps /\ fired' \subseteq fired
  BY DEF TypeInv, TableType, RowsOrigin, FromKeeps, Insert, NewId, Rows, Harmless

LEMMA UpdateOrigin ==
    ASSUME TypeInv, RowsOrigin, NEW i \in JobIds, NEW row, Update(i, row),
           from[i] = "post" => Harmless(row)
    PROVE  RowsOrigin' /\ FromKeeps /\ fired' \subseteq fired
  BY DEF TypeInv, TableType, RowsOrigin, FromKeeps, Update, Rows, Harmless

LEMMA EraseOrigin ==
    ASSUME TypeInv, RowsOrigin, NEW i \in JobIds, Erase(i)
    PROVE  RowsOrigin' /\ FromKeeps /\ fired' \subseteq fired
  BY DEF TypeInv, TableType, RowsOrigin, FromKeeps, Erase, Rows, Harmless

LEMMA FieldOrigin ==
    ASSUME TypeInv, RowsOrigin, NEW i \in Rows, UNCHANGED from,
           \/ \E p \in BOOLEAN : job' = [job EXCEPT ![i].paused = p]
           \/ \E t \in {"none", "future", "due"} : job' = [job EXCEPT ![i].next = t]
    PROVE  RowsOrigin' /\ FromKeeps
  <1>1. /\ job \in [JobIds -> {None} \cup JobRows] /\ i \in JobIds /\ job[i] \in JobRows /\ job[i] # None
    BY DEF TypeInv, TableType, Rows
  <1>2. PICK row : /\ job' = [job EXCEPT ![i] = row]
                   /\ row.claims = job[i].claims /\ row.trigger = job[i].trigger
    <2>1. ASSUME NEW p \in BOOLEAN, job' = [job EXCEPT ![i].paused = p]
          PROVE  \E row : /\ job' = [job EXCEPT ![i] = row]
                          /\ row.claims = job[i].claims /\ row.trigger = job[i].trigger
      <3> DEFINE row == [job[i] EXCEPT !.paused = p]
      <3>1. row.claims = job[i].claims /\ row.trigger = job[i].trigger
        BY <1>1 DEF JobRows
      <3>2. job' = [job EXCEPT ![i] = row]
        BY <1>1, <2>1
      <3> QED
        BY <3>1, <3>2
    <2>2. ASSUME NEW t \in {"none", "future", "due"}, job' = [job EXCEPT ![i].next = t]
          PROVE  \E row : /\ job' = [job EXCEPT ![i] = row]
                          /\ row.claims = job[i].claims /\ row.trigger = job[i].trigger
      <3> DEFINE row == [job[i] EXCEPT !.next = t]
      <3>1. row.claims = job[i].claims /\ row.trigger = job[i].trigger
        BY <1>1 DEF JobRows
      <3>2. job' = [job EXCEPT ![i] = row]
        BY <1>1, <2>2
      <3> QED
        BY <3>1, <3>2
    <2> QED
      BY <2>1, <2>2
  <1>3. ASSUME NEW k \in JobIds
        PROVE  job'[k] = IF k = i THEN row ELSE job[k]
    BY <1>1, <1>2
  <1>4. RowsOrigin'
    BY <1>1, <1>2, <1>3 DEF RowsOrigin, Rows, Harmless
  <1>5. FromKeeps
    BY <1>1, <1>3 DEF FromKeeps
  <1> QED
    BY <1>4, <1>5

LEMMA SameOrigin ==
    ASSUME RowsOrigin, UNCHANGED <<job, from>> PROVE RowsOrigin' /\ FromKeeps
  BY DEF RowsOrigin, FromKeeps, Rows

(* Steps that leave the pass alone and let nobody read a row. *)
LEMMA OriginFrame ==
    ASSUME TypeInv, OriginInv, RowsOrigin', FromKeeps, fired' \subseteq fired,
           UNCHANGED <<tick, culprit>>,
           \A c \in Callers : call'[c].at = "put" => call'[c] = call[c]
    PROVE  OriginInv'
  <1>1. \A d \in tick.todo : d.id \in JobIds
    BY DEF TypeInv, PassType, TickRows, Due
  <1>2. CopyOrigin'
    BY <1>1 DEF OriginInv, CopyOrigin, FromKeeps
  <1>3. \A c \in Callers : call[c].at = "put" => call[c].id \in JobIds
    BY DEF TypeInv, CallType
  <1>4. PutOrigin'
    BY <1>3 DEF OriginInv, PutOrigin, FromKeeps
  <1>5. fired \subseteq JobIds
    BY DEF TypeInv, TableType
  <1>6. FiredOrigin'
    BY <1>5 DEF OriginInv, FiredOrigin, FromKeeps
  <1>7. CulpritOrigin'
    BY DEF OriginInv, CulpritOrigin, FromKeeps, Rows
  <1> QED
    BY <1>2, <1>4, <1>6, <1>7 DEF OriginInv

LEMMA PutSame == ASSUME UNCHANGED call PROVE \A c \in Callers : call'[c].at = "put" => call'[c] = call[c]
  OBVIOUS

(* A caller who is put nowhere else than out of its update. *)
LEMMA PutLess ==
    ASSUME TypeInv, NEW c \in Callers, NEW state, call' = [call EXCEPT ![c] = state], state.at # "put"
    PROVE  \A d \in Callers : call'[d].at = "put" => call'[d] = call[d]
  BY DEF TypeInv, CallType

LEMMA QuietIs == Quiet.at = "idle"
  BY DEF Quiet, Calling

LEMMA OriginInit == CatalogInit => OriginInv
  <1> SUFFICES ASSUME CatalogInit PROVE OriginInv
    OBVIOUS
  <1>1. from = [i \in JobIds |-> IF job[i] = None THEN None ELSE "import"] /\ fired = {} /\ culprit = {}
        /\ tick = Resting /\ call = [c \in Callers |-> Quiet]
    BY DEF CatalogInit
  <1>2. None # "post"
    BY CatalogAssumption
  <1>3. RowsOrigin
    BY <1>1, <1>2 DEF RowsOrigin, Rows
  <1> QED
    BY <1>1, <1>3, RestingIs, QuietIs
       DEF OriginInv, CopyOrigin, PutOrigin, FiredOrigin, CulpritOrigin

LEMMA RequestOrigin == ASSUME TypeInv, OriginInv, RequestNext PROVE OriginInv'
  <1> USE DEF OriginInv
  <1>1. ASSUME NEW n \in JobNames, NEW t \in Triggers, CreateJob(n, t) PROVE OriginInv'
    <2>1. Harmless(Row(n, t, << >>))
      BY <1>1 DEF CreateJob, Accepts, Harmless, Row
    <2>2. RowsOrigin' /\ FromKeeps /\ fired' \subseteq fired
      BY <1>1, <2>1, InsertOrigin DEF CreateJob
    <2> QED
      BY <1>1, <2>2, PutSame, OriginFrame DEF CreateJob, passVars
  <1>2. ASSUME NEW i \in JobIds, DeleteJob(i) PROVE OriginInv'
    <2>1. RowsOrigin' /\ FromKeeps /\ fired' \subseteq fired
      BY <1>2, EraseOrigin DEF DeleteJob
    <2> QED
      BY <1>2, <2>1, PutSame, OriginFrame DEF DeleteJob, passVars
  <1>3. ASSUME NEW i \in JobIds, TriggerJob(i) PROVE OriginInv'
    <2>1. RowsOrigin' /\ FromKeeps
      BY <1>3, FieldOrigin DEF TriggerJob
    <2> QED
      BY <1>3, <2>1, PutSame, OriginFrame DEF TriggerJob, passVars
  <1>4. ASSUME NEW i \in JobIds, NEW p \in BOOLEAN, SetPaused(i, p) PROVE OriginInv'
    <2>1. RowsOrigin' /\ FromKeeps
      BY <1>4, FieldOrigin DEF SetPaused
    <2> QED
      BY <1>4, <2>1, PutSame, OriginFrame DEF SetPaused, passVars
  <1>5. ASSUME NEW r \in ResIds, NEW n \in ResNames, CreateResource(r, n) PROVE OriginInv'
    <2>1. RowsOrigin' /\ FromKeeps
      BY <1>5, SameOrigin DEF CreateResource, jobVars
    <2> QED
      BY <1>5, <2>1, PutSame, OriginFrame DEF CreateResource, passVars, jobVars
  <1> QED
    BY <1>1, <1>2, <1>3, <1>4, <1>5 DEF RequestNext

(* A call that begins, but an update, and one that ends. *)
LEMMA BeginOrigin ==
    ASSUME TypeInv, OriginInv, NEW c \in Callers, NEW state, state.at # "put", Begin(c, state)
    PROVE  OriginInv'
  <1>1. RowsOrigin' /\ FromKeeps
    BY SameOrigin DEF Begin, OriginInv
  <1>2. \A d \in Callers : call'[d].at = "put" => call'[d] = call[d]
    BY PutLess DEF Begin
  <1> QED
    BY <1>1, <1>2, OriginFrame DEF Begin, passVars

LEMMA FinishPut ==
    ASSUME TypeInv, NEW c \in Callers, Finish(c)
    PROVE  \A d \in Callers : call'[d].at = "put" => call'[d] = call[d]
  BY PutLess, QuietIs DEF Finish

LEMMA CallStepOrigin == ASSUME TypeInv, OriginInv, NEW c \in Callers, CallSteps(c) PROVE OriginInv'
  <1> USE DEF OriginInv
  <1>1. ASSUME NEW i \in JobIds, UpdateRead(c, i) PROVE OriginInv'
    <2> DEFINE state == Calling("put", i, job[i])
    <2>1. i \in Rows /\ call' = [call EXCEPT ![c] = state]
          /\ UNCHANGED <<job, from, fired, tick, culprit>>
      BY <1>1 DEF UpdateRead, Begin, passVars
    <2>2. state.at = "put" /\ state.id = i /\ state.seen = job[i]
      BY DEF Calling
    <2> HIDE DEF state
    <2>3. from[i] # None /\ (from[i] = "post" => job[i].claims = << >>)
      BY <2>1 DEF TypeInv, TableType, RowsOrigin, Harmless
    <2>4. \A d \in Callers : call'[d] = IF d = c THEN state ELSE call[d]
      BY <2>1 DEF TypeInv, CallType
    <2>5. PutOrigin'
      BY <2>1, <2>2, <2>3, <2>4 DEF PutOrigin
    <2>6. RowsOrigin'
      BY <2>1, SameOrigin
    <2> QED
      BY <2>1, <2>5, <2>6 DEF CopyOrigin, FiredOrigin, CulpritOrigin, Rows
  <1>2. ASSUME NEW n \in JobNames, CliResolve(c, n) PROVE OriginInv'
    BY <1>2, BeginOrigin DEF CliResolve, Calling
  <1>3. ASSUME NEW n \in JobNames, NEW t \in Triggers, UpdateWrite(c, n, t) PROVE OriginInv'
    <2> DEFINE row == PutRow(call[c].seen, n, t)
    <2>1. call[c].id \in JobIds /\ call[c].seen \in JobRows
      BY <1>3 DEF UpdateWrite, TypeInv, CallType
    <2>2. row.claims = call[c].seen.claims /\ row.trigger = t
      BY <2>1, PutRowIs
    <2> HIDE DEF row
    <2>3. Readable(t) /\ Update(call[c].id, row)
      BY <1>3 DEF UpdateWrite, Accepts, row
    <2>4. from[call[c].id] = "post" => Harmless(row)
      BY <1>3, <2>2, <2>3 DEF UpdateWrite, PutOrigin, Harmless
    <2>5. RowsOrigin' /\ FromKeeps /\ fired' \subseteq fired
      BY <2>1, <2>3, <2>4, UpdateOrigin
    <2>6. \A d \in Callers : call'[d].at = "put" => call'[d] = call[d]
      BY <1>3, FinishPut DEF UpdateWrite
    <2> QED
      BY <1>3, <2>5, <2>6, OriginFrame DEF UpdateWrite, passVars
  <1>4. ASSUME UpdateRefused(c) PROVE OriginInv'
    <2>1. RowsOrigin' /\ FromKeeps
      BY <1>4, SameOrigin DEF UpdateRefused, jobVars
    <2>2. \A d \in Callers : call'[d].at = "put" => call'[d] = call[d]
      BY <1>4, FinishPut DEF UpdateRefused
    <2> QED
      BY <1>4, <2>1, <2>2, OriginFrame DEF UpdateRefused, jobVars, passVars
  <1>5. ASSUME CliDelete(c) PROVE OriginInv'
    <2>1. call[c].id \in JobIds
      BY <1>5 DEF CliDelete, TypeInv, CallType
    <2>2. RowsOrigin' /\ FromKeeps /\ fired' \subseteq fired
      BY <1>5, <2>1, EraseOrigin DEF CliDelete
    <2>3. \A d \in Callers : call'[d].at = "put" => call'[d] = call[d]
      BY <1>5, FinishPut DEF CliDelete
    <2> QED
      BY <1>5, <2>2, <2>3, OriginFrame DEF CliDelete, passVars
  <1>6. ASSUME CliTrigger(c) PROVE OriginInv'
    <2>1. RowsOrigin' /\ FromKeeps
      <3>1. CASE call[c].id \in Rows
        BY <1>6, <3>1, FieldOrigin DEF CliTrigger
      <3>2. CASE call[c].id \notin Rows
        BY <1>6, <3>2, SameOrigin DEF CliTrigger
      <3> QED
        BY <3>1, <3>2
    <2>2. \A d \in Callers : call'[d].at = "put" => call'[d] = call[d]
      BY <1>6, FinishPut DEF CliTrigger
    <2> QED
      BY <1>6, <2>1, <2>2, OriginFrame DEF CliTrigger, passVars
  <1>7. ASSUME NEW p \in BOOLEAN, CliSetPaused(c, p) PROVE OriginInv'
    <2>1. RowsOrigin' /\ FromKeeps
      <3>1. CASE call[c].id \in Rows
        BY <1>7, <3>1, FieldOrigin DEF CliSetPaused
      <3>2. CASE call[c].id \notin Rows
        BY <1>7, <3>2, SameOrigin DEF CliSetPaused
      <3> QED
        BY <3>1, <3>2
    <2>2. \A d \in Callers : call'[d].at = "put" => call'[d] = call[d]
      BY <1>7, FinishPut DEF CliSetPaused
    <2> QED
      BY <1>7, <2>1, <2>2, OriginFrame DEF CliSetPaused, passVars
  <1>8. ASSUME NEW n \in ResNames, DeleteResourceFind(c, n) PROVE OriginInv'
    BY <1>8, BeginOrigin DEF DeleteResourceFind, Calling
  <1>9. ASSUME DeleteResource(c) PROVE OriginInv'
    <2>1. RowsOrigin' /\ FromKeeps
      BY <1>9, SameOrigin DEF DeleteResource, jobVars
    <2>2. \A d \in Callers : call'[d].at = "put" => call'[d] = call[d]
      BY <1>9, FinishPut DEF DeleteResource
    <2> QED
      BY <1>9, <2>1, <2>2, OriginFrame DEF DeleteResource, jobVars, passVars
  <1> QED
    BY <1>1, <1>2, <1>3, <1>4, <1>5, <1>6, <1>7, <1>8, <1>9 DEF CallSteps

LEMMA TellPut ==
    ASSUME TypeInv, NEW c \in Callers, NEW b \in Blocks, NEW ok \in BOOLEAN, Tell(c, b, ok)
    PROVE  \A d \in Callers : call'[d].at = "put" => call'[d] = call[d]
  <1>1. call'[c].at = (IF Server(c) THEN "import" ELSE IF ok THEN "jil" ELSE "stopped")
        /\ \A d \in Callers \ {c} : call'[d] = call[d]
    BY TellIs DEF TypeInv
  <1> QED
    BY <1>1

LEMMA DocumentStepOrigin ==
    ASSUME TypeInv, OriginInv, NEW c \in Callers, DocumentSteps(c) PROVE OriginInv'
  <1> USE DEF OriginInv
  <1>1. ASSUME NEW kind \in {"import", "jil"}, DocumentBegin(c, kind) PROVE OriginInv'
    <2> DEFINE state == [Calling(kind, None, None) EXCEPT !.start = Content]
    <2>1. state.at = kind
      BY DEF Calling
    <2>2. Begin(c, state)
      BY <1>1 DEF DocumentBegin
    <2> HIDE DEF state
    <2> QED
      BY <2>1, <2>2, BeginOrigin
  <1>2. ASSUME NEW b \in Blocks, BlockInsert(c, b) PROVE OriginInv'
    <2> DEFINE out == IntoJob(b.attrs)
               row == Row(b.name, out.trigger, ClaimsSent(c, out))
               origin == IF Server(c) THEN "import" ELSE "post"
    <2>1. row.claims = ClaimsSent(c, out) /\ row.trigger = out.trigger
      BY DEF Row
    <2>2. Server(c) \/ Readable(out.trigger)
      BY <1>2 DEF BlockInsert, CanInsert, Accepts
    <2>3. origin = "post" => Harmless(row)
      BY <2>1, <2>2 DEF ClaimsSent, Harmless
    <2>4. PICK i \in JobIds : Insert(i, row, origin)
      BY <1>2 DEF BlockInsert
    <2>5. origin \in {"post", "import"}
      OBVIOUS
    <2> HIDE DEF row, origin
    <2>6. RowsOrigin' /\ FromKeeps /\ fired' \subseteq fired
      BY <2>3, <2>4, <2>5, InsertOrigin
    <2>7. \A d \in Callers : call'[d].at = "put" => call'[d] = call[d]
      BY <1>2, TellPut DEF BlockInsert
    <2> QED
      BY <1>2, <2>6, <2>7, OriginFrame DEF BlockInsert, passVars
  <1>3. ASSUME NEW b \in Blocks, BlockFails(c, b) PROVE OriginInv'
    <2>1. RowsOrigin' /\ FromKeeps
      BY <1>3, SameOrigin DEF BlockFails, jobVars
    <2>2. \A d \in Callers : call'[d].at = "put" => call'[d] = call[d]
      BY <1>3, TellPut DEF BlockFails
    <2> QED
      BY <1>3, <2>1, <2>2, OriginFrame DEF BlockFails, jobVars, passVars
  <1>4. ASSUME NEW b \in Blocks, BlockFind(c, b) PROVE OriginInv'
    <2>1. RowsOrigin' /\ FromKeeps
      BY <1>4, SameOrigin DEF BlockFind, jobVars
    <2>2. call'[c].at = Finding(c) /\ \A d \in Callers \ {c} : call'[d] = call[d]
      BY <1>4, FindIs
    <2>3. \A d \in Callers : call'[d].at = "put" => call'[d] = call[d]
      BY <2>2 DEF Finding
    <2> QED
      BY <1>4, <2>1, <2>3, OriginFrame DEF BlockFind, jobVars, passVars
  <1>5. ASSUME BlockDelete(c) PROVE OriginInv'
    <2>1. call[c].id \in JobIds /\ call[c].seen \in Blocks
      BY <1>5 DEF BlockDelete, TypeInv, CallType
    <2>2. RowsOrigin' /\ FromKeeps /\ fired' \subseteq fired
      BY <1>5, <2>1, EraseOrigin DEF BlockDelete
    <2>3. \A d \in Callers : call'[d].at = "put" => call'[d] = call[d]
      BY <1>5, <2>1, TellPut DEF BlockDelete
    <2> QED
      BY <1>5, <2>2, <2>3, OriginFrame DEF BlockDelete, passVars
  <1>6. ASSUME DocumentEnd(c) PROVE OriginInv'
    <2>1. RowsOrigin' /\ FromKeeps
      BY <1>6, SameOrigin DEF DocumentEnd, jobVars
    <2>2. \A d \in Callers : call'[d].at = "put" => call'[d] = call[d]
      BY <1>6, FinishPut DEF DocumentEnd
    <2> QED
      BY <1>6, <2>1, <2>2, OriginFrame DEF DocumentEnd, jobVars, passVars
  <1> QED
    BY <1>1, <1>2, <1>3, <1>4, <1>5, <1>6 DEF DocumentSteps

LEMMA ConditionOrigin ==
    ASSUME TypeInv, OriginInv
    PROVE  /\ TickConditions => OriginInv'
           /\ \A d \in tick.todo : TickHolds(d) => OriginInv'
           /\ \A d \in tick.todo, r \in Runs : TickFires(d, r) => OriginInv'
           /\ TickClear => OriginInv'
  <1> USE DEF OriginInv
  <1>0. /\ tick \in TickRows /\ \A d \in tick.todo : d \in Due /\ d.id \in JobIds
        /\ \A i \in Rows : from[i] # None
    BY DEF TypeInv, PassType, TickRows, TableType, Due
  <1>a. UNCHANGED call => (PutOrigin /\ UNCHANGED from => PutOrigin')
    BY DEF PutOrigin
  <1>1. ASSUME TickConditions PROVE OriginInv'
    <2>1. tick.at = "pass" /\ UNCHANGED <<job, from, fired, call, culprit>>
      BY <1>1 DEF TickConditions, jobVars
    <2>2. ASSUME NEW d \in tick'.todo PROVE \E i \in Rows : d.id = i /\ d.row = job[i]
      BY <1>1, CopyIs DEF TickConditions, TypeInv
    <2>3. CopyOrigin'
      BY <1>0, <2>1, <2>2 DEF CopyOrigin, RowsOrigin
    <2>4. FiredOrigin' /\ CulpritOrigin'
      BY <2>1 DEF FiredOrigin, CulpritOrigin, Rows
    <2> QED
      BY <1>a, <2>1, <2>3, <2>4, SameOrigin
  <1>2. ASSUME NEW d \in tick.todo, TickHolds(d) PROVE OriginInv'
    <2>1. /\ tick.at = "conditions" /\ UNCHANGED <<job, from, fired, call, culprit>>
          /\ tick'.todo \subseteq tick.todo
      BY <1>0, <1>2 DEF TickHolds, jobVars, TickRows
    <2>2. CopyOrigin' /\ FiredOrigin' /\ CulpritOrigin'
      BY <2>1 DEF CopyOrigin, FiredOrigin, CulpritOrigin, Rows
    <2> QED
      BY <1>a, <2>1, <2>2, SameOrigin
  <1>3. ASSUME NEW d \in tick.todo, NEW r \in Runs, TickFires(d, r) PROVE OriginInv'
    <2>1. /\ tick.at = "conditions" /\ UNCHANGED <<job, from, fired, call>>
          /\ UNCHANGED culprit \/ (d.id \notin Rows /\ culprit' = culprit \cup {d.id})
      BY <1>3 DEF TickFires, jobVars
    <2>2. tick'.todo \subseteq tick.todo
      <3>1. CASE tick' = [tick EXCEPT !.at = "clear", !.job = d]
        BY <1>0, <3>1 DEF TickRows
      <3>2. CASE tick' = Resting
        BY <3>2, RestingIs
      <3> QED
        BY <1>3, <3>1, <3>2 DEF TickFires
    <2>3. CopyOrigin' /\ FiredOrigin'
      BY <2>1, <2>2 DEF CopyOrigin, FiredOrigin
    <2>4. from[d.id] # None /\ d.id \in JobIds
      BY <1>0 DEF CopyOrigin
    <2>5. CulpritOrigin'
      BY <2>1, <2>4 DEF CulpritOrigin, Rows
    <2> QED
      BY <1>a, <2>1, <2>3, <2>5, SameOrigin
  <1>4. ASSUME TickClear PROVE OriginInv'
    <2> DEFINE i == tick.job.id
    <2>1. /\ tick.at = "clear" /\ Moved(tick.job) /\ fired' \subseteq fired
          /\ UNCHANGED <<from, call, culprit>>
          /\ job' = IF i \in Rows THEN [job EXCEPT ![i].next = "none"] ELSE job
      BY <1>4 DEF TickClear, Moved
    <2>2. tick'.todo \subseteq tick.todo
      BY <1>0, <2>1, MovedIs
    <2>3. RowsOrigin' /\ FromKeeps
      <3>1. CASE i \in Rows
        BY <2>1, <3>1, FieldOrigin
      <3>2. CASE i \notin Rows
        BY <2>1, <3>2, SameOrigin
      <3> QED
        BY <3>1, <3>2
    <2>4. CopyOrigin' /\ FiredOrigin'
      BY <2>1, <2>2 DEF CopyOrigin, FiredOrigin
    <2>5. CulpritOrigin'
      BY <2>1, <2>3 DEF CulpritOrigin, FromKeeps, Rows
    <2> QED
      BY <1>a, <2>1, <2>3, <2>4, <2>5
  <1> QED
    BY <1>1, <1>2, <1>3, <1>4

LEMMA PassOrigin == ASSUME TypeInv, OriginInv, PassNext PROVE OriginInv'
  <1> USE DEF OriginInv
  <1>0. /\ tick \in TickRows /\ \A d \in tick.todo : d \in Due /\ d.id \in JobIds
        /\ from \in [JobIds -> {None, "post", "import"}]
    BY DEF TypeInv, PassType, TickRows, TableType, Due
  <1>a. UNCHANGED call => (PutOrigin /\ UNCHANGED from => PutOrigin')
    BY DEF PutOrigin
  <1>1. ASSUME TickStart PROVE OriginInv'
    <2>1. /\ tick.at = "idle" /\ UNCHANGED <<job, from, fired, call, culprit>>
      BY <1>1 DEF TickStart, jobVars
    <2>2. ASSUME NEW d \in tick'.todo PROVE \E i \in Rows : d.id = i /\ d.row = job[i]
      BY <1>1, CopyIs DEF TickStart, TypeInv
    <2>3. \A i \in Rows : from[i] # None
      BY DEF TypeInv, TableType
    <2>4. CopyOrigin'
      BY <2>1, <2>2, <2>3 DEF CopyOrigin, RowsOrigin
    <2>5. FiredOrigin'
      BY <2>1 DEF FiredOrigin
    <2>6. RowsOrigin' /\ CulpritOrigin'
      BY <2>1, SameOrigin DEF CulpritOrigin, Rows
    <2> QED
      BY <1>a, <2>1, <2>4, <2>5, <2>6
  <1>2. ASSUME NEW r \in Runs, NEW d \in tick.todo, TickAcquire(d, r) PROVE OriginInv'
    <2> DEFINE got == TryAcquire(r, d.row.claims)
    <2>1. d \in Due /\ Answered(r, d, got)
      BY <1>2, TickAcquireIs
    <2>2. tick.at = "pass" /\ UNCHANGED <<job, from, fired, call>>
      BY <1>2 DEF TickAcquire, jobVars
    <2>3. got.answer = "error" => d.row.claims # << >>
      BY AcquireNothing DEF Start
    <2> HIDE DEF got
    <2>4. RowsOrigin' /\ PutOrigin'
      BY <1>a, <2>2, SameOrigin
    <2>5. ASSUME NEW i \in fired PROVE from[i] # None /\ from[i] # "post"
      BY <2>2 DEF FiredOrigin
    <2>6. FiredOrigin'
      BY <2>2, <2>5 DEF FiredOrigin
    <2>7. tick'.todo \subseteq tick.todo
      <3>1. CASE tick' = [tick EXCEPT !.at = "insert", !.job = d, !.run = r]
        BY <1>0, <3>1 DEF TickRows
      <3>2. CASE tick' = [tick EXCEPT !.todo = @ \ {d}]
        BY <1>0, <3>2 DEF TickRows
      <3>3. CASE tick' = Resting
        BY <3>3, RestingIs
      <3> QED
        BY <2>1, <3>1, <3>2, <3>3 DEF Answered
    <2>8. CopyOrigin'
      BY <2>2, <2>7 DEF CopyOrigin
    <2>9. CulpritOrigin'
      <3>1. CASE UNCHANGED culprit
        BY <2>2, <3>1 DEF CulpritOrigin, Rows
      <3>2. CASE got.answer = "error" /\ culprit' = culprit \cup {d.id}
        <4>1. from[d.id] # None /\ from[d.id] # "post" /\ d.id \in JobIds
          BY <1>0, <2>3, <3>2 DEF CopyOrigin, Harmless
        <4>2. from[d.id] = "import"
          BY <1>0, <4>1
        <4> QED
          BY <2>2, <3>2, <4>1, <4>2 DEF CulpritOrigin, Rows
      <3> QED
        BY <2>1, <3>1, <3>2 DEF Answered
    <2> QED
      BY <2>4, <2>6, <2>8, <2>9
  <1>3. ASSUME TickSend PROVE OriginInv'
    <2> DEFINE i == tick.job.id
    <2>1. /\ tick.at = "insert" /\ tick.job \in tick.todo /\ i \in JobIds
          /\ UNCHANGED <<job, from, call>>
      BY <1>0, <1>3 DEF TickSend, TypeInv, PassType
    <2>2. from[i] # None /\ \A k \in fired : from[k] # None /\ from[k] # "post"
      BY <2>1 DEF CopyOrigin, FiredOrigin
    <2>3. \A k \in fired : k \in JobIds
      BY DEF TypeInv, TableType
    <2>4. RowsOrigin' /\ PutOrigin'
      BY <1>a, <2>1, SameOrigin
    <2>5. CASE i \in Rows
      <3>1. /\ tick' = [tick EXCEPT !.at = "advance"]
            /\ culprit' = culprit \cup (fired \cap {i}) /\ fired' = fired \cup {i}
        BY <1>3, <2>5 DEF TickSend
      <3>2. tick'.at = "advance" /\ tick'.job = tick.job /\ tick'.todo = tick.todo
        BY <1>0, <3>1 DEF TickRows
      <3>3. CopyOrigin'
        BY <2>1, <3>2 DEF CopyOrigin
      <3>4. FiredOrigin'
        BY <2>1, <2>2, <3>1, <3>2 DEF FiredOrigin
      <3>5. \A k \in fired : from[k] = "import"
        BY <1>0, <2>2, <2>3
      <3>6. CulpritOrigin'
        BY <2>1, <2>2, <2>3, <3>1, <3>5 DEF CulpritOrigin, Rows
      <3> QED
        BY <2>4, <3>3, <3>4, <3>6
    <2>6. CASE i \notin Rows
      <3>1. tick' = Resting /\ UNCHANGED fired /\ culprit' = culprit \cup {i}
        BY <1>3, <2>6 DEF TickSend
      <3>2. CopyOrigin'
        BY <3>1, RestingIs DEF CopyOrigin
      <3>3. FiredOrigin'
        BY <2>1, <2>2, <3>1 DEF FiredOrigin
      <3>4. CulpritOrigin'
        BY <2>1, <2>2, <2>6, <3>1 DEF CulpritOrigin, Rows
      <3> QED
        BY <2>4, <3>2, <3>3, <3>4
    <2> QED
      BY <2>5, <2>6
  <1>4. ASSUME TickFull PROVE OriginInv'
    <2>1. tick.at = "insert" /\ GoesOn /\ UNCHANGED <<job, from, fired, call, culprit>>
      BY <1>4 DEF TickFull, GoesOn, jobVars
    <2>2. tick'.todo \subseteq tick.todo
      BY <1>0, <2>1, GoesOnIs
    <2>3. CopyOrigin' /\ FiredOrigin' /\ CulpritOrigin'
      BY <2>1, <2>2 DEF CopyOrigin, FiredOrigin, CulpritOrigin, Rows
    <2> QED
      BY <1>a, <2>1, <2>3, SameOrigin
  <1>5. ASSUME TickAdvance PROVE OriginInv'
    <2> DEFINE i == tick.job.id
    <2>1. /\ tick.at = "advance" /\ tick.job \in tick.todo /\ i \in JobIds
          /\ UNCHANGED <<from, call>>
      BY <1>0, <1>5 DEF TickAdvance, TypeInv, PassType
    <2>2. from[i] # None /\ \A k \in fired : from[k] # None /\ (from[k] = "post" => k = i)
      BY <2>1 DEF CopyOrigin, FiredOrigin
    <2>3. CASE Readable(tick.job.row.trigger)
      <3>1. /\ GoesOn /\ fired' = fired \ {i} /\ UNCHANGED culprit
            /\ job' = IF i \in Rows THEN [job EXCEPT ![i].next = FirstFire(tick.job.row.trigger)] ELSE job
        BY <1>5, <2>3 DEF TickAdvance, GoesOn
      <3>2. tick'.todo \subseteq tick.todo
        BY <1>0, <3>1, GoesOnIs
      <3>3. FirstFire(tick.job.row.trigger) \in {"none", "future", "due"}
        BY DEF FirstFire
      <3>4. RowsOrigin' /\ FromKeeps
        <4>1. CASE i \in Rows
          BY <2>1, <3>1, <3>3, <4>1, FieldOrigin
        <4>2. CASE i \notin Rows
          BY <2>1, <3>1, <4>2, SameOrigin
        <4> QED
          BY <4>1, <4>2
      <3>5. CopyOrigin'
        BY <2>1, <3>2 DEF CopyOrigin
      <3>6. FiredOrigin'
        BY <2>1, <2>2, <3>1 DEF FiredOrigin
      <3>7. CulpritOrigin'
        BY <3>1, <3>4 DEF CulpritOrigin, FromKeeps, Rows
      <3> QED
        BY <1>a, <2>1, <3>4, <3>5, <3>6, <3>7
    <2>4. CASE ~ Readable(tick.job.row.trigger)
      <3>1. tick' = Resting /\ culprit' = culprit \cup {i} /\ UNCHANGED <<job, fired>>
        BY <1>5, <2>4 DEF TickAdvance
      <3>2. from[i] = "import"
        BY <1>0, <2>1, <2>2, <2>4 DEF CopyOrigin, Harmless
      <3>3. CopyOrigin'
        BY <3>1, RestingIs DEF CopyOrigin
      <3>4. FiredOrigin'
        BY <2>1, <2>2, <3>1, <3>2 DEF FiredOrigin
      <3>5. CulpritOrigin'
        BY <2>1, <2>2, <3>1, <3>2 DEF CulpritOrigin, Rows
      <3> QED
        BY <1>a, <2>1, <3>1, <3>3, <3>4, <3>5, SameOrigin
    <2> QED
      BY <2>3, <2>4
  <1>6. ASSUME TickEnd PROVE OriginInv'
    <2>1. tick.at = "conditions" /\ tick' = Resting /\ UNCHANGED <<job, from, fired, call, culprit>>
      BY <1>6 DEF TickEnd, jobVars
    <2>2. CopyOrigin' /\ FiredOrigin' /\ CulpritOrigin'
      BY <2>1, RestingIs DEF CopyOrigin, FiredOrigin, CulpritOrigin, Rows
    <2> QED
      BY <1>a, <2>1, <2>2, SameOrigin
  <1>7. ASSUME NEW r \in Runs, RunEnds(r) PROVE OriginInv'
    <2>1. RowsOrigin' /\ FromKeeps
      BY <1>7, SameOrigin DEF RunEnds, jobVars
    <2> QED
      BY <1>7, <2>1, PutSame, OriginFrame DEF RunEnds, jobVars
  <1>8. ASSUME NEW i \in JobIds, TimeComes(i) PROVE OriginInv'
    <2>1. RowsOrigin' /\ FromKeeps
      BY <1>8, FieldOrigin DEF TimeComes
    <2> QED
      BY <1>8, <2>1, PutSame, OriginFrame DEF TimeComes, passVars
  <1> QED
    BY <1>1, <1>2, <1>3, <1>4, <1>5, <1>6, <1>7, <1>8, ConditionOrigin DEF PassNext

LEMMA EndsOrigin == ASSUME TypeInv, OriginInv, ServerEnds PROVE OriginInv'
  <1> USE DEF OriginInv
  <1>1. UNCHANGED <<job, from, culprit>> /\ \A c \in Callers : call'[c] = Quiet \/ call'[c] = call[c]
    BY EndsCalls
  <1>2. tick' = Resting /\ fired' = IF tick.at = "advance" THEN fired \ {tick.job.id} ELSE fired
    BY DEF ServerEnds
  <1>3. CopyOrigin'
    BY <1>2, RestingIs DEF CopyOrigin
  <1>4. PutOrigin'
    BY <1>1, QuietIs DEF PutOrigin
  <1>5. FiredOrigin'
    BY <1>1, <1>2 DEF FiredOrigin
  <1>6. CulpritOrigin'
    BY <1>1 DEF CulpritOrigin, Rows
  <1> QED
    BY <1>1, <1>3, <1>4, <1>5, <1>6, SameOrigin

LEMMA OriginStep == ASSUME TypeInv, OriginInv, [Next]_vars PROVE OriginInv'
  <1>1. ASSUME UNCHANGED vars PROVE OriginInv'
    <2>1. RowsOrigin' /\ FromKeeps
      BY <1>1, SameOrigin DEF vars, jobVars, OriginInv
    <2> QED
      BY <1>1, <2>1, PutSame, OriginFrame DEF vars, jobVars, passVars
  <1> QED
    BY <1>1, RequestOrigin, CallNextIs, CallStepOrigin, DocumentStepOrigin, PassOrigin, EndsIs,
       EndsOrigin DEF Next

(* Only a job that the import wrote, or one deleted under the pass, makes a *)
(* pass fail before its end, or is fired again for one due time while the   *)
(* server runs (create_job and update_job refuse what cannot be read and    *)
(* take no claims): of any number of jobs, whatever is imported. A posted   *)
(* condition may end the server, and with it the pass: TickPanics.          *)
THEOREM PoisonOriginSafe == Spec => []PoisonOrigin
  <1>1. CatalogInit => TypeInv /\ OriginInv
    BY TypeInit, OriginInit
  <1>2. (TypeInv /\ OriginInv) /\ [Next]_vars => (TypeInv /\ OriginInv)'
    BY TypeStep, OriginStep
  <1>3. OriginInv => PoisonOrigin
    BY DEF OriginInv, CulpritOrigin, PoisonOrigin
  <1> QED
    BY <1>1, <1>2, <1>3, PTL DEF Spec

-----------------------------------------------------------------------------
(* What a step means for the callers that do not take it: their calls stay  *)
(* as they are, and they are disturbed or the table is, but for due times,  *)
(* what it was.                                                             *)

StillRows ==
    /\ Rows' = Rows
    /\ \A i \in Rows : /\ job'[i].name = job[i].name /\ job'[i].trigger = job[i].trigger
                       /\ job'[i].claims = job[i].claims /\ job'[i].paused = job[i].paused

Still(c) == StillRows /\ touched \ {c} \subseteq touched'

Others(c) ==
    /\ \A d \in Callers \ {c} : call'[d] = call[d]
    /\ Disturb(c) \/ Still(c)

LEMMA SameStill == ASSUME UNCHANGED job PROVE StillRows
  BY DEF StillRows, Rows

LEMMA NextStill ==
    ASSUME TypeInv, NEW i \in Rows, NEW t \in {"none", "future", "due"},
           job' = [job EXCEPT ![i].next = t]
    PROVE  StillRows
  <1> DEFINE row == [job[i] EXCEPT !.next = t]
  <1>1. /\ job \in [JobIds -> {None} \cup JobRows] /\ i \in JobIds /\ job[i] \in JobRows
    BY DEF TypeInv, TableType, Rows
  <1>2. /\ row.claims = job[i].claims /\ row.trigger = job[i].trigger
        /\ row.paused = job[i].paused /\ row.name = job[i].name
    BY <1>1 DEF JobRows
  <1>3. row \in JobRows /\ row # None
    BY <1>1, NoneIsNoRow DEF JobRows
  <1> HIDE DEF row
  <1>4. job' = [job EXCEPT ![i] = row]
    BY <1>1 DEF row
  <1> QED
    BY <1>1, <1>2, <1>3, <1>4, NoneIsNoRow DEF StillRows, Rows

LEMMA StillIs ==
    ASSUME NEW c, StillRows, touched' = touched \/ touched' = touched \ {c}
    PROVE  Still(c)
  BY DEF Still

LEMMA RequestOthers == ASSUME TypeInv, RequestNext PROVE UNCHANGED call /\ Others(None)
  <1>1. UNCHANGED call
    BY Zenon DEF RequestNext, CreateJob, DeleteJob, TriggerJob, SetPaused, CreateResource
  <1>2. Disturb(None) \/ Still(None)
    <2>1. ASSUME NEW i \in JobIds, TriggerJob(i) PROVE Still(None)
      BY <2>1, NextStill, StillIs DEF TriggerJob
    <2>2. ASSUME NEW r \in ResIds, NEW n \in ResNames, CreateResource(r, n)
          PROVE  Still(None)
      BY <2>2, SameStill, StillIs DEF CreateResource, jobVars
    <2>3. \/ Disturb(None) \/ \E i \in JobIds : TriggerJob(i)
          \/ \E r \in ResIds, n \in ResNames : CreateResource(r, n)
      BY Zenon DEF RequestNext, CreateJob, DeleteJob, SetPaused
    <2> QED
      BY <2>1, <2>2, <2>3, Zenon
  <1> QED
    BY <1>1, <1>2 DEF Others

LEMMA PassStill == ASSUME TypeInv, PassNext PROVE StillRows
  <1>1. ASSUME NEW i \in JobIds, TimeComes(i) PROVE StillRows
    BY <1>1, NextStill DEF TimeComes
  <1>2. ASSUME TickAdvance PROVE StillRows
    <2> DEFINE i == tick.job.id
    <2>1. \/ UNCHANGED job
          \/ i \in Rows /\ job' = [job EXCEPT ![i].next = FirstFire(tick.job.row.trigger)]
      BY <1>2 DEF TickAdvance
    <2>2. FirstFire(tick.job.row.trigger) \in {"none", "future", "due"}
      BY DEF FirstFire
    <2> HIDE DEF i
    <2> QED
      BY <2>1, <2>2, NextStill, SameStill
  <1>4. ASSUME TickClear PROVE StillRows
    <2> DEFINE i == tick.job.id
    <2>1. UNCHANGED job \/ (i \in Rows /\ job' = [job EXCEPT ![i].next = "none"])
      BY <1>4 DEF TickClear
    <2> HIDE DEF i
    <2> QED
      BY <2>1, NextStill, SameStill
  <1>3. \/ UNCHANGED job \/ TickAdvance \/ TickClear \/ \E i \in JobIds : TimeComes(i)
    BY Zenon DEF PassNext, TickStart, TickAcquire, TickSend, TickFull, TickEnd, TickConditions, TickHolds,
                 TickFires, RunEnds, jobVars
  <1> QED
    BY <1>1, <1>2, <1>3, <1>4, SameStill

LEMMA PassOthers == ASSUME TypeInv, PassNext PROVE UNCHANGED call /\ Others(None)
  <1>1. UNCHANGED <<call, touched>>
    BY Zenon DEF PassNext, TickStart, TickAcquire, TickSend, TickFull, TickAdvance, TickEnd, RunEnds,
                 TickConditions, TickHolds, TickFires, TickClear, TimeComes, jobVars
  <1>2. Still(None)
    BY <1>1, PassStill, StillIs
  <1> QED
    BY <1>1, <1>2 DEF Others

LEMMA MovesAlone ==
    ASSUME TypeInv, NEW c \in Callers, NEW state, call' = [call EXCEPT ![c] = state]
    PROVE  call'[c] = state /\ \A d \in Callers \ {c} : call'[d] = call[d]
  BY DEF TypeInv, CallType

LEMMA CallStepOthers == ASSUME TypeInv, NEW c \in Callers, CallSteps(c) PROVE Others(c)
  <1>1. \E state : call' = [call EXCEPT ![c] = state]
    BY Zenon DEF CallSteps, UpdateRead, CliResolve, UpdateWrite, UpdateRefused, CliDelete,
                 CliTrigger, CliSetPaused, DeleteResourceFind, DeleteResource, Begin, Finish
  <1>2. \A d \in Callers \ {c} : call'[d] = call[d]
    BY <1>1, MovesAlone
  <1>3. ASSUME CliTrigger(c) PROVE Still(c)
    <2> DEFINE i == call[c].id
    <2>1. \/ UNCHANGED job
          \/ i \in Rows /\ job' = [job EXCEPT ![i].next = "due"]
      BY <1>3 DEF CliTrigger
    <2> HIDE DEF i
    <2> QED
      BY <1>3, <2>1, NextStill, SameStill, StillIs DEF CliTrigger
  <1>4. (UNCHANGED job /\ touched' = touched \ {c}) \/ UNCHANGED <<job, touched>> => Still(c)
    BY SameStill, StillIs
  <1>5. \/ Disturb(c) \/ CliTrigger(c) \/ UNCHANGED <<job, touched>>
        \/ UNCHANGED job /\ touched' = touched \ {c}
    BY Zenon DEF CallSteps, UpdateRead, CliResolve, UpdateWrite, UpdateRefused, CliDelete,
                 CliSetPaused, DeleteResourceFind, DeleteResource, Begin, jobVars
  <1> QED
    BY <1>2, <1>3, <1>4, <1>5 DEF Others

LEMMA DocumentStepOthers == ASSUME TypeInv, NEW c \in Callers, DocumentSteps(c) PROVE Others(c)
  <1>1. \E state : call' = [call EXCEPT ![c] = state]
    <2>1. ASSUME NEW kind \in {"import", "jil"}, DocumentBegin(c, kind)
          PROVE  \E state : call' = [call EXCEPT ![c] = state]
      BY <2>1, Zenon DEF DocumentBegin, Begin
    <2>2. ASSUME NEW b, NEW ok, Tell(c, b, ok) PROVE \E state : call' = [call EXCEPT ![c] = state]
      BY <2>2, Zenon DEF Tell
    <2>3. ASSUME NEW b \in Blocks, BlockFind(c, b) PROVE \E state : call' = [call EXCEPT ![c] = state]
      BY <2>3, Zenon DEF BlockFind
    <2>4. ASSUME DocumentEnd(c) PROVE \E state : call' = [call EXCEPT ![c] = state]
      BY <2>4, Zenon DEF DocumentEnd, Finish
    <2> QED
      BY <2>1, <2>2, <2>3, <2>4, Zenon DEF DocumentSteps, BlockInsert, BlockFails, BlockDelete
  <1>2. \A d \in Callers \ {c} : call'[d] = call[d]
    BY <1>1, MovesAlone
  <1>3. (UNCHANGED job /\ touched' = touched \ {c}) \/ UNCHANGED <<job, touched>> => Still(c)
    BY SameStill, StillIs
  <1>4. \/ Disturb(c) \/ UNCHANGED <<job, touched>>
        \/ UNCHANGED job /\ touched' = touched \ {c}
    BY Zenon DEF DocumentSteps, DocumentBegin, BlockInsert, BlockFails, BlockFind, BlockDelete,
                 DocumentEnd, Begin, jobVars
  <1> QED
    BY <1>2, <1>3, <1>4 DEF Others

-----------------------------------------------------------------------------
(* An update and the row it read.                                          *)

UpdateOf(c) == call[c].at = "put" /\ c \notin touched /\ call[c].id \in Rows =>
    /\ call[c].seen.paused = job[call[c].id].paused
    /\ call[c].seen.claims = job[call[c].id].claims

UpdateInv == \A c \in Callers : UpdateOf(c)

LEMMA UpdateOther ==
    ASSUME TypeInv, UpdateInv, NEW c, Others(c), NEW d \in Callers \ {c}
    PROVE  UpdateOf(d)'
  <1>1. call'[d] = call[d]
    BY DEF Others
  <1>2. CASE Disturb(c)
    <2>1. call[d].at = "put" => d \in touched'
      BY <1>2 DEF Disturb
    <2> QED
      BY <1>1, <2>1 DEF UpdateOf
  <1>3. CASE Still(c)
    <2>1. UpdateOf(d) /\ (d \notin touched' => d \notin touched)
      BY <1>3 DEF UpdateInv, Still
    <2> QED
      BY <1>1, <1>3, <2>1 DEF UpdateOf, Still, StillRows
  <1> QED
    BY <1>2, <1>3 DEF Others

LEMMA PutIsRead ==
    ASSUME TypeInv, NEW c \in Callers, CallSteps(c) \/ DocumentSteps(c), call'[c].at = "put"
    PROVE  \E i \in JobIds : UpdateRead(c, i)
  <1> DEFINE Goal == \E i \in JobIds : UpdateRead(c, i)
  <1>1. ASSUME NEW state, call' = [call EXCEPT ![c] = state] PROVE state.at = "put"
    BY <1>1, MovesAlone
  <1>2. ~ Finish(c)
    BY <1>1, QuietIs DEF Finish
  <1>3. ASSUME NEW b \in Blocks, NEW ok \in BOOLEAN, Tell(c, b, ok) PROVE FALSE
    <2>1. call'[c].at = (IF Server(c) THEN "import" ELSE IF ok THEN "jil" ELSE "stopped")
      BY <1>3, TellIs DEF TypeInv
    <2> QED
      BY <2>1
  <1>4. ASSUME CallSteps(c) PROVE Goal
    <2>1. ASSUME NEW i, Begin(c, Calling("cli", i, None)) \/ Begin(c, Calling("drop", i, None)) PROVE FALSE
      BY <1>1, <2>1 DEF Begin, Calling
    <2> QED
      BY <1>2, <1>4, <2>1, Zenon DEF CallSteps, CliResolve, UpdateWrite, UpdateRefused, CliDelete,
                   CliTrigger, CliSetPaused, DeleteResourceFind, DeleteResource
  <1>5. ~ DocumentSteps(c)
    <2>1. ASSUME NEW kind \in {"import", "jil"}, DocumentBegin(c, kind) PROVE FALSE
      <3> DEFINE state == [Calling(kind, None, None) EXCEPT !.start = Content]
      <3>1. state.at = kind
        BY DEF Calling
      <3>2. call' = [call EXCEPT ![c] = state]
        BY <2>1 DEF DocumentBegin, Begin
      <3> HIDE DEF state
      <3> QED
        BY <1>1, <3>1, <3>2
    <2>2. ASSUME NEW b \in Blocks, BlockFind(c, b) PROVE FALSE
      <3>1. call'[c].at = Finding(c)
        BY <2>2, FindIs
      <3> QED
        BY <3>1 DEF Finding
    <2>3. ASSUME BlockDelete(c) PROVE FALSE
      <3>1. call[c].seen \in Blocks
        BY <2>3 DEF BlockDelete, TypeInv, CallType
      <3> QED
        BY <1>3, <2>3, <3>1 DEF BlockDelete
    <2> QED
      BY <1>2, <1>3, <2>1, <2>2, <2>3 DEF DocumentSteps, BlockInsert, BlockFails, DocumentEnd
  <1> QED
    BY <1>4, <1>5

LEMMA UpdateOwn ==
    ASSUME TypeInv, NEW c \in Callers, CallSteps(c) \/ DocumentSteps(c)
    PROVE  UpdateOf(c)'
  <1> SUFFICES ASSUME call'[c].at = "put" PROVE UpdateOf(c)'
    BY DEF UpdateOf
  <1>1. PICK i \in JobIds : UpdateRead(c, i)
    BY PutIsRead
  <1> DEFINE state == Calling("put", i, job[i])
  <1>2. call' = [call EXCEPT ![c] = state] /\ UNCHANGED job
    BY <1>1 DEF UpdateRead, Begin
  <1>3. state.id = i /\ state.seen = job[i]
    BY DEF Calling
  <1> HIDE DEF state
  <1>4. call'[c] = state
    BY <1>2, MovesAlone
  <1> QED
    BY <1>2, <1>3, <1>4 DEF UpdateOf

LEMMA UpdateInit == CatalogInit => UpdateInv
  BY QuietIs DEF CatalogInit, UpdateInv, UpdateOf

(* Who takes a step. *)
LEMMA StepBy ==
    ASSUME TypeInv, Next
    PROVE  \/ UNCHANGED call /\ Others(None)
           \/ \E c \in Callers : Others(c) /\ (CallSteps(c) \/ DocumentSteps(c))
           \/ ServerEnds
  BY EndsIs, RequestOthers, PassOthers, CallStepOthers, DocumentStepOthers, CallNextIs DEF Next

LEMMA UpdateStep == ASSUME TypeInv, UpdateInv, [Next]_vars PROVE UpdateInv'
  <1>1. CASE UNCHANGED vars
    BY <1>1 DEF vars, jobVars, UpdateInv, UpdateOf, Rows
  <1>2. ASSUME Others(None) PROVE UpdateInv'
    <2>1. \A d \in Callers : d \in Callers \ {None}
      BY NoneIsNoRow
    <2> QED
      BY <1>2, <2>1, UpdateOther DEF UpdateInv
  <1>3. ASSUME NEW c \in Callers, Others(c), CallSteps(c) \/ DocumentSteps(c) PROVE UpdateInv'
    <2>1. UpdateOf(c)'
      BY <1>3, UpdateOwn
    <2>2. \A d \in Callers \ {c} : UpdateOf(d)'
      BY <1>3, UpdateOther
    <2> QED
      BY <2>1, <2>2 DEF UpdateInv
  <1>4. CASE ServerEnds
    BY <1>4, EndsCalls, QuietIs DEF UpdateInv, UpdateOf, Rows
  <1> QED
    BY <1>1, <1>2, <1>3, <1>4, StepBy

(* What UpdateKeeps says of one caller. *)
KeptBy(c) ==
    call[c].at = "put" /\ call'[c].at = "idle" /\ call[c].id \in Rows /\ c \notin touched =>
        /\ job'[call[c].id].paused = job[call[c].id].paused
        /\ job'[call[c].id].claims = job[call[c].id].claims

LEMMA UpdateOwnKeeps ==
    ASSUME TypeInv, UpdateInv, NEW c \in Callers, CallSteps(c) \/ DocumentSteps(c)
    PROVE  KeptBy(c)
  <1> SUFFICES ASSUME call[c].at = "put", call'[c].at = "idle", call[c].id \in Rows, c \notin touched
               PROVE  /\ job'[call[c].id].paused = job[call[c].id].paused
                      /\ job'[call[c].id].claims = job[call[c].id].claims
    BY DEF KeptBy
  <1>1. ~ DocumentSteps(c)
    BY DEF DocumentSteps, DocumentBegin, Begin, BlockInsert, BlockFails, BlockFind, BlockDelete,
           DocumentEnd, Ready
  <1>2. UpdateRefused(c) \/ \E n \in JobNames, t \in Triggers : UpdateWrite(c, n, t)
    BY <1>1 DEF CallSteps, UpdateRead, CliResolve, Begin, CliDelete, CliTrigger, CliSetPaused,
                DeleteResourceFind, DeleteResource
  <1>3. CASE UpdateRefused(c)
    BY <1>3 DEF UpdateRefused, jobVars
  <1>4. ASSUME NEW n \in JobNames, NEW t \in Triggers, UpdateWrite(c, n, t)
        PROVE  /\ job'[call[c].id].paused = job[call[c].id].paused
               /\ job'[call[c].id].claims = job[call[c].id].claims
    <2> DEFINE row == PutRow(call[c].seen, n, t)
    <2>1. call[c].id \in JobIds /\ call[c].seen \in JobRows /\ job \in [JobIds -> {None} \cup JobRows]
      BY DEF TypeInv, CallType, TableType
    <2>2. row.claims = call[c].seen.claims /\ row.paused = call[c].seen.paused
      BY <2>1, PutRowIs
    <2> HIDE DEF row
    <2>3. job' = [job EXCEPT ![call[c].id] = row]
      BY <1>4 DEF UpdateWrite, Update, Rows, row
    <2>4. UpdateOf(c)
      BY DEF UpdateInv
    <2> QED
      BY <2>1, <2>2, <2>3, <2>4 DEF UpdateOf
  <1> QED
    BY <1>2, <1>3, <1>4

LEMMA UpdateKept == ASSUME TypeInv, UpdateInv, [Next]_vars PROVE \A c \in Callers : KeptBy(c)
  <1> SUFFICES ASSUME NEW d \in Callers PROVE KeptBy(d)
    OBVIOUS
  <1>1. CASE call'[d] = call[d]
    BY <1>1 DEF KeptBy
  <1>2. ASSUME NEW c \in Callers, Others(c), CallSteps(c) \/ DocumentSteps(c), call'[d] # call[d]
        PROVE  KeptBy(d)
    <2>1. d = c
      BY <1>2 DEF Others
    <2> QED
      BY <1>2, <2>1, UpdateOwnKeeps
  <1>3. UNCHANGED vars => call'[d] = call[d]
    BY DEF vars
  <1>4. ServerEnds => KeptBy(d)
    BY EndsCalls DEF KeptBy
  <1> QED
    BY <1>1, <1>2, <1>3, <1>4, StepBy

(* An update leaves the pause and the claims of its job as they are unless  *)
(* another request changed the table between its read and its write         *)
(* (update_job), for any number of clients, jobs and requests.              *)
THEOREM UpdateKeepsSafe == Spec => UpdateKeeps
  <1>1. CatalogInit => TypeInv /\ UpdateInv
    BY TypeInit, UpdateInit
  <1>2. (TypeInv /\ UpdateInv) /\ [Next]_vars => (TypeInv /\ UpdateInv)'
    BY TypeStep, UpdateStep
  <1>3. (TypeInv /\ UpdateInv) /\ [Next]_vars => [\A c \in Callers : LET i == call[c].id IN
            call[c].at = "put" /\ call'[c].at = "idle" /\ i \in Rows /\ c \notin touched =>
                job'[i].paused = job[i].paused /\ job'[i].claims = job[i].claims]_vars
    BY UpdateKept DEF KeptBy
  <1> QED
    BY <1>1, <1>2, <1>3, PTL DEF Spec, UpdateKeeps

-----------------------------------------------------------------------------
(* What a document makes of a table, block by block.                       *)

Nothing(start) == [rows |-> start, told |-> << >>]

Applies(f, server, start, doc, n) ==
    f = [k \in 0 .. n |-> IF k = 0 THEN Nothing(start) ELSE ApplyBlock(server, f[k - 1], doc[k])]

LEMMA AppliesAt ==
    ASSUME NEW f, NEW server, NEW start, NEW doc, NEW n \in Nat, Applies(f, server, start, doc, n)
    PROVE  /\ f[0] = Nothing(start)
           /\ \A k \in 1 .. n : f[k] = ApplyBlock(server, f[k - 1], doc[k])
  <1>1. \A k \in 0 .. n : f[k] = IF k = 0 THEN Nothing(start) ELSE ApplyBlock(server, f[k - 1], doc[k])
    BY Zenon DEF Applies
  <1>2. 0 \in 0 .. n /\ \A k \in 1 .. n : k \in 0 .. n /\ k # 0
    OBVIOUS
  <1> QED
    BY <1>1, <1>2

LEMMA ApplyExists ==
    ASSUME NEW server, NEW start, NEW doc, NEW n \in Nat
    PROVE  \E f : Applies(f, server, start, doc, n)
  <1> DEFINE S == {m \in Nat : \E f : Applies(f, server, start, doc, m)}
  <1>1. 0 \in S
    <2> DEFINE f == [k \in 0 .. 0 |-> Nothing(start)]
    <2>1. f = [k \in 0 .. 0 |-> IF k = 0 THEN Nothing(start) ELSE ApplyBlock(server, f[k - 1], doc[k])]
      OBVIOUS
    <2>2. Applies(f, server, start, doc, 0)
      BY <2>1 DEF Applies
    <2> QED
      BY <2>2
  <1>2. ASSUME NEW m \in Nat, m \in S PROVE m + 1 \in S
    <2>1. PICK f : Applies(f, server, start, doc, m)
      BY <1>2
    <2> DEFINE g == [k \in 0 .. m + 1 |-> IF k = m + 1 THEN ApplyBlock(server, f[m], doc[m + 1]) ELSE f[k]]
    <2>2. f[0] = Nothing(start) /\ \A k \in 1 .. m : f[k] = ApplyBlock(server, f[k - 1], doc[k])
      BY <2>1, AppliesAt
    <2>3. \A k \in 0 .. m : g[k] = f[k]
      OBVIOUS
    <2>4. g[m + 1] = ApplyBlock(server, f[m], doc[m + 1])
      OBVIOUS
    <2>5. g = [k \in 0 .. m + 1 |-> g[k]]
      OBVIOUS
    <2> HIDE DEF g
    <2>6. ASSUME NEW k \in 0 .. m + 1
          PROVE  g[k] = IF k = 0 THEN Nothing(start) ELSE ApplyBlock(server, g[k - 1], doc[k])
      <3>1. CASE k = m + 1
        <4>1. k - 1 = m /\ m \in 0 .. m /\ k # 0
          BY <3>1
        <4>2. g[k - 1] = f[m] /\ g[k] = ApplyBlock(server, f[m], doc[k])
          BY <2>3, <2>4, <3>1, <4>1
        <4> QED
          BY <4>1, <4>2
      <3>2. CASE k # m + 1
        <4>1. k \in 0 .. m /\ (k # 0 => k \in 1 .. m /\ k - 1 \in 0 .. m)
          BY <3>2
        <4>2. g[k] = f[k] /\ (k # 0 => g[k - 1] = f[k - 1])
          BY <2>3, <4>1
        <4> QED
          BY <2>2, <4>1, <4>2
      <3> QED
        BY <3>1, <3>2
    <2>7. Applies(g, server, start, doc, m + 1)
      <3>1. [k \in 0 .. m + 1 |-> g[k]]
             = [k \in 0 .. m + 1 |-> IF k = 0 THEN Nothing(start) ELSE ApplyBlock(server, g[k - 1], doc[k])]
        BY <2>6
      <3>2. g = [k \in 0 .. m + 1 |-> IF k = 0 THEN Nothing(start) ELSE ApplyBlock(server, g[k - 1], doc[k])]
        BY <2>5, <3>1, Zenon
      <3> QED
        BY <3>2 DEF Applies
    <2> QED
      BY <2>7
  <1>3. \A m \in Nat : m \in S
    <2> HIDE DEF S
    <2> QED
      BY <1>1, <1>2, Induction
  <1> QED
    BY <1>3

LEMMA ApplyAllIs ==
    ASSUME NEW server, NEW start, NEW doc \in Seq(Blocks)
    PROVE  \E f : /\ ApplyAll(server, start, doc) = f[Len(doc)]
                 /\ Applies(f, server, start, doc, Len(doc))
  <1> DEFINE f == CHOOSE f : Applies(f, server, start, doc, Len(doc))
  <1>1. ApplyAll(server, start, doc) = f[Len(doc)]
    BY DEF ApplyAll, Applies, Nothing
  <1>2. Applies(f, server, start, doc, Len(doc))
    <2>1. Len(doc) \in Nat
      OBVIOUS
    <2> QED
      BY <2>1, ApplyExists
  <1> QED
    BY <1>1, <1>2

LEMMA ApplyNothing ==
    ASSUME NEW server, NEW start
    PROVE  ApplyAll(server, start, << >>) = Nothing(start)
  <1> DEFINE none == << >>
  <1>1. none \in Seq(Blocks) /\ Len(none) = 0
    OBVIOUS
  <1> HIDE DEF none
  <1>2. ApplyAll(server, start, none) = Nothing(start)
    <2>1. PICK f : ApplyAll(server, start, none) = f[0] /\ Applies(f, server, start, none, 0)
      BY <1>1, ApplyAllIs
    <2> QED
      BY <2>1, AppliesAt
  <1> QED
    BY <1>2 DEF none

(* One block more is one block applied more. *)
LEMMA ApplyMore ==
    ASSUME NEW server, NEW start, NEW doc \in Seq(Blocks), NEW b \in Blocks
    PROVE  ApplyAll(server, start, Append(doc, b)) = ApplyBlock(server, ApplyAll(server, start, doc), b)
  <1> DEFINE more == Append(doc, b)
             n    == Len(doc)
  <1>1. /\ more \in Seq(Blocks) /\ Len(more) = n + 1 /\ n \in Nat /\ more[n + 1] = b
        /\ \A k \in 1 .. n : more[k] = doc[k]
    OBVIOUS
  <1>2. PICK f : ApplyAll(server, start, doc) = f[n] /\ Applies(f, server, start, doc, n)
    BY ApplyAllIs
  <1> HIDE DEF more, n
  <1>3. PICK g : ApplyAll(server, start, more) = g[n + 1] /\ Applies(g, server, start, more, n + 1)
    <2>1. Len(more) = n + 1 /\ more \in Seq(Blocks)
      BY <1>1
    <2> QED
      BY <2>1, ApplyAllIs
  <1>4. f[0] = Nothing(start) /\ \A k \in 1 .. n : f[k] = ApplyBlock(server, f[k - 1], doc[k])
    BY <1>1, <1>2, AppliesAt
  <1>5. g[0] = Nothing(start) /\ \A k \in 1 .. n + 1 : g[k] = ApplyBlock(server, g[k - 1], more[k])
    <2>1. n + 1 \in Nat
      BY <1>1
    <2> QED
      BY <1>3, <2>1, AppliesAt
  <1> DEFINE S == {k \in Nat : k <= n => f[k] = g[k]}
  <1>6. 0 \in S
    BY <1>4, <1>5
  <1>7. ASSUME NEW k \in Nat, k \in S PROVE k + 1 \in S
    <2> SUFFICES ASSUME k + 1 <= n PROVE f[k + 1] = g[k + 1]
      OBVIOUS
    <2>1. k + 1 \in 1 .. n /\ k + 1 \in 1 .. n + 1 /\ k + 1 - 1 = k /\ k <= n
      BY <1>1
    <2>2. f[k] = g[k] /\ more[k + 1] = doc[k + 1]
      BY <1>1, <1>7, <2>1
    <2>3. f[k + 1] = ApplyBlock(server, f[k], doc[k + 1])
      BY <1>4, <2>1
    <2>4. g[k + 1] = ApplyBlock(server, g[k], more[k + 1])
      BY <1>5, <2>1
    <2> QED
      BY <2>2, <2>3, <2>4
  <1>8. n \in S
    <2> HIDE DEF S
    <2> QED
      BY <1>1, <1>6, <1>7, Induction
  <1>9. g[n + 1] = ApplyBlock(server, g[n], b) /\ f[n] = g[n]
    <2>1. n + 1 \in 1 .. n + 1 /\ n + 1 - 1 = n
      BY <1>1
    <2> QED
      BY <1>1, <1>5, <1>8, <2>1
  <1> QED
    BY <1>2, <1>3, <1>9 DEF more

-----------------------------------------------------------------------------
(* Names are unique.                                                       *)

NamesInv == \A i, k \in Rows : job[i].name = job[k].name => i = k

LEMMA NamesStill == ASSUME NamesInv, StillRows PROVE NamesInv'
  BY DEF NamesInv, StillRows

LEMMA NamesInsert ==
    ASSUME TypeInv, NamesInv, NEW i, NEW row, NEW origin, Insert(i, row, origin) PROVE NamesInv'
  BY DEF TypeInv, TableType, NamesInv, Insert, NewId, Named, Rows

LEMMA NamesErase == ASSUME TypeInv, NamesInv, NEW i \in JobIds, Erase(i) PROVE NamesInv'
  BY DEF TypeInv, TableType, NamesInv, Erase, Rows

LEMMA NamesUpdate ==
    ASSUME TypeInv, NamesInv, NEW i \in JobIds, NEW row \in JobRows, Update(i, row),
           Named(row.name) \subseteq {i}
    PROVE  NamesInv'
  BY DEF TypeInv, TableType, NamesInv, Update, Named, Rows

(* The pause is no name. *)
LEMMA NamesPaused ==
    ASSUME TypeInv, NamesInv, NEW i \in Rows, NEW p \in BOOLEAN, job' = [job EXCEPT ![i].paused = p]
    PROVE  NamesInv'
  <1> DEFINE row == [job[i] EXCEPT !.paused = p]
  <1>1. /\ job \in [JobIds -> {None} \cup JobRows] /\ i \in JobIds /\ job[i] \in JobRows
    BY DEF TypeInv, TableType, Rows
  <1>2. row.name = job[i].name
    BY <1>1 DEF JobRows
  <1>3. job' = [job EXCEPT ![i] = row]
    BY <1>1
  <1> HIDE DEF row
  <1> QED
    BY <1>1, <1>2, <1>3 DEF NamesInv, Rows

LEMMA NamesInit == CatalogInit => NamesInv
  BY DEF CatalogInit, NamesInv

LEMMA RequestNames == ASSUME TypeInv, NamesInv, RequestNext PROVE NamesInv'
  <1>1. ASSUME NEW n \in JobNames, NEW t \in Triggers, CreateJob(n, t) PROVE NamesInv'
    BY <1>1, NamesInsert DEF CreateJob
  <1>2. ASSUME NEW i \in JobIds, DeleteJob(i) PROVE NamesInv'
    BY <1>2, NamesErase DEF DeleteJob
  <1>3. ASSUME NEW i \in JobIds, TriggerJob(i) PROVE NamesInv'
    BY <1>3, NextStill, NamesStill DEF TriggerJob
  <1>4. ASSUME NEW i \in JobIds, NEW p \in BOOLEAN, SetPaused(i, p) PROVE NamesInv'
    BY <1>4, NamesPaused DEF SetPaused
  <1>5. ASSUME NEW r \in ResIds, NEW n \in ResNames, CreateResource(r, n) PROVE NamesInv'
    BY <1>5, SameStill, NamesStill DEF CreateResource, jobVars
  <1> QED
    BY <1>1, <1>2, <1>3, <1>4, <1>5 DEF RequestNext

LEMMA CallStepNames == ASSUME TypeInv, NamesInv, NEW c \in Callers, CallSteps(c) PROVE NamesInv'
  <1> DEFINE i == call[c].id
  <1>1. ASSUME NEW n \in JobNames, NEW t \in Triggers, UpdateWrite(c, n, t) PROVE NamesInv'
    <2> DEFINE row == PutRow(call[c].seen, n, t)
    <2>1. i \in JobIds /\ call[c].seen \in JobRows
      BY <1>1 DEF UpdateWrite, TypeInv, CallType
    <2>2. row \in JobRows /\ row.name = n
      BY <2>1, PutRowIs
    <2>3. Update(i, row) /\ Named(n) \subseteq {i}
      BY <1>1 DEF UpdateWrite
    <2> HIDE DEF row, i
    <2> QED
      BY <2>1, <2>2, <2>3, NamesUpdate
  <1>2. ASSUME CliDelete(c) PROVE NamesInv'
    <2>1. i \in JobIds /\ Erase(i)
      BY <1>2 DEF CliDelete, TypeInv, CallType
    <2> QED
      BY <2>1, NamesErase
  <1>3. ASSUME CliTrigger(c) PROVE NamesInv'
    <2>1. \/ UNCHANGED job
          \/ i \in Rows /\ job' = [job EXCEPT ![i].next = "due"]
      BY <1>3 DEF CliTrigger
    <2> HIDE DEF i
    <2> QED
      BY <2>1, NextStill, SameStill, NamesStill
  <1>4. ASSUME NEW p \in BOOLEAN, CliSetPaused(c, p) PROVE NamesInv'
    <2>1. \/ UNCHANGED job
          \/ i \in Rows /\ job' = [job EXCEPT ![i].paused = p]
      BY <1>4 DEF CliSetPaused
    <2> HIDE DEF i
    <2> QED
      BY <2>1, NamesPaused, SameStill, NamesStill
  <1>5. \/ UNCHANGED job \/ CliDelete(c) \/ CliTrigger(c) \/ \E p \in BOOLEAN : CliSetPaused(c, p)
        \/ \E n \in JobNames, t \in Triggers : UpdateWrite(c, n, t)
    BY Zenon DEF CallSteps, UpdateRead, CliResolve, UpdateRefused, DeleteResourceFind,
                 DeleteResource, Begin, jobVars
  <1> QED
    BY <1>1, <1>2, <1>3, <1>4, <1>5, SameStill, NamesStill

LEMMA DocumentStepNames ==
    ASSUME TypeInv, NamesInv, NEW c \in Callers, DocumentSteps(c) PROVE NamesInv'
  <1>1. ASSUME NEW b \in Blocks, BlockInsert(c, b) PROVE NamesInv'
    BY <1>1, NamesInsert DEF BlockInsert
  <1>2. ASSUME BlockDelete(c) PROVE NamesInv'
    <2>1. call[c].id \in JobIds
      BY <1>2 DEF BlockDelete, TypeInv, CallType
    <2> QED
      BY <1>2, <2>1, NamesErase DEF BlockDelete
  <1>3. UNCHANGED job \/ BlockDelete(c) \/ \E b \in Blocks : BlockInsert(c, b)
    BY Zenon DEF DocumentSteps, DocumentBegin, BlockFails, BlockFind, DocumentEnd, Begin, jobVars
  <1> QED
    BY <1>1, <1>2, <1>3, SameStill, NamesStill

LEMMA NamesStep == ASSUME TypeInv, NamesInv, [Next]_vars PROVE NamesInv'
  <1>1. UNCHANGED vars => NamesInv'
    BY SameStill, NamesStill DEF vars, jobVars
  <1> QED
    BY <1>1, EndsIs, EndsCalls, SameStill, RequestNames, CallNextIs, CallStepNames, DocumentStepNames, PassStill, NamesStill DEF Next

-----------------------------------------------------------------------------
(* The table against the blocks of a document.                             *)

ContentOf(row) == [name |-> row.name, trigger |-> row.trigger, claims |-> row.claims]

LEMMA ContentIs == Content = {ContentOf(job[i]) : i \in Rows}
  BY DEF Content, ContentOf

LEMMA ContentNames == ASSUME NEW n PROVE (\E row \in Content : row.name = n) <=> Named(n) # {}
  <1>1. \A i : ContentOf(job[i]).name = job[i].name
    BY DEF ContentOf
  <1> HIDE DEF ContentOf
  <1> QED
    BY <1>1, ContentIs DEF Named

LEMMA ContentStill == ASSUME StillRows PROVE Content' = Content
  <1>1. \A i \in Rows : ContentOf(job[i])' = ContentOf(job[i])
    BY DEF StillRows, ContentOf
  <1>2. Content' = {ContentOf(job[i])' : i \in Rows'}
    BY DEF Content, ContentOf
  <1> QED
    BY <1>1, <1>2, ContentIs DEF StillRows

LEMMA ContentInsert ==
    ASSUME TypeInv, NEW i, NEW row \in JobRows, NEW origin, Insert(i, row, origin)
    PROVE  Content' = Content \cup {ContentOf(row)}
  <1>1. /\ i \in JobIds /\ i \notin Rows /\ job \in [JobIds -> {None} \cup JobRows]
        /\ job' = [job EXCEPT ![i] = row]
    BY DEF Insert, NewId, Rows, TypeInv, TableType
  <1>2. Rows' = Rows \cup {i} /\ job'[i] = row /\ \A k \in Rows : job'[k] = job[k]
    BY <1>1, NoneIsNoRow DEF Rows
  <1>3. Content' = {ContentOf(job'[k]) : k \in Rows'}
    BY DEF Content, ContentOf
  <1> QED
    BY <1>2, <1>3, ContentIs

LEMMA ContentErase ==
    ASSUME TypeInv, NamesInv, NEW i \in Rows, Erase(i)
    PROVE  Content' = {row \in Content : row.name # job[i].name}
  <1>1. /\ i \in JobIds /\ job \in [JobIds -> {None} \cup JobRows] /\ job' = [job EXCEPT ![i] = None]
    BY DEF Erase, Rows, TypeInv, TableType
  <1>2. Rows' = Rows \ {i} /\ \A k \in Rows' : job'[k] = job[k]
    BY <1>1 DEF Rows
  <1>3. Content' = {ContentOf(job'[k]) : k \in Rows'}
    BY DEF Content, ContentOf
  <1>4. \A k \in Rows : job[k].name # job[i].name <=> k # i
    BY DEF NamesInv
  <1>5. \A k \in Rows : ContentOf(job[k]).name = job[k].name
    BY DEF ContentOf
  <1> QED
    BY <1>2, <1>3, <1>4, <1>5, ContentIs

InDocument(c) == call[c].at \in {"import", "jil", "stopped", "import_delete", "jil_delete"}
AllTold(c, n) == \A k \in 1 .. n : call[c].told[k]
(* The table is what the blocks told so far make of the one at the start. *)
InStep(c) == Applied(c) = [rows |-> Content, told |-> call[c].told]

DocOf(c) ==
    /\ call[c].at \in {"jil", "jil_delete"} => AllTold(c, Len(call[c].told))
    /\ call[c].at = "stopped" => AllTold(c, Len(call[c].told) - 1)
    /\ InDocument(c) /\ c \notin touched => InStep(c)
    /\ call[c].at \in {"import_delete", "jil_delete"} =>
          /\ call[c].seen.verb = "delete"
          /\ c \notin touched => call[c].id \in Rows /\ job[call[c].id].name = call[c].seen.name

DocInv == \A c \in Callers : DocOf(c)

LEMMA DocOther ==
    ASSUME TypeInv, DocInv, NEW c, Others(c), NEW d \in Callers \ {c}
    PROVE  DocOf(d)'
  <1>1. call'[d] = call[d] /\ DocOf(d)
    BY DEF Others, DocInv
  <1>2. Applied(d)' = Applied(d)
    BY <1>1 DEF Applied, Server
  <1>3. CASE Disturb(c)
    <2>1. call[d].at # "idle" => d \in touched'
      BY <1>3 DEF Disturb
    <2> QED
      BY <1>1, <2>1 DEF DocOf, InDocument, AllTold
  <1>4. CASE Still(c)
    <2>1. (d \notin touched' => d \notin touched) /\ StillRows
      BY <1>4 DEF Still
    <2>2. Content' = Content
      BY <2>1, ContentStill
    <2>3. InStep(d) => InStep(d)'
      BY <1>1, <1>2, <2>2 DEF InStep
    <2> QED
      BY <1>1, <2>1, <2>3 DEF DocOf, InDocument, AllTold, StillRows
  <1> QED
    BY <1>3, <1>4 DEF Others

(* A caller whose call is not, or no more, a document. *)
LEMMA DocNone == ASSUME NEW c, ~ InDocument(c) PROVE DocOf(c)
  BY DEF DocOf, InDocument

(* A block is done. *)
LEMMA DocTell ==
    ASSUME TypeInv, DocInv, NEW c \in Callers, NEW b \in Blocks, NEW ok \in BOOLEAN, Tell(c, b, ok),
           call[c].at \in {"import", "jil", "import_delete", "jil_delete"}, touched \subseteq touched',
           c \notin touched =>
              ApplyBlock(Server(c), [rows |-> Content, told |-> call[c].told], b)
                = [rows |-> Content', told |-> Append(call[c].told, ok)]
    PROVE  DocOf(c)'
  <1> DEFINE told == call[c].told
             doc  == call[c].doc
  <1>1. /\ call'[c].at = (IF Server(c) THEN "import" ELSE IF ok THEN "jil" ELSE "stopped")
        /\ call'[c].doc = Append(doc, b) /\ call'[c].told = Append(told, ok)
        /\ call'[c].start = call[c].start
    BY TellIs DEF TypeInv
  <1>2. doc \in Seq(Blocks) /\ told \in Seq(BOOLEAN)
    BY DEF TypeInv, CallType, CallRows
  <1>3. Server(c)' = Server(c)
    BY <1>1 DEF Server
  <1>4. ASSUME c \notin touched' PROVE InStep(c)'
    <2>1. c \notin touched /\ InStep(c)
      BY <1>4 DEF DocInv, DocOf, InDocument
    <2>2. ApplyAll(Server(c), call[c].start, doc) = [rows |-> Content, told |-> told]
      BY <2>1 DEF InStep, Applied
    <2>3. Applied(c)' = ApplyAll(Server(c), call[c].start, Append(doc, b))
      BY <1>1, <1>3 DEF Applied
    <2> DEFINE S == Server(c)
    <2> HIDE DEF S, doc, told
    <2>4. ApplyAll(S, call[c].start, Append(doc, b)) = ApplyBlock(S, ApplyAll(S, call[c].start, doc), b)
      BY <1>2, ApplyMore
    <2>5. Applied(c)' = [rows |-> Content', told |-> Append(told, ok)]
      BY <2>1, <2>2, <2>3, <2>4 DEF S, told
    <2> QED
      BY <1>1, <2>5 DEF InStep
  <1>5. ASSUME call'[c].at = "jil" PROVE AllTold(c, Len(call[c].told))'
    <2>1. ok = TRUE /\ call[c].at \in {"jil", "jil_delete"}
      BY <1>1, <1>5 DEF Server
    <2>2. \A k \in 1 .. Len(told) : told[k]
      BY <2>1 DEF DocInv, DocOf, AllTold
    <2>3. Len(Append(told, ok)) = Len(told) + 1 /\ Len(told) \in Nat
          /\ (\A k \in 1 .. Len(told) : Append(told, ok)[k] = told[k])
          /\ Append(told, ok)[Len(told) + 1] = ok
      BY <1>2
    <2>4. ASSUME NEW k \in 1 .. Len(told) + 1 PROVE Append(told, ok)[k]
      BY <2>1, <2>2, <2>3
    <2> QED
      BY <1>1, <2>3, <2>4 DEF AllTold
  <1>6. ASSUME call'[c].at = "stopped" PROVE AllTold(c, Len(call[c].told) - 1)'
    <2>1. call[c].at \in {"jil", "jil_delete"}
      BY <1>1, <1>6 DEF Server
    <2>2. \A k \in 1 .. Len(told) : told[k]
      BY <2>1 DEF DocInv, DocOf, AllTold
    <2>3. Len(Append(told, ok)) - 1 = Len(told)
          /\ (\A k \in 1 .. Len(told) : Append(told, ok)[k] = told[k])
      BY <1>2
    <2>4. ASSUME NEW k \in 1 .. Len(told) PROVE Append(told, ok)[k]
      BY <2>2, <2>3
    <2> QED
      BY <1>1, <2>3, <2>4 DEF AllTold
  <1>7. call'[c].at \in {"import", "jil", "stopped"}
    BY <1>1
  <1> QED
    BY <1>4, <1>5, <1>6, <1>7 DEF DocOf

LEMMA DocBegin ==
    ASSUME TypeInv, NEW c \in Callers, NEW kind \in {"import", "jil"}, DocumentBegin(c, kind)
    PROVE  DocOf(c)'
  <1> DEFINE state == [Calling(kind, None, None) EXCEPT !.start = Content]
  <1>1. state.at = kind /\ state.start = Content /\ state.doc = << >> /\ state.told = << >>
    BY DEF Calling
  <1>2. call' = [call EXCEPT ![c] = state] /\ UNCHANGED job
    BY DEF DocumentBegin, Begin
  <1> HIDE DEF state
  <1>3. call'[c] = state
    BY <1>2, MovesAlone
  <1>4. Content' = Content
    BY <1>2, SameStill, ContentStill
  <1>5. Applied(c)' = ApplyAll(Server(c)', Content, << >>)
    BY <1>1, <1>3 DEF Applied
  <1>6. Applied(c)' = [rows |-> Content, told |-> << >>]
    BY <1>5, ApplyNothing DEF Nothing
  <1>7. InStep(c)'
    BY <1>1, <1>3, <1>4, <1>6 DEF InStep
  <1>8. Len(<< >>) = 0
    OBVIOUS
  <1> QED
    BY <1>1, <1>3, <1>7, <1>8 DEF DocOf, AllTold

LEMMA DocInsert ==
    ASSUME TypeInv, DocInv, NEW c \in Callers, NEW b \in Blocks, BlockInsert(c, b)
    PROVE  DocOf(c)'
  <1> DEFINE out == IntoJob(b.attrs)
             row == Row(b.name, out.trigger, ClaimsSent(c, out))
             new == [name |-> b.name, trigger |-> out.trigger,
                     claims |-> IF Server(c) THEN out.claims ELSE << >>]
  <1>1. /\ Ready(c) /\ b.verb = "insert" /\ CanInsert(c, b) /\ Disturb(c) /\ Tell(c, b, TRUE)
        /\ \E i \in JobIds, origin \in {"import", "post"} : Insert(i, row, origin)
    BY DEF BlockInsert
  <1>2. row \in JobRows
    <2>1. ClaimsSent(c, out) \in Seq(Claims)
      BY BlockIs DEF ClaimsSent
    <2> HIDE DEF out
    <2> QED
      BY <2>1, BlockIs, RowIs DEF out
  <1>3. ContentOf(row) = new
    BY DEF ContentOf, Row, ClaimsSent
  <1>4. Content' = Content \cup {new}
    <2> HIDE DEF row, new
    <2> QED
      BY <1>1, <1>2, <1>3, ContentInsert
  <1>5. /\ out.ok /\ (~ \E r \in Content : r.name = b.name)
        /\ (Server(c) \/ out.trigger # "badcron")
    BY <1>1, ContentNames DEF CanInsert, Accepts, Readable
  <1>6. ApplyBlock(Server(c), [rows |-> Content, told |-> call[c].told], b)
          = [rows |-> Content \cup {new}, told |-> Append(call[c].told, TRUE)]
    <2> DEFINE S == Server(c)
    <2>1. S \/ out.trigger # "badcron"
      BY <1>5
    <2>2. new = [name |-> b.name, trigger |-> out.trigger, claims |-> IF S THEN out.claims ELSE << >>]
      OBVIOUS
    <2>4. b.verb = "insert" /\ out.ok /\ (~ \E r \in Content : r.name = b.name)
      BY <1>1, <1>5
    <2> HIDE DEF S, new
    <2>3. ApplyBlock(S, [rows |-> Content, told |-> call[c].told], b)
            = [rows |-> Content \cup {new}, told |-> Append(call[c].told, TRUE)]
      BY <2>1, <2>2, <2>4 DEF ApplyBlock
    <2> QED
      BY <2>3 DEF S
  <1>7. touched \subseteq touched' /\ call[c].at \in {"import", "jil"}
    BY <1>1 DEF Disturb, Ready
  <1> QED
    BY <1>1, <1>4, <1>6, <1>7, DocTell

LEMMA DocFails ==
    ASSUME TypeInv, DocInv, NEW c \in Callers, NEW b \in Blocks, BlockFails(c, b)
    PROVE  DocOf(c)'
  <1>1. Ready(c) /\ Tell(c, b, FALSE) /\ UNCHANGED <<job, touched>>
    BY DEF BlockFails, jobVars
  <1>2. Content' = Content
    BY <1>1, SameStill, ContentStill
  <1>3. \/ b.verb = "insert" /\ ~ (IntoJob(b.attrs).ok /\ (~ \E row \in Content : row.name = b.name)
                                    /\ (Server(c) \/ IntoJob(b.attrs).trigger # "badcron"))
        \/ b.verb = "delete" /\ ~ \E row \in Content : row.name = b.name
        \/ b.verb = "update"
    <2>1. b.verb \in {"insert", "delete", "update"}
      BY BlockIs
    <2>2. /\ b.verb = "insert" => ~ CanInsert(c, b)
          /\ b.verb = "delete" => Named(b.name) = {}
      BY DEF BlockFails
    <2> QED
      BY <2>1, <2>2, ContentNames DEF CanInsert, Accepts, Readable
  <1>4. ApplyBlock(Server(c), [rows |-> Content, told |-> call[c].told], b)
          = [rows |-> Content, told |-> Append(call[c].told, FALSE)]
    <2> DEFINE S == Server(c)
    <2>1. \/ b.verb = "insert" /\ ~ (IntoJob(b.attrs).ok /\ (~ \E row \in Content : row.name = b.name)
                                      /\ (S \/ IntoJob(b.attrs).trigger # "badcron"))
          \/ b.verb = "delete" /\ ~ \E row \in Content : row.name = b.name
          \/ b.verb = "update"
      BY <1>3
    <2> HIDE DEF S
    <2>2. ApplyBlock(S, [rows |-> Content, told |-> call[c].told], b)
            = [rows |-> Content, told |-> Append(call[c].told, FALSE)]
      BY <2>1 DEF ApplyBlock
    <2> QED
      BY <2>2 DEF S
  <1>5. touched \subseteq touched' /\ call[c].at \in {"import", "jil"}
    BY <1>1 DEF Ready
  <1> QED
    BY <1>1, <1>2, <1>4, <1>5, DocTell

LEMMA DocDelete ==
    ASSUME TypeInv, NamesInv, DocInv, NEW c \in Callers, BlockDelete(c)
    PROVE  DocOf(c)'
  <1> DEFINE b == call[c].seen
             i == call[c].id
  <1>1. /\ b \in Blocks /\ call[c].at \in {"import_delete", "jil_delete"}
        /\ Erase(i) /\ Disturb(c) /\ Tell(c, b, TRUE)
    BY DEF BlockDelete, TypeInv, CallType
  <1>2. b.verb = "delete" /\ (c \notin touched => i \in Rows /\ job[i].name = b.name)
    BY <1>1 DEF DocInv, DocOf
  <1> HIDE DEF b, i
  <1>3. ASSUME c \notin touched
        PROVE  ApplyBlock(Server(c), [rows |-> Content, told |-> call[c].told], b)
                 = [rows |-> Content', told |-> Append(call[c].told, TRUE)]
    <2>1. Content' = {row \in Content : row.name # b.name}
      BY <1>1, <1>2, <1>3, ContentErase
    <2>2. i \in Named(b.name)
      BY <1>2, <1>3 DEF Named
    <2>3. \E row \in Content : row.name = b.name
      BY <2>2, ContentNames
    <2> QED
      <3> DEFINE S == Server(c)
      <3> HIDE DEF S
      <3>1. ApplyBlock(S, [rows |-> Content, told |-> call[c].told], b)
              = [rows |-> {row \in Content : row.name # b.name}, told |-> Append(call[c].told, TRUE)]
        BY <1>2, <2>3 DEF ApplyBlock
      <3> QED
        BY <2>1, <3>1 DEF S
  <1>4. touched \subseteq touched'
    BY <1>1 DEF Disturb
  <1> QED
    BY <1>1, <1>3, <1>4, DocTell

LEMMA DocFind ==
    ASSUME TypeInv, DocInv, NEW c \in Callers, NEW b \in Blocks, BlockFind(c, b)
    PROVE  DocOf(c)'
  <1>1. /\ Ready(c) /\ b.verb = "delete" /\ UNCHANGED <<job, touched>>
    BY DEF BlockFind, jobVars
  <1>2. PICK i \in Named(b.name) :
           /\ call'[c].at = Finding(c)
           /\ call'[c].id = i /\ call'[c].seen = b /\ call'[c].doc = call[c].doc
           /\ call'[c].told = call[c].told /\ call'[c].start = call[c].start
    BY FindIs
  <1>3. Server(c)' = Server(c)
    BY <1>2 DEF Server, Finding
  <1>4. Applied(c)' = Applied(c)
    BY <1>2, <1>3 DEF Applied
  <1>5. Content' = Content
    BY <1>1, SameStill, ContentStill
  <1>6. InStep(c) => InStep(c)'
    BY <1>2, <1>4, <1>5 DEF InStep
  <1>7. c \notin touched' => InStep(c)
    BY <1>1 DEF DocInv, DocOf, InDocument, Ready
  <1>8. i \in Rows' /\ job'[i].name = b.name
    BY <1>1 DEF Named, Rows
  <1>9. call'[c].at = "jil_delete" => AllTold(c, Len(call[c].told))'
    BY <1>1, <1>2 DEF Finding, Server, Ready, DocInv, DocOf, AllTold
  <1>10. call'[c].at \in {"import_delete", "jil_delete"}
    BY <1>2 DEF Finding
  <1> QED
    BY <1>1, <1>2, <1>6, <1>7, <1>8, <1>9, <1>10 DEF DocOf

LEMMA DocOwn ==
    ASSUME TypeInv, NamesInv, DocInv, NEW c \in Callers, CallSteps(c) \/ DocumentSteps(c)
    PROVE  DocOf(c)'
  <1>1. ASSUME DocumentEnd(c) PROVE DocOf(c)'
    <2>1. call'[c] = Quiet
      BY <1>1, MovesAlone DEF DocumentEnd, Finish
    <2> QED
      BY <2>1, QuietIs DEF DocOf, InDocument
  <1>2. ASSUME CallSteps(c) PROVE DocOf(c)'
    <2>1. \E i, seen : \E place \in {"put", "cli", "drop"} :
             call' = [call EXCEPT ![c] = Calling(place, i, seen)] \/ Finish(c)
      BY <1>2, Zenon DEF CallSteps, UpdateRead, CliResolve, UpdateWrite, UpdateRefused, CliDelete,
                   CliTrigger, CliSetPaused, DeleteResourceFind, DeleteResource, Begin
    <2>2. ASSUME NEW i, NEW seen, NEW place \in {"put", "cli", "drop"},
                 call' = [call EXCEPT ![c] = Calling(place, i, seen)]
          PROVE  DocOf(c)'
      <3>1. call'[c] = Calling(place, i, seen) /\ Calling(place, i, seen).at = place
        BY <2>2, MovesAlone DEF Calling
      <3> QED
        BY <3>1 DEF DocOf, InDocument
    <2>3. ASSUME Finish(c) PROVE DocOf(c)'
      <3>1. call'[c] = Quiet
        BY <2>3, MovesAlone DEF Finish
      <3> QED
        BY <3>1, QuietIs DEF DocOf, InDocument
    <2> QED
      BY <2>1, <2>2, <2>3
  <1> QED
    BY <1>1, <1>2, DocBegin, DocInsert, DocFails, DocFind, DocDelete DEF DocumentSteps

LEMMA DocInit == CatalogInit => DocInv
  BY QuietIs DEF CatalogInit, DocInv, DocOf, InDocument

LEMMA DocStep == ASSUME TypeInv, NamesInv, DocInv, [Next]_vars PROVE DocInv'
  <1>1. ASSUME Others(None) PROVE DocInv'
    <2>1. \A d \in Callers : d \in Callers \ {None}
      BY NoneIsNoRow
    <2> QED
      BY <1>1, <2>1, DocOther DEF DocInv
  <1>2. ASSUME UNCHANGED vars PROVE Others(None)
    BY <1>2, SameStill, StillIs DEF vars, jobVars, Others
  <1>3. ASSUME NEW c \in Callers, Others(c), CallSteps(c) \/ DocumentSteps(c) PROVE DocInv'
    <2>1. DocOf(c)'
      BY <1>3, DocOwn
    <2>2. \A d \in Callers \ {c} : DocOf(d)'
      BY <1>3, DocOther
    <2> QED
      BY <2>1, <2>2 DEF DocInv
  <1>4. ASSUME ServerEnds, NEW d \in Callers PROVE DocOf(d)'
    <2>1. CASE call'[d] = Quiet
      BY <2>1, QuietIs DEF DocOf, InDocument
    <2>2. CASE call'[d] = call[d]
      <3>1. Applied(d)' = Applied(d) /\ Content' = Content /\ UNCHANGED <<job, touched>>
        BY <1>4, <2>2, EndsCalls, ContentStill, SameStill DEF Applied, Server
      <3> QED
        BY <2>2, <3>1 DEF DocInv, DocOf, InDocument, InStep, AllTold, Rows
    <2> QED
      BY <1>4, <2>1, <2>2, EndsCalls
  <1> QED
    BY <1>1, <1>2, <1>3, <1>4, StepBy DEF DocInv

LEMMA DocSays == DocInv => DocumentApplied
  <1> SUFFICES ASSUME DocInv, NEW c \in Callers, call[c].at \in {"import", "jil", "stopped"}, c \notin touched
               PROVE  /\ Applied(c) = [rows |-> Content, told |-> call[c].told]
                      /\ ~ Server(c) => \A k \in 1 .. Len(call[c].told) - 1 : call[c].told[k]
    BY DEF DocumentApplied
  <1>1. DocOf(c)
    BY DEF DocInv
  <1>2. Applied(c) = [rows |-> Content, told |-> call[c].told]
    BY <1>1 DEF DocOf, InDocument, InStep
  <1>3. ASSUME call[c].at = "jil" PROVE \A k \in 1 .. Len(call[c].told) - 1 : call[c].told[k]
    <2>1. \A k \in 1 .. Len(call[c].told) : call[c].told[k]
      BY <1>1, <1>3 DEF DocOf, AllTold
    <2> QED
      BY <2>1
  <1>4. ASSUME call[c].at = "stopped" PROVE \A k \in 1 .. Len(call[c].told) - 1 : call[c].told[k]
    BY <1>1, <1>4 DEF DocOf, AllTold
  <1>5. ~ Server(c) => call[c].at \in {"jil", "stopped"}
    BY DEF Server
  <1> QED
    BY <1>2, <1>3, <1>4, <1>5

(* While nobody else writes jobs, the table is after each block of a        *)
(* document what the blocks so far make of it one after the other, each is  *)
(* told to have worked just when it did, and the client goes no further     *)
(* than the first that did not (import_jil, `jil`): for documents of any    *)
(* length and of any blocks, on any table.                                  *)
THEOREM DocumentAppliedSafe == Spec => []DocumentApplied
  <1>1. CatalogInit => TypeInv /\ NamesInv /\ DocInv
    BY TypeInit, NamesInit, DocInit
  <1>2. (TypeInv /\ NamesInv /\ DocInv) /\ [Next]_vars => (TypeInv /\ NamesInv /\ DocInv)'
    BY TypeStep, NamesStep, DocStep
  <1> QED
    BY <1>1, <1>2, DocSays, PTL DEF Spec
=============================================================================
