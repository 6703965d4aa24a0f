-------------------------- MODULE Conditions_proofs --------------------------
(***************************************************************************)
(* What a condition comes to, for every number of jobs, globals and runs,  *)
(* expressions of any size, and any history that is copied.                *)
(***************************************************************************)
EXTENDS Conditions, FiniteSetTheorems, FunctionTheorems, TLAPS

-----------------------------------------------------------------------------
(* Expressions are finite trees: induction over them, and functions that   *)
(* are defined from the operands.                                          *)

Args(e) == Node(e).args

LEMMA ArgsAre ==
    ASSUME NEW e \in Exprs
    PROVE  /\ Args(e) \in Seq(Exprs)
           /\ \A i \in DOMAIN Args(e) : Args(e)[i] \in Exprs
  <1>1. WellFormed(Node(e))
    BY ConditionsAssumption
  <1>2. Args(e) = << >> \/ Args(e) \in Seq(Exprs)
    BY <1>1, Zenon DEF WellFormed, Args
  <1>3. << >> \in Seq(Exprs)
    OBVIOUS
  <1>4. Args(e) \in Seq(Exprs)
    BY <1>2, <1>3, Zenon
  <1> QED
    BY <1>4

LEMMA ExprInduction ==
    ASSUME NEW S,
           \A e \in Exprs : (\A i \in DOMAIN Args(e) : Args(e)[i] \in S) => e \in S
    PROVE  \A e \in Exprs : e \in S
  <1> SUFFICES ASSUME Exprs \ S # {} PROVE FALSE
    OBVIOUS
  <1>1. PICK e \in Exprs \ S : \A i \in DOMAIN Args(e) : Args(e)[i] \notin Exprs \ S
    BY ConditionsAssumption DEF Args
  <1>2. \A i \in DOMAIN Args(e) : Args(e)[i] \in S
    BY <1>1, ArgsAre
  <1> QED
    BY <1>1, <1>2

Values(f, e) == [i \in DOMAIN Args(e) |-> f[Args(e)[i]]]

(* f is as H says, on a set that has the operands of its members. *)
Solves(f, D, H) ==
    \A e \in D : /\ \A i \in DOMAIN Args(e) : Args(e)[i] \in D
                 /\ f[e] = H[e][Values(f, e)]

LEMMA ValuesAre ==
    ASSUME NEW V, NEW D \in SUBSET Exprs, NEW f \in [D -> V], NEW e \in Exprs,
           \A i \in DOMAIN Args(e) : Args(e)[i] \in D
    PROVE  Values(f, e) \in Seq(V)
  <1>1. DOMAIN Args(e) = 1 .. Len(Args(e)) /\ Len(Args(e)) \in Nat
    BY ArgsAre
  <1>2. \A i \in 1 .. Len(Args(e)) : f[Args(e)[i]] \in V
    BY <1>1
  <1> QED
    BY <1>1, <1>2 DEF Values

LEMMA SameValues ==
    ASSUME NEW f, NEW g, NEW e, \A i \in DOMAIN Args(e) : f[Args(e)[i]] = g[Args(e)[i]]
    PROVE  Values(f, e) = Values(g, e)
  BY DEF Values

LEMMA SolutionsAgree ==
    ASSUME NEW H, NEW C \in SUBSET Exprs, NEW D \in SUBSET Exprs, NEW f, NEW g,
           Solves(f, C, H), Solves(g, D, H)
    PROVE  \A e \in C \cap D : f[e] = g[e]
  <1> DEFINE S == {e \in Exprs : e \in C \cap D => f[e] = g[e]}
  <1>1. ASSUME NEW e \in Exprs, \A i \in DOMAIN Args(e) : Args(e)[i] \in S
        PROVE  e \in S
    <2> SUFFICES ASSUME e \in C \cap D PROVE f[e] = g[e]
      OBVIOUS
    <2>1. \A i \in DOMAIN Args(e) : f[Args(e)[i]] = g[Args(e)[i]]
      BY <1>1 DEF Solves
    <2>2. Values(f, e) = Values(g, e)
      BY <2>1, SameValues
    <2> QED
      BY <2>2 DEF Solves
  <1> HIDE DEF S
  <1>2. \A e \in Exprs : e \in S
    BY <1>1, ExprInduction
  <1> QED
    BY <1>2 DEF S

LEMMA Recursion ==
    ASSUME NEW V, NEW H \in [Exprs -> [Seq(V) -> V]]
    PROVE  \E f \in [Exprs -> V] : \A e \in Exprs : f[e] = H[e][Values(f, e)]
  <1> DEFINE Covers(f, D, e) == e \in D /\ f \in [D -> V] /\ Solves(f, D, H)
             G == {e \in Exprs : \E D \in SUBSET Exprs : \E f \in [D -> V] : Covers(f, D, e)}
             F == [e \in G |-> CHOOSE v \in V :
                      \E D \in SUBSET Exprs : \E f \in [D -> V] : Covers(f, D, e) /\ v = f[e]]
  <1>1. ASSUME NEW D \in SUBSET Exprs, NEW f \in [D -> V], NEW e \in D, Solves(f, D, H)
        PROVE  e \in G /\ F[e] = f[e]
    <2>1. e \in G
      BY <1>1
    <2>2. ASSUME NEW C \in SUBSET Exprs, NEW g \in [C -> V], Covers(g, C, e)
          PROVE  g[e] = f[e]
      BY <1>1, <2>2, SolutionsAgree
    <2>3. f[e] \in V /\ Covers(f, D, e)
      BY <1>1
    <2>4. F[e] = CHOOSE v \in V :
              \E C \in SUBSET Exprs : \E g \in [C -> V] : Covers(g, C, e) /\ v = g[e]
      BY <2>1
    <2> HIDE DEF Covers, F
    <2> QED
      BY <2>1, <2>2, <2>3, <2>4
  <1>2. ASSUME NEW e \in G
        PROVE  /\ \A i \in DOMAIN Args(e) : Args(e)[i] \in G
               /\ F[e] = H[e][Values(F, e)] /\ F[e] \in V
    <2>1. PICK D \in SUBSET Exprs : \E f \in [D -> V] : Covers(f, D, e)
      BY <1>2
    <2>2. PICK f \in [D -> V] : Covers(f, D, e)
      BY <2>1
    <2>3. \A i \in DOMAIN Args(e) : Args(e)[i] \in D
      BY <2>2 DEF Solves
    <2> HIDE DEF G, F
    <2>4. \A i \in DOMAIN Args(e) : Args(e)[i] \in G /\ F[Args(e)[i]] = f[Args(e)[i]]
      BY <1>1, <2>2, <2>3
    <2>5. Values(F, e) = Values(f, e)
      BY <2>4, SameValues
    <2>6. F[e] = f[e] /\ f[e] = H[e][Values(f, e)] /\ f[e] \in V
      BY <1>1, <2>2 DEF Solves
    <2> QED
      BY <2>4, <2>5, <2>6
  <1>3. G \in SUBSET Exprs /\ DOMAIN F = G
    OBVIOUS
  <1>4. F = [e \in G |-> F[e]]
    OBVIOUS
  <1>5. F \in [G -> V] /\ Solves(F, G, H)
    <2> HIDE DEF F, G
    <2> QED
      BY <1>2, <1>4 DEF Solves
  <1>6. ASSUME NEW e \in Exprs, \A i \in DOMAIN Args(e) : Args(e)[i] \in G
        PROVE  e \in G
    <2> DEFINE D == G \cup {e}
               f == [x \in D |-> IF x \in G THEN F[x] ELSE H[x][Values(F, x)]]
    <2> SUFFICES \E g \in [D -> V] : Covers(g, D, e)
      BY <1>3
    <2> HIDE DEF F, G
    <2>1. Values(F, e) \in Seq(V)
      BY <1>3, <1>5, <1>6, ValuesAre
    <2>2. H[e][Values(F, e)] \in V
      BY <2>1
    <2>3. f \in [D -> V]
      BY <2>2, <1>5
    <2>4. ASSUME NEW x \in D
          PROVE  /\ \A i \in DOMAIN Args(x) : Args(x)[i] \in G
                 /\ f[x] = H[x][Values(F, x)]
      BY <1>2, <1>6
    <2>5. ASSUME NEW x \in D PROVE Values(f, x) = Values(F, x)
      <3>1. \A i \in DOMAIN Args(x) : f[Args(x)[i]] = F[Args(x)[i]]
        BY <2>4
      <3> HIDE DEF f
      <3> QED
        BY <3>1, SameValues
    <2> HIDE DEF f
    <2>6. Solves(f, D, H)
      BY <2>4, <2>5 DEF Solves
    <2> QED
      BY <2>3, <2>6
  <1> HIDE DEF G, F
  <1>7. G = Exprs
    BY <1>3, <1>6, ExprInduction
  <1> QED
    BY <1>5, <1>7 DEF Solves
-----------------------------------------------------------------------------
(* The value of an expression, its parts, and what it asks about. *)

Join2(e, v) ==
    IF Node(e).op = "not" THEN IF Resolved(v[1]) THEN Some(v[1] = "false") ELSE v[1]
    ELSE Join(Node(e).op, v[1], v[2])

IsLeaf(e) == Args(e) = << >>

LEMMA LeafOrNot ==
    ASSUME NEW e \in Exprs
    PROVE  /\ IsLeaf(e) <=> Node(e).op \notin Connectives
           /\ Node(e).op = "not" => Len(Args(e)) = 1
           /\ Node(e).op \in {"and", "or"} => Len(Args(e)) = 2
  <1> DEFINE n == Node(e)
  <1>1. \/ n.op \in JobAtoms \cup {"value"} /\ n.args = << >>
        \/ n.op = "not" /\ Len(n.args) = 1
        \/ n.op \in {"and", "or"} /\ Len(n.args) = 2
    <2>1. WellFormed(n)
      BY ConditionsAssumption
    <2> HIDE DEF n
    <2> QED
      BY <2>1 DEF WellFormed
  <1>2. Len(<< >>) # 1 /\ Len(<< >>) # 2
    OBVIOUS
  <1>3. JobAtoms \cup {"value"} = {"success", "failure", "done", "exitcode", "running",
                                  "notrunning", "numrun", "numsuc", "numfail", "value"}
    BY DEF JobAtoms, Running, Counts
  <1> HIDE DEF n
  <1>4. CASE n.op \in JobAtoms \cup {"value"} /\ n.args = << >>
    BY <1>3, <1>4 DEF Connectives, IsLeaf, Args, n
  <1>5. CASE n.op = "not" /\ Len(n.args) = 1
    <2>1. n.args # << >>
      BY <1>2, <1>5, Zenon
    <2> QED
      BY <2>1, <1>5 DEF Connectives, IsLeaf, Args, n
  <1>6. CASE n.op \in {"and", "or"} /\ Len(n.args) = 2
    <2>1. n.args # << >>
      BY <1>2, <1>6, Zenon
    <2> QED
      BY <2>1, <1>6 DEF Connectives, IsLeaf, Args, n
  <1> QED
    BY <1>1, <1>4, <1>5, <1>6

LEMMA MeaningDef ==
    ASSUME NEW atom \in [Exprs -> Answers]
    PROVE  /\ Meaning(atom) \in [Exprs -> Answers]
           /\ \A e \in Exprs : Meaning(atom)[e] =
                 IF IsLeaf(e) THEN atom[e] ELSE Join2(e, Values(Meaning(atom), e))
  <1> DEFINE V == Answers
             H == [e \in Exprs |-> [v \in Seq(V) |-> IF IsLeaf(e) THEN atom[e]
                      ELSE IF Join2(e, v) \in V THEN Join2(e, v) ELSE "none"]]
             Is(f) == f = [e \in Exprs |->
                 LET n == Node(e)
                 IN  CASE n.op = "not" -> LET v == f[n.args[1]]
                                          IN  IF Resolved(v) THEN Some(v = "false") ELSE v
                       [] n.op \in {"and", "or"} -> Join(n.op, f[n.args[1]], f[n.args[2]])
                       [] OTHER -> atom[e]]
  <1>1. H \in [Exprs -> [Seq(V) -> V]]
    BY DEF Answers
  <1>2. PICK f \in [Exprs -> V] : \A e \in Exprs : f[e] = H[e][Values(f, e)]
    <2> HIDE DEF V, H
    <2> QED
      BY <1>1, Recursion
  <1>3. ASSUME NEW e \in Exprs PROVE Values(f, e) \in Seq(V)
    BY ArgsAre, ValuesAre
  <1>4. ASSUME NEW e \in Exprs, ~ IsLeaf(e) PROVE Join2(e, Values(f, e)) \in V
    <2>1. \A i \in DOMAIN Args(e) : Values(f, e)[i] \in V
      BY ArgsAre DEF Values
    <2>2. DOMAIN Args(e) = 1 .. Len(Args(e))
      BY ArgsAre
    <2>3. /\ Node(e).op \in {"not", "and", "or"}
          /\ Len(Args(e)) \in {1, 2}
          /\ Node(e).op # "not" => Len(Args(e)) = 2
      BY <1>4, LeafOrNot DEF Connectives
    <2> HIDE DEF V
    <2>4. /\ Values(f, e)[1] \in V
          /\ Node(e).op # "not" => Values(f, e)[2] \in V
      BY <2>1, <2>2, <2>3
    <2> QED
      BY <2>3, <2>4, <1>4 DEF Join2, Join, Resolved, Some, Answers, V
  <1>5. ASSUME NEW e \in Exprs
        PROVE  f[e] = IF IsLeaf(e) THEN atom[e] ELSE Join2(e, Values(f, e))
    BY <1>2, <1>3, <1>4
  <1>6. ASSUME NEW e \in Exprs, NEW g
        PROVE  (IF IsLeaf(e) THEN atom[e] ELSE Join2(e, Values(g, e))) =
                 LET n == Node(e)
                 IN  CASE n.op = "not" -> LET v == g[n.args[1]]
                                          IN  IF Resolved(v) THEN Some(v = "false") ELSE v
                       [] n.op \in {"and", "or"} -> Join(n.op, g[n.args[1]], g[n.args[2]])
                       [] OTHER -> atom[e]
    <2>1. CASE IsLeaf(e)
      <3>1. Node(e).op # "not" /\ Node(e).op \notin {"and", "or"}
        BY <2>1, LeafOrNot DEF Connectives
      <3> QED
        BY <2>1, <3>1
    <2>2. CASE Node(e).op = "not"
      <3>1. 1 \in DOMAIN Args(e) /\ ~ IsLeaf(e)
        BY <2>2, LeafOrNot, ArgsAre DEF Connectives
      <3>2. Values(g, e)[1] = g[Node(e).args[1]]
        BY <3>1 DEF Values, Args
      <3> QED
        BY <2>2, <3>1, <3>2 DEF Join2
    <2>3. CASE Node(e).op \in {"and", "or"}
      <3>1. 1 \in DOMAIN Args(e) /\ 2 \in DOMAIN Args(e) /\ ~ IsLeaf(e)
        BY <2>3, LeafOrNot, ArgsAre DEF Connectives
      <3>2. Values(g, e)[1] = g[Node(e).args[1]] /\ Values(g, e)[2] = g[Node(e).args[2]]
        BY <3>1 DEF Values, Args
      <3>3. Node(e).op # "not"
        BY <2>3
      <3> QED
        BY <2>3, <3>1, <3>2, <3>3 DEF Join2
    <2> QED
      BY <2>1, <2>2, <2>3, LeafOrNot DEF Connectives
  <1>7. Is(f)
    BY <1>5, <1>6
  <1>8. Meaning(atom) = CHOOSE g : Is(g)
    BY DEF Meaning
  <1>9. Is(Meaning(atom))
    <2> HIDE DEF Is
    <2> QED
      BY <1>7, <1>8
  <1>10. \A e \in Exprs : Meaning(atom)[e] =
            IF IsLeaf(e) THEN atom[e] ELSE Join2(e, Values(Meaning(atom), e))
    BY <1>6, <1>9
  <1>11. Meaning(atom) = [e \in Exprs |-> Meaning(atom)[e]]
    BY <1>9
  <1> DEFINE S == {e \in Exprs : Meaning(atom)[e] = f[e]}
  <1>12. ASSUME NEW e \in Exprs, \A i \in DOMAIN Args(e) : Args(e)[i] \in S
         PROVE  e \in S
    <2>1. Values(Meaning(atom), e) = Values(f, e)
      BY <1>12, SameValues
    <2> QED
      BY <2>1, <1>5, <1>10
  <1>13. \A e \in Exprs : e \in S
    <2> HIDE DEF S
    <2> QED
      BY <1>12, ExprInduction
  <1> QED
    BY <1>2, <1>10, <1>11, <1>13

LEMMA PartsDef ==
    /\ Parts \in [Exprs -> SUBSET Exprs]
    /\ \A e \in Exprs : Parts[e] = {e} \cup UNION {Parts[Args(e)[i]] : i \in DOMAIN Args(e)}
  <1> DEFINE V == SUBSET Exprs
             H == [e \in Exprs |-> [v \in Seq(V) |-> {e} \cup UNION {v[i] : i \in DOMAIN v}]]
             Is(f) == f = [e \in Exprs |->
                            {e} \cup UNION {f[Node(e).args[i]] : i \in DOMAIN Node(e).args}]
  <1>1. ASSUME NEW e \in Exprs, NEW v \in Seq(V)
        PROVE  {e} \cup UNION {v[i] : i \in DOMAIN v} \in V
    <2>1. \A i \in DOMAIN v : v[i] \in SUBSET Exprs
      OBVIOUS
    <2> QED
      BY <2>1
  <1>2. H \in [Exprs -> [Seq(V) -> V]]
    BY <1>1
  <1>3. PICK f \in [Exprs -> V] : \A e \in Exprs : f[e] = H[e][Values(f, e)]
    <2> HIDE DEF V, H
    <2> QED
      BY <1>2, Recursion
  <1>4. ASSUME NEW e \in Exprs
        PROVE  f[e] = {e} \cup UNION {f[Args(e)[i]] : i \in DOMAIN Args(e)}
    <2>1. Values(f, e) \in Seq(V)
      BY ArgsAre, ValuesAre
    <2>2. f[e] = {e} \cup UNION {Values(f, e)[i] : i \in DOMAIN Values(f, e)}
      BY <1>3, <2>1
    <2>3. DOMAIN Values(f, e) = DOMAIN Args(e)
          /\ \A i \in DOMAIN Args(e) : Values(f, e)[i] = f[Args(e)[i]]
      BY DEF Values
    <2>4. {Values(f, e)[i] : i \in DOMAIN Values(f, e)} = {f[Args(e)[i]] : i \in DOMAIN Args(e)}
      BY <2>3
    <2> QED
      BY <2>2, <2>4
  <1>5. Is(f)
    BY <1>4 DEF Args
  <1>6. Parts = CHOOSE g : Is(g)
    BY DEF Parts
  <1>7. Is(Parts)
    <2> HIDE DEF Is
    <2> QED
      BY <1>5, <1>6
  <1>8. \A e \in Exprs : Parts[e] = {e} \cup UNION {Parts[Args(e)[i]] : i \in DOMAIN Args(e)}
    BY <1>7 DEF Args
  <1> DEFINE S == {e \in Exprs : Parts[e] \subseteq Exprs}
  <1>9. ASSUME NEW e \in Exprs, \A i \in DOMAIN Args(e) : Args(e)[i] \in S
        PROVE  e \in S
    BY <1>8, <1>9
  <1>10. \A e \in Exprs : e \in S
    <2> HIDE DEF S
    <2> QED
      BY <1>9, ExprInduction
  <1>11. Parts = [e \in Exprs |-> Parts[e]]
    BY <1>7
  <1> QED
    BY <1>8, <1>10, <1>11

LEMMA PartOfItself == \A e \in Exprs : e \in Parts[e] /\ Parts[e] \subseteq Exprs
  BY PartsDef

LEMMA PartsOfArgs ==
    ASSUME NEW e \in Exprs, NEW i \in DOMAIN Args(e)
    PROVE  Parts[Args(e)[i]] \subseteq Parts[e]
  BY PartsDef

LEMMA AskedDef ==
    /\ \A e \in Exprs : Asked(e) = IF IsLeaf(e) THEN {Node(e).on}
                                    ELSE UNION {Asked(Args(e)[i]) : i \in DOMAIN Args(e)}
    /\ \A e \in Exprs : Asked(e) \subseteq Jobs \cup Globals
  <1> DEFINE V == SUBSET (Jobs \cup Globals)
             Here(e, v) == IF IsLeaf(e) THEN {Node(e).on} ELSE UNION {v[i] : i \in DOMAIN v}
             H == [e \in Exprs |-> [v \in Seq(V) |-> Here(e, v)]]
             Is(f) == f = [p \in Exprs |-> IF Node(p).args = << >> THEN {Node(p).on}
                              ELSE UNION {f[Node(p).args[i]] : i \in DOMAIN Node(p).args}]
             of == CHOOSE g : Is(g)
  <1>1. ASSUME NEW e \in Exprs, IsLeaf(e) PROVE Node(e).on \in Jobs \cup Globals
    <2>1. WellFormed(Node(e)) /\ Node(e).op \notin Connectives
      BY <1>1, ConditionsAssumption, LeafOrNot
    <2> QED
      BY <2>1, Zenon DEF WellFormed, Connectives
  <1>2. ASSUME NEW e \in Exprs, NEW v \in Seq(V) PROVE Here(e, v) \in V
    <2>1. \A i \in DOMAIN v : v[i] \in SUBSET (Jobs \cup Globals)
      OBVIOUS
    <2> QED
      BY <1>1, <2>1
  <1>3. H \in [Exprs -> [Seq(V) -> V]]
    BY <1>2
  <1>4. PICK f \in [Exprs -> V] : \A e \in Exprs : f[e] = H[e][Values(f, e)]
    <2> HIDE DEF V, H
    <2> QED
      BY <1>3, Recursion
  <1>5. ASSUME NEW e \in Exprs
        PROVE  f[e] = IF IsLeaf(e) THEN {Node(e).on}
                      ELSE UNION {f[Args(e)[i]] : i \in DOMAIN Args(e)}
    <2>1. Values(f, e) \in Seq(V)
      BY ArgsAre, ValuesAre
    <2>2. f[e] = Here(e, Values(f, e))
      BY <1>4, <2>1
    <2>3. DOMAIN Values(f, e) = DOMAIN Args(e)
          /\ \A i \in DOMAIN Args(e) : Values(f, e)[i] = f[Args(e)[i]]
      BY DEF Values
    <2>4. {Values(f, e)[i] : i \in DOMAIN Values(f, e)} = {f[Args(e)[i]] : i \in DOMAIN Args(e)}
      BY <2>3
    <2> QED
      BY <2>2, <2>4
  <1>6. Is(f)
    BY <1>5 DEF Args, IsLeaf
  <1>7. Is(of)
    <2> HIDE DEF Is
    <2> QED
      BY <1>6
  <1>8. \A e \in Exprs : Asked(e) = of[e]
    BY DEF Asked
  <1> HIDE DEF of
  <1>9. ASSUME NEW e \in Exprs
        PROVE  of[e] = IF IsLeaf(e) THEN {Node(e).on}
                       ELSE UNION {of[Args(e)[i]] : i \in DOMAIN Args(e)}
    BY <1>7 DEF Args, IsLeaf
  <1>10. ASSUME NEW e \in Exprs
         PROVE  {of[Args(e)[i]] : i \in DOMAIN Args(e)} = {Asked(Args(e)[i]) : i \in DOMAIN Args(e)}
    BY <1>8, ArgsAre
  <1> DEFINE S == {e \in Exprs : of[e] \subseteq Jobs \cup Globals}
  <1>11. ASSUME NEW e \in Exprs, \A i \in DOMAIN Args(e) : Args(e)[i] \in S
         PROVE  e \in S
    <2>1. \A i \in DOMAIN Args(e) : of[Args(e)[i]] \subseteq Jobs \cup Globals
      BY <1>11
    <2>2. UNION {of[Args(e)[i]] : i \in DOMAIN Args(e)} \subseteq Jobs \cup Globals
      BY <2>1
    <2>3. of[e] \subseteq Jobs \cup Globals
      <3>1. CASE IsLeaf(e)
        <4>1. of[e] = {Node(e).on}
          BY <1>9, <3>1, Zenon
        <4>2. Node(e).on \in Jobs \cup Globals
          BY <1>1, <3>1, Zenon
        <4> QED
          BY <4>1, <4>2, Zenon
      <3>2. CASE ~ IsLeaf(e)
        BY <1>9, <2>2, <3>2
      <3> QED
        BY <3>1, <3>2
    <2> QED
      BY <2>3
  <1>12. \A e \in Exprs : e \in S
    <2> HIDE DEF S
    <2> QED
      BY <1>11, ExprInduction
  <1> QED
    BY <1>8, <1>9, <1>10, <1>12

(* What the leaves among its parts ask about, it asks about. *)
LEMMA LeavesAsk ==
    \A e \in Exprs : \A a \in Parts[e] : IsLeaf(a) => Node(a).on \in Asked(e)
  <1> DEFINE S == {e \in Exprs : \A a \in Parts[e] : IsLeaf(a) => Node(a).on \in Asked(e)}
  <1>1. ASSUME NEW e \in Exprs, \A i \in DOMAIN Args(e) : Args(e)[i] \in S
        PROVE  e \in S
    <2> SUFFICES ASSUME NEW a \in Parts[e], IsLeaf(a) PROVE Node(a).on \in Asked(e)
      OBVIOUS
    <2>1. CASE a = e
      BY <2>1, AskedDef
    <2>2. CASE \E i \in DOMAIN Args(e) : a \in Parts[Args(e)[i]]
      <3>1. PICK i \in DOMAIN Args(e) : a \in Parts[Args(e)[i]]
        BY <2>2
      <3>2. Node(a).on \in Asked(Args(e)[i])
        BY <1>1, <3>1
      <3>3. ~ IsLeaf(e)
        BY <3>1 DEF IsLeaf
      <3> QED
        BY <3>2, <3>3, AskedDef
    <2> QED
      BY <2>1, <2>2, PartsDef
  <1>2. \A e \in Exprs : e \in S
    <2> HIDE DEF S
    <2> QED
      BY <1>1, ExprInduction
  <1> QED
    BY <1>2

(* An expression asks about something. *)
LEMMA AsksSomething == \A e \in Exprs : Asked(e) # {}
  <1> DEFINE S == {e \in Exprs : Asked(e) # {}}
  <1>1. ASSUME NEW e \in Exprs, \A i \in DOMAIN Args(e) : Args(e)[i] \in S
        PROVE  e \in S
    <2>1. CASE IsLeaf(e)
      BY <2>1, AskedDef
    <2>2. CASE ~ IsLeaf(e)
      <3>1. 1 \in DOMAIN Args(e)
        BY <2>2, LeafOrNot, ArgsAre DEF Connectives
      <3> QED
        BY <1>1, <2>2, <3>1, AskedDef
    <2> QED
      BY <2>1, <2>2
  <1>2. \A e \in Exprs : e \in S
    <2> HIDE DEF S
    <2> QED
      BY <1>1, ExprInduction
  <1> QED
    BY <1>2

-----------------------------------------------------------------------------
(* Evaluation depends on the leaves only, and a value that is resolved has *)
(* only resolved leaves (`?`).                                             *)

LEMMA JoinOf ==
    ASSUME NEW l \in Answers, NEW r \in Answers, NEW op
    PROVE  Resolved(Join(op, l, r)) => Resolved(l) /\ Resolved(r)
  BY DEF Join, Resolved, Some, Answers

LEMMA ArgValues ==
    ASSUME NEW f \in [Exprs -> Answers], NEW e \in Exprs, ~ IsLeaf(e)
    PROVE  /\ Node(e).op \in {"not", "and", "or"}
           /\ 1 \in DOMAIN Args(e) /\ f[Args(e)[1]] \in Answers
           /\ Values(f, e)[1] = f[Args(e)[1]]
           /\ Node(e).op # "not" => /\ 2 \in DOMAIN Args(e) /\ f[Args(e)[2]] \in Answers
                                    /\ Values(f, e)[2] = f[Args(e)[2]]
           /\ Node(e).op = "not" => DOMAIN Args(e) = {1}
           /\ Node(e).op # "not" => DOMAIN Args(e) = {1, 2}
  <1>1. /\ Node(e).op \in {"not", "and", "or"}
        /\ Node(e).op = "not" => Len(Args(e)) = 1
        /\ Node(e).op # "not" => Len(Args(e)) = 2
    BY LeafOrNot DEF Connectives
  <1>2. DOMAIN Args(e) = 1 .. Len(Args(e)) /\ \A i \in DOMAIN Args(e) : Args(e)[i] \in Exprs
    BY ArgsAre
  <1>3. \A i \in DOMAIN Args(e) : Values(f, e)[i] = f[Args(e)[i]] /\ f[Args(e)[i]] \in Answers
    BY <1>2 DEF Values
  <1>4. /\ Node(e).op = "not" => DOMAIN Args(e) = {1}
        /\ Node(e).op # "not" => DOMAIN Args(e) = {1, 2}
    BY <1>1, <1>2
  <1> QED
    BY <1>1, <1>3, <1>4

LEMMA SameLeaves ==
    ASSUME NEW a \in [Exprs -> Answers], NEW b \in [Exprs -> Answers]
    PROVE  \A e \in Exprs :
             (\A p \in Parts[e] : IsLeaf(p) => a[p] = "panic" \/ a[p] = b[p])
             => Meaning(a)[e] = "panic" \/ Meaning(a)[e] = Meaning(b)[e]
  <1> DEFINE Match(e) == \A p \in Parts[e] : IsLeaf(p) => a[p] = "panic" \/ a[p] = b[p]
             f == Meaning(a)
             g == Meaning(b)
             S == {e \in Exprs : Match(e) => f[e] = "panic" \/ f[e] = g[e]}
  <1>0. f \in [Exprs -> Answers] /\ g \in [Exprs -> Answers]
    BY MeaningDef
  <1>1. ASSUME NEW e \in Exprs, \A i \in DOMAIN Args(e) : Args(e)[i] \in S
        PROVE  e \in S
    <2> SUFFICES ASSUME Match(e) PROVE f[e] = "panic" \/ f[e] = g[e]
      OBVIOUS
    <2>1. CASE IsLeaf(e)
      <3>1. f[e] = a[e] /\ g[e] = b[e] /\ e \in Parts[e]
        BY <2>1, MeaningDef, PartOfItself
      <3> QED
        BY <2>1, <3>1
    <2>2. CASE ~ IsLeaf(e)
      <3>1. f[e] = Join2(e, Values(f, e)) /\ g[e] = Join2(e, Values(g, e))
        BY <2>2, MeaningDef
      <3>2. \A i \in DOMAIN Args(e) : Match(Args(e)[i])
        BY PartsOfArgs
      <3> HIDE DEF Match, f, g
      <3>3. \A i \in DOMAIN Args(e) : f[Args(e)[i]] = "panic" \/ f[Args(e)[i]] = g[Args(e)[i]]
        BY <1>1, <3>2
      <3>4. CASE Node(e).op = "not"
        BY <1>0, <2>2, <3>1, <3>3, <3>4, ArgValues DEF Join2, Resolved, Answers
      <3>5. CASE Node(e).op # "not"
        <4>1. /\ f[e] = Join(Node(e).op, f[Args(e)[1]], f[Args(e)[2]])
              /\ g[e] = Join(Node(e).op, g[Args(e)[1]], g[Args(e)[2]])
          BY <1>0, <2>2, <3>1, <3>5, ArgValues DEF Join2
        <4>2. /\ f[Args(e)[1]] \in Answers /\ f[Args(e)[2]] \in Answers
              /\ f[Args(e)[1]] = "panic" \/ f[Args(e)[1]] = g[Args(e)[1]]
              /\ f[Args(e)[2]] = "panic" \/ f[Args(e)[2]] = g[Args(e)[2]]
          BY <1>0, <2>2, <3>3, <3>5, ArgValues
        <4> QED
          BY <4>1, <4>2 DEF Join, Resolved, Answers
      <3> QED
        BY <3>4, <3>5
    <2> QED
      BY <2>1, <2>2
  <1> HIDE DEF S
  <1>2. \A e \in Exprs : e \in S
    BY <1>1, ExprInduction
  <1> QED
    BY <1>2 DEF S

LEMMA EqualLeaves ==
    ASSUME NEW a \in [Exprs -> Answers], NEW b \in [Exprs -> Answers], NEW e \in Exprs,
           \A p \in Parts[e] : IsLeaf(p) => a[p] = b[p]
    PROVE  Meaning(a)[e] = Meaning(b)[e]
  <1>1. Meaning(a)[e] = "panic" \/ Meaning(a)[e] = Meaning(b)[e]
    BY SameLeaves
  <1>2. Meaning(b)[e] = "panic" \/ Meaning(b)[e] = Meaning(a)[e]
    BY SameLeaves
  <1> QED
    BY <1>1, <1>2

LEMMA ResolvedLeaves ==
    ASSUME NEW a \in [Exprs -> Answers]
    PROVE  \A e \in Exprs : Resolved(Meaning(a)[e]) =>
             \A p \in Parts[e] : IsLeaf(p) => Resolved(a[p])
  <1> DEFINE f == Meaning(a)
             S == {e \in Exprs : Resolved(f[e]) => \A p \in Parts[e] : IsLeaf(p) => Resolved(a[p])}
  <1>0. f \in [Exprs -> Answers]
    BY MeaningDef
  <1>1. ASSUME NEW e \in Exprs, \A i \in DOMAIN Args(e) : Args(e)[i] \in S
        PROVE  e \in S
    <2> SUFFICES ASSUME Resolved(f[e]), NEW p \in Parts[e], IsLeaf(p) PROVE Resolved(a[p])
      OBVIOUS
    <2>1. CASE IsLeaf(e)
      <3>1. f[e] = a[e]
        BY <2>1, MeaningDef
      <3>2. p = e
        BY <2>1, PartsDef DEF IsLeaf
      <3> QED
        BY <3>1, <3>2
    <2>2. CASE ~ IsLeaf(e)
      <3>1. f[e] = Join2(e, Values(f, e))
        BY <2>2, MeaningDef
      <3> HIDE DEF f
      <3>2. \A i \in DOMAIN Args(e) : Resolved(f[Args(e)[i]])
        <4>1. CASE Node(e).op = "not"
          BY <1>0, <2>2, <3>1, <4>1, ArgValues DEF Join2
        <4>2. CASE Node(e).op # "not"
          <5>1. f[e] = Join(Node(e).op, f[Args(e)[1]], f[Args(e)[2]])
            BY <1>0, <2>2, <3>1, <4>2, ArgValues DEF Join2
          <5>2. f[Args(e)[1]] \in Answers /\ f[Args(e)[2]] \in Answers /\ DOMAIN Args(e) = {1, 2}
            BY <1>0, <2>2, <4>2, ArgValues
          <5>3. Resolved(f[Args(e)[1]]) /\ Resolved(f[Args(e)[2]])
            BY <5>1, <5>2, JoinOf
          <5> QED
            BY <5>2, <5>3
        <4> QED
          BY <4>1, <4>2
      <3>3. p # e
        BY <2>2
      <3>4. PICK i \in DOMAIN Args(e) : p \in Parts[Args(e)[i]]
        BY <3>3, PartsDef
      <3> QED
        BY <1>1, <3>2, <3>4
    <2> QED
      BY <2>1, <2>2
  <1> HIDE DEF S
  <1>2. \A e \in Exprs : e \in S
    BY <1>1, ExprInduction
  <1> QED
    BY <1>2 DEF S

-----------------------------------------------------------------------------
(* The copy of a job and what its leaves come to. *)

(* Every answer on the copy, and every fact of the store, is an answer. *)
LEMMA AtomTypes ==
    /\ \A c, n : Atom(c, n) \in Answers
    /\ \A s, t, n : Fact(s, t, n) \in Answers
  <1>1. \A b : Some(b) \in Answers
    BY DEF Some, Answers
  <1>2. ASSUME NEW c, NEW n PROVE Atom(c, n) \in Answers
    BY <1>1 DEF Atom, OfHistory, OfLatest, OfGlobals, Answers
  <1>3. ASSUME NEW s, NEW t, NEW n PROVE Fact(s, t, n) \in Answers
    BY <1>1 DEF Fact, Answers
  <1> QED
    BY <1>2, <1>3

Facts(s, t) == [e \in Exprs |-> Fact(s, t, Node(e))]
Atoms(c)    == [e \in Exprs |-> Atom(c, Node(e))]

LEMMA TruthTypes ==
    ASSUME NEW c, NEW s, NEW t
    PROVE  /\ Atoms(c) \in [Exprs -> Answers]
           /\ Evaluated(c) = Meaning(Atoms(c)) /\ Evaluated(c) \in [Exprs -> Answers]
           /\ Facts(s, t) \in [Exprs -> Answers]
           /\ Truth(s, t) = Meaning(Facts(s, t)) /\ Truth(s, t) \in [Exprs -> Answers]
  <1>1. Atoms(c) \in [Exprs -> Answers] /\ Facts(s, t) \in [Exprs -> Answers]
    BY AtomTypes DEF Atoms, Facts
  <1>2. Evaluated(c) = Meaning(Atoms(c)) /\ Truth(s, t) = Meaning(Facts(s, t))
    BY DEF Evaluated, Truth, Atoms, Facts
  <1> QED
    BY <1>1, <1>2, MeaningDef

LEMMA LeafKinds ==
    ASSUME NEW e \in Exprs, IsLeaf(e)
    PROVE  \/ /\ Node(e).op \in JobAtoms /\ Node(e).on \in Jobs /\ Node(e).on \notin Globals
              /\ Node(e).window \in Nat \cup {NoWindow}
           \/ Node(e).op = "value" /\ Node(e).on \in Globals /\ Node(e).on \notin Jobs
  <1>1. WellFormed(Node(e)) /\ Node(e).op \notin Connectives /\ Jobs \cap Globals = {}
    BY ConditionsAssumption, LeafOrNot
  <1>2. \/ /\ Node(e).op \in JobAtoms /\ Node(e).on \in Jobs
           /\ Node(e).window \in Nat \cup {NoWindow}
        \/ Node(e).op = "value" /\ Node(e).on \in Globals
    BY <1>1, Zenon DEF WellFormed, Connectives
  <1> QED
    BY <1>1, <1>2

(* Recent reads the rows from the last one back. *)
LEMMA RecentIs ==
    ASSUME NEW R, NEW s \in Seq(R)
    PROVE  \E m \in Nat :
             /\ m <= Len(s) /\ m <= PerJobHistory /\ (m = Len(s) \/ m = PerJobHistory)
             /\ Recent(s) = [k \in 1 .. m |-> s[Len(s) + 1 - k]]
             /\ Recent(s) \in Seq(R)
             /\ m = 0 <=> s = << >>
  <1> DEFINE m == IF Len(s) < PerJobHistory THEN Len(s) ELSE PerJobHistory
             r == Reverse(s)
  <1>1. PerJobHistory \in Nat /\ PerJobHistory # 0 /\ Len(s) \in Nat
    BY ConditionsAssumption
  <1>2. /\ r = [i \in 1 .. Len(s) |-> s[(Len(s) - i) + 1]]
        /\ \A i \in 1 .. Len(s) : (Len(s) - i) + 1 \in 1 .. Len(s)
    BY <1>1 DEF Reverse
  <1>3. r \in Seq(R) /\ Len(r) = Len(s) /\ \A i \in 1 .. Len(s) : r[i] = s[Len(s) + 1 - i]
    BY <1>1, <1>2
  <1>4. m \in Nat /\ m <= Len(s) /\ m <= PerJobHistory /\ (m = Len(s) \/ m = PerJobHistory)
    BY <1>1
  <1>5. Recent(s) = SubSeq(r, 1, m)
    BY DEF Recent
  <1> HIDE DEF m, r
  <1>6. SubSeq(r, 1, m) = [k \in 1 .. m |-> r[k]] /\ SubSeq(r, 1, m) \in Seq(R)
    BY <1>1, <1>3, <1>4
  <1>7. [k \in 1 .. m |-> r[k]] = [k \in 1 .. m |-> s[Len(s) + 1 - k]]
    BY <1>1, <1>3, <1>4
  <1>8. m = 0 <=> s = << >>
    BY <1>1, <1>4
  <1> QED
    BY <1>4, <1>5, <1>6, <1>7, <1>8

(* What the copy c knows of job j is what the rows are. *)
CopyOf(c, rows, j) ==
    /\ c.latest[j] = IF Recent(rows) = << >> THEN NoRun
                     ELSE [state |-> Recent(rows)[1].state, code |-> Recent(rows)[1].code]
    /\ c.history[j] = [i \in DOMAIN Recent(rows) |->
                          [state |-> Recent(rows)[i].state, when |-> When(Recent(rows)[i])]]

Cut(rows, n, t) == \E i \in InWindow(rows, n.window, t) : i + PerJobHistory <= Len(rows)

Hits(rows, w, op, t) == {i \in InWindow(rows, w, t) : Selects(op, rows[i].state)}

LEMMA CountsAgree ==
    ASSUME NEW c, NEW j, NEW rows \in Seq(RunRows), NEW w \in Nat, NEW op, c.now \in Nat,
           CopyOf(c, rows, j), w # NoWindow,
           \A i \in InWindow(rows, w, c.now) : i + PerJobHistory > Len(rows)
    PROVE  /\ Within(c, j, w, op) = Cardinality(Hits(rows, w, op, c.now))
           /\ IsFiniteSet(Hits(rows, w, op, c.now))
  <1> DEFINE L == Len(rows)
             h == c.history[j]
             A == {k \in DOMAIN h : h[k].when >= c.now - w /\ Selects(op, h[k].state)}
             B == {i \in InWindow(rows, w, c.now) : Selects(op, rows[i].state)}
             F == [k \in A |-> L + 1 - k]
  <1>1. PICK m \in Nat :
          /\ m <= L /\ (m = L \/ m = PerJobHistory)
          /\ Recent(rows) = [k \in 1 .. m |-> rows[L + 1 - k]]
    BY RecentIs
  <1>2. L \in Nat /\ DOMAIN rows = 1 .. L /\ PerJobHistory \in Nat
    BY ConditionsAssumption
  <1>3. h = [k \in 1 .. m |-> [state |-> rows[L + 1 - k].state, when |-> When(rows[L + 1 - k])]]
    BY <1>1 DEF CopyOf
  <1>4. A = {k \in 1 .. m : When(rows[L + 1 - k]) >= c.now - w /\ Selects(op, rows[L + 1 - k].state)}
    BY <1>3
  <1>5. B = {i \in 1 .. L : When(rows[i]) >= c.now - w /\ Selects(op, rows[i].state)}
    BY <1>2 DEF InWindow
  <1>6. \A i \in B : i + PerJobHistory > L
    OBVIOUS
  <1>7. A \subseteq 1 .. m /\ IsFiniteSet(A)
    <2>1. IsFiniteSet(1 .. m)
      BY FS_Interval
    <2>2. A \subseteq 1 .. m
      BY <1>4
    <2> HIDE DEF A
    <2> QED
      BY <2>1, <2>2, FS_Subset
  <1> HIDE DEF A, B, h, L
  <1>8. \A k \in A : F[k] \in B
    <2> SUFFICES ASSUME NEW k \in A PROVE L + 1 - k \in B
      OBVIOUS
    <2>1. k \in 1 .. m
      BY <1>7
    <2>2. L + 1 - k \in 1 .. L
      BY <1>1, <1>2, <2>1
    <2> QED
      BY <1>4, <1>5, <2>1, <2>2
  <1>9. \A i \in B : \E k \in A : F[k] = i
    <2> SUFFICES ASSUME NEW i \in B PROVE L + 1 - i \in A /\ F[L + 1 - i] = i
      OBVIOUS
    <2>1. i \in 1 .. L /\ i + PerJobHistory > L
      BY <1>5, <1>6
    <2>2. L + 1 - i \in 1 .. m /\ L + 1 - (L + 1 - i) = i
      BY <1>1, <1>2, <2>1, Z3
    <2>3. L + 1 - i \in A
      BY <1>4, <1>5, <2>2
    <2> QED
      BY <2>2, <2>3
  <1>10. \A a, b \in A : F[a] = F[b] => a = b
    BY <1>2, <1>7
  <1>11. F \in [A -> B]
    BY <1>8
  <1>12. F \in Bijection(A, B)
    <2> HIDE DEF F
    <2> QED
      BY <1>9, <1>10, <1>11, Fun_IsBij
  <1>13. ExistsBijection(A, B)
    BY <1>12 DEF ExistsBijection
  <1>14. Cardinality(B) = Cardinality(A) /\ IsFiniteSet(B)
    BY <1>7, <1>13, FS_Bijection
  <1>15. Within(c, j, w, op) = Cardinality(A)
    BY DEF Within, A, h
  <1> QED
    BY <1>14, <1>15 DEF B, L, Hits

LEMMA LatestAgrees ==
    ASSUME NEW c, NEW j, NEW rows \in Seq(RunRows), CopyOf(c, rows, j)
    PROVE  /\ rows = << >> <=> c.latest[j] = NoRun
           /\ rows # << >> => /\ c.latest[j].state = Last(rows).state
                              /\ c.latest[j].code = Last(rows).code
  <1>1. PICK m \in Nat :
          /\ Recent(rows) = [k \in 1 .. m |-> rows[Len(rows) + 1 - k]]
          /\ m = 0 <=> rows = << >>
    BY RecentIs
  <1>2. CASE rows = << >>
    <2>1. Recent(rows) = << >>
      BY <1>1, <1>2
    <2> QED
      BY <1>2, <2>1 DEF CopyOf
  <1>3. CASE rows # << >>
    <2>1. Len(rows) \in Nat /\ Len(rows) >= 1 /\ Last(rows) \in RunRows
      BY <1>3 DEF Last
    <2>2. m >= 1 /\ Recent(rows) # << >> /\ Recent(rows)[1] = Last(rows)
      <3>1. m >= 1 /\ 1 \in 1 .. m /\ Len(rows) + 1 - 1 = Len(rows)
        BY <1>1, <1>3, <2>1
      <3>2. Recent(rows)[1] = rows[Len(rows)] /\ 1 \in DOMAIN Recent(rows)
        BY <1>1, <3>1
      <3> QED
        BY <3>1, <3>2 DEF Last
    <2>3. c.latest[j] = [state |-> Last(rows).state, code |-> Last(rows).code]
      BY <2>2 DEF CopyOf
    <2>4. c.latest[j] \in LastRuns
      BY <2>1, <2>3 DEF RunRows, LastRuns
    <2>5. c.latest[j] # NoRun
      BY <2>4, ConditionsAssumption
    <2> QED
      BY <1>3, <2>3, <2>5
  <1> QED
    BY <1>2, <1>3

LEMMA LatestAtoms ==
    ASSUME NEW c, NEW s, NEW n, n.op \in JobAtoms, ~ Windowed(n),
           s.runs[n.on] \in Seq(RunRows), CopyOf(c, s.runs[n.on], n.on)
    PROVE  Atom(c, n) = Fact(s, c.now, n)
  <1> DEFINE rows == s.runs[n.on]
             last == c.latest[n.on]
  <1>1. /\ rows = << >> <=> last = NoRun
        /\ rows # << >> => last.state = Last(rows).state /\ last.code = Last(rows).code
    BY LatestAgrees
  <1>2. n.op \in {"success", "failure", "done", "exitcode", "running", "notrunning"}
        /\ (n.op \in {"success", "failure", "done"} => n.window = NoWindow)
        /\ n.op \notin Counts
    BY DEF JobAtoms, Windowed, Running
  <1>3. Atom(c, n) = OfLatest(c, n)
    BY <1>2 DEF Atom
  <1>4. CASE n.op \in {"running", "notrunning"}
    <2>1. IsRunning(c, n.on) <=> NowRunning(rows)
      BY <1>1 DEF IsRunning, NowRunning
    <2>2. CASE n.op = "running"
      BY <1>2, <1>3, <2>1, <2>2 DEF OfLatest, Fact, Some
    <2>3. CASE n.op = "notrunning"
      BY <1>2, <1>3, <2>1, <2>3 DEF OfLatest, Fact, Some
    <2> QED
      BY <1>4, <2>2, <2>3
  <1>5. CASE n.op = "exitcode"
    BY <1>1, <1>2, <1>3, <1>5 DEF OfLatest, Fact
  <1>6. CASE n.op \in {"success", "failure", "done"}
    <2>1. OfLatest(c, n) = IF last = NoRun THEN "none" ELSE Some(Selects(n.op, last.state))
      BY <1>6 DEF OfLatest
    <2>2. Fact(s, c.now, n) = IF rows = << >> THEN "none"
             ELSE Some(Len(rows) \in {i \in InWindow(rows, n.window, c.now) : Selects(n.op, rows[i].state)})
      BY <1>2, <1>6 DEF Fact
    <2>3. ASSUME rows # << >> PROVE Len(rows) \in InWindow(rows, n.window, c.now)
      BY <1>2, <1>6, <2>3 DEF InWindow
    <2>4. ASSUME rows # << >>
          PROVE  Len(rows) \in {i \in InWindow(rows, n.window, c.now) : Selects(n.op, rows[i].state)}
                   <=> Selects(n.op, last.state)
      BY <1>1, <2>3, <2>4 DEF Last
    <2> QED
      BY <1>1, <1>3, <2>1, <2>2, <2>4 DEF Some
  <1> QED
    BY <1>2, <1>4, <1>5, <1>6

LEMMA HistoryAtoms ==
    ASSUME NEW c, NEW s, NEW n, n.op \in JobAtoms, Windowed(n), n.window \in Nat \cup {NoWindow},
           c.now \in Nat, s.runs[n.on] \in Seq(RunRows), CopyOf(c, s.runs[n.on], n.on),
           ~ Cut(s.runs[n.on], n, c.now), n.on \in c.jobs <=> n.on \in s.jobs
    PROVE  Atom(c, n) = "panic" \/ Atom(c, n) = Fact(s, c.now, n)
  <1> DEFINE rows == s.runs[n.on]
             hits == Hits(rows, n.window, n.op, c.now)
             N    == Within(c, n.on, n.window, n.op)
  <1>1. Atom(c, n) = OfHistory(c, n)
    BY DEF Atom
  <1>2. n.op \in Counts \/ (n.op \in {"success", "failure", "done"} /\ n.window # NoWindow)
    BY DEF Windowed
  <1>3. CASE n.on \notin c.jobs
    <2>1. Atom(c, n) = "none" /\ n.on \notin s.jobs
      BY <1>1, <1>3 DEF OfHistory
    <2>2. CASE n.op \in Counts
      BY <2>1, <2>2 DEF Fact, Counts
    <2>3. CASE n.op \in {"success", "failure", "done"} /\ n.window # NoWindow
      BY <2>1, <2>3 DEF Fact, Counts
    <2> QED
      BY <1>2, <2>2, <2>3
  <1>4. CASE n.on \in c.jobs /\ OutOfRange(n.window)
    BY <1>1, <1>4 DEF OfHistory
  <1>5. CASE n.on \in c.jobs /\ ~ OutOfRange(n.window)
    <2>1. n.window \in Nat /\ n.window # NoWindow
      BY <1>5 DEF OutOfRange
    <2>2. \A i \in InWindow(rows, n.window, c.now) : i + PerJobHistory > Len(rows)
      <3>1. \A i \in InWindow(rows, n.window, c.now) : i \in Nat
        BY DEF InWindow
      <3> QED
        BY <3>1, ConditionsAssumption DEF Cut
    <2>3. N = Cardinality(hits) /\ IsFiniteSet(hits)
      BY <2>1, <2>2, CountsAgree
    <2>4. N > 0 <=> hits # {}
      <3>1. Cardinality(hits) \in Nat /\ (Cardinality(hits) = 0 <=> hits = {})
        BY <2>3, FS_CardinalityType, FS_EmptySet
      <3> QED
        BY <2>3, <3>1
    <2>5. OfHistory(c, n) = Some(IF n.op \in Counts THEN ApplyOp(n.cmp, N, n.num) ELSE N > 0)
      BY <1>5 DEF OfHistory
    <2>6. CASE n.op \in Counts
      <3>1. Fact(s, c.now, n) = Some(ApplyOp(n.cmp, Cardinality(hits), n.num))
        BY <1>5, <2>6 DEF Fact, Counts, Hits
      <3> QED
        BY <1>1, <2>3, <2>5, <2>6, <3>1
    <2>7. CASE n.op \in {"success", "failure", "done"} /\ n.window # NoWindow
      <3>1. Fact(s, c.now, n) = Some(hits # {})
        BY <1>5, <2>7 DEF Fact, Counts, Hits
      <3>2. OfHistory(c, n) = Some(N > 0)
        BY <2>5, <2>7 DEF Counts
      <3> QED
        BY <1>1, <2>4, <3>1, <3>2 DEF Some
    <2> QED
      BY <1>2, <2>6, <2>7
  <1> QED
    BY <1>3, <1>4, <1>5

(* What a part that asks about job j only comes to, on a copy of j.        *)
LEMMA CopiedRight ==
    ASSUME NEW c, NEW s, NEW j \in Jobs, NEW p \in Exprs, Asked(p) = {j}, c.now \in Nat,
           s.runs[j] \in Seq(RunRows), CopyOf(c, s.runs[j], j), s.jobs \subseteq c.jobs,
           \A a \in Parts[p] : Windowed(Node(a)) =>
                ~ Cut(s.runs[j], Node(a), c.now) /\ j \notin c.jobs \ s.jobs
    PROVE  Evaluated(c)[p] = "panic" \/ Evaluated(c)[p] = Truth(s, c.now)[p]
  <1>1. ASSUME NEW a \in Parts[p], IsLeaf(a)
        PROVE  Atoms(c)[a] = "panic" \/ Atoms(c)[a] = Facts(s, c.now)[a]
    <2>1. a \in Exprs /\ Node(a).on = j
      BY <1>1, LeavesAsk, PartOfItself
    <2>2. Node(a).op \in JobAtoms /\ Node(a).window \in Nat \cup {NoWindow}
      BY <1>1, <2>1, LeafKinds
    <2> DEFINE n == Node(a)
    <2> HIDE DEF n
    <2>3. n.on = j /\ n.op \in JobAtoms /\ n.window \in Nat \cup {NoWindow}
      BY <2>1, <2>2 DEF n
    <2>4. Windowed(n) => ~ Cut(s.runs[n.on], n, c.now) /\ (n.on \in c.jobs <=> n.on \in s.jobs)
      BY <1>1, <2>3 DEF n
    <2>5. Atom(c, n) = "panic" \/ Atom(c, n) = Fact(s, c.now, n)
      BY <2>3, <2>4, LatestAtoms, HistoryAtoms
    <2> QED
      BY <2>1, <2>5 DEF n, Atoms, Facts
  <1>2. Atoms(c) \in [Exprs -> Answers] /\ Facts(s, c.now) \in [Exprs -> Answers]
    BY TruthTypes
  <1>3. Meaning(Atoms(c))[p] = "panic" \/ Meaning(Atoms(c))[p] = Meaning(Facts(s, c.now))[p]
    BY <1>1, <1>2, SameLeaves
  <1> QED
    BY <1>3, TruthTypes

-----------------------------------------------------------------------------
(* The type invariant. *)

StoreStep ==
    \/ \E j \in Jobs : Queue(j) \/ DeleteJob(j)
                       \/ \E i \in DOMAIN runs[j] : Start(j, i) \/ \E o \in Outcomes : Settle(j, i, o)
    \/ \E g \in Globals, v \in {"unset", "yes", "no"} : SetGlobal(g, v)
    \/ TimePasses

LEMMA NextSteps ==
    Next <=> /\ \/ StoreStep \/ \E j \in Jobs : Load(j)
                \/ \E e \in Triggers : Begin(e)
                \/ LoadGlobals \/ Evaluate
             /\ Watch
  BY DEF Next, StoreStep

Store == [jobs |-> table, runs |-> runs, globals |-> globals]

Live == UNION {Parts[e] : e \in cond}

LEMMA LiveAre == TypeOK => Live \subseteq Exprs
  <1> SUFFICES ASSUME TypeOK, NEW e \in cond PROVE Parts[e] \subseteq Exprs
    BY DEF Live
  <1>1. e \in Exprs
    BY ConditionsAssumption DEF TypeOK
  <1> QED
    BY <1>1, PartOfItself

(* What the store does to itself leaves the copy alone. *)
LEMMA StoreTypes ==
    ASSUME TypeOK, StoreStep
    PROVE  /\ table' \subseteq Jobs /\ runs' \in [Jobs -> Seq(RunRows)]
           /\ globals' \in GlobalValues /\ now' \in 0 .. MaxTime /\ now <= now'
           /\ ctx' = ctx /\ cond' = cond
  <1> USE DEF TypeOK
  <1>0. /\ MaxTime \in Nat
        /\ \A j \in Jobs : runs[j] \in Seq(RunRows)
        /\ now \in Int /\ now <= now
    BY ConditionsAssumption
  <1>1. ASSUME NEW j \in Jobs, Queue(j)
        PROVE  /\ table' \subseteq Jobs /\ runs' \in [Jobs -> Seq(RunRows)]
               /\ UNCHANGED <<globals, now, ctx, cond>>
    <2> DEFINE row == [state |-> "queued", queued |-> now, started |-> NoTime, code |-> NoCode]
    <2>1. row \in RunRows
      BY DEF RunRows
    <2>2. Append(runs[j], row) \in Seq(RunRows)
      BY <1>0, <2>1
    <2>3. runs' = [runs EXCEPT ![j] = Append(runs[j], row)]
      BY <1>1 DEF Queue
    <2> HIDE DEF row
    <2> QED
      BY <1>1, <2>2, <2>3 DEF Queue
  <1>2. ASSUME NEW j \in Jobs, DeleteJob(j)
        PROVE  /\ table' \subseteq Jobs /\ runs' \in [Jobs -> Seq(RunRows)]
               /\ UNCHANGED <<globals, now, ctx, cond>>
    BY <1>2 DEF DeleteJob
  <1>3. ASSUME NEW j \in Jobs, NEW i \in DOMAIN runs[j], Start(j, i)
        PROVE  /\ table' \subseteq Jobs /\ runs' \in [Jobs -> Seq(RunRows)]
               /\ UNCHANGED <<globals, now, ctx, cond>>
    <2> DEFINE row == [state |-> "running", queued |-> runs[j][i].queued, started |-> now, code |-> NoCode]
    <2>1. row \in RunRows
      <3>1. runs[j][i] \in RunRows
        BY <1>0
      <3> QED
        BY <3>1 DEF RunRows
    <2>2. [runs[j] EXCEPT ![i] = row] \in Seq(RunRows)
      <3> HIDE DEF row
      <3> QED
        BY <1>0, <2>1
    <2>3. runs' = [runs EXCEPT ![j] = [runs[j] EXCEPT ![i] = row]]
      BY <1>3 DEF Start
    <2> HIDE DEF row
    <2> QED
      BY <1>3, <2>2, <2>3 DEF Start
  <1>4. ASSUME NEW j \in Jobs, NEW i \in DOMAIN runs[j], NEW o \in Outcomes, Settle(j, i, o)
        PROVE  /\ table' \subseteq Jobs /\ runs' \in [Jobs -> Seq(RunRows)]
               /\ UNCHANGED <<globals, now, ctx, cond>>
    <2> DEFINE row == [runs[j][i] EXCEPT !.state = o.state, !.code = o.code]
    <2>1. row \in RunRows
      <3>1. runs[j][i] \in RunRows /\ o \in LastRuns
        BY <1>0, ConditionsAssumption
      <3> QED
        BY <3>1 DEF RunRows, LastRuns
    <2>2. [runs[j] EXCEPT ![i] = row] \in Seq(RunRows)
      <3> HIDE DEF row
      <3> QED
        BY <1>0, <2>1
    <2>3. runs' = [runs EXCEPT ![j] = [runs[j] EXCEPT ![i] = row]]
      BY <1>0, <1>4 DEF Settle
    <2> HIDE DEF row
    <2>4. runs' \in [Jobs -> Seq(RunRows)]
      BY <1>0, <2>2, <2>3
    <2>5. table' = table /\ UNCHANGED <<globals, now, ctx, cond>>
      BY <1>4 DEF Settle
    <2> QED
      BY <2>4, <2>5
  <1>5. ASSUME NEW g \in Globals, NEW v \in {"unset", "yes", "no"}, SetGlobal(g, v)
        PROVE  globals' \in GlobalValues /\ UNCHANGED <<table, runs, now, ctx, cond>>
    BY <1>5 DEF SetGlobal, GlobalValues
  <1>6. ASSUME TimePasses
        PROVE  now' \in 0 .. MaxTime /\ now <= now' /\ UNCHANGED <<table, runs, globals, ctx, cond>>
    BY <1>0, <1>6 DEF TimePasses
  <1> QED
    BY <1>0, <1>1, <1>2, <1>3, <1>4, <1>5, <1>6 DEF StoreStep

(* The three steps of the copy, field by field. *)
LEMMA BeginFields ==
    ASSUME TypeOK, NEW e \in Triggers, Begin(e)
    PROVE  /\ ctx' \in Copies /\ ctx'.at = "copying" /\ ctx'.now = now
           /\ ctx'.jobs = table /\ ctx'.todo = table
           /\ \A j \in Jobs : CopyOf(ctx', << >>, j)
           /\ cond' = {e} /\ UNCHANGED <<table, runs, globals, now>>
  <1>1. NoGlobals \in GlobalValues
    BY DEF NoGlobals, GlobalValues
  <1>2. Empty \in Copies
    BY <1>1, ConditionsAssumption DEF Empty, Copies
  <1>3. /\ ctx' = [at |-> "copying", jobs |-> table, todo |-> table, now |-> now, globals |-> NoGlobals,
                   latest |-> [j \in Jobs |-> NoRun], history |-> [j \in Jobs |-> << >>]]
        /\ cond' = {e} /\ UNCHANGED <<table, runs, globals, now>>
    BY DEF Begin, Empty
  <1>4. ctx' \in Copies
    BY <1>1, <1>2, <1>3 DEF Copies, TypeOK
  <1>5. Recent(<< >>) = << >>
    <2>1. << >> \in Seq(RunRows)
      OBVIOUS
    <2>2. PICK m \in Nat : /\ Recent(<< >>) = [k \in 1 .. m |-> << >>[Len(<< >>) + 1 - k]]
                          /\ m = 0 <=> << >> = << >>
      BY <2>1, RecentIs, Zenon
    <2>3. m = 0 /\ 1 .. m = {}
      BY <2>2
    <2> QED
      BY <2>2, <2>3
  <1>6. \A j \in Jobs : CopyOf(ctx', << >>, j)
    BY <1>3, <1>5 DEF CopyOf
  <1> QED
    BY <1>3, <1>4, <1>6

LEMMA LoadFields ==
    ASSUME TypeOK, NEW j \in Jobs, Load(j)
    PROVE  /\ ctx' \in Copies /\ ctx.at = "copying" /\ ctx'.at = "copying" /\ ctx'.now = ctx.now
           /\ ctx'.jobs = ctx.jobs /\ ctx'.todo = ctx.todo \ {j} /\ ctx'.globals = ctx.globals
           /\ CopyOf(ctx', runs[j], j)
           /\ \A k \in Jobs \ {j} : /\ ctx'.latest[k] = ctx.latest[k]
                                    /\ ctx'.history[k] = ctx.history[k]
           /\ UNCHANGED <<table, runs, globals, now, cond>>
  <1> DEFINE rows == Recent(runs[j])
             last == IF rows = << >> THEN NoRun ELSE [state |-> rows[1].state, code |-> rows[1].code]
             hist == [i \in DOMAIN rows |-> [state |-> rows[i].state, when |-> When(rows[i])]]
  <1>1. ctx \in Copies /\ runs[j] \in Seq(RunRows)
    BY DEF TypeOK
  <1>2. PICK m \in Nat : rows \in Seq(RunRows)
    BY <1>1, RecentIs
  <1>3. /\ ctx' = [ctx EXCEPT !.todo = ctx.todo \ {j}, !.latest[j] = last, !.history[j] = hist]
        /\ ctx.at = "copying" /\ UNCHANGED <<table, runs, globals, now, cond>>
    BY DEF Load
  <1>4. \A i \in DOMAIN rows : rows[i] \in RunRows
    BY <1>2
  <1>5. \A r \in RunRows : When(r) \in 0 .. MaxTime
    BY DEF RunRows, When
  <1>6. last \in LastRuns \cup {NoRun}
    <2>1. ASSUME rows # << >> PROVE rows[1] \in RunRows
      BY <1>2, <2>1
    <2> HIDE DEF rows
    <2> QED
      BY <2>1 DEF RunRows, LastRuns
  <1>7. hist \in Seq(RunSnaps)
    <2>1. \A i \in DOMAIN rows : [state |-> rows[i].state, when |-> When(rows[i])] \in RunSnaps
      BY <1>4, <1>5 DEF RunRows, RunSnaps
    <2>2. DOMAIN rows = 1 .. Len(rows) /\ Len(rows) \in Nat
      BY <1>2
    <2> HIDE DEF rows
    <2> QED
      BY <2>1, <2>2
  <1>8. CopyOf(ctx', runs[j], j) <=> ctx'.latest[j] = last /\ ctx'.history[j] = hist
    BY DEF CopyOf
  <1> HIDE DEF last, hist, rows
  <1>9. ctx' \in Copies
    BY <1>1, <1>3, <1>6, <1>7 DEF Copies
  <1>10. /\ ctx'.at = ctx.at /\ ctx'.now = ctx.now /\ ctx'.jobs = ctx.jobs
         /\ ctx'.todo = ctx.todo \ {j} /\ ctx'.globals = ctx.globals
         /\ ctx'.latest = [ctx.latest EXCEPT ![j] = last]
         /\ ctx'.history = [ctx.history EXCEPT ![j] = hist]
    BY <1>1, <1>3 DEF Copies
  <1>11. /\ ctx'.latest[j] = last /\ ctx'.history[j] = hist
         /\ \A k \in Jobs \ {j} : ctx'.latest[k] = ctx.latest[k] /\ ctx'.history[k] = ctx.history[k]
    BY <1>1, <1>10 DEF Copies
  <1> QED
    BY <1>3, <1>8, <1>9, <1>10, <1>11

LEMMA LoadGlobalsFields ==
    ASSUME TypeOK, LoadGlobals
    PROVE  /\ ctx' \in Copies /\ ctx.at = "copying" /\ ctx'.at = "ready" /\ ctx'.now = ctx.now
           /\ ctx'.jobs = ctx.jobs /\ ctx'.todo = ctx.todo /\ ctx.todo = {} /\ ctx'.globals = globals
           /\ ctx'.latest = ctx.latest /\ ctx'.history = ctx.history
           /\ UNCHANGED <<table, runs, globals, now, cond>>
  BY DEF TypeOK, Copies, LoadGlobals

LEMMA EvaluateFields ==
    ASSUME TypeOK, Evaluate
    PROVE  /\ ctx' \in Copies /\ ctx'.at = "idle" /\ ctx'.now = 0 /\ ctx'.jobs = {} /\ ctx'.todo = {}
           /\ cond' = {} /\ UNCHANGED <<table, runs, globals, now>>
  <1>1. NoGlobals \in GlobalValues
    BY DEF NoGlobals, GlobalValues
  <1> QED
    BY <1>1, ConditionsAssumption DEF Evaluate, Empty, Copies

(* What is written to the history. *)
LEMMA Watched ==
    ASSUME Watch
    PROVE  /\ ctx'.at = "copying" =>
                seen' = seen \cup {<<p, Truth(Store', ctx'.now)[p]>> : p \in {q \in Live' : Single(q)}}
           /\ ctx'.at = "ready" => seen' = seen
           /\ ctx'.at = "idle" => seen' = {}
  BY DEF Watch, Store, Live

LEMMA SeenTypes ==
    ASSUME TypeOK, Watch, cond' \subseteq Triggers, ctx' \in Copies
    PROVE  seen' \subseteq Exprs \X Answers
  <1>1. Live' \subseteq Exprs
    <2> SUFFICES ASSUME NEW e \in cond' PROVE Parts[e] \subseteq Exprs
      BY DEF Live
    <2>1. e \in Exprs
      BY ConditionsAssumption
    <2> QED
      BY <2>1, PartOfItself
  <1>2. seen \subseteq Exprs \X Answers
    BY DEF TypeOK
  <1>3. Truth(Store', ctx'.now) \in [Exprs -> Answers]
    BY TruthTypes
  <1> DEFINE new == {<<p, Truth(Store', ctx'.now)[p]>> : p \in {q \in Live' : Single(q)}}
  <1>4. new \subseteq Exprs \X Answers
    BY <1>1, <1>3
  <1>5. ctx'.at \in {"idle", "copying", "ready"}
    BY DEF Copies
  <1>6. /\ ctx'.at = "copying" => seen' = seen \cup new
        /\ ctx'.at = "ready" => seen' = seen
        /\ ctx'.at = "idle" => seen' = {}
    BY Watched
  <1> HIDE DEF new
  <1> QED
    BY <1>2, <1>4, <1>5, <1>6

LEMMA TypeInit == Init => TypeOK
  <1> SUFFICES ASSUME Init PROVE TypeOK
    OBVIOUS
  <1>1. NoGlobals \in GlobalValues
    BY DEF NoGlobals, GlobalValues
  <1>2. MaxTime \in Nat /\ 0 \in 0 .. MaxTime
    BY ConditionsAssumption
  <1>3. Empty \in Copies /\ Empty.todo \subseteq Empty.jobs /\ Empty.now <= 0 /\ Empty.at = "idle"
    BY <1>1, <1>2 DEF Empty, Copies
  <1>4. runs \in [Jobs -> Seq(RunRows)]
    BY DEF Init
  <1> QED
    BY <1>1, <1>2, <1>3, <1>4 DEF Init, TypeOK

LEMMA TypeStep == TypeOK /\ [Next]_vars => TypeOK'
  <1> SUFFICES ASSUME TypeOK, [Next]_vars PROVE TypeOK'
    OBVIOUS
  <1>1. CASE UNCHANGED vars
    BY <1>1 DEF TypeOK, vars
  <1>2. /\ table \subseteq Jobs /\ runs \in [Jobs -> Seq(RunRows)] /\ globals \in GlobalValues
        /\ now \in 0 .. MaxTime /\ now \in Int /\ ctx \in Copies /\ cond \subseteq Triggers
        /\ ctx.todo \subseteq ctx.jobs /\ ctx.now <= now /\ (cond = {} <=> ctx.at = "idle")
    BY ConditionsAssumption DEF TypeOK
  <1>3. ASSUME StoreStep, Watch PROVE TypeOK'
    <2>1. /\ table' \subseteq Jobs /\ runs' \in [Jobs -> Seq(RunRows)]
          /\ globals' \in GlobalValues /\ now' \in 0 .. MaxTime /\ now <= now'
          /\ ctx' = ctx /\ cond' = cond
      BY <1>3, StoreTypes
    <2>2. ctx.now <= now'
      <3>1. ctx.now \in Int /\ now' \in Int
        BY <1>2, <2>1, ConditionsAssumption DEF Copies
      <3> QED
        BY <1>2, <2>1, <3>1
    <2>3. seen' \subseteq Exprs \X Answers
      BY <1>2, <1>3, <2>1, SeenTypes
    <2> QED
      BY <1>2, <2>1, <2>2, <2>3 DEF TypeOK
  <1>4. ASSUME NEW e \in Triggers, Begin(e), Watch PROVE TypeOK'
    <2>1. /\ ctx' \in Copies /\ ctx'.at = "copying" /\ ctx'.now = now
          /\ ctx'.jobs = table /\ ctx'.todo = table
          /\ cond' = {e} /\ UNCHANGED <<table, runs, globals, now>>
      BY <1>4, BeginFields
    <2>2. seen' \subseteq Exprs \X Answers
      BY <1>4, <2>1, SeenTypes
    <2> QED
      BY <1>2, <2>1, <2>2 DEF TypeOK
  <1>5. ASSUME NEW j \in Jobs, Load(j), Watch PROVE TypeOK'
    <2>1. /\ ctx' \in Copies /\ ctx.at = "copying" /\ ctx'.at = "copying" /\ ctx'.now = ctx.now
          /\ ctx'.jobs = ctx.jobs /\ ctx'.todo = ctx.todo \ {j}
          /\ UNCHANGED <<table, runs, globals, now, cond>>
      BY <1>5, LoadFields
    <2>2. seen' \subseteq Exprs \X Answers
      BY <1>2, <1>5, <2>1, SeenTypes
    <2> QED
      BY <1>2, <2>1, <2>2 DEF TypeOK
  <1>6. ASSUME LoadGlobals, Watch PROVE TypeOK'
    <2>1. /\ ctx' \in Copies /\ ctx.at = "copying" /\ ctx'.at = "ready" /\ ctx'.now = ctx.now
          /\ ctx'.jobs = ctx.jobs /\ ctx'.todo = ctx.todo
          /\ UNCHANGED <<table, runs, globals, now, cond>>
      BY <1>6, LoadGlobalsFields
    <2>2. seen' \subseteq Exprs \X Answers
      BY <1>2, <1>6, <2>1, SeenTypes
    <2> QED
      BY <1>2, <2>1, <2>2 DEF TypeOK
  <1>7. ASSUME Evaluate, Watch PROVE TypeOK'
    <2>1. /\ ctx' \in Copies /\ ctx'.at = "idle" /\ ctx'.now = 0 /\ ctx'.jobs = {} /\ ctx'.todo = {}
          /\ cond' = {} /\ UNCHANGED <<table, runs, globals, now>>
      BY <1>7, EvaluateFields
    <2>2. seen' \subseteq Exprs \X Answers
      BY <1>2, <1>7, <2>1, SeenTypes
    <2>3. 0 <= now
      BY <1>2
    <2> QED
      BY <1>2, <2>1, <2>2, <2>3 DEF TypeOK
  <1> QED
    BY <1>1, <1>3, <1>4, <1>5, <1>6, <1>7, NextSteps

(* The state has its type: a run has a time to compare with the window,    *)
(* whether or not it was started, and a value is one of the four.          *)
THEOREM ConditionsTypeCorrect == Spec => []TypeOK
  <1> QED
    BY TypeInit, TypeStep, PTL DEF Spec

-----------------------------------------------------------------------------
(* The store behind the copy: a deleted job has no rows, no row was queued *)
(* in the future, no job is new to the copy, and all are copied in the end.*)

TableInv ==
    /\ \A j \in Jobs \ table : runs[j] = << >>
    /\ \A j \in Jobs : \A i \in DOMAIN runs[j] : runs[j][i].queued <= now
    /\ ctx.at # "idle" => table \subseteq ctx.jobs
    /\ ctx.at = "ready" => ctx.todo = {}

(* The rows of job j stay, and move forward in time. *)
RowsGrow(j) ==
    /\ Len(runs[j]) <= Len(runs'[j])
    /\ \A i \in DOMAIN runs[j] : When(runs[j][i]) <= When(runs'[j][i])

LEMMA WhenTypes ==
    ASSUME NEW r \in RunRows
    PROVE  /\ When(r) \in Int /\ When(r) \in 0 .. MaxTime /\ r.queued \in Int
           /\ When(r) = IF r.started = NoTime THEN r.queued ELSE r.started
  BY ConditionsAssumption DEF RunRows, When

(* One row of job j is written, at or after the time it had.               *)
LEMMA RowWritten ==
    ASSUME TypeOK, TableInv, NEW j \in Jobs, NEW i \in DOMAIN runs[j], NEW row \in RunRows,
           runs' = [runs EXCEPT ![j] = [runs[j] EXCEPT ![i] = row]],
           row.queued = runs[j][i].queued, When(runs[j][i]) <= When(row), now' = now
    PROVE  /\ \A k \in Jobs : RowsGrow(k) /\ (runs[k] = << >> => runs'[k] = << >>)
           /\ \A k \in Jobs : \A m \in DOMAIN runs'[k] : runs'[k][m].queued <= now'
  <1>1. \A k \in Jobs : runs[k] \in Seq(RunRows)
    BY DEF TypeOK
  <1>2. \A k \in Jobs : runs'[k] = IF k = j THEN [runs[j] EXCEPT ![i] = row] ELSE runs[k]
    BY DEF TypeOK
  <1>3. \A k \in Jobs : DOMAIN runs'[k] = DOMAIN runs[k] /\ Len(runs'[k]) = Len(runs[k])
    <2>1. Len([runs[j] EXCEPT ![i] = row]) = Len(runs[j])
      BY <1>1
    <2> QED
      BY <1>2, <2>1
  <1>4. \A k \in Jobs : \A m \in DOMAIN runs[k] :
            runs'[k][m] = IF k = j /\ m = i THEN row ELSE runs[k][m]
    BY <1>2
  <1>5. \A k \in Jobs : \A m \in DOMAIN runs[k] : runs[k][m] \in RunRows
    BY <1>1
  <1>6. \A k \in Jobs : \A m \in DOMAIN runs[k] : When(runs[k][m]) <= When(runs'[k][m])
    BY <1>4, <1>5, WhenTypes
  <1>7. \A k \in Jobs : Len(runs[k]) <= Len(runs'[k])
    BY <1>1, <1>3
  <1>8. \A k \in Jobs : runs[k] = << >> => runs'[k] = << >>
    BY <1>2
  <1>9. \A k \in Jobs : \A m \in DOMAIN runs'[k] : runs'[k][m].queued <= now'
    BY <1>3, <1>4 DEF TableInv
  <1> QED
    BY <1>6, <1>7, <1>8, <1>9 DEF RowsGrow

LEMMA StoreGrows ==
    ASSUME TypeOK, TableInv, StoreStep
    PROVE  /\ table' \subseteq table /\ TableInv'
           /\ \A k \in Jobs : RowsGrow(k) \/ k \in table \ table'
  <1>1. /\ \A k \in Jobs : runs[k] \in Seq(RunRows)
        /\ \A k \in Jobs : \A m \in DOMAIN runs[k] : runs[k][m] \in RunRows
        /\ now \in Int /\ now \in 0 .. MaxTime
    BY ConditionsAssumption DEF TypeOK
  <1>2. ctx' = ctx /\ now <= now' /\ now' \in Int
    BY StoreTypes, ConditionsAssumption
  <1>3. \A k \in Jobs : runs'[k] = runs[k] => RowsGrow(k)
    BY <1>1, WhenTypes DEF RowsGrow
  <1>4. ASSUME NEW j \in Jobs, Queue(j)
        PROVE  /\ table' = table /\ j \in table /\ \A k \in Jobs : RowsGrow(k)
               /\ \A k \in Jobs \ {j} : runs'[k] = runs[k]
               /\ \A k \in Jobs : \A m \in DOMAIN runs'[k] : runs'[k][m].queued <= now'
    <2> DEFINE row == [state |-> "queued", queued |-> now, started |-> NoTime, code |-> NoCode]
    <2>1. table' = table /\ j \in table /\ now' = now
          /\ runs' = [runs EXCEPT ![j] = Append(runs[j], row)]
      BY <1>4 DEF Queue
    <2>2. row.queued = now
      OBVIOUS
    <2> HIDE DEF row
    <2>3. runs'[j] = Append(runs[j], row) /\ \A k \in Jobs \ {j} : runs'[k] = runs[k]
      BY <2>1 DEF TypeOK
    <2>4. /\ Len(runs'[j]) = Len(runs[j]) + 1 /\ DOMAIN runs'[j] = 1 .. Len(runs[j]) + 1
          /\ \A m \in DOMAIN runs[j] : runs'[j][m] = runs[j][m]
          /\ runs'[j][Len(runs[j]) + 1] = row
          /\ DOMAIN runs[j] = 1 .. Len(runs[j]) /\ Len(runs[j]) \in Nat
      BY <1>1, <2>3
    <2>5. RowsGrow(j)
      <3>1. \A m \in DOMAIN runs[j] : When(runs[j][m]) <= When(runs'[j][m])
        BY <1>1, <2>4, WhenTypes
      <3> QED
        BY <2>4, <3>1 DEF RowsGrow
    <2>6. \A m \in DOMAIN runs'[j] : m \in DOMAIN runs[j] \/ m = Len(runs[j]) + 1
      BY <2>4
    <2>7. \A m \in DOMAIN runs'[j] : runs'[j][m].queued <= now'
      BY <1>1, <2>1, <2>2, <2>4, <2>6 DEF TableInv
    <2> QED
      BY <1>3, <2>1, <2>3, <2>5, <2>7 DEF TableInv
  <1>5. ASSUME NEW j \in Jobs, DeleteJob(j)
        PROVE  /\ table' = table \ {j} /\ j \in table /\ runs'[j] = << >> /\ now' = now
               /\ \A k \in Jobs \ {j} : runs'[k] = runs[k]
    BY <1>5 DEF DeleteJob, TypeOK
  <1>6. ASSUME NEW j \in Jobs, NEW i \in DOMAIN runs[j], Start(j, i)
        PROVE  /\ table' = table
               /\ \A k \in Jobs : RowsGrow(k) /\ (runs[k] = << >> => runs'[k] = << >>)
               /\ \A k \in Jobs : \A m \in DOMAIN runs'[k] : runs'[k][m].queued <= now'
    <2> DEFINE row == [state |-> "running", queued |-> runs[j][i].queued, started |-> now, code |-> NoCode]
    <2>1. row \in RunRows
      BY <1>1 DEF RunRows
    <2>2. /\ runs' = [runs EXCEPT ![j] = [runs[j] EXCEPT ![i] = row]]
          /\ now' = now /\ table' = table /\ runs[j][i].started = NoTime
      BY <1>6 DEF Start
    <2>3. row.queued = runs[j][i].queued /\ row.started = now /\ row.started # NoTime
      BY <1>1, ConditionsAssumption
    <2> HIDE DEF row
    <2>4. When(runs[j][i]) <= When(row)
      <3>1. When(runs[j][i]) = runs[j][i].queued /\ When(row) = now
        BY <2>2, <2>3 DEF When
      <3> QED
        BY <3>1 DEF TableInv
    <2> QED
      BY <2>1, <2>2, <2>3, <2>4, RowWritten
  <1>7. ASSUME NEW j \in Jobs, NEW i \in DOMAIN runs[j], NEW o \in Outcomes, Settle(j, i, o)
        PROVE  /\ table' = table
               /\ \A k \in Jobs : RowsGrow(k) /\ (runs[k] = << >> => runs'[k] = << >>)
               /\ \A k \in Jobs : \A m \in DOMAIN runs'[k] : runs'[k][m].queued <= now'
    <2> DEFINE row == [runs[j][i] EXCEPT !.state = o.state, !.code = o.code]
    <2>1. runs[j][i] \in RunRows /\ o \in LastRuns
      BY <1>1, ConditionsAssumption
    <2>2. row \in RunRows /\ row.queued = runs[j][i].queued /\ row.started = runs[j][i].started
      BY <2>1 DEF RunRows, LastRuns
    <2>3. runs' = [runs EXCEPT ![j] = [runs[j] EXCEPT ![i] = row]]
      BY <1>1, <1>7 DEF Settle, TypeOK
    <2>4. now' = now /\ table' = table
      BY <1>7 DEF Settle
    <2> HIDE DEF row
    <2>5. When(runs[j][i]) <= When(row)
      <3>1. When(runs[j][i]) = When(row)
        BY <2>2 DEF When
      <3> QED
        BY <2>1, <3>1, WhenTypes
    <2> QED
      BY <2>2, <2>3, <2>4, <2>5, RowWritten
  <1>8. ASSUME (\E g \in Globals, v \in {"unset", "yes", "no"} : SetGlobal(g, v)) \/ TimePasses
        PROVE  table' = table /\ runs' = runs
    BY <1>8 DEF SetGlobal, TimePasses
  <1>9. ASSUME table' = table, \A k \in Jobs : RowsGrow(k),
               \A k \in Jobs \ table : runs'[k] = << >>,
               \A k \in Jobs : \A m \in DOMAIN runs'[k] : runs'[k][m].queued <= now'
        PROVE  /\ table' \subseteq table /\ TableInv'
               /\ \A k \in Jobs : RowsGrow(k) \/ k \in table \ table'
    BY <1>2, <1>9 DEF TableInv
  <1>10. CASE \E j \in Jobs : Queue(j)
    BY <1>4, <1>9, <1>10 DEF TableInv
  <1>11. CASE \E j \in Jobs : DeleteJob(j)
    <2>1. PICK j \in Jobs : DeleteJob(j)
      BY <1>11
    <2>2. TableInv'
      <3>1. \A k \in Jobs \ table' : runs'[k] = << >>
        BY <1>5, <2>1 DEF TableInv
      <3>2. \A k \in Jobs : \A m \in DOMAIN runs'[k] : runs'[k][m].queued <= now'
        BY <1>5, <2>1 DEF TableInv
      <3> QED
        BY <1>2, <1>5, <2>1, <3>1, <3>2 DEF TableInv
    <2> QED
      BY <1>3, <1>5, <2>1, <2>2
  <1>12. CASE \E j \in Jobs : \E i \in DOMAIN runs[j] : Start(j, i) \/ \E o \in Outcomes : Settle(j, i, o)
    BY <1>6, <1>7, <1>9, <1>12 DEF TableInv
  <1>13. CASE (\E g \in Globals, v \in {"unset", "yes", "no"} : SetGlobal(g, v)) \/ TimePasses
    <2>1. \A k \in Jobs : \A m \in DOMAIN runs[k] : runs[k][m].queued <= now'
      <3>1. \A k \in Jobs : \A m \in DOMAIN runs[k] : runs[k][m].queued <= now /\ runs[k][m].queued \in Int
        BY <1>1, WhenTypes DEF TableInv
      <3> QED
        BY <1>1, <1>2, <3>1
    <2> QED
      BY <1>3, <1>8, <1>9, <1>13, <2>1 DEF TableInv
  <1> QED
    BY <1>10, <1>11, <1>12, <1>13 DEF StoreStep

-----------------------------------------------------------------------------
(* Why the answers are right: during the copy everything the parts are is  *)
(* seen; a part that asks about a copied job, or in the end about a global,*)
(* has an answer that was seen, or is exempt; what is listed has a value.  *)

Exempt(p) == \E a \in Parts[p] : Truncated(Node(a)) \/ Emptied(Node(a))

Right(p) == Exempt(p) \/ Answer[p] = "panic" \/ <<p, Answer[p]>> \in seen

SeenInv ==
    ctx.at = "copying" => \A p \in Live : Single(p) => <<p, Truth(Store, ctx.now)[p]>> \in seen

LoadedInv ==
    ctx.at # "idle" => \A p \in Live, j \in Jobs \ ctx.todo : Asked(p) = {j} => Right(p)

GlobalsInv ==
    ctx.at = "ready" => \A p \in Live, g \in Globals : Asked(p) = {g} => Right(p)

ListedInv ==
    ctx.at # "idle" => \A a \in Live :
        Windowed(Node(a)) /\ Node(a).on \in ctx.jobs => \E v \in Answers \ {"none"} : <<a, v>> \in seen

ConditionsInv == TypeOK /\ TableInv /\ SeenInv /\ LoadedInv /\ GlobalsInv /\ ListedInv

LEMMA WindowedLeaf ==
    ASSUME NEW a \in Exprs, Windowed(Node(a))
    PROVE  /\ IsLeaf(a) /\ Node(a).op \in JobAtoms /\ Node(a).on \in Jobs
           /\ Node(a).window \in Nat \cup {NoWindow} /\ Asked(a) = {Node(a).on}
  <1>1. Node(a).op \notin Connectives /\ Node(a).op # "value"
    BY DEF Windowed, Connectives, Counts
  <1>2. IsLeaf(a)
    BY <1>1, LeafOrNot
  <1> QED
    BY <1>1, <1>2, LeafKinds, AskedDef

(* A part that is exempt stays so whatever the store does.                 *)
LEMMA ExemptStays ==
    ASSUME TypeOK, TableInv, StoreStep, ctx.at # "idle", NEW p \in Exprs, Exempt(p)
    PROVE  Exempt(p)'
  <1>1. PICK a \in Parts[p] : Truncated(Node(a)) \/ Emptied(Node(a))
    BY DEF Exempt
  <1> DEFINE n == Node(a)
  <1>2. a \in Exprs /\ Windowed(n)
    BY <1>1, PartOfItself DEF Truncated, Emptied
  <1>3. n.on \in Jobs /\ n.window \in Nat \cup {NoWindow}
    BY <1>2, WindowedLeaf
  <1>4. ctx' = ctx /\ table' \subseteq table /\ runs' \in [Jobs -> Seq(RunRows)]
    BY StoreTypes, StoreGrows
  <1> HIDE DEF n
  <1>5. CASE Emptied(n)
    <2>1. Emptied(n)'
      BY <1>4, <1>5 DEF Emptied
    <2> QED
      BY <1>1, <2>1 DEF Exempt, n
  <1>6. CASE Truncated(n)
    <2>1. PICK i \in InWindow(runs[n.on], n.window, ctx.now) : i + PerJobHistory <= Len(runs[n.on])
      BY <1>6 DEF Truncated
    <2>2. CASE n.on \in table \ table'
      <3>1. Emptied(n)'
        BY <1>2, <1>4, <2>2 DEF Emptied, TableInv
      <3> QED
        BY <1>1, <3>1 DEF Exempt, n
    <2>3. CASE RowsGrow(n.on)
      <3>1. /\ runs[n.on] \in Seq(RunRows) /\ runs'[n.on] \in Seq(RunRows)
            /\ ctx.now \in Int /\ PerJobHistory \in Nat
        BY <1>3, <1>4, ConditionsAssumption DEF TypeOK, Copies
      <3> DEFINE old == runs[n.on]
                 new == runs'[n.on]
      <3>2. i \in DOMAIN old /\ (n.window = NoWindow \/ When(old[i]) >= ctx.now - n.window)
        BY <2>1 DEF InWindow
      <3>3. /\ i \in DOMAIN new /\ i + PerJobHistory <= Len(new)
            /\ old[i] \in RunRows /\ new[i] \in RunRows /\ When(old[i]) <= When(new[i])
        <4> HIDE DEF old, new
        <4>1. Len(old) <= Len(new) /\ When(old[i]) <= When(new[i])
          BY <2>3, <3>2 DEF RowsGrow, old, new
        <4>2. old \in Seq(RunRows) /\ new \in Seq(RunRows) /\ i + PerJobHistory <= Len(old)
          BY <2>1, <3>1 DEF old, new
        <4>3. Len(old) \in Nat /\ Len(new) \in Nat
              /\ DOMAIN old = 1 .. Len(old) /\ DOMAIN new = 1 .. Len(new)
          BY <4>2
        <4>4. i \in DOMAIN old
          BY <3>2
        <4>5. i \in DOMAIN new /\ i + PerJobHistory <= Len(new)
          BY <3>1, <4>1, <4>2, <4>3, <4>4
        <4> QED
          BY <4>1, <4>2, <4>4, <4>5
      <3>4. n.window = NoWindow \/ When(new[i]) >= ctx.now - n.window
        <4> HIDE DEF old, new
        <4>1. When(old[i]) \in Int /\ When(new[i]) \in Int
          BY <3>3, WhenTypes
        <4>2. n.window = NoWindow \/ n.window \in Int
          BY <1>3
        <4> QED
          BY <3>1, <3>2, <3>3, <4>1, <4>2
      <3>5. i \in InWindow(runs'[n.on], n.window, ctx.now)
        BY <3>3, <3>4 DEF InWindow
      <3>6. Truncated(n)'
        BY <1>2, <1>3, <1>4, <3>3, <3>5 DEF Truncated
      <3> QED
        BY <1>1, <3>6 DEF Exempt, n
    <2> QED
      BY <1>3, <2>2, <2>3, StoreGrows
  <1> QED
    BY <1>1, <1>5, <1>6 DEF n

(* A job that was copied just now.                                         *)
LEMMA RightWhenCopied ==
    ASSUME TypeOK', TableInv', Watch, ctx'.at = "copying", NEW j \in Jobs,
           CopyOf(ctx', runs'[j], j), NEW p \in Live', Asked(p) = {j}
    PROVE  Right(p)'
  <1> SUFFICES ASSUME ~ Exempt(p)' PROVE Right(p)'
    BY DEF Right
  <1>1. p \in Exprs
    <2>1. PICK e \in cond' : p \in Parts[e]
      BY DEF Live
    <2> QED
      BY <2>1, PartOfItself, ConditionsAssumption DEF TypeOK
  <1>2. ASSUME NEW a \in Parts[p], Windowed(Node(a))
        PROVE  ~ Cut(runs'[j], Node(a), ctx'.now) /\ j \notin ctx'.jobs \ table'
    <2>1. a \in Exprs /\ Node(a).on = j
      BY <1>1, <1>2, WindowedLeaf, LeavesAsk, PartOfItself
    <2>2. ~ Truncated(Node(a))' /\ ~ Emptied(Node(a))'
      BY DEF Exempt
    <2> QED
      BY <1>2, <2>1, <2>2 DEF Truncated, Emptied, Cut
  <1>3. ctx'.now \in Nat /\ runs'[j] \in Seq(RunRows) /\ table' \subseteq ctx'.jobs
    BY DEF TypeOK, Copies, TableInv
  <1>4. Store'.runs = runs' /\ Store'.jobs = table'
    BY DEF Store
  <1>5. Evaluated(ctx')[p] = "panic" \/ Evaluated(ctx')[p] = Truth(Store', ctx'.now)[p]
    BY <1>1, <1>2, <1>3, <1>4, CopiedRight
  <1>6. Single(p)
    BY DEF Single
  <1>7. <<p, Truth(Store', ctx'.now)[p]>> \in seen'
    BY <1>6, Watched
  <1>8. Answer' = Evaluated(ctx')
    BY DEF Answer
  <1> QED
    BY <1>5, <1>7, <1>8 DEF Right

(* Copies that know the same of job k answer the same.                     *)
LEMMA SameCopy ==
    ASSUME NEW c, NEW d, c.jobs = d.jobs, c.now = d.now, NEW k \in Jobs,
           c.latest[k] = d.latest[k], c.history[k] = d.history[k],
           NEW p \in Exprs, Asked(p) = {k}
    PROVE  Evaluated(c)[p] = Evaluated(d)[p]
  <1>1. ASSUME NEW a \in Parts[p], IsLeaf(a) PROVE Atoms(c)[a] = Atoms(d)[a]
    <2>1. a \in Exprs /\ Node(a).on = k /\ Node(a).op # "value"
      <3>1. a \in Exprs /\ Node(a).on = k
        BY <1>1, LeavesAsk, PartOfItself
      <3> QED
        BY <1>1, <3>1, LeafKinds DEF JobAtoms, Running, Counts
    <2>2. Atom(c, Node(a)) = Atom(d, Node(a))
      BY <2>1 DEF Atom, OfHistory, OfLatest, Within, IsRunning
    <2> QED
      BY <2>1, <2>2 DEF Atoms
  <1>2. Atoms(c) \in [Exprs -> Answers] /\ Atoms(d) \in [Exprs -> Answers]
    BY TruthTypes
  <1>3. Meaning(Atoms(c))[p] = Meaning(Atoms(d))[p]
    BY <1>1, <1>2, EqualLeaves
  <1> QED
    BY <1>3, TruthTypes

LEMMA SeenGrows ==
    ASSUME TypeOK', Watch, ctx'.at # "idle"
    PROVE  seen \subseteq seen'
  <1>1. ctx'.at \in {"copying", "ready"}
    BY DEF TypeOK, Copies
  <1> QED
    BY <1>1, Watched

LEMMA SeenStep == Watch => SeenInv'
  BY Watched DEF SeenInv

(* What is right stays right: while the store changes, while another job   *)
(* is copied, and when the globals are.                                    *)
LEMMA RightStays ==
    ASSUME TypeOK, TypeOK', TableInv, StoreStep, Watch, ctx.at # "idle", NEW p \in Exprs, Right(p)
    PROVE  Right(p)'
  <1>1. ctx' = ctx
    BY StoreTypes
  <1>2. seen \subseteq seen' /\ Answer' = Answer
    BY <1>1, SeenGrows DEF Answer
  <1>3. Exempt(p) => Exempt(p)'
    BY ExemptStays
  <1> QED
    BY <1>2, <1>3 DEF Right

LEMMA RightKept ==
    ASSUME TypeOK', Watch, ctx'.at # "idle", ctx'.jobs = ctx.jobs, ctx'.now = ctx.now,
           UNCHANGED <<table, runs>>, NEW k \in Jobs,
           ctx'.latest[k] = ctx.latest[k], ctx'.history[k] = ctx.history[k],
           NEW p \in Exprs, Asked(p) = {k}, Right(p)
    PROVE  Right(p)'
  <1>1. Evaluated(ctx')[p] = Evaluated(ctx)[p]
    BY SameCopy
  <1>2. seen \subseteq seen' /\ Answer'[p] = Answer[p]
    BY <1>1, SeenGrows DEF Answer
  <1>3. Exempt(p) => Exempt(p)'
    BY DEF Exempt, Truncated, Emptied
  <1> QED
    BY <1>2, <1>3 DEF Right

LEMMA InvInit == Init => ConditionsInv
  <1> SUFFICES ASSUME Init PROVE ConditionsInv
    OBVIOUS
  <1>1. TypeOK
    BY TypeInit
  <1>2. ctx.at = "idle"
    BY DEF Init, Empty
  <1>3. TableInv
    BY <1>2 DEF TableInv, Init
  <1> QED
    BY <1>1, <1>2, <1>3 DEF ConditionsInv, SeenInv, LoadedInv, GlobalsInv, ListedInv

LEMMA InvStoreStep ==
    ASSUME ConditionsInv, TypeOK', StoreStep, Watch
    PROVE  ConditionsInv'
  <1> USE DEF ConditionsInv
  <1>1. ctx' = ctx /\ Live' = Live /\ Live \subseteq Exprs
    BY StoreTypes, LiveAre DEF Live
  <1>2. TableInv' /\ SeenInv'
    BY StoreGrows, SeenStep
  <1>3. CASE ctx.at = "idle"
    BY <1>1, <1>2, <1>3 DEF LoadedInv, GlobalsInv, ListedInv
  <1>4. CASE ctx.at # "idle"
    <2>1. \A p \in Live : Right(p) => Right(p)'
      BY <1>1, <1>4, RightStays
    <2>2. LoadedInv'
      BY <1>1, <1>4, <2>1 DEF LoadedInv
    <2>3. GlobalsInv'
      BY <1>1, <1>4, <2>1 DEF GlobalsInv
    <2>4. ListedInv'
      <3>1. seen \subseteq seen'
        BY <1>1, <1>4, SeenGrows
      <3> QED
        BY <1>1, <1>4, <3>1 DEF ListedInv
    <2> QED
      BY <1>2, <2>2, <2>3, <2>4
  <1> QED
    BY <1>3, <1>4

LEMMA InvBegin ==
    ASSUME ConditionsInv, TypeOK', NEW e \in Triggers, Begin(e), Watch
    PROVE  ConditionsInv'
  <1> USE DEF ConditionsInv
  <1>1. /\ ctx'.at = "copying" /\ ctx'.jobs = table /\ ctx'.todo = table /\ ctx'.now = now
        /\ \A j \in Jobs : CopyOf(ctx', << >>, j)
        /\ UNCHANGED <<table, runs, globals, now>>
    BY BeginFields
  <1>2. TableInv'
    BY <1>1 DEF TableInv
  <1>3. SeenInv'
    BY SeenStep
  <1>4. LoadedInv'
    <2>1. \A p \in Live', j \in Jobs \ ctx'.todo : Asked(p) = {j} => Right(p)'
      <3> SUFFICES ASSUME NEW p \in Live', NEW j \in Jobs \ table, Asked(p) = {j} PROVE Right(p)'
        BY <1>1
      <3>1. CopyOf(ctx', runs'[j], j)
        BY <1>1 DEF TableInv
      <3> QED
        BY <1>1, <1>2, <3>1, RightWhenCopied
    <2> QED
      BY <2>1 DEF LoadedInv
  <1>5. GlobalsInv'
    BY <1>1 DEF GlobalsInv
  <1>6. ListedInv'
    <2>1. \A a \in Live' : Windowed(Node(a)) /\ Node(a).on \in ctx'.jobs
                             => \E v \in Answers \ {"none"} : <<a, v>> \in seen'
      <3> SUFFICES ASSUME NEW a \in Live', Windowed(Node(a)), Node(a).on \in table
                   PROVE  \E v \in Answers \ {"none"} : <<a, v>> \in seen'
        BY <1>1
      <3>1. a \in Exprs
        <4>1. PICK x \in cond' : a \in Parts[x]
          BY DEF Live
        <4> QED
          BY <4>1, PartOfItself, ConditionsAssumption DEF TypeOK
      <3>2. IsLeaf(a) /\ Asked(a) = {Node(a).on}
        BY <3>1, WindowedLeaf
      <3> DEFINE n == Node(a)
                 v == Fact(Store', ctx'.now, n)
      <3>3. Truth(Store', ctx'.now)[a] = v
        <4>1. Facts(Store', ctx'.now)[a] = v
          BY <3>1 DEF Facts
        <4>2. Meaning(Facts(Store', ctx'.now))[a] = Facts(Store', ctx'.now)[a]
          BY <3>1, <3>2, TruthTypes, MeaningDef
        <4> QED
          BY <4>1, <4>2, TruthTypes
      <3>4. v # "none"
        <4>1. Store'.jobs = table /\ n.on \in table
          BY <1>1 DEF Store
        <4>2. n.op \in Counts \/ (n.op \in {"success", "failure", "done"} /\ n.window # NoWindow)
          BY DEF Windowed
        <4> HIDE DEF n
        <4>3. CASE n.op \in Counts
          BY <4>1, <4>3 DEF Fact, Counts, Some
        <4>4. CASE n.op \in {"success", "failure", "done"} /\ n.window # NoWindow
          BY <4>1, <4>4 DEF Fact, Counts, Some
        <4> QED
          BY <4>2, <4>3, <4>4
      <3>5. v \in Answers
        BY AtomTypes
      <3>6. Single(a)
        BY <3>2 DEF Single
      <3>7. <<a, Truth(Store', ctx'.now)[a]>> \in seen'
        BY <1>1, <3>6, Watched
      <3> HIDE DEF v
      <3> QED
        BY <3>3, <3>4, <3>5, <3>7
    <2> QED
      BY <2>1 DEF ListedInv
  <1> QED
    BY <1>2, <1>3, <1>4, <1>5, <1>6

LEMMA InvLoad ==
    ASSUME ConditionsInv, TypeOK', NEW j \in Jobs, Load(j), Watch
    PROVE  ConditionsInv'
  <1> USE DEF ConditionsInv
  <1>1. /\ ctx.at = "copying" /\ ctx'.at = "copying" /\ ctx'.now = ctx.now
        /\ ctx'.jobs = ctx.jobs /\ ctx'.todo = ctx.todo \ {j}
        /\ CopyOf(ctx', runs'[j], j)
        /\ \A k \in Jobs \ {j} : /\ ctx'.latest[k] = ctx.latest[k]
                                 /\ ctx'.history[k] = ctx.history[k]
        /\ UNCHANGED <<table, runs, globals, now, cond>>
    BY LoadFields
  <1>2. Live' = Live /\ Live \subseteq Exprs /\ seen \subseteq seen'
    BY <1>1, LiveAre, SeenGrows DEF Live
  <1>3. TableInv'
    BY <1>1 DEF TableInv
  <1>4. SeenInv'
    BY SeenStep
  <1>5. LoadedInv'
    <2>1. \A p \in Live', k \in Jobs \ ctx'.todo : Asked(p) = {k} => Right(p)'
      <3> SUFFICES ASSUME NEW p \in Live', NEW k \in Jobs \ ctx'.todo, Asked(p) = {k}
                   PROVE  Right(p)'
        OBVIOUS
      <3>1. CASE k = j
        BY <1>1, <1>3, <3>1, RightWhenCopied
      <3>2. CASE k # j
        <4>1. k \in Jobs \ ctx.todo /\ Right(p)
          BY <1>1, <1>2, <3>2 DEF LoadedInv
        <4> QED
          BY <1>1, <1>2, <3>2, <4>1, RightKept
      <3> QED
        BY <3>1, <3>2
    <2> QED
      BY <2>1 DEF LoadedInv
  <1>6. GlobalsInv'
    BY <1>1 DEF GlobalsInv
  <1>7. ListedInv'
    BY <1>1, <1>2 DEF ListedInv
  <1> QED
    BY <1>3, <1>4, <1>5, <1>6, <1>7

LEMMA InvLoadGlobals ==
    ASSUME ConditionsInv, TypeOK', LoadGlobals, Watch
    PROVE  ConditionsInv'
  <1> USE DEF ConditionsInv
  <1>1. /\ ctx.at = "copying" /\ ctx'.at = "ready" /\ ctx'.now = ctx.now
        /\ ctx'.jobs = ctx.jobs /\ ctx'.todo = ctx.todo /\ ctx.todo = {} /\ ctx'.globals = globals
        /\ ctx'.latest = ctx.latest /\ ctx'.history = ctx.history
        /\ UNCHANGED <<table, runs, globals, now, cond>>
    BY LoadGlobalsFields
  <1>2. Live' = Live /\ Live \subseteq Exprs /\ seen' = seen
    BY <1>1, LiveAre, Watched DEF Live
  <1>3. TableInv'
    BY <1>1 DEF TableInv
  <1>4. SeenInv'
    BY SeenStep
  <1>5. LoadedInv'
    <2>1. \A p \in Live', k \in Jobs \ ctx'.todo : Asked(p) = {k} => Right(p)'
      <3> SUFFICES ASSUME NEW p \in Live', NEW k \in Jobs \ ctx'.todo, Asked(p) = {k}
                   PROVE  Right(p)'
        OBVIOUS
      <3>1. Right(p)
        BY <1>1, <1>2 DEF LoadedInv
      <3> QED
        BY <1>1, <1>2, <3>1, RightKept
    <2> QED
      BY <2>1 DEF LoadedInv
  <1>6. GlobalsInv'
    <2>1. \A p \in Live', g \in Globals : Asked(p) = {g} => Right(p)'
      <3> SUFFICES ASSUME NEW p \in Live', NEW g \in Globals, Asked(p) = {g} PROVE Right(p)'
        OBVIOUS
      <3>1. ASSUME NEW a \in Parts[p], IsLeaf(a)
            PROVE  Atoms(ctx')[a] = Facts(Store, ctx.now)[a]
        <4>1. a \in Exprs /\ Node(a).on = g
          BY <1>2, <3>1, LeavesAsk, PartOfItself
        <4>2. Node(a).op = "value"
          BY <3>1, <4>1, LeafKinds
        <4>3. Atom(ctx', Node(a)) = OfGlobals(ctx', g)
          BY <4>1, <4>2 DEF Atom, Windowed, Counts
        <4>4. Fact(Store, ctx.now, Node(a)) = OfGlobals(ctx', g)
          BY <1>1, <4>1, <4>2 DEF Fact, Counts, OfGlobals, Store
        <4> QED
          BY <4>1, <4>3, <4>4 DEF Atoms, Facts
      <3>2. Atoms(ctx') \in [Exprs -> Answers] /\ Facts(Store, ctx.now) \in [Exprs -> Answers]
        BY TruthTypes
      <3>3. p \in Exprs
        BY <1>2
      <3>4. Meaning(Atoms(ctx'))[p] = Meaning(Facts(Store, ctx.now))[p]
        BY <3>1, <3>2, <3>3, EqualLeaves
      <3>5. Answer'[p] = Truth(Store, ctx.now)[p]
        BY <3>4, TruthTypes DEF Answer
      <3>6. Single(p)
        BY DEF Single
      <3>7. <<p, Truth(Store, ctx.now)[p]>> \in seen
        BY <1>1, <1>2, <3>6 DEF SeenInv
      <3> QED
        BY <1>2, <3>5, <3>7 DEF Right
    <2> QED
      BY <2>1 DEF GlobalsInv
  <1>7. ListedInv'
    BY <1>1, <1>2 DEF ListedInv
  <1> QED
    BY <1>3, <1>4, <1>5, <1>6, <1>7

LEMMA InvEvaluate ==
    ASSUME ConditionsInv, TypeOK', Evaluate, Watch
    PROVE  ConditionsInv'
  <1>1. ctx'.at = "idle" /\ UNCHANGED <<table, runs, globals, now>>
    BY EvaluateFields DEF ConditionsInv
  <1>2. TableInv'
    BY <1>1 DEF ConditionsInv, TableInv
  <1> QED
    BY <1>1, <1>2 DEF ConditionsInv, SeenInv, LoadedInv, GlobalsInv, ListedInv

LEMMA InvStep == ConditionsInv /\ [Next]_vars => ConditionsInv'
  <1> SUFFICES ASSUME ConditionsInv, [Next]_vars PROVE ConditionsInv'
    OBVIOUS
  <1>1. TypeOK'
    BY TypeStep DEF ConditionsInv
  <1>2. CASE UNCHANGED vars
    <2>1. UNCHANGED <<table, runs, globals, now, ctx, cond, seen>>
      BY <1>2 DEF vars
    <2>2. \A p : Right(p) <=> Right(p)'
      BY <2>1 DEF Right, Exempt, Truncated, Emptied, Answer
    <2>3. Live' = Live /\ Store' = Store
      BY <2>1 DEF Live, Store
    <2>4. TableInv' /\ SeenInv' /\ ListedInv'
      BY <2>1, <2>3 DEF ConditionsInv, TableInv, SeenInv, ListedInv
    <2>5. LoadedInv' /\ GlobalsInv'
      BY <2>1, <2>2, <2>3 DEF ConditionsInv, LoadedInv, GlobalsInv
    <2> QED
      BY <1>1, <2>4, <2>5 DEF ConditionsInv
  <1> QED
    BY <1>1, <1>2, NextSteps, InvStoreStep, InvBegin, InvLoad, InvLoadGlobals, InvEvaluate

LEMMA ConditionsInvariant == Spec => []ConditionsInv
  <1> QED
    BY InvInit, InvStep, PTL DEF Spec

-----------------------------------------------------------------------------
(* A part of a condition that asks about one job or global only gets an    *)
(* answer that was right at an instant of the copying, whatever runs and   *)
(* is deleted meanwhile, for every PER_JOB_HISTORY that reaches back.      *)
THEOREM AnswerWasTrueSafe == Spec => []AnswerWasTrue
  <1>1. ConditionsInv => AnswerWasTrue
    <2> SUFFICES ASSUME ConditionsInv, ctx.at = "ready", NEW e \in cond, NEW p \in Parts[e],
                        Single(p), Answer[p] # "panic",
                        \A a \in Parts[p] : ~ Truncated(Node(a)) /\ ~ Emptied(Node(a))
                 PROVE  <<p, Answer[p]>> \in seen
      BY DEF AnswerWasTrue
    <2>1. p \in Live /\ p \in Exprs
      BY LiveAre DEF Live, ConditionsInv
    <2>2. PICK x : x \in Asked(p)
      BY <2>1, AsksSomething
    <2>3. Asked(p) = {x} /\ x \in Jobs \cup Globals
      BY <2>1, <2>2, AskedDef DEF Single
    <2>4. Right(p)
      BY <2>1, <2>3 DEF ConditionsInv, TableInv, LoadedInv, GlobalsInv
    <2> QED
      BY <2>4 DEF Right, Exempt
  <1> QED
    BY <1>1, ConditionsInvariant, PTL

(* A condition that asks, anywhere, for the outcome of the last run of a   *)
(* job that had none, for a global that is not set, or for a look-back at  *)
(* a job that does not exist, does not come true, whatever its shape. (Of  *)
(* an existing job without runs, a look-back tells of zero runs.)          *)
THEOREM UnknownNeverFiresSafe == Spec => []UnknownNeverFires
  <1>1. ConditionsInv => UnknownNeverFires
    <2> SUFFICES ASSUME ConditionsInv, ctx.at = "ready", NEW e \in cond, Answer[e] = "true",
                        NEW a \in Parts[e], Node(a).op \notin Running \cup Connectives
                 PROVE  \E v \in Answers \ {"none"} : <<a, v>> \in seen
      BY DEF UnknownNeverFires
    <2>1. e \in Exprs /\ a \in Live /\ a \in Exprs
      BY LiveAre, ConditionsAssumption DEF Live, ConditionsInv, TypeOK
    <2>2. IsLeaf(a)
      BY <2>1, LeafOrNot
    <2>3. Resolved(Atoms(ctx)[a])
      <3>1. Answer = Meaning(Atoms(ctx)) /\ Atoms(ctx) \in [Exprs -> Answers]
        BY TruthTypes DEF Answer
      <3>2. Resolved(Meaning(Atoms(ctx))[e])
        BY <3>1 DEF Resolved
      <3> QED
        BY <2>1, <2>2, <3>1, <3>2, ResolvedLeaves
    <2>4. Answer[a] = Atoms(ctx)[a] /\ Atoms(ctx)[a] = Atom(ctx, Node(a))
      <3>1. Meaning(Atoms(ctx))[a] = Atoms(ctx)[a]
        BY <2>1, <2>2, TruthTypes, MeaningDef
      <3> QED
        BY <2>1, <3>1, TruthTypes DEF Answer, Atoms
    <2>5. CASE Windowed(Node(a))
      <3>1. Atom(ctx, Node(a)) # "none"
        BY <2>3, <2>4 DEF Resolved
      <3>2. Node(a).on \in ctx.jobs
        BY <2>5, <3>1 DEF Atom, OfHistory
      <3> QED
        BY <2>1, <2>5, <3>2 DEF ConditionsInv, ListedInv
    <2>6. CASE ~ Windowed(Node(a))
      <3>1. Parts[a] = {a}
        BY <2>1, <2>2, PartsDef DEF IsLeaf
      <3>2. ~ Exempt(a)
        BY <2>6, <3>1 DEF Exempt, Truncated, Emptied
      <3>3. Asked(a) = {Node(a).on} /\ Node(a).on \in Jobs \cup Globals
        BY <2>1, <2>2, AskedDef
      <3>4. Right(a)
        BY <2>1, <3>3 DEF ConditionsInv, TableInv, LoadedInv, GlobalsInv
      <3>5. Answer[a] \in Answers \ {"none", "panic"}
        BY <2>3, <2>4 DEF Resolved, Answers
      <3> QED
        BY <3>2, <3>4, <3>5 DEF Right
    <2> QED
      BY <2>5, <2>6
  <1> QED
    BY <1>1, ConditionsInvariant, PTL
=============================================================================
