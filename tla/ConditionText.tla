----------------------------- MODULE ConditionText -----------------------------
(***************************************************************************)
(* The text of a condition: parse of rsched-conditions, and what Display   *)
(* prints. A token is what read_ident, read_int, read_lookback and the     *)
(* operators of the parser take at once; blanks between tokens are gone. A *)
(* parser answers [at, tree]: the position after what it read, 0 on error. *)
(***************************************************************************)
EXTENDS Integers, Sequences

Keywords   == {"not", "and", "or"}
Windowed   == {"success", "failure", "done"}             \* (job [, HH.MM])
Counts     == {"numrun", "numsuc", "numfail"}            \* (job [, HH.MM]) op N
Plain      == {"running", "notrunning", "value"}         \* (name)
Functions  == Windowed \cup Counts \cup Plain \cup {"exitcode"}
Operators  == {"=", "!=", "<", "<=", ">", ">="}
Marks      == {"(", ")", ","} \cup Operators
LongName(t) == CASE t = "s" -> "success" [] t = "f" -> "failure" [] t = "d" -> "done"
                 [] t = "r" -> "running" [] t = "n" -> "notrunning" [] OTHER -> t

(* read_ident takes letters, digits, `_`, `-` and `.`: numbers, too. *)
IsIdent(t) == t \notin Marks /\ t # ""

(* The tokens read_int takes: i32, the sign applied to the number of the       *)
(* digits, which must fit itself: "-2147483648" does not. parse_lookback takes *)
(* hours and minutes, fewer than 60.                                           *)
IntOf(t)    == CASE t = "0" -> 0 [] t = "5" -> 5 [] t = "-5" -> -5 [] t = "2147483647" -> 2147483647
WindowOf(t) == CASE t = "01.30" -> 90 [] t = "24.00" -> 1440
IntTokens   == {"0", "5", "-5", "2147483647"}
Lookbacks   == {"01.30", "24.00"}

NoTree     == [op |-> "none"]
Failed     == [at |-> 0, tree |-> NoTree]
Tok(s, i)  == IF i \in 1..Len(s) THEN s[i] ELSE ""

Call(f, job, window, op, n) ==
    [op |-> "call", f |-> f, job |-> job, window |-> window, cmp |-> op, n |-> n]
NoWindow == -1

-----------------------------------------------------------------------------
(* parse_paren_name_lb: [at, job, window]. *)
ParenName(s, i) ==
    LET named == Tok(s, i) = "(" /\ IsIdent(Tok(s, i + 1))
        window == named /\ Tok(s, i + 2) = ","
        close == IF window THEN i + 4 ELSE i + 2
    IN IF named /\ Tok(s, close) = ")" /\ (window => Tok(s, i + 3) \in Lookbacks)
       THEN [at |-> close + 1, job |-> s[i + 1], window |-> IF window THEN WindowOf(s[i + 3]) ELSE NoWindow]
       ELSE [at |-> 0, job |-> "", window |-> NoWindow]

(* try_read_cmp_op and read_int: [at, n]. *)
Compared(s, i) ==
    IF Tok(s, i) \in Operators /\ Tok(s, i + 1) \in IntTokens
    THEN [at |-> i + 2, n |-> IntOf(s[i + 1])]
    ELSE [at |-> 0, n |-> 0]

(* parse_func_call, i behind the name of the function. *)
FuncCall(s, i, f) ==
    LET p == ParenName(s, i)
        c == Compared(s, p.at)
        bare == f \notin Windowed \cup Counts
    IN IF f \notin Functions \/ p.at = 0 \/ (bare /\ p.window # NoWindow) THEN Failed
       ELSE IF f \in Counts \cup {"exitcode"}
       THEN IF c.at = 0 THEN Failed
            ELSE [at |-> c.at, tree |-> Call(f, p.job, p.window, s[p.at], c.n)]
       ELSE [at |-> p.at, tree |-> Call(f, p.job, p.window, "", 0)]

RECURSIVE ParseOr(_, _), ParseAnd(_, _), ParseNot(_, _), AndTail(_, _), OrTail(_, _)

ParseAtom(s, i) ==
    IF Tok(s, i) = "("
    THEN LET inner == ParseOr(s, i + 1) IN
         IF inner.at # 0 /\ Tok(s, inner.at) = ")" THEN [inner EXCEPT !.at = @ + 1] ELSE Failed
    ELSE IF IsIdent(Tok(s, i)) /\ Tok(s, i + 1) = "(" THEN FuncCall(s, i + 1, LongName(s[i]))
    ELSE Failed

(* `not` before a parenthesis is taken for the name of a function. *)
ParseNot(s, i) ==
    IF Tok(s, i) = "not" /\ Tok(s, i + 1) # "("
    THEN LET arg == ParseNot(s, i + 1) IN
         IF arg.at = 0 THEN Failed ELSE [arg EXCEPT !.tree = [op |-> "not", arg |-> arg.tree]]
    ELSE ParseAtom(s, i)

Joined(word, left, right) ==
    [at |-> right.at, tree |-> [op |-> word, left |-> left.tree, right |-> right.tree]]

(* The loops of parse_and and parse_or: to the left. *)
AndTail(s, left) ==
    IF left.at # 0 /\ Tok(s, left.at) = "and"
    THEN LET right == ParseNot(s, left.at + 1) IN
         IF right.at = 0 THEN Failed ELSE AndTail(s, Joined("and", left, right))
    ELSE left

ParseAnd(s, i) == AndTail(s, ParseNot(s, i))

OrTail(s, left) ==
    IF left.at # 0 /\ Tok(s, left.at) = "or"
    THEN LET right == ParseAnd(s, left.at + 1) IN
         IF right.at = 0 THEN Failed ELSE OrTail(s, Joined("or", left, right))
    ELSE left

ParseOr(s, i) == OrTail(s, ParseAnd(s, i))

FirstExpr(s) == LET e == ParseOr(s, 1) IN IF e.at = 0 THEN NoTree ELSE e.tree   \* fault: trailing input

(* parse. *)
ParseExpr(s) == LET e == ParseOr(s, 1) IN IF e.at = Len(s) + 1 THEN e.tree ELSE NoTree

-----------------------------------------------------------------------------
(* Display. *)

WindowText(w) == IF w = NoWindow THEN <<>>
                 ELSE <<",", CHOOSE t \in Lookbacks : WindowOf(t) = w>>
CompareText(e) == IF e.cmp = "" THEN <<>> ELSE <<e.cmp, CHOOSE t \in IntTokens : IntOf(t) = e.n>>

RECURSIVE Display(_)
Display(e) ==
    CASE e.op = "call" -> <<e.f, "(", e.job>> \o WindowText(e.window) \o <<")">> \o CompareText(e)
      [] e.op = "not"  -> <<"not", "(">> \o Display(e.arg) \o <<")">>
      [] e.op \in {"and", "or"} -> <<"(">> \o Display(e.left) \o <<e.op>> \o Display(e.right) \o <<")">>

-----------------------------------------------------------------------------
(* The reference: the trees that the grammar of the documentation gives to a   *)
(* text, by splitting it; but no `not` before a parenthesis.                   *)

WellFormed(e) ==
    /\ e.f \in Functions
    /\ e.window = NoWindow \/ e.f \in Windowed \cup Counts
    /\ e.cmp # "" <=> e.f \in Counts \cup {"exitcode"}
    /\ e.cmp = "" => e.n = 0

CallTrees(s) ==
    IF Len(s) < 4 \/ ~ IsIdent(s[3]) THEN {}
    ELSE {e \in {Call(LongName(s[1]), s[3], w, cmp, n) :
                   w \in {NoWindow} \cup {WindowOf(t) : t \in Lookbacks},
                   cmp \in Operators \cup {""}, n \in {IntOf(t) : t \in IntTokens}} :
            WellFormed(e) /\ Display(e) = <<LongName(s[1])>> \o Tail(s)}

RECURSIVE Trees(_, _)
Binary(word, s, leftLevel, rightLevel) ==
    UNION {{[op |-> word, left |-> a, right |-> b] :
               a \in Trees(leftLevel, SubSeq(s, 1, i - 1)),
               b \in Trees(rightLevel, SubSeq(s, i + 1, Len(s)))} :
           i \in {k \in DOMAIN s : s[k] = word}}

Trees(level, s) ==
    IF s = <<>> THEN {} ELSE
    CASE level = "or"  -> Trees("and", s) \cup Binary("or", s, "or", "and")
      [] level = "and" -> Trees("not", s) \cup Binary("and", s, "and", "not")
      [] level = "not" -> Trees("atom", s) \cup
            (IF s[1] = "not" /\ Tok(s, 2) # "("
             THEN {[op |-> "not", arg |-> a] : a \in Trees("not", Tail(s))} ELSE {})
      [] level = "atom" -> CallTrees(s) \cup
            (IF s[1] = "(" /\ s[Len(s)] = ")" THEN Trees("or", SubSeq(s, 2, Len(s) - 1)) ELSE {})

RECURSIVE HasNot(_)
HasNot(e) == CASE e.op = "not" -> TRUE [] e.op = "call" -> FALSE
               [] OTHER -> HasNot(e.left) \/ HasNot(e.right)
=============================================================================
