----------------------------- MODULE GalachEval -----------------------------
(***************************************************************************)
(* What a source means, said without a machine: its statements are carried *)
(* out one after the other on variables that hold integers.  There are no  *)
(* addresses, no stack and no instructions here; a call is a recursion, a  *)
(* branch not taken is skipped.                                            *)
(*                                                                         *)
(* Src is the source as its nodes, [node, word, type, n], each before the  *)
(* nodes below it, in the order they are evaluated in: of a call the last  *)
(* argument first.  An expression is evaluated for the type its context    *)
(* wants, "unit" if it wants none: it then has the type of what it meets   *)
(* first.  Results are cut to the width of that type.                      *)
(***************************************************************************)
EXTENDS GalachISA, SequencesExt

CONSTANTS Src,
          MaxSteps   \* bound: statements carried out

\* The state of the evaluation.  Its mode is "live", "skip" where a branch is
\* not taken, "returned" in what is left of a function after its return,
\* "undefined" when a value is used that nothing defines, "endless" at MaxSteps.
Start(pos, scope, out, steps) ==
    [pos |-> pos, env |-> <<scope>>, out |-> out, steps |-> steps, mode |-> "live",
     val |-> 0, type |-> "unit", known |-> FALSE]

Live(s) == s.mode = "live"
Past(s) == [s EXCEPT !.pos = @ + 1]

\* What is evaluated only where on holds, and what follows it.
Where(s, on) == IF Live(s) /\ ~on THEN [s EXCEPT !.mode = "skip"] ELSE s
After(s, r)  == IF r.mode = "skip" THEN [r EXCEPT !.mode = s.mode] ELSE r

Wrap(v, t) ==
    LET c == Cap(TypeSize(t))
    IN  IF IsSigned(t) THEN ((v + c \div 2) % c) - c \div 2 ELSE v % c

Wanted(t, own) == IF t = "unit" THEN own ELSE t

\* The value of what has just been evaluated, if it was.
Put(s, t, v) ==
    IF Live(s) THEN [s EXCEPT !.val = Wrap(v, t), !.type = t, !.known = TRUE] ELSE s
Nothing(s, t) == IF Live(s) THEN [s EXCEPT !.type = t, !.known = FALSE] ELSE s
Use(s) == IF Live(s) /\ ~s.known THEN [s EXCEPT !.mode = "undefined"] ELSE s

-----------------------------------------------------------------------------
(* Variables: of the innermost block that declares the name, the one       *)
(* declared first in it.                                                   *)

Place(s, name) ==
    LET has(k) == {i \in 1..Len(s.env[k]) : s.env[k][i].name = name}
        k == Max({k \in 1..Len(s.env) : has(k) # {}})
    IN  <<k, Min(has(k))>>

Var(s, name) == LET p == Place(s, name) IN s.env[p[1]][p[2]]

Bind(s, name, t) ==
    IF ~Live(s) THEN s
    ELSE [s EXCEPT !.env[Len(s.env)] = Append(@, [name |-> name, type |-> t, val |-> s.val])]

Assigned(s, name) ==
    LET p == Place(s, name)
    IN  [s EXCEPT !.env[p[1]][p[2]].val = Wrap(s.val, Var(s, name).type)]

-----------------------------------------------------------------------------
(* Functions.                                                              *)

FunAt(name) == CHOOSE i \in 1..Len(Src) : Src[i].node = "fun" /\ Src[i].word = name

ParamsOf(i) ==
    LET n == CHOOSE n \in 0..Len(Src) : /\ Src[i + n + 1].node # "param"
                                        /\ \A k \in 1..n : Src[i + k].node = "param"
    IN  SubSeq(Src, i + 1, i + n)

PrintType == [print8 |-> "i8", print16 |-> "i16", print32 |-> "i32", print64 |-> "i64"]
IsPrint(name) == name \in DOMAIN PrintType

ArgTypes(name) ==
    IF IsPrint(name) THEN <<PrintType[name]>>
    ELSE [k \in 1..Len(ParamsOf(FunAt(name))) |-> ParamsOf(FunAt(name))[k].type]

-----------------------------------------------------------------------------
(* Operators, on integers.                                                 *)

Truth(b) == IF b THEN 1 ELSE 0

OfOne(op, x) == CASE op = "sign" -> -x
                  [] op = "neg"  -> Truth(x = 0)
                  [] op = "bneg" -> -x - 1

OfTwo(op, x, y) == CASE op = "add"    -> x + y
                     [] op = "sub"    -> x - y
                     [] op = "mul"    -> x * y
                     [] op = "and"    -> Truth(x # 0 /\ y # 0)
                     [] op = "or"     -> Truth(x # 0 \/ y # 0)
                     [] op = "setlt"  -> Truth(x < y)
                     [] op = "setgt"  -> Truth(x > y)
                     [] op = "setle"  -> Truth(x <= y)
                     [] op = "setge"  -> Truth(x >= y)
                     [] op = "seteq"  -> Truth(x = y)
                     [] op = "setneq" -> Truth(x # y)

-----------------------------------------------------------------------------
RECURSIVE Expr(_, _), Args(_, _, _, _), Stmt(_), Stmts(_), Branch(_, _), Branches(_, _), Loop(_)

Block(s, on) ==
    LET b == After(s, Stmts([Where(s, on) EXCEPT !.env = Append(@, <<>>)]))
    IN  [b EXCEPT !.env = Front(@)]

\* Evaluates the arguments from the last to the first.
Args(s, types, k, vals) ==
    IF k = 0 THEN [s |-> s, vals |-> vals]
    ELSE LET x == Use(Expr(s, types[k])) IN Args(x, types, k - 1, <<x.val>> \o vals)

\* A function's value is what it returns, 0 where it ends without a return, and
\* nothing after a return without an expression or for the type unit.
Invoke(s, name, vals, t) ==
    LET f     == FunAt(name)
        scope == [k \in 1..Len(vals) |->
                     [name |-> ParamsOf(f)[k].word, type |-> ParamsOf(f)[k].type, val |-> vals[k]]]
        b     == Stmts(Start(f + Len(vals) + 1, scope, s.out, s.steps))
        r     == [s EXCEPT !.out = b.out, !.steps = b.steps,
                           !.mode = IF b.mode = "returned" THEN "live" ELSE b.mode]
    IN  CASE Src[f].type = "unit" \/ (b.mode = "returned" /\ ~b.known) -> Nothing(r, t)
          [] b.mode = "returned"                     -> Put(r, t, Wrap(b.val, Src[f].type))
          [] OTHER                                   -> Put(r, t, 0)

\* What is printed is the argument; printing has no value.
CallFun(s, name, vals, t) ==
    IF IsPrint(name)
    THEN Nothing([s EXCEPT !.out = Append(@, vals[1])], t)
    ELSE Invoke(s, name, vals, Wanted(t, Src[FunAt(name)].type))

Expr(s, t) ==
    LET n == Src[s.pos]
        r == Past(s)
    IN  CASE n.node = "int" -> Put(r, Wanted(t, "i32"), n.n)
          [] n.node = "ident" ->
                 IF ~Live(r) THEN r
                 ELSE Put(r, Wanted(t, Var(r, n.word).type), Var(r, n.word).val)
          [] n.node = "unary" ->
                 LET x == Use(Expr(r, t)) IN Put(x, x.type, OfOne(n.word, x.val))
          [] n.node = "binary" ->
                 LET x == Use(Expr(r, t))
                     y == Use(Expr(x, x.type))
                 IN  Put(y, y.type, OfTwo(n.word, x.val, y.val))
          [] n.node = "assign" ->
                 LET x == Use(Expr(r, IF Live(r) THEN Wanted(t, Var(r, n.word).type) ELSE t))
                 IN  IF ~Live(x) THEN x ELSE Assigned(x, n.word)
          [] n.node = "update" ->
                 LET x == Use(Expr(r, IF Live(r) THEN Wanted(t, Var(r, n.word).type) ELSE t))
                 IN  IF ~Live(x) THEN x
                     ELSE Assigned(Put(x, x.type, OfTwo(n.type, Var(r, n.word).val, x.val)), n.word)
          [] n.node = "call" ->
                 LET a == Args(r, ArgTypes(n.word), n.n, <<>>)
                 IN  IF ~Live(a.s) THEN a.s ELSE CallFun(a.s, n.word, a.vals, t)

\* if, the "else if" and "else" that follow, up to the end: open until one of
\* the branches has been taken.
Branch(s, open) ==
    LET c     == After(s, Use(Expr(Where(s, open), "unit")))
        taken == open /\ c.val # 0
    IN  Branches(Block(c, taken), open /\ ~taken)

Branches(s, open) ==
    LET n == Src[s.pos].node
    IN  CASE n = "fi"     -> Past(s)
          [] n = "elseif" -> Branch(Past(s), open)
          [] n = "else"   -> Branches(Block(Past(s), open), FALSE)

Loop(s) ==
    LET c    == Use(Expr(s, "unit"))
        turn == Block(c, c.val # 0)
    IN  IF Live(turn) /\ c.val # 0 THEN Loop([turn EXCEPT !.pos = s.pos]) ELSE turn

Stmt(s) ==
    LET n == Src[s.pos]
        r == Past(s)
    IN  CASE n.node = "var"     -> Bind(Put(r, n.type, 0), n.word, n.type)
          [] n.node = "varinit" -> Bind(Use(Expr(r, n.type)), n.word, n.type)
          [] n.node = "if"      -> Branch(r, TRUE)
          [] n.node = "while"   -> Loop(r)
          [] n.node = "block"   -> Block(r, TRUE)
          [] n.node = "match"   -> r
          [] n.node = "do"      -> Expr(r, "unit")
          [] n.node = "leave"   -> IF Live(r) THEN [r EXCEPT !.mode = "returned", !.known = FALSE]
                                   ELSE r
          [] n.node = "return"  -> LET x == Use(Expr(r, "unit"))
                                   IN  IF Live(x) THEN [x EXCEPT !.mode = "returned"] ELSE x

Stmts(s) ==
    IF Src[s.pos].node = "end" THEN Past(s)
    ELSE IF ~Live(s) THEN Stmts(Stmt(s))
    ELSE IF s.steps = MaxSteps THEN Stmts([s EXCEPT !.mode = "endless"])
    ELSE Stmts(Stmt([s EXCEPT !.steps = @ + 1]))

\* The source is carried out: main is.
Meaning == Stmts(Start(FunAt("main") + Len(ParamsOf(FunAt("main"))) + 1, <<>>, <<>>, 0))

=============================================================================
