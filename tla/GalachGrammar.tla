---------------------------- MODULE GalachGrammar ----------------------------
(***************************************************************************)
(* What sequences of tokens are a source of the language, and as which     *)
(* tree: said by splitting a span of tokens i..j in the places where it    *)
(* can be split, without a direction to read in, a token to look ahead to  *)
(* or an error to recover from.                                            *)
(*                                                                         *)
(* Every operator is the set of the trees a span is, empty if it is none.  *)
(* An expression comes with its rank: 12 of what stands alone or between   *)
(* parentheses, 11 of a unary operator, 1 to 10 of a binary one, 0 of an   *)
(* assignment.                                                             *)
(***************************************************************************)
EXTENDS Naturals, Sequences, FiniteSetsExt, TLC

VARIABLE tokens   \* the last one is EOF

Tree(kind, tok, kids) == [kind |-> kind, tok |-> tok, kids |-> kids]
Nil     == Tree("null", 0, <<>>)
Name(i) == Tree("primary", i, <<Nil>>)

Id(i)     == tokens[i].id
Is(i, id) == i \in DOMAIN tokens /\ Id(i) = id
Ranked(tree, rank) == [tree |-> tree, rank |-> rank]

RankOf == ("||" :> 1) @@ ("&&" :> 2) @@ ("|" :> 3) @@ ("^" :> 4) @@ ("&" :> 5)
            @@ ("==" :> 6) @@ ("!=" :> 6) @@ (">" :> 7) @@ ("<" :> 7) @@ (">=" :> 7) @@ ("<=" :> 7)
            @@ ("<<" :> 8) @@ (">>" :> 8) @@ ("+" :> 9) @@ ("-" :> 9)
            @@ ("*" :> 10) @@ ("/" :> 10) @@ ("%" :> 10)

Types == {"unit", "i8", "u8", "i16", "u16", "i32", "u32", "i64", "u64", "f32", "f64"}

RECURSIVE Exprs(_, _), Args(_, _), Statement(_, _), Statements(_, _), Ifs(_, _, _),
          Selects(_, _), Params(_, _), Decls(_, _)

-----------------------------------------------------------------------------
Exprs(i, j) ==
    IF i > j THEN {}
    ELSE (IF i = j /\ Id(i) \in {"ident", "int", "float", "string"}
          THEN {Ranked(Name(i), 12)} ELSE {})
    \cup (IF Is(i, "ident") /\ Is(i + 1, "(") /\ Is(j, ")") /\ j > i + 1
          THEN {Ranked(Tree("primary", i, <<l>>), 12) : l \in Args(i + 2, j - 1)} ELSE {})
    \cup (IF Is(i, "(") /\ Is(j, ")")
          THEN {Ranked(x.tree, 12) : x \in Exprs(i + 1, j - 1)} ELSE {})
    \cup (IF Id(i) \in {"-", "!", "~"}
          THEN {Ranked(Tree("unary", i, <<x.tree>>), 11) :
                   x \in {x \in Exprs(i + 1, j) : x.rank >= 11}} ELSE {})
    \cup (IF Is(i, "ident") /\ i < j /\ Id(i + 1) \in {"=", "+=", "-=", "*=", "/=", "%="}
          THEN {Ranked(Tree("assgn", i + 1, <<Name(i), x.tree>>), 0) : x \in Exprs(i + 2, j)}
          ELSE {})
    \* Of the operators around it the loosest one is the root, the first of its rank.
    \cup UNION {UNION {{Ranked(Tree("binary", k, <<x.tree, y.tree>>), RankOf[Id(k)]) :
                            y \in {y \in Exprs(k + 1, j) : y.rank >= RankOf[Id(k)]}} :
                       x \in {x \in Exprs(i, k - 1) : x.rank > RankOf[Id(k)]}} :
                k \in {k \in (i + 1)..(j - 1) : Id(k) \in DOMAIN RankOf}}

\* Arguments: none, or one and after a comma the rest, which may be none.
Args(i, j) ==
    IF i > j THEN {Tree("clist", 0, <<Nil, Nil>>)}
    ELSE {Tree("clist", 0, <<x.tree, Nil>>) : x \in Exprs(i, j)}
    \cup UNION {UNION {{Tree("clist", 0, <<x.tree, l>>) : l \in Args(k + 1, j)} :
                       x \in Exprs(i, k - 1)} :
                k \in {k \in (i + 1)..j : Id(k) = ","}}

ExprTrees(i, j) == {x.tree : x \in Exprs(i, j)}
Where(i, j, id) == {k \in i..j : Id(k) = id}

-----------------------------------------------------------------------------
\* Statements follow each other without a mark between them: each is the longest
\* that begins where the one before ends.
Statements(i, j) ==
    IF i > j THEN {Nil}
    ELSE LET ends == {k \in i..j : Statement(i, k) # {}}
         IN  IF ends = {} THEN {}
             ELSE UNION {{Tree("statement", 0, <<c, r>>) : r \in Statements(Max(ends) + 1, j)} :
                         c \in Statement(i, Max(ends))}

Body(i, j) == IF i > j THEN {} ELSE Statements(i, j)

VarDecls(i, j) ==
    IF /\ Is(i, "var") /\ Is(i + 1, "ident") /\ Is(i + 2, ":")
       /\ i + 3 <= j /\ Id(i + 3) \in Types
    THEN {Tree("var", i + 3, <<Name(i + 1), x>>) :
             x \in IF j = i + 3 THEN {Nil}
                   ELSE IF Id(i + 4) = "=" THEN ExprTrees(i + 5, j) ELSE {}}
    ELSE {}

\* A condition, its statements, and the other branches; only the first branch is
\* opened by "if" alone, so the statements after an "else" do not begin with one.
Arm(i, j) ==
    UNION {UNION {Ifs(x, t + 1, j) : x \in ExprTrees(i, t - 1)} : t \in Where(i + 1, j, "then")}
Elses(i, j) ==
    CASE i > j -> {Nil}
      [] Is(i, "else") /\ Is(i + 1, "if") -> Arm(i + 2, j)
      [] Is(i, "else") /\ ~Is(i + 1, "if") -> Ifs(Nil, i + 1, j)
      [] OTHER -> {}
Ifs(x, i, j) ==
    UNION {UNION {{Tree("if", 0, <<x, b, r>>) : r \in Elses(k + 1, j)} : b \in Body(i, k)} :
           k \in {k \in i..j : k = j \/ Id(k + 1) = "else"}}

Selects(i, j) ==
    UNION {UNION {UNION {UNION {
        {Tree("mselect", 0, <<x, b, r>>) : r \in IF e = j THEN {Nil} ELSE Selects(e + 1, j)} :
            b \in Body(t + 1, e - 1)} :
            x \in ExprTrees(i, t - 1)} :
            e \in Where(t + 1, j, "end")} :
            t \in Where(i + 1, j, "then")}

Statement(i, j) ==
    CASE Id(i) = "var"    -> VarDecls(i, j)
      [] Id(i) = "if"     -> IF Is(j, "end") THEN Arm(i + 1, j - 1) ELSE {}
      [] Id(i) = "begin"  -> IF Is(j, "end") THEN Body(i + 1, j - 1) ELSE {}
      [] Id(i) = "return" -> {Tree("return", 0, <<x>>) :
                                  x \in IF i = j THEN {Nil} ELSE ExprTrees(i + 1, j)}
      [] Id(i) = "while"  ->
             IF ~Is(j, "end") THEN {}
             ELSE UNION {UNION {{Tree("while", 0, <<x, b>>) : b \in Body(k + 1, j - 1)} :
                                x \in ExprTrees(i + 1, k - 1)} : k \in Where(i + 1, j, "begin")}
      [] Id(i) = "match"  ->
             IF ~Is(j, "end") THEN {}
             ELSE UNION {UNION {{Tree("match", i, <<x, l>>) : l \in Selects(k + 1, j - 1)} :
                                x \in IF k = i + 1 THEN {Nil} ELSE ExprTrees(i + 1, k - 1)} :
                         k \in Where(i + 1, j, "begin")}
      [] OTHER             -> ExprTrees(i, j)

-----------------------------------------------------------------------------
Params(i, j) ==
    IF ~(i < j /\ Id(i) \in Types /\ Id(i + 1) = "ident") THEN {}
    ELSE IF j = i + 1 THEN {Tree("flist", i, <<Nil>>)}
    ELSE IF Id(i + 2) = "," THEN {Tree("flist", i, <<l>>) : l \in Params(i + 3, j)}
    ELSE {}

\* The body of a function may be empty.
Funs(i, j) ==
    IF ~(Is(i, "fun") /\ Is(i + 1, "ident") /\ Is(i + 2, "(") /\ Is(j, "end")) THEN {}
    ELSE UNION {UNION {{Tree("fun", i + 1, <<l, b>>) : b \in Statements(k + 4, j - 1)} :
                       l \in IF k = i + 3 THEN {Nil} ELSE Params(i + 3, k - 1)} :
                k \in {k \in (i + 3)..j : /\ Is(k, ")") /\ Is(k + 1, "->") /\ Is(k + 3, "begin")
                                          /\ Id(k + 2) \in Types}}

Decls(i, j) ==
    IF i > j THEN {Nil}
    ELSE UNION {UNION {{Tree("decl", 0, <<c, r>>) : r \in Decls(k + 1, j)} :
                       c \in Funs(i, k) \cup VarDecls(i, k)} :
                k \in {k \in i..j : k = j \/ Id(k + 1) \in {"fun", "var"}}}

Readings == Decls(1, Len(tokens) - 1) \ {Nil}

=============================================================================
