---------------------------- MODULE GalachParser ----------------------------
(***************************************************************************)
(* The parser of ast.c: recursive descent over the tokens of one source.   *)
(*                                                                         *)
(* A handler takes the parser's state s and returns it as it leaves it:    *)
(*   at    the token *tidx points to                                       *)
(*   opt   is_optional: errors are not told, and some handlers go back to  *)
(*         where they began when they fail                                 *)
(*   said  an error has been told                                          *)
(*   past  a token behind the EOF has been looked at, which is undefined   *)
(*   ok    FALSE while a failure is on its way out; a handler that is      *)
(*         given such a state does nothing, so that handlers are chained   *)
(*         as the C chains them with EXPECT and TRY                        *)
(*   node  the node returned, Null if none is                              *)
(***************************************************************************)
EXTENDS GalachLexer

VARIABLE tokens   \* of the source, the last one EOF

\* A node, the token that tells it from others of its kind, and its children.
Node(kind, tok, kids) == [kind |-> kind, tok |-> tok, kids |-> kids]
Null == Node("null", 0, <<>>)

Id(s)      == IF s.at <= Len(tokens) THEN tokens[s.at].id ELSE "beyond"
Advance(s) == [s EXCEPT !.at = @ + 1]
Fail(s)    == [s EXCEPT !.ok = FALSE, !.node = Null]
Tell(s)    == [s EXCEPT !.said = @ \/ ~s.opt]

\* EXPECT((*tidx)++, id, e0), which goes past a token it does not expect too ...
Expect(s, id) ==
    IF ~s.ok THEN s ELSE IF Id(s) = id THEN Advance(s) ELSE Fail(Tell(Advance(s)))

\* ... and EXPECT(*tidx, id, e0) and EXPECT_TYPE, which do not.
ExpectOf(s, ids) ==
    IF ~s.ok THEN s ELSE IF Id(s) \in ids THEN Advance(s) ELSE Fail(Tell(s))

\* e0: if (is_optional) *tidx = start.
Back(s, r) == IF ~r.ok /\ r.opt THEN [r EXCEPT !.at = s.at] ELSE r

\* A result that is used untested: a failure is forgotten, and the next token is
\* looked at wherever the failure has left *tidx.
Untested(r) == [r EXCEPT !.ok = TRUE, !.past = @ \/ r.at > Len(tokens)]

\* TRY takes a NULL for a failure.
NotNull(r) == IF r.ok /\ r.node = Null THEN Fail(r) ELSE r

Give(r, kind, tok, kids) == IF r.ok THEN [r EXCEPT !.node = Node(kind, tok, kids)] ELSE r

Literals  == {"ident", "int", "float", "string"}
UnaryIds  == {"!", "~", "-"}
AssignIds == {"=", "+=", "-=", "*=", "/=", "%="}

\* The binary operators, the loosest first: or .. factor.
Levels == <<{"||"}, {"&&"}, {"|"}, {"^"}, {"&"}, {"==", "!="}, {">", "<", ">=", "<="},
            {"<<", ">>"}, {"+", "-"}, {"*", "/", "%"}>>

RECURSIVE Binary(_, _), Unary(_), Clist(_), Branches(_), Selects(_), Flist(_), Decls(_), Call(_, _)

-----------------------------------------------------------------------------
(* Expressions.                                                            *)

\* gh_ast_parse_clist, up to the parenthesis: a node for every argument, and an
\* empty one where none stands, after a comma or in ().
Clist(s) ==
    IF Id(s) = ")" THEN Give(s, "clist", 0, <<Null, Null>>)
    ELSE LET x == Call("expr", s)
         IN  IF x.ok /\ Id(x) = ","
             THEN LET l == Clist(Advance(x)) IN Give(l, "clist", 0, <<x.node, l.node>>)
             ELSE Give(x, "clist", 0, <<x.node, Null>>)

\* A call whose arguments do not parse is left without them.
Primary(s) ==
    IF Id(s) \in Literals
    THEN LET i == Advance(s)
             l == Untested(Expect(Clist(Advance(i)), ")"))
         IN  IF Id(s) = "ident" /\ Id(i) = "("
             THEN Give(l, "primary", s.at, <<l.node>>)
             ELSE Give(i, "primary", s.at, <<Null>>)
    ELSE Back(s, Expect(Call("expr", Expect(s, "(")), ")"))

Unary(s) ==
    IF Id(s) \in UnaryIds
    THEN LET x == Untested(Unary(Advance(s))) IN Give(x, "unary", s.at, <<x.node>>)
    ELSE Primary(s)

\* Mutant: the second operand is one of the next level.
BinaryOnce(l, s) ==
    IF l > Len(Levels) THEN Unary(s)
    ELSE LET x == Binary(l + 1, s)
             y == Binary(l + 1, Advance(x))
         IN  IF x.ok /\ Id(x) \in Levels[l]
             THEN Back(s, Give(y, "binary", x.at, <<x.node, y.node>>))
             ELSE Back(s, x)

\* PARSE_BRANCH and PARSE_BRANCH_OP
Binary(l, s) ==
    IF l > Len(Levels) THEN Unary(s)
    ELSE LET x == Binary(l + 1, s)
             y == Binary(l, Advance(x))
         IN  IF x.ok /\ Id(x) \in Levels[l]
             THEN Back(s, Give(y, "binary", x.at, <<x.node, y.node>>))
             ELSE Back(s, x)

Assgn(s) ==
    LET i == ExpectOf(s, {"ident"})
        o == ExpectOf(i, AssignIds)
        x == Call("expr", o)
    IN  Back(s, Give(x, "assgn", i.at, <<Node("primary", s.at, <<Null>>), x.node>>))

\* is_optional is set back to what it was only where there is no assignment.
Expr(s) ==
    IF ~s.ok THEN s
    ELSE LET a == Assgn([s EXCEPT !.opt = TRUE])
             x == Binary(1, [a EXCEPT !.opt = s.opt, !.ok = TRUE])
         IN  IF a.ok THEN a ELSE IF x.ok THEN x ELSE Tell(x)

-----------------------------------------------------------------------------
(* Statements.                                                             *)

Var(s) ==
    LET i == ExpectOf(Expect(s, "var"), {"ident"})
        t == ExpectOf(Expect(i, ":"), TypeWords)
        x == Call("expr", Advance(t))
    IN  IF t.ok /\ Id(t) = "="
        THEN Give(x, "var", t.at - 1, <<Node("primary", i.at - 1, <<Null>>), x.node>>)
        ELSE Give(t, "var", t.at - 1, <<Node("primary", i.at - 1, <<Null>>), Null>>)

\* The chain of "else" and "else if" after the statements of an if.
Branches(s) ==
    IF ~s.ok \/ Id(s) # "else" THEN Give(s, "null", 0, <<>>)
    ELSE LET e == Advance(s)
             x == IF Id(e) = "if" THEN Call("expr", Advance(e)) ELSE Give(e, "null", 0, <<>>)
             b == NotNull(Call("statement", IF Id(e) = "if" THEN Expect(x, "then") ELSE x))
             r == Branches(b)
         IN  Give(r, "if", 0, <<x.node, b.node, r.node>>)

\* Mutant: the "end" is not expected.
IfWithoutEnd(s) ==
    LET x == Call("expr", Expect(s, "if"))
        b == NotNull(Call("statement", Expect(x, "then")))
        r == Branches(b)
    IN  Give(r, "if", 0, <<x.node, b.node, r.node>>)

If(s) ==
    LET x == Call("expr", Expect(s, "if"))
        b == NotNull(Call("statement", Expect(x, "then")))
        r == Branches(b)
    IN  Give(Expect(r, "end"), "if", 0, <<x.node, b.node, r.node>>)

Selects(s) ==
    LET x == Call("expr", s)
        b == Expect(NotNull(Call("statement", Expect(x, "then"))), "end")
        r == Selects(b)
    IN  IF ~b.ok THEN b
        ELSE IF Id(b) = "end" THEN Give(b, "mselect", 0, <<x.node, b.node, Null>>)
        ELSE Give(r, "mselect", 0, <<x.node, b.node, r.node>>)

Match(s) ==
    LET m == Expect(s, "match")
        x == IF m.ok /\ Id(m) # "begin" THEN Untested(Call("expr", m)) ELSE Give(m, "null", 0, <<>>)
        l == Selects(Expect(x, "begin"))
    IN  Give(Expect(l, "end"), "match", s.at, <<x.node, l.node>>)

While(s) ==
    LET x == Call("expr", Expect(s, "while"))
        b == NotNull(Call("block", x))
    IN  Give(b, "while", 0, <<x.node, b.node>>)

\* Mutant: is_optional stays set behind a return.
ReturnStaysOptional(s) ==
    LET x == Untested(Call("expr", [Expect(s, "return") EXCEPT !.opt = TRUE]))
    IN  Give(x, "return", 0, <<x.node>>)

\* is_optional is 0 behind every return, whatever it was before.
Return(s) ==
    LET x == Untested(Call("expr", [Expect(s, "return") EXCEPT !.opt = TRUE]))
    IN  Give([x EXCEPT !.opt = FALSE], "return", 0, <<x.node>>)

Statement(s) ==
    CASE Id(s) = "var"    -> Var(s)
      [] Id(s) = "if"     -> If(s)
      [] Id(s) = "match"  -> Match(s)
      [] Id(s) = "while"  -> While(s)
      [] Id(s) = "return" -> Return(s)
      [] Id(s) = "begin"  -> NotNull(Call("block", s))
      [] OTHER            -> Call("expr", s)

Statements(s) ==
    IF ~s.ok THEN s
    ELSE IF Id(s) \in {"end", "else"} THEN Give(s, "null", 0, <<>>)
    ELSE LET c == Statement(s)
             r == Call("statement", c)
         IN  Give(r, "statement", 0, <<c.node, r.node>>)

\* Statements that do not parse leave a block empty, if an "end" comes next.
Block(s) ==
    LET b == Expect(s, "begin")
        l == Untested(Call("statement", b))
    IN  IF ~b.ok THEN b ELSE Expect(l, "end")

\* The handlers that are declared ahead of those that call them.
Call(handler, s) ==
    CASE handler = "expr"      -> Expr(s)
      [] handler = "statement" -> Statements(s)
      [] handler = "block"     -> Block(s)

-----------------------------------------------------------------------------
(* Declarations.                                                           *)

Flist(s) ==
    LET i == ExpectOf(ExpectOf(s, TypeWords), {"ident"})
        l == Flist(Advance(i))
    IN  IF i.ok /\ Id(i) = "," THEN Give(l, "flist", s.at, <<l.node>>)
        ELSE Give(i, "flist", s.at, <<Null>>)

\* Of parameters, and of a body, that do not parse the function has none.
Fun(s) ==
    LET i == ExpectOf(Expect(s, "fun"), {"ident"})
        o == Expect(i, "(")
        l == IF o.ok /\ Id(o) # ")" THEN Untested(Flist(o)) ELSE Give(o, "null", 0, <<>>)
        t == ExpectOf(Expect(Expect(l, ")"), "->"), TypeWords)
        b == Untested(Call("block", t))
    IN  IF ~t.ok THEN t ELSE Give(b, "fun", i.at - 1, <<l.node, b.node>>)

Decls(s) ==
    IF ~s.ok THEN s
    ELSE CASE Id(s) = "eof" -> Give(s, "null", 0, <<>>)
           [] Id(s) \in {"fun", "var"} ->
                  LET c == IF Id(s) = "fun" THEN Fun(s) ELSE Var(s)
                      r == Decls(c)
                  IN  Give(r, "decl", 0, <<c.node, r.node>>)
           [] OTHER -> Fail([s EXCEPT !.said = TRUE])

\* gh_ast_init, on what an earlier source has left in is_optional.
Parse(opt) ==
    NotNull(Decls([at |-> 1, opt |-> opt, said |-> FALSE, past |-> FALSE, ok |-> TRUE,
                   node |-> Null]))

=============================================================================
