------------------------------ MODULE MCFront ------------------------------
(* Instances of the front end for TLC. *)
EXTENDS GalachFront

Mode(before, pieces, after, most) ==
    [before |-> before, pieces |-> pieces, after |-> after, most |-> most]

\* Characters in every order: what tokens are made of.
Characters ==
    Mode("", {"i", "f", "8", ".", "=", ">", "-", "\"", "\\", "n", " ", "\n", "$"}, "", 4)

\* Expressions, alone in the body of a function.
Expressions ==
    Mode("fun f() -> i8 begin ", {"x ", "1 ", "( ", ") ", "- ", "* ", "= "}, "end", 5)

\* Arguments of a call, calls among them.
Arguments ==
    Mode("fun f() -> i8 begin x ( ", {"x ", "x ( ", ") ", ", ", "- ", "= "}, "end", 5)

\* Statements of every kind, whole and in part.
StatementLists ==
    Mode("fun f() -> i8 begin ",
         {"x ", "- ", "= ", "return ", "begin ", "end ", "if x then ", "while x ", "match ",
          "x then "}, "end", 4)

\* Statements nested in each other, two of them still open where the pieces end.
Nests ==
    Mode("fun f() -> i8 begin ",
         {"x ", "end ", "begin ", "if x then x ", "else x ", "else if x then ", "while x begin ",
          "match begin ", "x then return "}, "end end", 4)

\* Declarations, behind a function whose body assigns.
Declarations ==
    Mode("fun f() -> i8 begin x = 1 end ",
         {"fun g ( i8 x ", "fun g ( ", ", i8 x ", "i8 ", ") -> i8 begin x ", "end ",
          "var x : "}, "", 4)

\* What does not parse, behind assignments and returns of the same function and of
\* the ones before.
Gaps ==
    Mode("fun f() -> i8 begin ",
         {"x = 1 ", "return x ", "x ( ", "- ", "match ", "end fun g() -> i8 begin "},
         "end", 5)

AllModes == {Characters, Expressions, Arguments, StatementLists, Nests, Declarations, Gaps}

=============================================================================
