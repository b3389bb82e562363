----------------------------- MODULE GalachLexer -----------------------------
(***************************************************************************)
(* The lexer of token.c: gh_token_init turns the characters of a source    *)
(* into tokens, each with the place it was found at.                       *)
(*                                                                         *)
(* A source is a string, c is a place in it, counted from 1; behind its    *)
(* last character stands the NUL, here "".  The id of a keyword or of an   *)
(* operator is its spelling.  What a float or a string literal says is     *)
(* left out: no later part of the program uses a string, and a float is a  *)
(* pattern of bits to all of them.                                         *)
(***************************************************************************)
EXTENDS Naturals, Sequences, FiniteSets, TLC

CONSTANT IntCap   \* u64 holds 0..IntCap-1

ASSUME LexerAssumption == IntCap \in Nat \ {0}

At(s, c)   == IF c <= Len(s) THEN SubSeq(s, c, c) ELSE ""
Pair(s, c) == IF c < Len(s) THEN SubSeq(s, c, c + 1) ELSE ""

Digits == {"0", "1", "2", "3", "4", "5", "6", "7", "8", "9"}
Alphas == {"_", "a", "b", "c", "d", "e", "f", "g", "h", "i", "j", "k", "l", "m", "n", "o", "p",
           "q", "r", "s", "t", "u", "v", "w", "x", "y", "z"}
Blanks == {" ", "\t", "\n", "\r"}

\* keyword_map
TypeWords == {"unit", "i8", "u8", "i16", "u16", "i32", "u32", "i64", "u64", "f32", "f64"}
Keywords  == TypeWords \cup {"var", "fun", "while", "if", "then", "else", "match", "return",
                             "begin", "end", "true", "false"}

\* The characters that are an operator, and the pairs that are another.
Singles == {"=", "+", "*", "/", "%", "!", "-", ">", "<", "&", "|", "^", "~", "(", ")", ",", ":"}
Pairs   == {"==", "+=", "*=", "/=", "%=", "!=", "->", "-=", ">=", ">>", "<=", "<<", "&&", "||"}

\* Mutant: a word is a keyword only if it is the keyword's beginning.
WordIdPrefix(word) ==
    LET kws == {kw \in Keywords : Len(kw) >= Len(word) /\ SubSeq(kw, 1, Len(word)) = word}
    IN  IF kws = {} THEN "ident" ELSE CHOOSE kw \in kws : TRUE

\* gh_parse_kw_or_ident with gh_cmp_kw, which is content with a word that
\* begins with the keyword.
WordId(word) ==
    LET kws == {kw \in Keywords : Len(word) >= Len(kw) /\ SubSeq(word, 1, Len(kw)) = kw}
    IN  IF kws = {} THEN "ident" ELSE CHOOSE kw \in kws : TRUE

RECURSIVE Skip(_, _, _), Value(_, _, _, _), Closing(_, _), Escaped(_, _, _), Scan(_, _, _, _, _)

\* The first place from c on whose character is none of these.
Skip(s, c, chars) == IF At(s, c) \in chars THEN Skip(s, c + 1, chars) ELSE c

\* gh_parse_number: the digits from c to before e, after those that make x.
Digit(ch) == CHOOSE d \in 0..9 : ToString(d) = ch
Value(s, c, e, x) ==
    IF c = e THEN x ELSE Value(s, c + 1, e, (x * 10 + Digit(At(s, c))) % IntCap)

\* The first loop of gh_parse_string: a backslash takes the next character with
\* it, whatever it is.
Closing(s, e) ==
    CASE At(s, e) = "\\"                 -> Closing(s, e + 2)
      [] At(s, e) \in {"", "\"", "\t", "\n", "\r"} -> e
      [] OTHER                           -> Closing(s, e + 1)

Escapes == {"a", "b", "n", "t", "r", "\\"}

\* Mutant: the escaped character is looked at again.
EscapedAgain(s, c, e) ==
    \/ c >= e
    \/ At(s, c) # "\\" /\ Escaped(s, c + 1, e)
    \/ At(s, c) = "\\" /\ At(s, c + 1) \in Escapes /\ Escaped(s, c + 1, e)

\* The second: of every backslash that is not itself escaped, the next
\* character must be one of these.
Escaped(s, c, e) ==
    \/ c >= e
    \/ At(s, c) # "\\" /\ Escaped(s, c + 1, e)
    \/ At(s, c) = "\\" /\ At(s, c + 1) \in Escapes /\ Escaped(s, c + 2, e)

Lexed(outcome, tokens) == [outcome |-> outcome, tokens |-> tokens]

\* gh_token_init: from place c on, in line lineno, which starts at linestart.
Scan(s, c, lineno, linestart, tokens) ==
    LET ch == At(s, c)
        token(id, value) == Append(tokens, [id |-> id, value |-> value, lineno |-> lineno,
                                            colno |-> c - linestart + 1])
        go(id, value, next) == Scan(s, next, lineno, linestart, token(id, value))
    IN  CASE ch = "" -> Lexed("done", token("eof", 0))
          [] ch = "\n" -> Scan(s, c + 1, lineno + 1, c + 1, tokens)
          [] ch \in Blanks \ {"\n"} -> Scan(s, c + 1, lineno, linestart, tokens)
          [] Pair(s, c) \in Pairs -> go(Pair(s, c), 0, c + 2)
          [] ch \in Singles /\ Pair(s, c) \notin Pairs -> go(ch, 0, c + 1)
          [] ch = "\"" ->
                 LET e == Closing(s, c + 1)
                 IN  CASE e > Len(s) + 1 -> Lexed("undefined", <<>>)
                       [] At(s, e) = "\"" /\ Escaped(s, c + 1, e) -> go("string", 0, e + 1)
                       [] OTHER -> Lexed("refused", <<>>)
          [] ch \in Digits \cup {"."} ->
                 LET e == Skip(s, c, Digits)
                 IN  IF At(s, e) = "." THEN go("float", 0, Skip(s, e + 1, Digits))
                     ELSE go("int", Value(s, c, e, 0), e)
          [] ch \in Alphas ->
                 LET e == Skip(s, c, Alphas \cup Digits)
                 IN  go(WordId(SubSeq(s, c, e - 1)), 0, e)
          [] OTHER -> Lexed("refused", <<>>)

Lex(s) == Scan(s, 1, 1, 1, <<>>)

=============================================================================
