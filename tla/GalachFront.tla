----------------------------- MODULE GalachFront -----------------------------
(***************************************************************************)
(* The first half of gh_bytecode_src: a source is read, turned into tokens *)
(* and parsed.  The source is written piece by piece inside a frame, so    *)
(* that short sequences of pieces reach every construct.                   *)
(***************************************************************************)
EXTENDS GalachParser, FiniteSetsExt

CONSTANTS
    Modes,       \* [before, after, pieces, most]: the frame around the pieces,
                 \* the pieces there are, and the bound on how many are written
    MaxLexeme    \* bound: characters of a lexeme in these sources

VARIABLES mode,
          source,
          written,   \* pieces so far
          status,    \* "reading", then "lexed", "refused" or "undefined", "parsed"
          found_opt, \* is_optional as the parser found it
          parser     \* the parser's state where it returned

frontvars == <<tokens, mode, source, written, status, found_opt, parser>>

NotParsed == [at |-> 1, opt |-> FALSE, said |-> FALSE, past |-> FALSE, ok |-> FALSE,
              node |-> Null]

FrontInit ==
    /\ mode \in Modes
    /\ source = mode.before
    /\ written = 0
    /\ tokens = <<>>
    /\ status = "reading"
    /\ found_opt = FALSE
    /\ parser = NotParsed

Read(piece) ==
    /\ status = "reading"
    /\ written < mode.most
    /\ source' = source \o piece
    /\ written' = written + 1
    /\ UNCHANGED <<tokens, mode, status, found_opt, parser>>

Tokenise ==
    /\ status = "reading"
    /\ source' = source \o mode.after
    /\ LET l == Lex(source')
       IN  /\ tokens' = l.tokens
           /\ status' = IF l.outcome = "done" THEN "lexed" ELSE l.outcome
    /\ UNCHANGED <<mode, written, found_opt, parser>>

\* is_optional is a static: the parser of this source finds it as that of an
\* earlier one has left it.
ParseTokens ==
    /\ status = "lexed"
    /\ found_opt' \in BOOLEAN
    /\ parser' = Parse(found_opt')
    /\ status' = "parsed"
    /\ UNCHANGED <<tokens, mode, source, written>>

FrontDone == status \in {"parsed", "refused", "undefined"} /\ UNCHANGED frontvars

FrontNext == (\E piece \in mode.pieces : Read(piece)) \/ Tokenise \/ ParseTokens \/ FrontDone

FrontSpec == FrontInit /\ [][FrontNext]_frontvars

-----------------------------------------------------------------------------
(* What tokens there are, each said for itself.                            *)

All(t, chars) == \A k \in 1..Len(t) : At(t, k) \in chars

IsWord(t)   == At(t, 1) \in Alphas /\ All(t, Alphas \cup Digits)
IsInt(t)    == t # "" /\ All(t, Digits)
IsNumber(t) == /\ t # "" /\ All(t, Digits \cup {"."})
               /\ Cardinality({k \in 1..Len(t) : At(t, k) = "."}) <= 1

\* Between its quotes a string has neither a quote nor a control character, and
\* its backslashes and what they escape pair up.
IsString(t) ==
    LET n == Len(t)
        escaped[k \in 1..n] == k > 2 /\ At(t, k - 1) = "\\" /\ ~escaped[k - 1]
    IN  /\ n >= 2 /\ At(t, 1) = "\"" /\ At(t, n) = "\"" /\ ~escaped[n]
        /\ \A k \in 2..(n - 1) : /\ At(t, k) \notin {"\"", "\t", "\n", "\r"}
                                 /\ escaped[k] => At(t, k) \in Escapes

IsLexeme(t) == t \in Singles \cup Pairs \/ IsWord(t) \/ IsNumber(t) \/ IsString(t)

\* The number digits spell.
Spelled(t) ==
    LET upto[k \in 0..Len(t)] == IF k = 0 THEN 0 ELSE upto[k - 1] * 10 + Digit(At(t, k))
    IN  upto[Len(t)]

\* A word that goes on behind a keyword is read as that keyword.
Swallowed(t) == \E kw \in Keywords : Len(t) > Len(kw) /\ SubSeq(t, 1, Len(kw)) = kw

\* The first place from i on that is not blank, and where the lexeme that begins
\* there ends: as late as it can.
Begin(i) == Min({k \in i..(Len(source) + 1) : At(source, k) \notin Blanks})
Ends(i)  == {e \in i..Min({Len(source), i + MaxLexeme - 1}) : IsLexeme(SubSeq(source, i, e))}

\* Behind which places lines begin, and the place a line and a column name.
Lines == {0} \cup {k \in 1..Len(source) : At(source, k) = "\n"}
PlaceOf(t, lines) == t.colno + CHOOSE k \in lines :
                                   Cardinality({m \in lines : m <= k}) = t.lineno

IsRead(t, text) ==
    CASE IsWord(text)   -> Swallowed(text) \/ t.id = IF text \in Keywords THEN text ELSE "ident"
      [] IsInt(text)    -> t.id = "int" /\ t.value = Spelled(text) % IntCap
      [] IsNumber(text) -> t.id = "float"
      [] IsString(text) -> t.id = "string"
      [] OTHER          -> t.id = text

\* The tokens are the source, all of it and nothing else: from each token to the
\* next there is one lexeme, the longest that begins there, then blanks; what a
\* token says of its line and its column finds that lexeme again.
TokensAreTheSource ==
    status = "lexed" =>
        LET lines   == Lines
            from[k \in 1..Len(tokens)] == PlaceOf(tokens[k], lines)
            to[k \in 0..Len(tokens)]   == IF k = 0 THEN 0 ELSE Max(Ends(from[k]) \cup {from[k]})
        IN  /\ tokens[Len(tokens)].id = "eof" /\ from[Len(tokens)] = Len(source) + 1
            /\ \A k \in 1..Len(tokens) : from[k] = Begin(to[k - 1] + 1)
            /\ \A k \in 1..(Len(tokens) - 1) :
                  /\ from[k] \in 1..to[k]
                  /\ IsLexeme(SubSeq(source, from[k], to[k]))
                  /\ IsRead(tokens[k], SubSeq(source, from[k], to[k]))

\* A source is refused, or read behind its end, only where it comes to a place
\* that no lexeme begins at.
RefusesNoSource ==
    status \in {"refused", "undefined"} =>
        LET stuck[i \in 1..(Len(source) + 1)] ==
                LET b == Begin(i)
                IN  b <= Len(source) /\ (Ends(b) = {} \/ stuck[Max(Ends(b)) + 1])
        IN  stuck[1]

-----------------------------------------------------------------------------
(* What the parser owes the grammar.                                       *)

Grammar == INSTANCE GalachGrammar

\* Every source of the grammar is accepted, without an error told, as the tree
\* the grammar has for it and with nothing left over; and whatever an earlier
\* source or an earlier assignment has left in is_optional.
AcceptsTheGrammar ==
    status = "parsed" =>
        \A tree \in Grammar!Readings :
            /\ parser.ok /\ ~parser.said /\ ~parser.past
            /\ parser.node = tree
            /\ parser.at = Len(tokens)

\* Where a failure was not looked at, the tree shows it: an operator without its
\* operand, a name where a call stands, a match without its expression, a function
\* without the parameters or the body the source has.
RECURSIVE HasLost(_)
HasLost(n) ==
    \/ n.kind = "unary" /\ n.kids[1] = Null
    \/ n.kind = "primary" /\ n.kids[1] = Null /\ tokens[n.tok].id = "ident"
                          /\ tokens[n.tok + 1].id = "("
    \/ n.kind = "match" /\ n.kids[1] = Null /\ tokens[n.tok + 1].id # "begin"
    \/ n.kind = "fun" /\ n.kids[1] = Null /\ tokens[n.tok + 2].id # ")"
    \/ /\ n.kind = "fun" /\ n.kids[2] = Null
       /\ LET b == {k \in n.tok..Len(tokens) : tokens[k].id = "begin"}
          IN  b = {} \/ tokens[Min(b) + 1].id # "end"
    \/ \E k \in 1..Len(n.kids) : HasLost(n.kids[k])

\* What is accepted without an error told, and without a look behind the EOF, is
\* a source of the grammar with the tree the grammar has for it, unless a failure
\* that was not looked at has left its gap in the tree: no other token is passed
\* over, and no other tree is made up, on the paths that go on after an error.
AcceptsNothingElse ==
    status = "parsed" /\ parser.ok /\ ~parser.said /\ ~parser.past =>
        parser.node \in Grammar!Readings \/ HasLost(parser.node)

\* The declarations of an accepted source, in their order.
RECURSIVE DeclsOf(_)
DeclsOf(n) == IF n = Null THEN <<>> ELSE <<n.kids[1]>> \o DeclsOf(n.kids[2])

\* Whether statements are missing in the tokens b..e where only a function's own
\* body may have none: the one failure that has no message at all.
HasEmpty(b, e) ==
    LET own == {k \in b..e : tokens[k].id = "begin"}
    IN  \E k \in b..e : /\ tokens[k].id \in {"begin", "then", "else"} /\ k # Min(own)
                        /\ tokens[k + 1].id \in {"end", "else"}

\* A declaration loses nothing - no arguments, operand, parameters or body - without
\* a message, unless statements are missing in it or is_optional may be set there:
\* by an assignment or within a return of its own, or because it was set where the
\* declaration begins.  There it is as the parser found it, until an assignment sets
\* it, and it is clear behind a declaration whose last such statement is a return
\* (unless that has gaps: it may have passed over the return).
LossesAreTold ==
    status = "parsed" /\ parser.ok /\ ~parser.said /\ ~parser.past =>
        LET decls   == DeclsOf(parser.node)
            first(k) == decls[k].tok
            last(k)  == IF k = Len(decls) THEN Len(tokens) - 1 ELSE first(k + 1) - 1
            setters(k) == {m \in first(k)..last(k) : tokens[m].id \in AssignIds \cup {"return"}}
            set[k \in 0..Len(decls)] ==
                IF k = 0 THEN found_opt
                ELSE IF setters(k) = {} THEN set[k - 1]
                ELSE tokens[Max(setters(k))].id = "return" => HasLost(decls[k])
        IN  \A k \in 1..Len(decls) :
               HasLost(decls[k]) => \/ set[k - 1] \/ setters(k) # {}
                                    \/ HasEmpty(first(k), last(k))

=============================================================================
