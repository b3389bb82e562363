----------------------------- MODULE GalachDisas -----------------------------
(***************************************************************************)
(* The listing of debug.c that "galach -d" prints: gh_disas walks over the *)
(* bytes of every function on its own, by a table of operands that is not  *)
(* the machine's.  Of a line, its address is what is modelled.             *)
(***************************************************************************)
EXTENDS GalachCodegen

\* Mutant: the table does not know that SYSFUN has an operand.
ShownNoSysfun(i) == CASE i.op = "mov_imm" -> i.w
                      [] i.op \in {"mov_a_offset", "mov_offset_a", "add_sp", "call", "jz", "jmp"} -> 8
                      [] OTHER -> 0

\* The bytes of operand shown behind the opcode.
Shown(i) == CASE i.op = "mov_imm" -> i.w
              [] i.op \in {"mov_a_offset", "mov_offset_a", "add_sp", "call", "jz", "jmp",
                           "sysfun"} -> 8
              [] OTHER -> 0

\* A line of the listing: the operand is shown if it ends before the function.
Line(r, end) ==
    LET x == r.at
    IN  [lines |-> r.lines \cup {x},
         at    |-> IF x \notin DOMAIN bytes.code \/ end - (x + 1) < Shown(bytes.code[x])
                   THEN x ELSE x + 1 + Shown(bytes.code[x])]

\* gh_disas_func, n times round its loop: the addresses listed and the one it
\* has come to.  Where an operand is cut off it stays, for good.
Listing(f) ==
    LET end == f.offset + f.nbytes
        round[n \in Nat] ==
            IF n = 0 THEN [lines |-> {}, at |-> f.offset]
            ELSE LET r == round[n - 1] IN IF r.at >= end THEN r ELSE Line(r, end)
    IN  round[f.nbytes]

\* The listing of a program shows every instruction the generator emitted, each
\* at its address and nothing else: the walk never loses step with the code, and
\* of every function it ends at the end, neither cut off before nor run over.
ListsTheCode ==
    status = "done" =>
        /\ \A k \in 1..Len(funs) : Listing(funs[k]).at = funs[k].offset + funs[k].nbytes
        /\ UNION {Listing(funs[k]).lines : k \in 1..Len(funs)} = DOMAIN bytes.code

=============================================================================
