-------------------------- MODULE GalachCodegenInv --------------------------
(***************************************************************************)
(* Inductive invariants of the code generator: what the recursion of the   *)
(* gh_emit_ functions keeps true between any two of its steps, and what    *)
(* the properties of GalachCodegen follow from.                            *)
(***************************************************************************)
EXTENDS GalachCodegen

-----------------------------------------------------------------------------
(* The shape of the C stack.                                               *)

\* The items of handlers that hold a type pointer.
CellSteps == {"endvar", "ifjz", "whilejz", "endreturn", "expr", "endarg",
              "endunary", "push", "endbin", "store", "endassgn"}

\* An item inside a function, when there are ntypes cells and nscopes scopes.
Nested(item, ntypes, nscopes) ==
    /\ item.step \notin {"decls", "endfun"}
    /\ item.step \in CellSteps => item.cell \in 1..ntypes
    /\ item.step = "endscope" => item.n \in 3..nscopes
    /\ item.step = "args" => item.n <= Len(item.fun.params)
    /\ item.step = "endarg" => item.n \in 1..Len(item.fun.params)
    /\ item.step = "endvar" => item.word \in Names
    /\ item.step = "endunary" => item.word \in UnaryOps
    /\ item.step \in {"push", "endbin"} => item.word \in ArithOps \cup SetOps
    /\ item.step = "endassgn" => item.word \in {"add", "sub", "mul", "div", "mod"}

\* gh_bytecode_compile is at the bottom, the function being emitted on top of
\* it, with its parameters read before anything else, ...
Handlers ==
    /\ work[1].step = "decls"
    /\ Len(work) > 1 => work[2].step = "endfun"
    /\ \A i \in 3..Len(work) : /\ Nested(work[i], Len(types), Len(scopes))
                               /\ work[i].step = "params" => Len(work) <= 3

\* ... the lists of locals are those of the handlers still running ...
Nesting ==
    /\ Len(work) > 1 <=> Len(scopes) > 1
    /\ Top.step = "params" => Len(scopes) <= 2
    /\ Len(scopes[1]) >= 1
    /\ \A i, j \in 3..Len(work) :
           i < j /\ work[i].step = "endscope" /\ work[j].step = "endscope"
               => work[i].n < work[j].n

\* ... and the function being emitted is the last one of funs.
Emitted ==
    /\ Len(work) > 1 /\ Top.step # "params" => funs # <<>>
    /\ \A k \in 1..Len(funs) : funs[k].offset <= bytes.used

Shape == Handlers /\ Nesting /\ Emitted

\* Where a compilation starts: Init, or what the source before has left.
Afresh ==
    /\ bytes = [code |-> <<>>, used |-> 0]
    /\ funs = <<>>
    /\ offset_counter \in Int /\ offset_counter <= 0
    /\ scopes = <<SysFuns>>
    /\ fun_ret_type \in Types
    /\ types = <<>>
    /\ work = <<Item("decls")>>
    /\ budget = MaxNodes
    /\ status = "compiling"

-----------------------------------------------------------------------------
(* The layout of frames.                                                   *)

\* A variable is a parameter, above the links, or has a slot that has been laid
\* out already.
Placed(local) ==
    /\ local.type # "unit"
    /\ \/ local.offset >= 16
       \/ local.offset >= offset_counter /\ local.offset + TypeSize(local.type) <= 0

Apart(l1, l2) == \/ l1.offset + TypeSize(l1.type) <= l2.offset
                 \/ l2.offset + TypeSize(l2.type) <= l1.offset

\* Functions live in the outermost scope, variables do not.
NoGlobals == \A i \in 1..Len(scopes[1]) : ~IsVar(1, i)

VarsPlaced ==
    \A k \in 1..Len(scopes) : \A i \in 1..Len(scopes[k]) :
        IsVar(k, i) => Placed(scopes[k][i])

VarsApart ==
    \A k, m \in 1..Len(scopes) : \A i \in 1..Len(scopes[k]), j \in 1..Len(scopes[m]) :
        IsVar(k, i) /\ IsVar(m, j) /\ <<m, j>> # <<k, i>> => Apart(scopes[k][i], scopes[m][j])

\* Frames grow downwards, ...
FrameBelow == offset_counter <= 0

\* ... and parameters are laid out upwards from 16.
ParamsUpwards ==
    Top.step = "params" =>
        /\ Top.offset >= 16
        /\ \A i \in 1..Len(scopes[2]) :
               LET p == scopes[2][i]
               IN  IsVar(2, i) => p.offset >= 16 /\ p.offset + TypeSize(p.type) <= Top.offset

Layout == NoGlobals /\ VarsPlaced /\ VarsApart /\ FrameBelow /\ ParamsUpwards

\* A function starts with an empty frame.  (Not so after a source that was given
\* up half-way.)
EmptyFrame == Len(work) <= 1 \/ Top.step = "params" => offset_counter = 0

-----------------------------------------------------------------------------
(* The code of functions.  The function being emitted is the last of funs; *)
(* nothing below it is written any more.                                   *)

Open  == Len(work) > 1 /\ Top.step # "params"
Home  == Last(funs).offset
Body  == Home + PrologueLen
Limit == IF Open THEN Home ELSE bytes.used

\* The functions that are complete lie below it.
Sealed ==
    \A k \in 1..Len(funs) : k < Len(funs) \/ ~Open =>
        /\ funs[k].offset + PrologueLen <= Limit
        /\ funs[k].offset + funs[k].nbytes <= Limit
        /\ funs[k].offset + 1 \in DOMAIN bytes.code

\* It has its prologue, and no length yet.
Begun ==
    Open => /\ Last(funs).nbytes = 0
            /\ Body <= bytes.used
            /\ Home + 1 \in DOMAIN bytes.code
            /\ bytes.code[Home + 1].op = "add_sp"

\* Where a branch may go: to an instruction of the body, or to the next one.
Lands(y) == y >= Body /\ y \in DOMAIN bytes.code \cup {bytes.used}

\* A handler that has the jump at address x still to patch.
Waits(item, x) == \/ item.step \in {"ifjmp", "endif", "endwhile"} /\ item.jz = x
                  \/ item.step = "endif" /\ item.jmp = x

IsJump(x) == x \in DOMAIN bytes.code /\ x >= Body /\ bytes.code[x].op \in Jumps

\* What a handler has to patch are jumps, and what it patches them with is a
\* place to go to.
Branch(item) ==
    /\ item.step \in {"whilejz", "endif", "endwhile"} => Lands(item.to)
    /\ \A x \in {item.jz, item.jmp} : Waits(item, x) /\ x # None => IsJump(x)
    /\ item.step = "endif" => item.jmp # None
    /\ item.step = "endwhile" => item.jz # None

Handled == Open => \A i \in 3..Len(work) : Branch(work[i])

\* Every other jump already goes where it should.
Landed ==
    Open => \A x \in DOMAIN bytes.code :
                x >= Home /\ bytes.code[x].op \in Jumps =>
                    Lands(bytes.code[x].arg) \/ \E i \in 3..Len(work) : Waits(work[i], x)

Branches == Sealed /\ Begun /\ Handled /\ Landed

-----------------------------------------------------------------------------
(* The accesses of functions.                                              *)

Accesses == {"mov_a_offset", "mov_offset_a"}

\* w bytes at an offset belong to a parameter, or to what has been laid out.
Within(offset, w) == offset >= 16 \/ (offset >= offset_counter /\ offset + w <= 0)

\* Every access of the function being emitted is to such a place, ...
Reached ==
    Open => \A x \in DOMAIN bytes.code :
                x >= Home /\ bytes.code[x].op \in Accesses =>
                    Within(bytes.code[x].arg, bytes.code[x].w)

\* ... and so is the store an assignment ends with: the cell that says its width
\* has the type of the variable and keeps it while the value is computed.
Assigned ==
    \A i \in 3..Len(work) : work[i].step \in {"store", "endassgn"} =>
        /\ types[work[i].cell] # "unit"
        /\ Within(work[i].offset, TypeSize(types[work[i].cell]))

=============================================================================
