--------------------------- MODULE GalachCodegen ---------------------------
(***************************************************************************)
(* The code generator of bytecode.c: gh_bytecode_compile walks the AST and *)
(* appends instructions to bc->bytes, patching the operands it can only    *)
(* know later (a branch target, the size of a frame).                      *)
(*                                                                         *)
(* The recursion of the gh_emit_ functions is an explicit stack, work: its *)
(* last item is what is done next, an item is what a handler still has to  *)
(* do when the handler it called has returned.  The AST is not built       *)
(* beforehand: where a handler looks at the node it was given, the action  *)
(* chooses the node, so the behaviours are the compilations of every       *)
(* program the constants allow.                                            *)
(***************************************************************************)
EXTENDS GalachISA, SequencesExt

CONSTANTS
    FunHeads,    \* the functions the source may declare: [name, type]
    Params,      \* the parameters they may have: [name, type]
    VarNames,    \* the names it may declare as variables
    VarTypes,    \* and their declared types
    UsedNames,   \* the names its expressions read, assign and call
    Literals,    \* integer literals
    FloatImages, \* the bit patterns of its float literals
    UnOps,       \* unary operators, as the instruction they become
    BinOps,      \* binary operators, as the instruction (or SETcc) they become
    AssignOps,   \* "assign", or the arithmetic of a compound assignment
    MaxArgs,     \* bound: parameters of a function and arguments of a call
    MaxNodes,    \* bound: AST nodes below the declarations
    Shapes       \* the constructs the source may use

ASSUME SourceAssumption ==
    /\ FunHeads \cup Params \subseteq [name : STRING, type : Types]
    /\ VarNames \cup UsedNames \subseteq STRING
    /\ VarTypes \subseteq Types
    /\ Literals \cup FloatImages \subseteq Nat
    /\ UnOps \subseteq UnaryOps
    /\ BinOps \subseteq ArithOps \cup SetOps
    /\ AssignOps \subseteq {"assign", "add", "sub", "mul", "div", "mod"}
    /\ MaxArgs \in Nat
    /\ MaxNodes \in Nat

VARIABLES
    bytes,          \* bc->bytes: [code, used], code keyed by byte address
    funs,           \* bc->funs: a sequence of [offset, nbytes]
    main_idx,       \* index of main in funs; 0 while main_defined is 0
    offset_counter, \* the offset of the last local laid out, 0 or negative
    scopes,         \* the gh_local_list chain, outermost (global) first
    fun_ret_type,   \* the return type of the function being emitted
    types,          \* the gh_type variables made so far, which handlers point to
    work,           \* what is left to do, next item last
    budget,         \* AST nodes the source may still have
    status          \* "compiling", "done" or "failed"

vars == <<bytes, funs, main_idx, offset_counter, scopes, fun_ret_type,
          types, work, budget, status>>

-----------------------------------------------------------------------------
(* Locals and scopes.                                                      *)

\* The names a source can have in scope.
Names == {"", "print8", "print16", "print32", "print64"} \cup VarNames \cup UsedNames
           \cup {d.name : d \in FunHeads \cup Params}

Locals == [id : {"var", "fun", "sysfun"}, name : Names, type : Types,
           params : Seq(Types), offset : Int]

Local(id, name, type, params, offset) ==
    [id |-> id, name |-> name, type |-> type, params |-> params, offset |-> offset]

\* gh_register_sysfuns
SysFuns == <<Local("sysfun", "print8",  "unit", <<"i8">>,  0),
             Local("sysfun", "print16", "unit", <<"i16">>, 0),
             Local("sysfun", "print32", "unit", <<"i32">>, 0),
             Local("sysfun", "print64", "unit", <<"i64">>, 0)>>

\* get_sysfun: the index a system function is called by.
SysFunIdx(local) == CASE local.name = "print8"  -> 0
                      [] local.name = "print16" -> 1
                      [] local.name = "print32" -> 2
                      [] OTHER                  -> 3

\* Mutant: the outermost scope that knows the name.
FindOutermost(name) ==
    LET Has(k) == \E i \in 1..Len(scopes[k]) : scopes[k][i].name = name
        k == CHOOSE k \in 1..Len(scopes) : Has(k) /\ \A m \in 1..(k-1) : ~Has(m)
        i == CHOOSE i \in 1..Len(scopes[k]) :
                 /\ scopes[k][i].name = name
                 /\ \A j \in 1..(i-1) : scopes[k][j].name # name
    IN  scopes[k][i]

\* gh_find_local: the innermost scope that knows the name, and in it the
\* first local added with it.
Knows(k, name) == \E i \in 1..Len(scopes[k]) : scopes[k][i].name = name
Declared(name) == \E k \in 1..Len(scopes) : Knows(k, name)
Find(name) ==
    LET k == CHOOSE k \in 1..Len(scopes) :
                 /\ Knows(k, name)
                 /\ \A m \in (k+1)..Len(scopes) : ~Knows(m, name)
        i == CHOOSE i \in 1..Len(scopes[k]) :
                 /\ scopes[k][i].name = name
                 /\ \A j \in 1..(i-1) : scopes[k][j].name # name
    IN  scopes[k][i]

\* gh_add_local
AddLocal(local) == scopes' = [scopes EXCEPT ![Len(scopes)] = Append(@, local)]
OpenScope       == scopes' = Append(scopes, <<>>)

-----------------------------------------------------------------------------
(* Emitting code.                                                          *)

Emit(b, i) == [code |-> [x \in DOMAIN b.code \cup {b.used} |->
                            IF x = b.used THEN i ELSE b.code[x]],
               used |-> b.used + Length(i)]

\* No handler emits more than five instructions between two calls.
MaxRun == 5
EmitAll(b, s) ==
    LET step(c, k) == IF k <= Len(s) THEN Emit(c, s[k]) ELSE c
    IN  step(step(step(step(step(b, 1), 2), 3), 4), 5)

\* bc->bytes.used = addr; emitqw(arg); bc->bytes.used = tmp: overwrite the
\* operand of the instruction at address x.
Patch(b, x, arg) == [b EXCEPT !.code[x].arg = arg]

\* gh_emit_cast
CastFails(from, to) == \/ {from, to} \cap (FloatTypes \cup {"unit"}) # {}
                       \/ TypeSize(to) < TypeSize(from)
                       \/ TypeSize(from) = 1 /\ to = "u64"
\* Mutant: a sign is not extended.
CastCodeUnsigned(from, to) ==
    LET lo == WidthIdx(TypeSize(from))
    IN  [k \in 1..(WidthIdx(TypeSize(to)) - lo) |-> Instr("zext", Widths4[lo + k - 1], 0)]

CastCode(from, to) ==
    LET lo == WidthIdx(TypeSize(from))
    IN  [k \in 1..(WidthIdx(TypeSize(to)) - lo) |->
            Instr(IF IsSigned(to) /\ (k > 1 \/ IsSigned(from)) THEN "sext" ELSE "zext",
                  Widths4[lo + k - 1], 0)]

\* Mutant: operators at the width of int, whatever was pushed.
BinCodeInt(op, w) == IF op \in SetOps THEN <<Instr("cmp", 4, 0), Instr(op, 0, 0)>>
                                      ELSE <<Instr(op, 4, 0)>>

\* The suffix of a binary operator: OP_MULTI, and the SETcc of a comparison.
BinCode(op, w) == IF op \in SetOps THEN <<Instr("cmp", w, 0), Instr(op, 0, 0)>>
                                   ELSE <<Instr(op, w, 0)>>

-----------------------------------------------------------------------------
(* The work stack.  The fields an item does not use keep their blanks.     *)

None == -1

NoLocal == Local("fun", "", "unit", <<>>, 0)

Steps == {"decls", "params", "endfun", "stmts", "endscope", "endvar", "ifjz", "ifjmp", "endif",
          "whilejz", "endwhile", "endreturn", "expr", "args", "endarg",
          "endunary", "push", "endbin", "store", "endassgn"}

Operators == UnaryOps \cup ArithOps \cup SetOps \cup {"assign"}

Items == [step : Steps,
          word : Names \cup Operators, \* the name declared, or the operator
          n    : Nat,               \* params: how many there are; args: how many
                                    \* are left; stmts: 1 if it may end;
                                    \* endscope: the scope it closes
          cell : Nat,               \* the handler's type pointer, an index of types
          pop  : Nat,               \* args: the bytes pushed so far
          jz   : Nat \cup {None},   \* the address of a JZ to be patched
          jmp  : Nat \cup {None},   \* the address of a JMP to be patched
          to   : Nat,               \* where a branch must go
          offset : Int,             \* the slot of a parameter or an assignment
          fun  : Locals]            \* the function called

Item(step) == [step |-> step, word |-> "", n |-> 0, cell |-> 0, pop |-> 0, jz |-> None,
               jmp |-> None, to |-> 0, offset |-> 0, fun |-> NoLocal]
ItemWith(step, cell) == [Item(step) EXCEPT !.cell = cell]

Top      == Last(work)
At(step) == status = "compiling" /\ Top.step = step

\* The handler at the top goes on as these items, the last of them first.
Become(items) == work' = Front(work) \o items

\* *type, and a gh_type variable for a handler to point the next ones to.
Cell       == types[Top.cell]
SetCell(t) == types' = [types EXCEPT ![Top.cell] = t]
Infer(t)   == IF Cell = "unit" THEN t ELSE Cell
NewCell    == Len(types) + 1
MakeCell(t) == types' = Append(types, t)

\* COMPILE_FAIL: longjmp out of every handler.
Fail == status' = "failed" /\ UNCHANGED <<bytes, funs, main_idx, offset_counter, scopes,
                                         fun_ret_type, types, work, budget>>

Uses(shape) == shape \in Shapes

\* A node paid for here, and those below it that it cannot be without.  The
\* first statement of a list that may not be empty was paid for with the list.
Spend(n) == budget >= n /\ budget' = budget - n
StmtCost(n) == Spend(IF Top.n = 0 THEN n - 2 ELSE n)

\* gh_emit_block: a list of locals of its own, for the statements until here.
CloseScope == [Item("endscope") EXCEPT !.n = Len(scopes) + 1]
More == [Top EXCEPT !.n = 1]

-----------------------------------------------------------------------------
(* Declarations: gh_bytecode_compile and gh_emit_fun.                      *)

\* A name is declared once, and a system function's never.  (Every function
\* found has been emitted.)
DeclareFun(h) ==
    /\ At("decls")
    /\ IF Declared(h.name) THEN Fail ELSE
       /\ scopes' = <<Append(scopes[1], Local("fun", h.name, h.type, <<>>, 0)), <<>>>>
       /\ fun_ret_type' = h.type
       /\ work' = work \o <<[Item("endfun") EXCEPT !.word = h.name],
                            [Item("params") EXCEPT !.offset = 16]>>
       /\ UNCHANGED <<bytes, funs, main_idx, offset_counter, types, budget, status>>

InMain == work[2].word = "main"

\* Mutant: the last one is nearest.
AddParamLastNearest(p) ==
    /\ At("params")
    /\ Top.n < MaxArgs
    /\ InMain => Uses("mainparams")
    /\ IF p.type = "unit" THEN Fail ELSE
       /\ scopes' = [scopes EXCEPT
                        ![1][Len(scopes[1])].params = Append(@, p.type),
                        ![2] = Append([k \in DOMAIN @ |->
                                          [@[k] EXCEPT !.offset = @ + TypeSize(p.type)]],
                                      Local("var", p.name, p.type, <<>>, 16))]
       /\ Become(<<[Top EXCEPT !.n = @ + 1]>>)
       /\ UNCHANGED <<bytes, funs, main_idx, offset_counter, fun_ret_type, types,
                      budget, status>>

\* Parameters lie above the return address and the saved base pointer, the
\* first one nearest.
AddParam(p) ==
    /\ At("params")
    /\ Top.n < MaxArgs
    /\ InMain => Uses("mainparams")
    /\ IF p.type = "unit" THEN Fail ELSE
       /\ scopes' = [scopes EXCEPT
                        ![1][Len(scopes[1])].params = Append(@, p.type),
                        ![2] = Append(@, Local("var", p.name, p.type, <<>>, Top.offset))]
       /\ Become(<<[Top EXCEPT !.n = @ + 1, !.offset = @ + TypeSize(p.type)]>>)
       /\ UNCHANGED <<bytes, funs, main_idx, offset_counter, fun_ret_type, types,
                      budget, status>>

\* The operand of the prologue's ADD_SP is the frame's size, known at the end.
Prologue ==
    /\ At("params")
    /\ funs' = Append(funs, [offset |-> bytes.used, nbytes |-> 0])
    /\ bytes' = EmitAll(bytes, <<Instr("enter", 0, 0), Instr("add_sp", 0, 0)>>)
    /\ Become(<<[Item("stmts") EXCEPT !.n = 1]>>)
    /\ UNCHANGED <<main_idx, offset_counter, scopes, fun_ret_type, types, budget, status>>

\* A global variable is parsed and then refused.
DeclareVar == At("decls") /\ Uses("global") /\ Fail

\* Mutant: the next function's locals are laid out below this one's.
EndFunKeepsOffset ==
    /\ At("endfun")
    /\ LET f == Last(funs)
           b == EmitAll(bytes, IF Top.word = "main"
                               THEN <<Instr("exit", 0, 0)>>
                               ELSE <<Instr("mov_imm", 8, 0), Instr("leave", 0, 0),
                                      Instr("ret", 0, 0)>>)
       IN  /\ bytes' = Patch(b, f.offset + 1, offset_counter)
           /\ funs' = [funs EXCEPT ![Len(funs)].nbytes = b.used - f.offset]
    /\ main_idx' = IF Top.word = "main" THEN Len(funs) ELSE main_idx
    /\ scopes' = <<scopes[1]>>
    /\ work' = Front(work)
    /\ UNCHANGED <<offset_counter, fun_ret_type, types, budget, status>>

EndFun ==
    /\ At("endfun")
    /\ LET f == Last(funs)
           b == EmitAll(bytes, IF Top.word = "main"
                               THEN <<Instr("exit", 0, 0)>>
                               ELSE <<Instr("mov_imm", 8, 0), Instr("leave", 0, 0),
                                      Instr("ret", 0, 0)>>)
       IN  /\ bytes' = Patch(b, f.offset + 1, offset_counter)
           /\ funs' = [funs EXCEPT ![Len(funs)].nbytes = b.used - f.offset]
    /\ main_idx' = IF Top.word = "main" THEN Len(funs) ELSE main_idx
    /\ offset_counter' = 0
    /\ scopes' = <<scopes[1]>>
    /\ work' = Front(work)
    /\ UNCHANGED <<fun_ret_type, types, budget, status>>

\* Mutant: main_defined is not looked at.
EndProgramAnyway ==
    /\ At("decls")
    /\ funs # <<>>
    /\ status' = "done"
    /\ UNCHANGED <<bytes, funs, main_idx, offset_counter, scopes, fun_ret_type,
                   types, work, budget>>

\* The parser refuses a source without declarations.
EndProgram ==
    /\ At("decls")
    /\ funs # <<>>
    /\ status' = IF main_idx = 0 THEN "failed" ELSE "done"
    /\ UNCHANGED <<bytes, funs, main_idx, offset_counter, scopes, fun_ret_type,
                   types, work, budget>>

-----------------------------------------------------------------------------
(* Statements: gh_emit_statement and what it dispatches to.                *)

EndStmts ==
    /\ At("stmts")
    /\ Top.n = 1
    /\ work' = Front(work)
    /\ UNCHANGED <<bytes, funs, main_idx, offset_counter, scopes, fun_ret_type,
                   types, budget, status>>

\* Mutant: the frame is laid out from its start again after a block.
EndScopeReuses ==
    /\ At("endscope")
    /\ scopes' = SubSeq(scopes, 1, Top.n - 1)
    /\ offset_counter' = 0
    /\ work' = Front(work)
    /\ UNCHANGED <<bytes, funs, main_idx, fun_ret_type, types, budget, status>>

\* gh_emit_block returns: its list of locals goes out of reach.
EndScope ==
    /\ At("endscope")
    /\ scopes' = SubSeq(scopes, 1, Top.n - 1)
    /\ work' = Front(work)
    /\ UNCHANGED <<bytes, funs, main_idx, offset_counter, fun_ret_type, types,
                   budget, status>>

\* gh_emit_var, up to the end of its initialiser.
EmitVar(name, type, init) ==
    /\ At("stmts")
    /\ Uses(IF init THEN "varinit" ELSE "var")
    /\ StmtCost(IF init THEN 2 ELSE 1)
    /\ MakeCell(type)
    /\ LET end == [ItemWith("endvar", NewCell) EXCEPT !.word = name]
       IN  Become(IF init THEN <<More, end, ItemWith("expr", NewCell)>> ELSE <<More, end>>)
    /\ bytes' = IF init THEN bytes ELSE EmitAll(bytes, <<Instr("mov_imm", 8, 0)>>)
    /\ UNCHANGED <<funs, main_idx, offset_counter, scopes, fun_ret_type, status>>

\* Mutant: the slot is the one at the offset before the decrement.
EndVarPostDecrement ==
    /\ At("endvar")
    /\ LET size   == TypeSize(Cell)
           offset == offset_counter
       IN  /\ offset_counter' = offset - size
           /\ IF size = 0
              THEN /\ status' = "failed"
                   /\ UNCHANGED <<bytes, scopes, work>>
              ELSE /\ bytes' = EmitAll(bytes, <<Instr("mov_a_offset", size, offset)>>)
                   /\ AddLocal(Local("var", Top.word, Cell, <<>>, offset))
                   /\ work' = Front(work)
                   /\ UNCHANGED status
    /\ UNCHANGED <<funs, main_idx, fun_ret_type, types, budget>>

\* The rest of it: the slot is the next one down, its size that of the type
\* the initialiser left in the cell (gh_calc_offset runs before the check).
EndVar ==
    /\ At("endvar")
    /\ LET size   == TypeSize(Cell)
           offset == offset_counter - size
       IN  /\ offset_counter' = offset
           /\ IF size = 0
              THEN /\ status' = "failed"
                   /\ UNCHANGED <<bytes, scopes, work>>
              ELSE /\ bytes' = EmitAll(bytes, <<Instr("mov_a_offset", size, offset)>>)
                   /\ AddLocal(Local("var", Top.word, Cell, <<>>, offset))
                   /\ work' = Front(work)
                   /\ UNCHANGED status
    /\ UNCHANGED <<funs, main_idx, fun_ret_type, types, budget>>

\* gh_emit_if, first the condition ...
EmitIf ==
    /\ At("stmts")
    /\ Uses("if")
    /\ StmtCost(4)
    /\ MakeCell("unit")
    /\ Become(<<More, ItemWith("ifjz", NewCell), ItemWith("expr", NewCell)>>)
    /\ UNCHANGED <<bytes, funs, main_idx, offset_counter, scopes, fun_ret_type, status>>

\* Mutant: of a condition of type unit a JZ is emitted too.
IfJzOfUnit ==
    /\ At("ifjz")
    /\ bytes' = EmitAll(bytes, <<Instr("jz", TypeSize(Cell), 0)>>)
    /\ OpenScope
    /\ Become(<<[Item("ifjmp") EXCEPT !.jz = bytes.used], CloseScope, Item("stmts")>>)
    /\ UNCHANGED <<funs, main_idx, offset_counter, fun_ret_type, types, budget, status>>

\* ... then the JZ, whose operand is still 0, and the statements it guards ...
IfJz ==
    /\ At("ifjz")
    /\ IF Cell = "unit" THEN Fail ELSE
       /\ bytes' = EmitAll(bytes, <<Instr("jz", TypeSize(Cell), 0)>>)
       /\ OpenScope
       /\ Become(<<[Item("ifjmp") EXCEPT !.jz = bytes.used], CloseScope, Item("stmts")>>)
       /\ UNCHANGED <<funs, main_idx, offset_counter, fun_ret_type, types, budget, status>>

\* ... then the JMP over the rest, and what follows it: nothing, an "else if"
\* or an "else", which is a gh_emit_if without a condition ...
IfJmp(else) ==
    /\ At("ifjmp")
    /\ else = "none" \/ Uses(else)
    /\ LET b   == EmitAll(bytes, <<Instr("jmp", 0, 0)>>)
           end == [Item("endif") EXCEPT !.jz = Top.jz, !.jmp = bytes.used, !.to = b.used]
       IN  /\ bytes' = b
           /\ \/ /\ else = "none"
                 /\ Become(<<end>>)
                 /\ UNCHANGED <<scopes, types, budget>>
              \/ /\ else = "elseif"
                 /\ Spend(4)
                 /\ MakeCell("unit")
                 /\ Become(<<end, ItemWith("ifjz", NewCell), ItemWith("expr", NewCell)>>)
                 /\ UNCHANGED scopes
              \/ /\ else = "else"
                 /\ Spend(3)
                 /\ Become(<<end, Item("ifjmp"), CloseScope, Item("stmts")>>)
                 /\ OpenScope
                 /\ UNCHANGED types
    /\ UNCHANGED <<funs, main_idx, offset_counter, fun_ret_type, status>>

\* Mutants: the JMP is left as it was emitted; it goes back to the branch, as a
\* loop's does.
EndIfLeavesJmp ==
    /\ At("endif")
    /\ bytes' = IF Top.jz = None THEN bytes ELSE Patch(bytes, Top.jz, Top.to)
    /\ work' = Front(work)
    /\ UNCHANGED <<funs, main_idx, offset_counter, scopes, fun_ret_type, types,
                   budget, status>>

EndIfToBranch ==
    /\ At("endif")
    /\ LET b == IF Top.jz = None THEN bytes ELSE Patch(bytes, Top.jz, Top.to)
       IN  bytes' = Patch(b, Top.jmp, IF Top.jz = None THEN bytes.used ELSE Top.jz)
    /\ work' = Front(work)
    /\ UNCHANGED <<funs, main_idx, offset_counter, scopes, fun_ret_type, types,
                   budget, status>>

\* ... and then both operands are known.
EndIf ==
    /\ At("endif")
    /\ LET b == IF Top.jz = None THEN bytes ELSE Patch(bytes, Top.jz, Top.to)
       IN  bytes' = Patch(b, Top.jmp, bytes.used)
    /\ work' = Front(work)
    /\ UNCHANGED <<funs, main_idx, offset_counter, scopes, fun_ret_type, types,
                   budget, status>>

\* gh_emit_while
EmitWhile ==
    /\ At("stmts")
    /\ Uses("while")
    /\ StmtCost(4)
    /\ MakeCell("unit")
    /\ Become(<<More, [ItemWith("whilejz", NewCell) EXCEPT !.to = bytes.used],
                ItemWith("expr", NewCell)>>)
    /\ UNCHANGED <<bytes, funs, main_idx, offset_counter, scopes, fun_ret_type, status>>

WhileJz ==
    /\ At("whilejz")
    /\ IF Cell = "unit" THEN Fail ELSE
       /\ bytes' = EmitAll(bytes, <<Instr("jz", TypeSize(Cell), 0)>>)
       /\ OpenScope
       /\ Become(<<[Item("endwhile") EXCEPT !.jz = bytes.used, !.to = Top.to], CloseScope,
                    Item("stmts")>>)
       /\ UNCHANGED <<funs, main_idx, offset_counter, fun_ret_type, types, budget, status>>

\* Mutant: the end is taken before the JMP has its operand.
EndWhileEarly ==
    /\ At("endwhile")
    /\ LET b == EmitAll(bytes, <<Instr("jmp", 0, Top.to)>>)
       IN  bytes' = Patch(b, Top.jz, bytes.used + 1)
    /\ work' = Front(work)
    /\ UNCHANGED <<funs, main_idx, offset_counter, scopes, fun_ret_type, types,
                   budget, status>>

EndWhile ==
    /\ At("endwhile")
    /\ LET b == EmitAll(bytes, <<Instr("jmp", 0, Top.to)>>)
       IN  bytes' = Patch(b, Top.jz, b.used)
    /\ work' = Front(work)
    /\ UNCHANGED <<funs, main_idx, offset_counter, scopes, fun_ret_type, types,
                   budget, status>>

\* gh_emit_return; in main there is no frame to return to, so only a source
\* with "mainreturn" has one there.
EmitReturn(expr) ==
    /\ At("stmts")
    /\ Uses("return")
    /\ InMain => Uses("mainreturn")
    /\ StmtCost(IF expr THEN 2 ELSE 1)
    /\ IF expr
       THEN /\ MakeCell("unit")
            /\ Become(<<More, ItemWith("endreturn", NewCell), ItemWith("expr", NewCell)>>)
            /\ UNCHANGED bytes
       ELSE /\ bytes' = EmitAll(bytes, <<Instr("leave", 0, 0), Instr("ret", 0, 0)>>)
            /\ Become(<<More>>)
            /\ UNCHANGED types
    /\ UNCHANGED <<funs, main_idx, offset_counter, scopes, fun_ret_type, status>>

EndReturn ==
    /\ At("endreturn")
    /\ IF fun_ret_type = "unit" \/ CastFails(Cell, fun_ret_type) THEN Fail ELSE
       /\ bytes' = EmitAll(bytes, CastCode(Cell, fun_ret_type)
                                    \o <<Instr("leave", 0, 0), Instr("ret", 0, 0)>>)
       /\ work' = Front(work)
       /\ UNCHANGED <<funs, main_idx, offset_counter, scopes, fun_ret_type, types,
                      budget, status>>

\* gh_emit_block for a begin ... end of its own.
EmitBlock ==
    /\ At("stmts")
    /\ Uses("block")
    /\ StmtCost(3)
    /\ OpenScope
    /\ Become(<<More, CloseScope, Item("stmts")>>)
    /\ UNCHANGED <<bytes, funs, main_idx, offset_counter, fun_ret_type, types, status>>

\* A match is parsed and emits nothing.
EmitMatch ==
    /\ At("stmts")
    /\ Uses("match")
    /\ StmtCost(2)
    /\ Become(<<More>>)
    /\ UNCHANGED <<bytes, funs, main_idx, offset_counter, scopes, fun_ret_type,
                   types, status>>

\* An expression for its effect.
EmitExprStmt ==
    /\ At("stmts")
    /\ StmtCost(2)
    /\ MakeCell("unit")
    /\ Become(<<More, ItemWith("expr", NewCell)>>)
    /\ UNCHANGED <<bytes, funs, main_idx, offset_counter, scopes, fun_ret_type, status>>

-----------------------------------------------------------------------------
(* Expressions: gh_emit_expr and what it dispatches to.  The result is     *)
(* left in register a; *type is an in and out parameter: what the context  *)
(* wants, or unit for the expression to say.                               *)

\* A literal that is not a number is refused, and so is a float literal where
\* an integer is wanted.  An integer is cut to the width wanted; the bits of a
\* float are one of FloatImages.
Literal(id, v) ==
    /\ At("expr")
    /\ Uses(id)
    /\ LET t == Infer(IF id = "float" THEN "f32" ELSE "i32")
           w == TypeSize(t)
       IN  IF id = "string" \/ (id = "float" /\ t \in IntTypes) THEN Fail ELSE
           /\ v \in (IF t \in FloatTypes THEN FloatImages ELSE Literals)
           /\ SetCell(t)
           /\ bytes' = EmitAll(bytes, <<Instr("mov_imm", w, v % Cap(w))>>)
           /\ work' = Front(work)
           /\ UNCHANGED <<funs, main_idx, offset_counter, scopes, fun_ret_type,
                          budget, status>>

\* gh_emit_primary for an identifier: load it and cast it to what is wanted.
Ident(name) ==
    /\ At("expr")
    /\ Uses("ident")
    /\ IF ~Declared(name) THEN Fail ELSE
       LET local == Find(name)
           t     == Infer(local.type)
       IN  IF local.id # "var" \/ CastFails(local.type, t) THEN Fail ELSE
           /\ SetCell(t)
           /\ bytes' = EmitAll(bytes, <<Instr("mov_offset_a", TypeSize(local.type),
                                              local.offset)>>
                                        \o CastCode(local.type, t))
           /\ work' = Front(work)
           /\ UNCHANGED <<funs, main_idx, offset_counter, scopes, fun_ret_type,
                          budget, status>>

LaterFun(local) == local.id = "fun" /\ local # scopes[1][Len(SysFuns) + 1]

\* gh_emit_primary for a call.  The result has the type the context wants:
\* it is neither checked against the function's nor cast.  Only a source with
\* "latercall" calls a function other than its first, only one with "recursion"
\* the function it is in.
Call(name, nargs) ==
    /\ At("expr")
    /\ Uses("call")
    /\ Declared(name) /\ LaterFun(Find(name)) => Uses("latercall")
    /\ name = work[2].word => Uses("recursion")
    /\ Spend(nargs)
    /\ IF ~Declared(name) \/ Find(name).id = "var" \/ Len(Find(name).params) # nargs
       THEN /\ status' = "failed"
            /\ UNCHANGED <<bytes, types, work>>
       ELSE /\ SetCell(Infer(Find(name).type))
            /\ Become(<<[Item("args") EXCEPT !.n = nargs, !.fun = Find(name)]>>)
            /\ UNCHANGED <<bytes, status>>
    /\ UNCHANGED <<funs, main_idx, offset_counter, scopes, fun_ret_type>>

\* Arguments are evaluated and pushed last to first, each in a cell that
\* starts as the parameter's type ...
Arg ==
    /\ At("args")
    /\ Top.n > 0
    /\ MakeCell(Top.fun.params[Top.n])
    /\ Become(<<[Top EXCEPT !.step = "endarg", !.cell = NewCell], ItemWith("expr", NewCell)>>)
    /\ UNCHANGED <<bytes, funs, main_idx, offset_counter, scopes, fun_ret_type,
                   budget, status>>

EndArg ==
    /\ At("endarg")
    /\ IF Cell \in FloatTypes THEN Fail ELSE
       /\ bytes' = EmitAll(bytes, <<Instr("push", TypeSize(Cell), 0)>>)
       /\ Become(<<[Top EXCEPT !.step = "args", !.n = @ - 1, !.pop = @ + TypeSize(Cell)]>>)
       /\ UNCHANGED <<funs, main_idx, offset_counter, scopes, fun_ret_type, types,
                      budget, status>>

\* Mutant: a system function is left to pop its argument.
CallCodeKeepsArgs(fun, pop) ==
    IF fun.id = "sysfun" THEN <<Instr("sysfun", 0, SysFunIdx(fun))>>
    ELSE <<Instr("call", 0, fun.offset)>>
           \o (IF pop = 0 THEN <<>> ELSE <<Instr("add_sp", 0, pop)>>)

\* ... then the call itself, and the arguments are popped.  The offset of a
\* function's local is never set: it is the 0 the local was made with.
CallCode(fun, pop) ==
    <<IF fun.id = "sysfun" THEN Instr("sysfun", 0, SysFunIdx(fun))
                           ELSE Instr("call", 0, fun.offset)>>
      \o (IF pop = 0 THEN <<>> ELSE <<Instr("add_sp", 0, pop)>>)

EndCall ==
    /\ At("args")
    /\ Top.n = 0
    /\ bytes' = EmitAll(bytes, CallCode(Top.fun, Top.pop))
    /\ work' = Front(work)
    /\ UNCHANGED <<funs, main_idx, offset_counter, scopes, fun_ret_type, types,
                   budget, status>>

\* gh_emit_unary
EmitUnary(op) ==
    /\ At("expr")
    /\ Spend(1)
    /\ Become(<<[ItemWith("endunary", Top.cell) EXCEPT !.word = op],
                ItemWith("expr", Top.cell)>>)
    /\ UNCHANGED <<bytes, funs, main_idx, offset_counter, scopes, fun_ret_type,
                   types, status>>

EndUnary ==
    /\ At("endunary")
    /\ IF Cell = "unit" THEN Fail ELSE
       /\ bytes' = EmitAll(bytes, <<Instr(Top.word, TypeSize(Cell), 0)>>)
       /\ work' = Front(work)
       /\ UNCHANGED <<funs, main_idx, offset_counter, scopes, fun_ret_type, types,
                      budget, status>>

\* The binary operators: the first operand, then a push and the second one (in
\* the same cell), then the operation.
EmitBinary(op) ==
    /\ At("expr")
    /\ Spend(2)
    /\ Become(<<[ItemWith("push", Top.cell) EXCEPT !.word = op],
                ItemWith("expr", Top.cell)>>)
    /\ UNCHANGED <<bytes, funs, main_idx, offset_counter, scopes, fun_ret_type,
                   types, status>>

\* gh_emit_op_push
Push ==
    /\ At("push")
    /\ IF Cell \in FloatTypes \cup {"unit"} THEN Fail ELSE
       /\ bytes' = EmitAll(bytes, <<Instr("push", TypeSize(Cell), 0)>>)
       /\ Become(<<[Top EXCEPT !.step = "endbin"], ItemWith("expr", Top.cell)>>)
       /\ UNCHANGED <<funs, main_idx, offset_counter, scopes, fun_ret_type, types,
                      budget, status>>

EndBinary ==
    /\ At("endbin")
    /\ bytes' = EmitAll(bytes, BinCode(Top.word, TypeSize(Cell)))
    /\ work' = Front(work)
    /\ UNCHANGED <<funs, main_idx, offset_counter, scopes, fun_ret_type, types,
                   budget, status>>

\* gh_emit_assgn.  The local's id is not looked at, and the width of the store
\* is that of the cell, not of the local: only a source with "funassign"
\* assigns to a function, only one with "mixedassign" assigns in a context
\* that wants another width.
Ordinary(local) ==
    /\ local.id # "var" => Uses("funassign")
    /\ TypeSize(Infer(local.type)) # TypeSize(local.type) => Uses("mixedassign")

Assign(name, op) ==
    /\ At("expr")
    /\ Uses("assign")
    /\ Spend(1)
    /\ Declared(name) => Ordinary(Find(name))
    /\ LET local == Find(name)
           t     == Infer(local.type)
           w     == TypeSize(t)
           store == [ItemWith(IF op = "assign" THEN "store" ELSE "endassgn", Top.cell)
                         EXCEPT !.word = op, !.offset = local.offset]
       IN  IF \/ ~Declared(name)
              \/ op # "assign" /\ t \in FloatTypes \cup {"unit"}
           THEN /\ status' = "failed"
                /\ UNCHANGED <<bytes, types, work>>
           ELSE /\ SetCell(t)
                /\ bytes' = IF op = "assign" THEN bytes
                            ELSE EmitAll(bytes, <<Instr("mov_offset_a", w, local.offset),
                                                  Instr("push", w, 0)>>)
                /\ Become(<<store, ItemWith("expr", Top.cell)>>)
                /\ UNCHANGED status
    /\ UNCHANGED <<funs, main_idx, offset_counter, scopes, fun_ret_type>>

Store ==
    /\ At("store")
    /\ IF Cell = "unit" THEN Fail ELSE
       /\ bytes' = EmitAll(bytes, <<Instr("mov_a_offset", TypeSize(Cell), Top.offset)>>)
       /\ work' = Front(work)
       /\ UNCHANGED <<funs, main_idx, offset_counter, scopes, fun_ret_type, types,
                      budget, status>>

\* A compound assignment ends with its operation and the store; "%=" is refused.
EndAssgn ==
    /\ At("endassgn")
    /\ IF Top.word = "mod" THEN Fail ELSE
       /\ bytes' = EmitAll(bytes, <<Instr(Top.word, TypeSize(Cell), 0),
                                    Instr("mov_a_offset", TypeSize(Cell), Top.offset)>>)
       /\ work' = Front(work)
       /\ UNCHANGED <<funs, main_idx, offset_counter, scopes, fun_ret_type, types,
                      budget, status>>

-----------------------------------------------------------------------------
Init ==
    /\ bytes = [code |-> <<>>, used |-> 0]
    /\ funs = <<>>
    /\ main_idx = 0
    /\ offset_counter = 0
    /\ scopes = <<SysFuns>>
    /\ fun_ret_type = "unit"
    /\ types = <<>>
    /\ work = <<Item("decls")>>
    /\ budget = MaxNodes
    /\ status = "compiling"

Declaration ==
    \/ \E h \in FunHeads : DeclareFun(h)
    \/ \E p \in Params : AddParam(p)
    \/ DeclareVar \/ Prologue \/ EndFun \/ EndProgram

Statement ==
    \/ EndStmts \/ EndScope \/ EndVar \/ EndReturn
    \/ EmitIf \/ IfJz \/ EndIf \/ EmitWhile \/ WhileJz \/ EndWhile
    \/ EmitBlock \/ EmitMatch \/ EmitExprStmt
    \/ \E name \in VarNames, t \in VarTypes, init \in BOOLEAN : EmitVar(name, t, init)
    \/ \E else \in {"none", "elseif", "else"} : IfJmp(else)
    \/ \E expr \in BOOLEAN : EmitReturn(expr)

Expression ==
    \/ \E id \in {"int", "float", "string"}, v \in Literals \cup FloatImages : Literal(id, v)
    \/ Arg \/ EndArg \/ EndCall \/ EndUnary \/ Push \/ EndBinary \/ Store \/ EndAssgn
    \/ \E name \in UsedNames : Ident(name)
    \/ \E name \in UsedNames, n \in 0..MaxArgs : Call(name, n)
    \/ \E op \in UnOps : EmitUnary(op)
    \/ \E op \in BinOps : EmitBinary(op)
    \/ \E name \in UsedNames, op \in AssignOps : Assign(name, op)

\* gh_bytecode_compile has returned.
Compiled == status # "compiling" /\ UNCHANGED vars

Next == Declaration \/ Statement \/ Expression \/ Compiled

\* The compiler never waits: it runs until it is done or fails.
Spec == Init /\ [][Next]_vars /\ WF_vars(Declaration \/ Statement \/ Expression)

-----------------------------------------------------------------------------
(* Properties.                                                             *)

Funs == [offset : Nat, nbytes : Nat]

BytesOK(b) == /\ b = [code |-> b.code, used |-> b.used]
              /\ b.used \in Nat
              /\ DOMAIN b.code \subseteq 0..(b.used - 1)
              /\ b.code \in [DOMAIN b.code -> InstrRecords]

\* What a compilation starts afresh holds what its C counterpart can; so does
\* what it takes over from the source before, but for main_idx.
SourceTypes ==
    /\ BytesOK(bytes)
    /\ funs \in Seq(Funs)
    /\ offset_counter \in Int
    /\ scopes \in Seq(Seq(Locals)) /\ Len(scopes) > 0
    /\ fun_ret_type \in Types
    /\ types \in Seq(Types)
    /\ work \in Seq(Items) /\ Len(work) > 0
    /\ budget \in Nat
    /\ status \in {"compiling", "done", "failed"}

StateTypes == SourceTypes /\ main_idx \in 0..Len(funs)

\* Whatever is emitted, and whatever is patched into it later, is an instruction
\* of vm.h: its opcode comes in that width and its operand is one it can have.
Coded == \A x \in DOMAIN bytes.code : bytes.code[x] \in ValidInstrs

\* Every variable holds what its C counterpart can.
TypeOK == StateTypes /\ Coded

\* The code of a function that is complete, and its prologue's length.
Code(f) == DOMAIN bytes.code \cap f.offset..(f.offset + f.nbytes - 1)
PrologueLen == 10

\* The frame layout drawn above gh_emit_var.  In bytes above the base pointer,
\* [-16, 0) are the links: the return address and the saved base pointer; below
\* them the parameters, above them the frame's variables.
Links == -16..-1
Slot(local) == (-local.offset - TypeSize(local.type))..(-local.offset - 1)
IsVar(k, i) == scopes[k][i].id = "var"

\* No two variables in scope share a byte, none lies on the links, and those of
\* the frame lie within what offset_counter has laid out so far, however scopes
\* were opened, closed and reused and whatever names were shadowed.
SlotsDisjoint ==
    \A k \in 1..Len(scopes) : \A i \in 1..Len(scopes[k]) : IsVar(k, i) =>
        LET local == scopes[k][i]
        IN  /\ Slot(local) \cap Links = {}
            /\ local.offset < 16 => Slot(local) \subseteq 0..(-offset_counter - 1)
            /\ \A m \in 1..Len(scopes) : \A j \in 1..Len(scopes[m]) :
                   IsVar(m, j) /\ <<m, j>> # <<k, i>> => Slot(local) \cap Slot(scopes[m][j]) = {}

\* Every branch of a complete function goes to an instruction of the same
\* function, past its prologue: no operand was left unpatched and none points
\* into the middle of an instruction, into the frame set-up or out of the code.
JumpsLand ==
    \A k \in 1..Len(funs) : \A x \in Code(funs[k]) :
        bytes.code[x].op \in Jumps =>
            /\ bytes.code[x].arg \in Code(funs[k])
            /\ bytes.code[x].arg >= funs[k].offset + PrologueLen

\* Every load and store of a complete function stays off the links and inside
\* the frame its prologue reserves, although the frame's size is patched in only
\* after they were emitted.
Touched(i) == (-i.arg - i.w)..(-i.arg - 1)
AccessesInFrame ==
    \A k \in 1..Len(funs) : \A x \in Code(funs[k]) :
        bytes.code[x].op \in {"mov_a_offset", "mov_offset_a"} =>
            /\ Touched(bytes.code[x]) \cap Links = {}
            /\ \A y \in Touched(bytes.code[x]) :
                   y < -bytes.code[funs[k].offset + 1].arg

=============================================================================
