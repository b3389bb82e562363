--------------------------- MODULE GalachPipeline ---------------------------
(***************************************************************************)
(* A source compiled and then run: the code generator of bytecode.c, then  *)
(* the virtual machine of vm.c on the image it has left, as main() in      *)
(* galach.c chains them for one source.  The properties are what the two   *)
(* owe each other: every program the generator accepts runs on the machine *)
(* without leaving what the machine defines.                               *)
(***************************************************************************)
EXTENDS GalachVerify

CONSTANTS ByteBits, BitAnd(_, _), BitOr(_, _), BitXor(_, _), BlockSize, MaxStack, MaxPrints

VARIABLES ip, a, bp, flags, sp, size, mem, out,
          machine,  \* the machine's status; "off" until the program is loaded
          src       \* history: the source's nodes, in the order they were chosen

NoMain == -1

Image == [code  |-> bytes.code,
          used  |-> bytes.used,
          entry |-> IF main_idx = 0 THEN NoMain ELSE funs[main_idx].offset]

VM == INSTANCE GalachVM WITH img <- Image, status <- machine

vmvars  == <<ip, a, bp, flags, sp, size, mem, out, machine>>
allvars == <<vars, vmvars, src>>

PipelineInit ==
    /\ Init
    /\ VM!Off
    /\ src = <<>>

\* A step of the generator that chooses a node of the source, and one that does
\* not.
Node(node, word, type, n) ==
    src' = Append(src, [node |-> node, word |-> word, type |-> type, n |-> n])

Choose ==
    \/ \E h \in FunHeads : DeclareFun(h) /\ Node("fun", h.name, h.type, 0)
    \/ \E p \in Params : AddParam(p) /\ Node("param", p.name, p.type, 0)
    \/ EndStmts /\ Node("end", "", "unit", 0)
    \/ EmitIf /\ Node("if", "", "unit", 0)
    \/ EmitWhile /\ Node("while", "", "unit", 0)
    \/ EmitBlock /\ Node("block", "", "unit", 0)
    \/ EmitMatch /\ Node("match", "", "unit", 0)
    \/ EmitExprStmt /\ Node("do", "", "unit", 0)
    \/ \E name \in VarNames, t \in VarTypes, init \in BOOLEAN :
           EmitVar(name, t, init) /\ Node(IF init THEN "varinit" ELSE "var", name, t, 0)
    \/ \E else \in {"none", "elseif", "else"} :
           IfJmp(else) /\ Node(IF else = "none" THEN "fi" ELSE else, "", "unit", 0)
    \/ \E expr \in BOOLEAN :
           EmitReturn(expr) /\ Node(IF expr THEN "return" ELSE "leave", "", "unit", 0)
    \/ \E v \in Literals : Literal("int", v) /\ Node("int", "", "unit", v)
    \/ \E name \in UsedNames : Ident(name) /\ Node("ident", name, "unit", 0)
    \/ \E name \in UsedNames, n \in 0..MaxArgs : Call(name, n) /\ Node("call", name, "unit", n)
    \/ \E op \in UnOps : EmitUnary(op) /\ Node("unary", op, "unit", 0)
    \/ \E op \in BinOps : EmitBinary(op) /\ Node("binary", op, "unit", 0)
    \/ \E name \in UsedNames, op \in AssignOps :
           Assign(name, op) /\ Node(IF op = "assign" THEN op ELSE "update", name, op, 0)

Proceed ==
    /\ \/ Prologue \/ EndFun \/ EndProgram
       \/ EndScope \/ EndVar \/ EndReturn \/ IfJz \/ EndIf \/ WhileJz \/ EndWhile
       \/ Arg \/ EndArg \/ EndCall \/ EndUnary \/ Push \/ EndBinary \/ Store \/ EndAssgn
    /\ UNCHANGED src

Compile == (Choose \/ Proceed) /\ UNCHANGED vmvars

\* main() goes on to the machine only when gh_bytecode_src has succeeded.
Load == status = "done" /\ UNCHANGED <<vars, src>> /\ VM!Start

Execute == UNCHANGED <<vars, src>> /\ VM!Run

Over == /\ machine \notin {"off", "run"} \/ status = "failed"
        /\ UNCHANGED allvars

PipelineNext == Compile \/ Load \/ Execute \/ Over

\* One thread that never waits: each part makes its next step while it has one.
PipelineSpec == /\ PipelineInit /\ [][PipelineNext]_allvars
                /\ WF_allvars(Compile) /\ WF_allvars(Load) /\ WF_allvars(Execute)

-----------------------------------------------------------------------------
(* Properties.                                                             *)

Running == machine = "run" /\ ip \in DOMAIN bytes.code
OpAt    == bytes.code[ip].op

\* A compiled program ends by its EXIT: it never fails, never runs off the code,
\* never touches memory outside the allocation, reads nothing it has not written
\* and pops nothing it has not pushed.
RunsClean == machine \in {"off", "run", "exit", "exhausted"}

\* The function ip is in, and the size of its frame.
Here      == CHOOSE k \in 1..Len(funs) : ip \in Code(funs[k])
FrameSize == -bytes.code[funs[Here].offset + 1].arg

\* Wherever control branches or a function is left, the stack is exactly the
\* frame: no path through a statement, and no turn of a loop, leaks or loses
\* operands, arguments or the callee's frame.
StackLevel == Running /\ OpAt \in Jumps \cup {"leave", "exit"} => sp = bp + FrameSize

\* The calls in progress, read off the stack: each frame holds its return
\* address and the caller's base pointer below its own.  Main's frame, the
\* outermost, was not called.
Lost == <<[ret |-> -1, bp |-> -1]>>
Chain ==
    LET up[b \in 0..MaxStack] ==
            IF b <= 8 THEN <<>>
            ELSE IF ~VM!Readable(b - 16, 16) \/ VM!Word(b - 8, 8) >= b THEN Lost
            ELSE Append(up[VM!Word(b - 8, 8)],
                        [ret |-> VM!Word(b - 16, 8), bp |-> VM!Word(b - 8, 8)])
    IN  IF bp \in 0..MaxStack THEN up[bp] ELSE Lost

\* Between CALL and ENTER, and between LEAVE and RET, the newest return address
\* is on top and the base pointer is already, or still, the caller's.
Frames ==
    IF /\ machine \in {"run", "exhausted"} /\ ip \in DOMAIN bytes.code
       /\ OpAt \in {"enter", "ret"} /\ sp > 0
    THEN Append(Chain, [ret |-> VM!Word(sp - 8, 8), bp |-> bp])
    ELSE Chain

Calls == INSTANCE GalachCalls WITH at <- ip, frames <- Frames, CallLength <- 9

\* Calls nest and returns go back to their callers with the callers' base
\* pointers, although return addresses and base pointers lie in the memory that
\* arguments, locals and operands are written to.
CallDiscipline == Calls!Spec

\* Without loops every source is either refused or runs to its end.
Terminates == <>(status = "failed" \/ machine \in {"exit", "exhausted"})

\* "I wanted a growable stack" (vm.c): everything below the stack pointer is
\* allocated.
StackGrows == machine = "run" => sp <= size

=============================================================================
