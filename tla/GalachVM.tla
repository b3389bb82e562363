------------------------------ MODULE GalachVM ------------------------------
(***************************************************************************)
(* The virtual machine of vm.c: gh_vm_run on a code image.  One action per *)
(* group of instructions; a step is one turn of the fetch loop.            *)
(*                                                                         *)
(* The image is a variable no action changes, so that it can be any of a   *)
(* set of images or the state of the code generator.                       *)
(*                                                                         *)
(* Memory is the part of the stack's allocation that has been written.     *)
(* What C leaves undefined (a write outside the allocation, a read of what *)
(* was never written, a division by zero) and a jump into the middle of an *)
(* instruction end in the status "undefined", after which anything may     *)
(* happen and nothing is claimed.                                          *)
(***************************************************************************)
EXTENDS GalachWords

CONSTANTS
    BlockSize,  \* vector_block_size: the stack's first allocation, and its growth
    MaxStack,   \* bound: an allocation or a stack pointer beyond it ends the run as "exhausted"
    MaxPrints   \* bound: so does one more value printed

ASSUME StackAssumption == BlockSize \in Nat /\ BlockSize >= 8 /\ {MaxStack, MaxPrints} \subseteq Nat

VARIABLES
    img,     \* the gh_bytecode: [code, used, entry]; entry is None without a main
    ip, a, bp,
    flags,   \* f_gt, f_eql and f_lt, of which one is set: ">", "=", "<" or "" before a CMP
    sp,      \* vm->stack.used
    size,    \* vm->stack.size
    mem,     \* vm->stack.data, as far as it has been written
    out,     \* the integers printed
    status   \* "off", "run", "exit", "end", "fail", "undefined" or "exhausted"

vmvars == <<ip, a, bp, flags, sp, size, mem, out, status>>

NoMain == -1
Statuses == {"off", "run", "exit", "end", "fail", "undefined", "exhausted"}

-----------------------------------------------------------------------------
(* Fetching.                                                               *)

I        == img.code[ip]
Fetch(S) == status = "run" /\ ip \in DOMAIN img.code /\ I.op \in S
NextIp   == ip + Length(I)
Step     == ip' = NextIp /\ UNCHANGED <<img, status>>

\* longjmp out of the loop, or an undefined outcome.
Stop(s) == status' = s /\ UNCHANGED <<img, ip, a, bp, flags, sp, size, mem, out>>

Acc(w) == Trunc(a, w)

-----------------------------------------------------------------------------
(* Memory.                                                                 *)

Cells(lo, w)    == lo..(lo + w - 1)
Readable(lo, w) == Cells(lo, w) \subseteq DOMAIN mem
Word(lo, w)     == WordAt(mem, lo, w)
Stored(lo, v, w) == [x \in DOMAIN mem \cup Cells(lo, w) |->
                        IF x \in Cells(lo, w) THEN ByteOf(v, w, x - lo) ELSE mem[x]]

\* GROW_VEC.  size and used are unsigned: with used beyond size the difference
\* wraps to a large number and nothing grows.
Grown(need) == IF size >= sp /\ size - sp < need THEN size + Max({BlockSize, need}) ELSE size

\* push_val: how it may go wrong, and what it does to the stack.
PushStops(w) == IF Grown(w) > MaxStack THEN {"exhausted"}
                ELSE IF sp + w > Grown(w) THEN {"undefined"} ELSE {}
\* Mutant: the stack grows downwards.
PushValDown(v, w) == mem' = Stored(sp - w, v, w) /\ size' = Grown(w)
PushVal(v, w) == mem' = Stored(sp, v, w) /\ size' = Grown(w)

\* pop_val8 .. pop_val64
Popped(w) == Word(sp - w, w)

\* Mutant: the bytes accessed are not counted in.
BpFailsShort(w, offset) == offset > bp /\ offset > 0

\* calc_bp_pos, which fails rather than go below the bottom of the stack.
BpFails(w, offset) == offset + w > bp /\ offset + w > 0

\* The sum is that of an i64, which may overflow; the position is an u64, and a
\* base pointer that LEAVE has found in memory may be any: the position wraps.
BpOverflows(w, offset) == offset + w >= Cap(8) \div 2
BpPos(w, offset) ==
    LET pos == bp - (offset + w) IN IF pos >= Cap(8) THEN pos - Cap(8) ELSE pos

-----------------------------------------------------------------------------
(* Data movement.                                                          *)

MovAOffset ==
    /\ Fetch({"mov_a_offset"})
    /\ LET lo == BpPos(I.w, I.arg)
       IN  IF BpOverflows(I.w, I.arg) THEN Stop("undefined")
           ELSE IF BpFails(I.w, I.arg) THEN Stop("fail")
           ELSE IF lo + I.w > size THEN Stop("undefined")
           ELSE /\ mem' = Stored(lo, a, I.w)
                /\ Step
                /\ UNCHANGED <<a, bp, flags, sp, size, out>>

MovOffsetA ==
    /\ Fetch({"mov_offset_a"})
    /\ LET lo == BpPos(I.w, I.arg)
       IN  IF BpOverflows(I.w, I.arg) THEN Stop("undefined")
           ELSE IF BpFails(I.w, I.arg) THEN Stop("fail")
           ELSE IF ~Readable(lo, I.w) THEN Stop("undefined")
           ELSE /\ a' = Word(lo, I.w)
                /\ Step
                /\ UNCHANGED <<bp, flags, sp, size, mem, out>>

MovImm ==
    /\ Fetch({"mov_imm"})
    /\ a' = I.arg
    /\ Step
    /\ UNCHANGED <<bp, flags, sp, size, mem, out>>

UnaryOp ==
    /\ Fetch(UnaryOps)
    /\ a' = ApplyUnary(I.op, Acc(I.w), I.w)
    /\ Step
    /\ UNCHANGED <<bp, flags, sp, size, mem, out>>

ExtendA ==
    /\ Fetch({"zext", "sext"})
    /\ a' = Extend(I.op, a, I.w)
    /\ Step
    /\ UNCHANGED <<bp, flags, sp, size, mem, out>>

-----------------------------------------------------------------------------
(* Arithmetic and comparison.                                              *)

PushA ==
    /\ Fetch({"push"})
    /\ IF PushStops(I.w) # {} THEN \E s \in PushStops(I.w) : Stop(s) ELSE
       /\ PushVal(Acc(I.w), I.w)
       /\ sp' = sp + I.w
       /\ Step
       /\ UNCHANGED <<a, bp, flags, out>>

Binary ==
    /\ Fetch(ArithOps)
    /\ IF \/ ~Readable(sp - I.w, I.w)
          \/ Undefined(I.op, Popped(I.w), Acc(I.w), I.w)
       THEN Stop("undefined")
       ELSE /\ a' = Apply(I.op, Popped(I.w), Acc(I.w), I.w)
            /\ sp' = sp - I.w
            /\ Step
            /\ UNCHANGED <<bp, flags, size, mem, out>>

\* Mutant: a comparison leaves its operand.
CmpKeepsOperand ==
    /\ Fetch({"cmp"})
    /\ IF ~Readable(sp - I.w, I.w) THEN Stop("undefined") ELSE
       LET x == Signed(Popped(I.w), I.w)
           y == Signed(a, I.w)
       IN  /\ flags' = IF x > y THEN ">" ELSE IF x = y THEN "=" ELSE "<"
           /\ Step
           /\ UNCHANGED <<a, bp, sp, size, mem, out>>

\* Operands are compared as signed whatever their type.
Cmp ==
    /\ Fetch({"cmp"})
    /\ IF ~Readable(sp - I.w, I.w) THEN Stop("undefined") ELSE
       LET x == Signed(Popped(I.w), I.w)
           y == Signed(a, I.w)
       IN  /\ flags' = IF x > y THEN ">" ELSE IF x = y THEN "=" ELSE "<"
           /\ sp' = sp - I.w
           /\ Step
           /\ UNCHANGED <<a, bp, size, mem, out>>

FlagSet(op) == CASE op = "setlt"  -> flags = "<"
                 [] op = "setgt"  -> flags = ">"
                 [] op = "setle"  -> flags \in {"<", "="}
                 [] op = "setge"  -> flags \in {">", "="}
                 [] op = "seteq"  -> flags = "="
                 [] op = "setneq" -> flags # "="

SetCC ==
    /\ Fetch(SetOps)
    /\ a' = Bool(FlagSet(I.op))
    /\ Step
    /\ UNCHANGED <<bp, flags, sp, size, mem, out>>

-----------------------------------------------------------------------------
(* Control.                                                                *)

Jz ==
    /\ Fetch({"jz"})
    /\ ip' = IF Acc(I.w) = 0 THEN I.arg ELSE NextIp
    /\ UNCHANGED <<img, a, bp, flags, sp, size, mem, out, status>>

Jmp ==
    /\ Fetch({"jmp"})
    /\ ip' = I.arg
    /\ UNCHANGED <<img, a, bp, flags, sp, size, mem, out, status>>

\* Mutant: the return address is that of the CALL.
CallSelf ==
    /\ Fetch({"call"})
    /\ IF PushStops(8) # {} THEN \E s \in PushStops(8) : Stop(s) ELSE
       /\ PushVal(ip, 8)
       /\ sp' = sp + 8
       /\ ip' = I.arg
       /\ UNCHANGED <<img, a, bp, flags, out, status>>

Call ==
    /\ Fetch({"call"})
    /\ IF PushStops(8) # {} THEN \E s \in PushStops(8) : Stop(s) ELSE
       /\ PushVal(NextIp, 8)
       /\ sp' = sp + 8
       /\ ip' = I.arg
       /\ UNCHANGED <<img, a, bp, flags, out, status>>

Ret ==
    /\ Fetch({"ret"})
    /\ IF ~Readable(sp - 8, 8) THEN Stop("undefined") ELSE
       /\ ip' = Popped(8)
       /\ sp' = sp - 8
       /\ UNCHANGED <<img, a, bp, flags, size, mem, out, status>>

Enter ==
    /\ Fetch({"enter"})
    /\ IF PushStops(8) # {} THEN \E s \in PushStops(8) : Stop(s) ELSE
       /\ PushVal(bp, 8)
       /\ sp' = sp + 8
       /\ bp' = sp + 8
       /\ Step
       /\ UNCHANGED <<a, flags, out>>

\* Mutant: the saved base pointer is read and not popped.
LeaveKeepsLink ==
    /\ Fetch({"leave"})
    /\ IF ~Readable(bp - 8, 8) THEN Stop("undefined") ELSE
       /\ sp' = bp
       /\ bp' = Word(bp - 8, 8)
       /\ Step
       /\ UNCHANGED <<a, flags, size, mem, out>>

Leave ==
    /\ Fetch({"leave"})
    /\ IF ~Readable(bp - 8, 8) THEN Stop("undefined") ELSE
       /\ sp' = bp - 8
       /\ bp' = Word(bp - 8, 8)
       /\ Step
       /\ UNCHANGED <<a, flags, size, mem, out>>

\* The stack is "backwards": a negative operand makes room.  Nothing is
\* allocated for it.
AddSp ==
    /\ Fetch({"add_sp"})
    /\ IF I.arg > sp THEN Stop("fail")
       ELSE IF sp - I.arg > MaxStack THEN Stop("exhausted") ELSE
       /\ sp' = sp - I.arg
       /\ Step
       /\ UNCHANGED <<a, bp, flags, size, mem, out>>

\* sysfun_print8 .. sysfun_print64: enter, load the argument below the saved
\* base pointer, print it, leave.  The index is unsigned; the bound admits one
\* too many.
SysFunLast == 4

\* What printf shows of the w bytes v: print8 alone does not take them as signed
\* (it has (int)A8, and A8 is an u8).
Printed(v, w) == IF w = 1 THEN v ELSE Signed(v, w)

SysFun ==
    /\ Fetch({"sysfun"})
    /\ LET w == Widths4[I.arg + 1]
       IN  IF I.arg \notin 0..SysFunLast THEN Stop("fail")
           ELSE IF I.arg = SysFunLast THEN Stop("undefined")
           ELSE IF PushStops(8) # {} THEN \E s \in PushStops(8) : Stop(s)
           ELSE IF Len(out) = MaxPrints THEN Stop("exhausted")
           ELSE IF sp < w THEN Stop("fail")
           ELSE IF ~Readable(sp - w, w) THEN Stop("undefined")
           ELSE /\ PushVal(bp, 8)
                /\ a' = Popped(w)
                /\ out' = Append(out, Printed(Popped(w), w))
                /\ Step
                /\ UNCHANGED <<bp, flags, sp>>

Exit == Fetch({"exit"}) /\ status' = "exit" /\ ip' = NextIp
        /\ UNCHANGED <<img, a, bp, flags, sp, size, mem, out>>

\* The loop ends past the last byte of the code, where a negative address, which
\* is unsigned, is as well; an ip inside an instruction makes an operand of an
\* opcode and an opcode of an operand.
InCode == ip \in 0..(img.used - 1)
OffEnd == status = "run" /\ ~InCode /\ Stop("end")
Stray  == status = "run" /\ InCode /\ ip \notin DOMAIN img.code /\ Stop("undefined")

-----------------------------------------------------------------------------
Off ==
    /\ status = "off"
    /\ ip = 0 /\ a = 0 /\ bp = 0 /\ flags = "" /\ sp = 0 /\ size = 0 /\ mem = <<>> /\ out = <<>>

\* gh_vm_init and the head of gh_vm_run.
Start ==
    /\ status = "off"
    /\ size' = BlockSize
    /\ IF img.entry = NoMain
       THEN status' = "fail" /\ UNCHANGED ip
       ELSE status' = "run" /\ ip' = img.entry
    /\ UNCHANGED <<img, a, bp, flags, sp, mem, out>>

Run == \/ MovAOffset \/ MovOffsetA \/ MovImm \/ UnaryOp \/ ExtendA
       \/ PushA \/ Binary \/ Cmp \/ SetCC
       \/ Jz \/ Jmp \/ Call \/ Ret \/ Enter \/ Leave \/ AddSp \/ SysFun \/ Exit
       \/ OffEnd \/ Stray

Stopped == status \notin {"off", "run"} /\ UNCHANGED <<img, vmvars>>

Next == Start \/ Run \/ Stopped

\* What a gh_bytecode can hold: nothing verifies it before it is run.
IsImage(i) ==
    /\ i.used \in Nat
    /\ DOMAIN i.code \subseteq 0..(i.used - 1)
    /\ i.entry \in Nat \cup {NoMain}
    /\ \A x \in DOMAIN i.code : i.code[x] \in Instrs

MachineSpec == IsImage(img) /\ Off /\ [][Next]_<<img, vmvars>>

-----------------------------------------------------------------------------
(* Properties, of whatever code the machine is given.                      *)

\* The two checks the machine makes, in calc_bp_pos and add_sp, are enough to
\* keep every access and the stack pointer off the addresses below the stack's
\* allocation, although offsets are signed, positions unsigned and the base
\* pointer is whatever LEAVE has found in memory.
AboveBottom == sp >= 0 /\ \A x \in DOMAIN mem : x >= 0

\* What lies on the stack stays there: whatever pushes, pops, calls, frames and
\* prints come in between, a byte below the stack pointer changes only by a
\* MOV_A_OFFSET.  (A system function works above the stack pointer and is gone
\* without a trace.)
StackKept ==
    [][status = "run" /\ ~(ip \in DOMAIN img.code /\ I.op = "mov_a_offset") =>
          \A x \in DOMAIN mem : x < sp => x \in DOMAIN mem' /\ mem'[x] = mem[x]]_vmvars

=============================================================================
