----------------------------- MODULE GalachISA -----------------------------
(***************************************************************************)
(* The vocabulary the code generator (bytecode.c) and the virtual machine  *)
(* (vm.c) share: the language's types and the instructions of vm.h.        *)
(*                                                                         *)
(* An instruction is a record [op, w, arg].  op is the mnemonic of a group *)
(* of opcodes, w the width in bytes that picks one of the group (the code  *)
(* adds 0..3 to the group's first opcode; 0 when the group has only one),  *)
(* arg the operand: an offset, an address or an index as the i64 the VM    *)
(* reads it as, an immediate as the bits it stores.                        *)
(***************************************************************************)
EXTENDS Integers, Sequences

CONSTANT ByteBase   \* the values of a byte: 256, or fewer in a scaled model

ASSUME ByteAssumption == ByteBase \in Nat /\ ByteBase > 1

IntTypes   == {"i8", "u8", "i16", "u16", "i32", "u32", "i64", "u64"}
FloatTypes == {"f32", "f64"}
Types      == IntTypes \cup FloatTypes \cup {"unit"}

IsSigned(t) == t \in {"i8", "i16", "i32", "i64"}

\* gh_get_type_size
TypeSize(t) == CASE t = "unit"                    -> 0
                 [] t \in {"i8", "u8"}            -> 1
                 [] t \in {"i16", "u16"}          -> 2
                 [] t \in {"i32", "u32", "f32"}   -> 4
                 [] t \in {"i64", "u64", "f64"}   -> 8

Widths == {1, 2, 4, 8}

\* The width after w, in the order 8, 16, 32, 64 the opcodes come in.
Widths4  == <<1, 2, 4, 8>>
WidthIdx(w) == CHOOSE k \in 1..4 : Widths4[k] = w

\* The values of a word of w bytes.
Cap(w) == LET b2 == ByteBase * ByteBase
          IN  CASE w = 1 -> ByteBase
                [] w = 2 -> b2
                [] w = 4 -> b2 * b2
                [] w = 8 -> b2 * b2 * b2 * b2

\* The value of a byte n places above the lowest of a word: ByteBase to the n.
Weight(n) == (IF n >= 4 THEN Cap(4) ELSE 1) * (IF n % 4 >= 2 THEN Cap(2) ELSE 1)
              * (IF n % 2 = 1 THEN ByteBase ELSE 1)

ArithOps == {"add", "sub", "mul", "div", "mod", "lshift", "rshift",
             "band", "bxor", "bor", "and", "or"}
SetOps   == {"setlt", "setgt", "setle", "setge", "seteq", "setneq"}
UnaryOps == {"sign", "neg", "bneg"}

\* The opcodes followed by a 64-bit operand, and those that jump to it.
WithOperand == {"mov_a_offset", "mov_offset_a", "add_sp", "jz", "jmp", "call", "sysfun"}
Jumps       == {"jz", "jmp"}

\* The opcodes that come in widths; of the others there is one.
Sized == ArithOps \cup UnaryOps
           \cup {"mov_a_offset", "mov_offset_a", "mov_imm", "zext", "sext", "push", "cmp", "jz"}

Ops == ArithOps \cup SetOps \cup UnaryOps \cup WithOperand
         \cup {"zext", "sext", "mov_imm", "enter", "leave", "push", "cmp", "ret", "exit"}

InstrRecords == [op : Ops, w : Widths \cup {0}, arg : Int]

\* The instructions vm.h has opcodes for: there is no 64-bit value to extend,
\* and an opcode that comes in one width carries none.
WidthsOf(op) == IF op \in {"zext", "sext"} THEN {1, 2, 4}
                ELSE IF op \in Sized THEN Widths ELSE {0}
Instrs == {i \in InstrRecords : i.w \in WidthsOf(i.op)}

\* The operands an instruction can have: the bits of an immediate fit its width,
\* an address is a position of the code, a system function is one of the four,
\* offsets have a sign, and an opcode without an operand carries none.
OperandsOf(op, w) == CASE op = "mov_imm"                                    -> 0..(Cap(w) - 1)
                       [] op \in Jumps \cup {"call"}                        -> Nat
                       [] op = "sysfun"                                     -> 0..3
                       [] op \in {"mov_a_offset", "mov_offset_a", "add_sp"} -> Int
                       [] OTHER                                             -> {0}
ValidInstrs == {i \in Instrs : i.arg \in OperandsOf(i.op, i.w)}

Instr(op, w, arg) == [op |-> op, w |-> w, arg |-> arg]

\* How many bytes an instruction takes: the opcode, then its operand.
Length(i) == IF i.op \in WithOperand THEN 9
             ELSE IF i.op = "mov_imm" THEN 1 + i.w ELSE 1

=============================================================================
