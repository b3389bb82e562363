---------------------------- MODULE GalachWords ----------------------------
(***************************************************************************)
(* The arithmetic of the virtual machine's accumulator: what the C         *)
(* expressions of vm.c compute on operands of w bytes and leave in the     *)
(* 64-bit register a.  A byte has ByteBits bits (8 in the code, fewer in a *)
(* scaled model); the counts of bytes are the code's.                      *)
(*                                                                         *)
(* Operands of one and two bytes are promoted to int before an operator    *)
(* applies, and the int is sign-extended into a: the result may have bits  *)
(* above the operand's width.  Operands of four and eight bytes wrap.      *)
(***************************************************************************)
EXTENDS GalachISA, SequencesExt

CONSTANTS ByteBits, BitAnd(_, _), BitOr(_, _), BitXor(_, _)

\* 2 to the n.
TwoTo[n \in Nat] == IF n = 0 THEN 1 ELSE 2 * TwoTo[n - 1]

ASSUME BitsAssumption == ByteBits \in Nat /\ ByteBase = TwoTo[ByteBits]

IntBits == 4 * ByteBits

\* (u_w) v, and the value of a w-byte pattern read as signed.
Trunc(v, w)  == v % Cap(w)
Signed(v, w) == IF Trunc(v, w) < Cap(w) \div 2 THEN Trunc(v, w) ELSE Trunc(v, w) - Cap(w)

\* The integer promotions: the type an operator computes in, its result in a.
Wider(w)      == IF w < 4 THEN 4 ELSE w
\* Mutant: four bytes are computed in eight.
ResultWide(v, w) == IF w < 4 THEN Trunc(Signed(v, 4), 8) ELSE Trunc(v, 8)
Result(v, w)  == IF w < 4 THEN Trunc(Signed(v, 4), 8) ELSE Trunc(v, w)

\* Mutant: the second half is forgotten.
TimesHalf(x, y, w) == IF w < 8 THEN x * y ELSE (x * (y % Cap(4))) % Cap(8)

\* Product modulo Cap(8), in two halves so that no intermediate result leaves
\* the integers TLC has.
Times(x, y, w) ==
    LET half == Cap(4)
    IN  IF w < 8 THEN x * y
        ELSE (x * (y % half) + ((x * (y \div half)) % half) * half) % Cap(8)

Bool(b) == IF b THEN 1 ELSE 0

\* The operands an operator is undefined for: division by zero, a shift by the
\* operand's width or more, an int product that overflows.
Undefined(op, x, y, w) ==
    \/ op \in {"div", "mod"} /\ y = 0
    \/ op \in {"lshift", "rshift"} /\ y >= Wider(w) * ByteBits
    \/ op = "mul" /\ w = 2 /\ x * y >= Cap(4) \div 2

\* OPFUNS: x is the popped operand, y the one in a.
Apply(op, x, y, w) ==
    CASE op = "add"    -> Result(x + y, w)
      [] op = "sub"    -> Result(x - y, w)
      [] op = "mul"    -> Result(Times(x, y, w), w)
      [] op = "div"    -> x \div y
      [] op = "mod"    -> x % y
      [] op = "lshift" -> Result(Times(x, Trunc(TwoTo[y], Wider(w)), Wider(w)), w)
      [] op = "rshift" -> x \div TwoTo[y]
      [] op = "band"   -> BitAnd(x, y)
      [] op = "bxor"   -> BitXor(x, y)
      [] op = "bor"    -> BitOr(x, y)
      [] op = "and"    -> Bool(x # 0 /\ y # 0)
      [] op = "or"     -> Bool(x # 0 \/ y # 0)

\* Mutant: ~ is taken for !.
ApplyUnaryNot(op, y, w) ==
    IF op = "sign" THEN Result(-y, w) ELSE Bool(y = 0)

\* sign_a, neg_a, bneg_a
ApplyUnary(op, y, w) ==
    CASE op = "sign" -> Result(-y, w)
      [] op = "neg"  -> Bool(y = 0)
      [] op = "bneg" -> Result(-y - 1, w)

\* zext_a, sext_a: sext leaves all 64 bits extended.
Extend(op, v, w) == IF op = "zext" THEN Trunc(v, w) ELSE Trunc(Signed(v, w), 8)

\* Words in memory lie most significant byte first.
ByteOf(v, w, k) == (v \div Weight(w - 1 - k)) % ByteBase
WordAt(m, lo, w) ==
    LET first[k \in 0..w] == IF k = 0 THEN 0 ELSE first[k - 1] * ByteBase + m[lo + k - 1]
    IN  first[w]

=============================================================================
