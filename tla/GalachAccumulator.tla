------------------------- MODULE GalachAccumulator --------------------------
(***************************************************************************)
(* One instruction of arithmetic: an operator of vm.c applied to operands  *)
(* of its width, and what it leaves in the register a, against the         *)
(* operator's definition on integers.                                      *)
(***************************************************************************)
EXTENDS GalachWords

CONSTANT Operands(_)   \* the operands at each width

ASSUME OperandsAssumption == \A w \in Widths : Operands(w) \subseteq 0..(Cap(w) - 1)

\* What C's operators on bits make of two words is a word of the same width.
BitsFit ==
    \A w \in Widths : \A x, y \in 0..(Cap(w) - 1) :
        {BitAnd(x, y), BitOr(x, y), BitXor(x, y)} \subseteq 0..(Cap(w) - 1)

VARIABLES oper, width, left, right,   \* an operator, its width, the popped operand and a
          acc                         \* what it leaves in a; None before
None == -1
accvars == <<oper, width, left, right, acc>>

ExtendOps == {"zext", "sext"}
BitOps    == {"lshift", "rshift", "band", "bxor", "bor", "bneg"}

AccInit ==
    /\ oper \in ArithOps \cup UnaryOps \cup ExtendOps
    /\ width \in Widths
    /\ right \in Operands(width)
    /\ left \in (IF oper \in ArithOps THEN Operands(width) ELSE {0})
    /\ acc = None

Compute ==
    /\ acc = None
    /\ acc' = CASE oper \in UnaryOps  -> ApplyUnary(oper, right, width)
                [] oper \in ExtendOps -> Extend(oper, right, width)
                [] oper \in ArithOps  -> IF Undefined(oper, left, right, width) THEN right
                                         ELSE Apply(oper, left, right, width)
    /\ UNCHANGED <<oper, width, left, right>>

Computed == acc # None /\ UNCHANGED accvars

AccNext == Compute \/ Computed
AccSpec == AccInit /\ [][AccNext]_accvars

-----------------------------------------------------------------------------
Defined == acc # None /\ ~(oper \in ArithOps /\ Undefined(oper, left, right, width))

\* The operators of arithmetic and logic on integers.
Quotient == CHOOSE q \in 0..left : q * right <= left /\ left < (q + 1) * right
Exact ==
    CASE oper = "add"        -> left + right
      [] oper = "sub"        -> left + Cap(8) - right
      [] oper = "sign"       -> Cap(8) - right
      [] oper = "mul"        -> left * right
      [] oper = "div"        -> Quotient
      [] oper = "mod"        -> left - right * Quotient
      [] oper = "and"        -> IF {left, right} \cap {0} = {} THEN 1 ELSE 0
      [] oper = "or"         -> IF {left, right} # {0} THEN 1 ELSE 0
      [] oper = "neg"        -> IF right = 0 THEN 1 ELSE 0
      [] oper \in ExtendOps  -> right

\* An operator of w bytes leaves in the low w bytes of a the result modulo the
\* operands' width, although C computes the narrow ones in int.
LowBytesExact ==
    Defined /\ oper \notin BitOps => acc % Cap(width) = Exact % Cap(width)

\* The operators on bits, bit by bit.
Bits(v) == {k \in 0..(8 * ByteBits - 1) : (v \div TwoTo[k]) % 2 = 1}

ExactBits ==
    CASE oper = "lshift" -> {k + right : k \in Bits(left)}
      [] oper = "rshift" -> {k - right : k \in Bits(left)} \cap Nat
      [] oper = "band"   -> Bits(left) \cap Bits(right)
      [] oper = "bor"    -> Bits(left) \cup Bits(right)
      [] oper = "bxor"   -> (Bits(left) \ Bits(right)) \cup (Bits(right) \ Bits(left))
      [] oper = "bneg"   -> Bits(Cap(8) - 1) \ Bits(right)

\* What C's operators on bits make of two words is what they say bit by bit.
BitsAre ==
    \A w \in Widths : \A x, y \in 0..(Cap(w) - 1) :
        /\ Bits(BitAnd(x, y)) = Bits(x) \cap Bits(y)
        /\ Bits(BitOr(x, y)) = Bits(x) \cup Bits(y)
        /\ Bits(BitXor(x, y)) = (Bits(x) \ Bits(y)) \cup (Bits(y) \ Bits(x))

\* The same of the shifts and the operators on bits: below the operands' width,
\* the bits of a are those the operator is for.
LowBitsExact ==
    Defined /\ oper \in BitOps =>
        Bits(acc % Cap(width)) = ExactBits \cap 0..(width * ByteBits - 1)

\* What it leaves above them is never garbage: zeros, or copies of the sign bit
\* of int.  So an int-wide or wider result needs no masking, and a narrow one
\* read at a greater width is off by whole powers of the width at most.
HighBytesExtend ==
    Defined => /\ acc \in 0..(Cap(8) - 1)
               /\ acc >= Cap(4) /\ width < 8 =>
                      /\ acc >= Cap(8) - Cap(4) \div 2
                      /\ oper \in {"add", "sub", "mul", "lshift", "sign", "bneg", "sext"}

=============================================================================
