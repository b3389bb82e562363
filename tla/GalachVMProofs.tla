--------------------------- MODULE GalachVMProofs ---------------------------
(***************************************************************************)
(* The virtual machine, for every number of bits in a byte, the code's own *)
(* 64-bit words included, which TLC cannot enumerate.                      *)
(*                                                                         *)
(* Words: LowBytesExact and HighBytesExtend hold for all operands.  An     *)
(* operator computes in int or in its operand's width and is cut or        *)
(* extended to the register: each of these steps changes the value by a    *)
(* multiple of the operand's width (SameLow), and leaves it in the low     *)
(* half of int or extends its sign (ResultHigh).                           *)
(* LowBitsExact: a digit of a shifted, cut or complemented number is a     *)
(* digit of the number (DigitShift, DigitDrop, DigitCut, DigitFlip).       *)
(*                                                                         *)
(* The machine: AboveBottom and StackKept hold for every image, whether a  *)
(* compiler made it or not, and every size of its stack.  The inductive    *)
(* invariant is Sane: registers are numbers, and the stack pointer, the    *)
(* base pointer and every address written are not negative.  That a base   *)
(* pointer LEAVE has found in memory is not negative is why Sane has to    *)
(* say that memory holds bytes.                                            *)
(***************************************************************************)
EXTENDS GalachVM, GalachAccumulator, GalachNaturals

\* The C operators on bits yield numbers.
BitsClosed == \A x, y \in Nat : {BitAnd(x, y), BitOr(x, y), BitXor(x, y)} \subseteq Nat

-----------------------------------------------------------------------------
(* Numbers.                                                                *)

LEMMA ProductType ==
    ASSUME NEW x \in Nat, NEW y \in Nat, x > 0, y > 0
    PROVE  x * y \in Nat /\ x * y > 0
  OBVIOUS

LEMMA CapType ==
    ASSUME NEW w \in Widths
    PROVE  Cap(w) \in Nat /\ Cap(w) > 0
<1> DEFINE b2 == ByteBase * ByteBase
           b4 == b2 * b2
           b6 == b4 * b2
<1>1. ByteBase \in Nat /\ ByteBase > 0
  BY ByteAssumption
<1>2. b2 \in Nat /\ b2 > 0
  BY <1>1, ProductType, Zenon
<1> HIDE DEF b2
<1>3. b4 \in Nat /\ b4 > 0
  BY <1>2, ProductType, Zenon
<1> HIDE DEF b4
<1>4. b6 \in Nat /\ b6 > 0
  BY <1>2, <1>3, ProductType, Zenon
<1> HIDE DEF b6
<1>5. b6 * b2 \in Nat /\ b6 * b2 > 0
  BY <1>2, <1>4, ProductType, Zenon
<1>6. /\ Cap(1) = ByteBase /\ Cap(2) = b2 /\ Cap(4) = b4 /\ Cap(8) = b6 * b2
  BY DEF Cap, b2, b4, b6
<1> QED BY <1>1, <1>2, <1>3, <1>5, <1>6 DEF Widths

LEMMA TruncType ==
    ASSUME NEW v \in Int, NEW w \in Widths
    PROVE  Trunc(v, w) \in Nat /\ Trunc(v, w) < Cap(w)
<1>1. Cap(w) \in Nat /\ Cap(w) > 0
  BY CapType
<1> QED BY <1>1 DEF Trunc

LEMMA SignedType ==
    ASSUME NEW v \in Int, NEW w \in Widths
    PROVE  Signed(v, w) \in Int
  BY TruncType, CapType DEF Signed

LEMMA ResultType ==
    ASSUME NEW v \in Int, NEW w \in Widths
    PROVE  Result(v, w) \in Int
<1>1. Signed(v, 4) \in Int /\ 8 \in Widths
  BY SignedType DEF Widths
<1>2. Trunc(Signed(v, 4), 8) \in Int /\ Trunc(v, w) \in Int
  BY <1>1, TruncType
<1> QED BY <1>2 DEF Result

\* The powers of two the shifts multiply by.
LEMMA TwoToStep == TwoTo[0] = 1 /\ \A n \in Nat : TwoTo[n + 1] = 2 * TwoTo[n]
<1> DEFINE step == [p \in Nat \X (Nat \ {0}) |-> 2 * p[2]]
<1>1. 1 \in Nat \ {0} /\ step \in [Nat \X (Nat \ {0}) -> Nat \ {0}]
  OBVIOUS
<1>2. PICK f \in [Nat -> Nat \ {0}] : Recurs(f, 1, step)
  <2> HIDE DEF step
  <2> QED BY <1>1, Recursion, Zenon
<1>3. f = [n \in Nat |-> IF n = 0 THEN 1 ELSE 2 * f[n - 1]]
  <2>1. ASSUME NEW n \in Nat, n # 0 PROVE f[n] = 2 * f[n - 1]
    <3>1. n - 1 \in Nat /\ (n - 1) + 1 = n
      BY <2>1
    <3>2. f[n] = step[<<n - 1, f[n - 1]>>]
      BY <1>2, <3>1 DEF Recurs
    <3> QED BY <3>1, <3>2
  <2> HIDE DEF step
  <2> QED BY <1>2, <2>1 DEF Recurs
<1> DEFINE Doubles(g) == g = [n \in Nat |-> IF n = 0 THEN 1 ELSE 2 * g[n - 1]]
<1>4. Doubles(TwoTo)
  <2>1. TwoTo = CHOOSE g : Doubles(g)
    BY DEF TwoTo
  <2>2. Doubles(f)
    BY <1>3
  <2> HIDE DEF Doubles
  <2> QED BY <2>1, <2>2
<1>5. ASSUME NEW n \in Nat PROVE TwoTo[n + 1] = 2 * TwoTo[n]
  <2>1. TwoTo[n + 1] = 2 * TwoTo[(n + 1) - 1]
    BY <1>4
  <2>2. (n + 1) - 1 = n
    OBVIOUS
  <2> QED BY <2>1, <2>2
<1>6. TwoTo[0] = 1
  BY <1>4
<1> QED BY <1>5, <1>6

LEMMA TwoToType == \A n \in Nat : TwoTo[n] \in Nat /\ TwoTo[n] > 0
<1> DEFINE T == {n \in Nat : TwoTo[n] \in Nat \ {0}}
<1>1. 0 \in T
  BY TwoToStep
<1>2. ASSUME NEW n \in Nat, n \in T PROVE n + 1 \in T
  <2>1. TwoTo[n + 1] = 2 * TwoTo[n]
    BY TwoToStep
  <2> QED BY <1>2, <2>1
<1>3. \A n \in Nat : n \in T
  <2> HIDE DEF T
  <2> QED BY <1>1, <1>2, Induction, Zenon
<1> QED BY <1>3

-----------------------------------------------------------------------------
(* What the instructions compute.                                          *)

LEMMA TimesType ==
    ASSUME NEW x \in Nat, NEW y \in Nat, NEW w \in Widths
    PROVE  Times(x, y, w) \in Int
<1>1. Cap(4) \in Nat /\ Cap(4) > 0 /\ Cap(8) \in Nat /\ Cap(8) > 0
  BY CapType DEF Widths
<1> DEFINE lo == y % Cap(4)
           hi == y \div Cap(4)
<1>2. lo \in Int /\ hi \in Int
  BY <1>1
<1> HIDE DEF lo, hi
<1> DEFINE r == (x * hi) % Cap(4)
<1>3. r \in Int
  <2>1. x * hi \in Int
    BY <1>2
  <2> QED BY <1>1, <2>1
<1> HIDE DEF r
<1>4. x * lo + r * Cap(4) \in Int
  <2>1. x * lo \in Int /\ r * Cap(4) \in Int
    BY <1>1, <1>2, <1>3
  <2> QED BY <2>1
<1>5. (x * lo + r * Cap(4)) % Cap(8) \in Int
  BY <1>1, <1>4
<1>6. x * y \in Int
  OBVIOUS
<1> QED BY <1>5, <1>6 DEF Times, lo, hi, r

LEMMA ApplyType ==
    ASSUME BitsClosed, NEW op \in ArithOps, NEW x \in Nat, NEW y \in Nat, NEW w \in Widths,
           ~Undefined(op, x, y, w)
    PROVE  Apply(op, x, y, w) \in Int
<1>1. CASE op = "add"
  <2>1. x + y \in Int
    OBVIOUS
  <2>2. Result(x + y, w) \in Int
    BY <2>1, ResultType
  <2> QED BY <1>1, <2>2 DEF Apply
<1>2. CASE op = "sub"
  <2>1. x - y \in Int
    OBVIOUS
  <2>2. Result(x - y, w) \in Int
    BY <2>1, ResultType
  <2> QED BY <1>2, <2>2 DEF Apply
<1>3. CASE op = "mul"
  <2>1. Result(Times(x, y, w), w) \in Int
    BY TimesType, ResultType
  <2> QED BY <1>3, <2>1 DEF Apply
<1>4. CASE op \in {"div", "mod"}
  <2>1. y > 0
    BY <1>4 DEF Undefined
  <2>2. x \div y \in Int /\ x % y \in Int
    BY <2>1
  <2> QED BY <1>4, <2>2 DEF Apply
<1>5. CASE op \in {"lshift", "rshift"}
  <2>1. TwoTo[y] \in Nat /\ TwoTo[y] > 0
    BY TwoToType
  <2>2. x \div TwoTo[y] \in Int
    BY <2>1
  <2>3. Wider(w) \in Widths
    BY DEF Wider, Widths
  <2>4. Trunc(TwoTo[y], Wider(w)) \in Nat
    BY <2>1, <2>3, TruncType
  <2>5. Times(x, Trunc(TwoTo[y], Wider(w)), Wider(w)) \in Int
    BY <2>3, <2>4, TimesType
  <2>6. Result(Times(x, Trunc(TwoTo[y], Wider(w)), Wider(w)), w) \in Int
    BY <2>5, ResultType
  <2> QED BY <1>5, <2>2, <2>6 DEF Apply
<1>6. CASE op \in {"band", "bxor", "bor"}
  <2>1. BitAnd(x, y) \in Nat /\ BitXor(x, y) \in Nat /\ BitOr(x, y) \in Nat
    BY DEF BitsClosed
  <2> QED BY <1>6, <2>1 DEF Apply
<1>7. CASE op \in {"and", "or"}
  BY <1>7 DEF Apply, Bool
<1> QED BY <1>1, <1>2, <1>3, <1>4, <1>5, <1>6, <1>7 DEF ArithOps

LEMMA ApplyUnaryType ==
    ASSUME NEW op \in UnaryOps, NEW y \in Nat, NEW w \in Widths
    PROVE  ApplyUnary(op, y, w) \in Int
<1>1. -y \in Int /\ -y - 1 \in Int
  OBVIOUS
<1>2. Result(-y, w) \in Int /\ Result(-y - 1, w) \in Int
  BY <1>1, ResultType
<1> QED BY <1>2 DEF ApplyUnary, UnaryOps, Bool

LEMMA ExtendType ==
    ASSUME NEW op, NEW v \in Int, NEW w \in Widths
    PROVE  Extend(op, v, w) \in Int
<1>1. Signed(v, w) \in Int /\ 8 \in Widths
  BY SignedType DEF Widths
<1>2. Trunc(Signed(v, w), 8) \in Int /\ Trunc(v, w) \in Int
  BY <1>1, TruncType
<1> QED BY <1>2 DEF Extend

-----------------------------------------------------------------------------
(* Division.                                                               *)

LEMMA ProductOrder ==
    ASSUME NEW c \in Nat, NEW p \in Int, NEW q \in Int, p <= q
    PROVE  c * p \in Int /\ c * q \in Int /\ c * p <= c * q
<1>1. q - p \in Nat
  OBVIOUS
<1>2. c * (q - p) \in Nat
  BY <1>1
<1>3. c * (q - p) = c * q - c * p
  OBVIOUS
<1> QED BY <1>2, <1>3

LEMMA QuotientOrder ==
    ASSUME NEW c \in Nat, NEW p \in Int, NEW q \in Int, NEW r \in Int, NEW s \in Int,
           0 <= r, r < c, 0 <= s, c * p + r = c * q + s
    PROVE  q <= p
<1> SUFFICES ASSUME p + 1 <= q PROVE FALSE
  OBVIOUS
<1>1. c * (p + 1) <= c * q /\ c * (p + 1) \in Int /\ c * q \in Int
  <2>1. p + 1 \in Int
    OBVIOUS
  <2> QED BY <2>1, ProductOrder
<1>2. c * (p + 1) = c * p + c /\ c * p \in Int
  OBVIOUS
<1> QED BY <1>1, <1>2

\* A quotient and a remainder are all there is to a number.
LEMMA Division ==
    ASSUME NEW c \in Nat, c > 0, NEW v \in Int, NEW q \in Int, NEW r \in Int,
           0 <= r, r < c, v = c * q + r
    PROVE  v \div c = q /\ v % c = r
<1> DEFINE p == v \div c
           s == v % c
<1>1. p \in Int /\ s \in Int /\ 0 <= s /\ s < c /\ v = c * p + s
  OBVIOUS
<1> HIDE DEF p, s
<1>2. q <= p /\ p <= q
  BY <1>1, QuotientOrder
<1>3. p = q /\ s = r
  BY <1>1, <1>2
<1> QED BY <1>3 DEF p, s

LEMMA Remainder ==
    ASSUME NEW c \in Nat, c > 0, NEW v \in Int
    PROVE  /\ v \div c \in Int
           /\ v % c \in 0..(c - 1)
           /\ v = c * (v \div c) + (v % c)
  OBVIOUS

\* Whole multiples of c do not matter modulo c.
LEMMA MultipleAdded ==
    ASSUME NEW c \in Nat, c > 0, NEW v \in Int, NEW k \in Int
    PROVE  (v + c * k) % c = v % c
<1> DEFINE q == v \div c
           r == v % c
<1>1. q \in Int /\ r \in Int /\ 0 <= r /\ r < c /\ v = c * q + r
  BY Remainder
<1> HIDE DEF q, r
<1>2. v + c * k = c * (q + k) + r
  <2>1. c * (q + k) = c * q + c * k
    BY <1>1
  <2>2. c * q \in Int /\ c * k \in Int
    BY <1>1
  <2> QED BY <1>1, <2>1, <2>2
<1>3. v + c * k \in Int /\ q + k \in Int
  BY <1>1
<1>4. (v + c * k) % c = r
  BY <1>1, <1>2, <1>3, Division
<1> QED BY <1>4 DEF r

\* Neither does a remainder by a multiple of c.
LEMMA CoarseRemainder ==
    ASSUME NEW c \in Nat, c > 0, NEW m \in Nat, m > 0, NEW v \in Int
    PROVE  (v % (c * m)) % c = v % c
<1> DEFINE d == c * m
           q == v \div d
           r == v % d
<1>1. d \in Nat /\ d > 0
  BY ProductType
<1> HIDE DEF d
<1>2. q \in Int /\ r \in Int /\ v = d * q + r
  BY <1>1, Remainder
<1> HIDE DEF q, r
<1>3. r + c * (m * q) = v /\ m * q \in Int
  <2>1. d * q = c * (m * q)
    BY <1>2 DEF d
  <2>2. m * q \in Int /\ d * q \in Int
    BY <1>1, <1>2
  <2> QED BY <1>2, <2>1, <2>2
<1>4. (r + c * (m * q)) % c = r % c
  BY <1>2, <1>3, MultipleAdded
<1> QED BY <1>3, <1>4 DEF r, d

-----------------------------------------------------------------------------
(* Words of different widths.                                              *)

\* The words of bytes: the wider ones are squares of the narrower ones.
LEMMA Squares ==
    /\ Cap(1) = ByteBase /\ Cap(2) = Cap(1) * Cap(1) /\ Cap(4) = Cap(2) * Cap(2)
    /\ Cap(8) = Cap(4) * Cap(4)
<1> DEFINE b1 == ByteBase
           b2 == b1 * b1
           b4 == b2 * b2
<1>1. Cap(1) = b1 /\ Cap(2) = b2 /\ Cap(4) = b4 /\ Cap(8) = b4 * b2 * b2
  BY DEF Cap
<1>2. b1 \in Nat
  BY ByteAssumption
<1> HIDE DEF b1
<1>3. b2 \in Nat
  BY <1>2
<1> HIDE DEF b2
<1>4. b4 \in Nat
  BY <1>3
<1>5. b4 * b2 * b2 = b4 * (b2 * b2)
  BY <1>3, <1>4
<1> QED BY <1>1, <1>5 DEF b1, b2, b4

\* Bytes hold bits, so they have an even number of values.
LEMMA EvenByte == \E h \in Nat : h > 0 /\ ByteBase = 2 * h
<1>1. ByteBits \in Nat /\ ByteBase = TwoTo[ByteBits] /\ ByteBase > 1
  BY BitsAssumption, ByteAssumption
<1>2. TwoTo[0] = 1 /\ \A n \in Nat : TwoTo[n + 1] = 2 * TwoTo[n]
  BY TwoToStep
<1>3. ByteBits # 0
  BY <1>1, <1>2
<1>4. PICK n \in Nat : ByteBits = n + 1
  <2>1. ByteBits - 1 \in Nat /\ ByteBits = (ByteBits - 1) + 1
    BY <1>1, <1>3
  <2> QED BY <2>1
<1>5. ByteBase = 2 * TwoTo[n] /\ TwoTo[n] \in Nat /\ TwoTo[n] > 0
  BY <1>1, <1>2, <1>4, TwoToType
<1> QED BY <1>5

\* A wider word has a multiple of the values of a narrower one.
LEMMA Multiple ==
    ASSUME NEW w \in Widths, NEW v \in Widths, w <= v
    PROVE  \E m \in Nat : m > 0 /\ Cap(v) = Cap(w) * m
<1> DEFINE Goal(x, y) == \E m \in Nat : m > 0 /\ y = x * m
<1>1. \A x \in {1, 2, 4, 8} : Cap(x) \in Nat /\ Cap(x) > 0
  BY CapType DEF Widths
<1>2. ASSUME NEW x \in Nat, x > 0 PROVE Goal(x, x)
  BY <1>2
<1>3. ASSUME NEW x \in Nat, NEW y \in Nat, NEW z \in Nat, y > 0, Goal(x, y), z = y * y
      PROVE  Goal(x, z)
  <2>1. PICK m \in Nat : m > 0 /\ y = x * m
    BY <1>3
  <2>2. m * y \in Nat /\ m * y > 0
    BY <1>3, <2>1, ProductType
  <2>3. (x * m) * y = x * (m * y)
    BY <1>3
  <2>4. z = x * (m * y)
    BY <1>3, <2>1, <2>3
  <2> QED BY <2>2, <2>4
<1> HIDE DEF Goal
<1>4. /\ Goal(Cap(1), Cap(1)) /\ Goal(Cap(2), Cap(2)) /\ Goal(Cap(4), Cap(4)) /\ Goal(Cap(8), Cap(8))
  BY <1>1, <1>2
<1>5. Goal(Cap(1), Cap(2)) /\ Goal(Cap(2), Cap(4)) /\ Goal(Cap(4), Cap(8))
  BY <1>1, <1>3, <1>4, Squares
<1>6. Goal(Cap(1), Cap(4)) /\ Goal(Cap(2), Cap(8))
  BY <1>1, <1>3, <1>5, Squares
<1>7. Goal(Cap(1), Cap(8))
  BY <1>1, <1>3, <1>6, Squares
<1>8. Goal(Cap(w), Cap(v))
  BY <1>4, <1>5, <1>6, <1>7 DEF Widths
<1> QED BY <1>8 DEF Goal

LEMMA CapOrder ==
    /\ \A w \in {1, 2, 4} : Cap(w) <= Cap(4)
    /\ 2 * Cap(4) <= Cap(8)
    /\ 2 * (Cap(4) \div 2) = Cap(4)
<1>1. \A x \in {1, 2, 4, 8} : Cap(x) \in Nat /\ Cap(x) > 0
  BY CapType DEF Widths
<1>2. ASSUME NEW w \in {1, 2, 4} PROVE Cap(w) <= Cap(4)
  <2>1. PICK m \in Nat : m > 0 /\ Cap(4) = Cap(w) * m
    <3>1. w \in Widths /\ 4 \in Widths /\ w <= 4
      BY DEF Widths
    <3> QED BY <3>1, Multiple
  <2>2. Cap(w) * 1 <= Cap(w) * m
    <3>1. 1 \in Int /\ m \in Int /\ 1 <= m
      BY <2>1
    <3> QED BY <1>1, <3>1, ProductOrder
  <2> QED BY <1>1, <2>1, <2>2
<1>3. PICK h \in Nat : h > 0 /\ Cap(4) = 2 * h
  <2>1. PICK g \in Nat : g > 0 /\ ByteBase = 2 * g
    BY EvenByte
  <2>2. PICK m \in Nat : m > 0 /\ Cap(4) = Cap(1) * m
    <3>1. 1 \in Widths /\ 4 \in Widths
      BY DEF Widths
    <3> QED BY <3>1, Multiple
  <2>3. g * m \in Nat /\ g * m > 0
    BY <2>1, <2>2, ProductType
  <2>4. Cap(4) = 2 * (g * m)
    <3>1. (2 * g) * m = 2 * (g * m)
      BY <2>1, <2>2
    <3> QED BY <2>1, <2>2, <3>1, Squares
  <2> QED BY <2>3, <2>4
<1>4. 2 * (Cap(4) \div 2) = Cap(4)
  BY <1>3
<1>5. 2 * Cap(4) <= Cap(8)
  <2>1. Cap(4) * 2 <= Cap(4) * Cap(4)
    <3>1. 2 \in Int /\ Cap(4) \in Int /\ 2 <= Cap(4)
      BY <1>1, <1>3
    <3> QED BY <1>1, <3>1, ProductOrder
  <2> QED BY <1>1, <2>1, Squares
<1> QED BY <1>2, <1>4, <1>5

-----------------------------------------------------------------------------
(* Cutting and extending.                                                  *)

\* Cut to the same width or a greater one, a number keeps its low bytes, ...
LEMMA SameLow ==
    ASSUME NEW v \in Int, NEW w \in Widths, NEW u \in Widths, w <= u
    PROVE  Trunc(v, u) % Cap(w) = v % Cap(w)
<1>1. PICK m \in Nat : m > 0 /\ Cap(u) = Cap(w) * m
  BY Multiple
<1>2. Cap(w) \in Nat /\ Cap(w) > 0
  BY CapType
<1>3. (v % (Cap(w) * m)) % Cap(w) = v % Cap(w)
  BY <1>1, <1>2, CoarseRemainder
<1> QED BY <1>1, <1>3 DEF Trunc

\* ... read as signed as well.
LEMMA SignedLow ==
    ASSUME NEW v \in Int, NEW w \in Widths, NEW u \in Widths, w <= u
    PROVE  Signed(v, u) % Cap(w) = v % Cap(w)
<1>1. PICK m \in Nat : m > 0 /\ Cap(u) = Cap(w) * m
  BY Multiple
<1>2. Cap(w) \in Nat /\ Cap(w) > 0 /\ Trunc(v, u) \in Int
  BY CapType, TruncType
<1>3. (Trunc(v, u) + Cap(w) * (-m)) % Cap(w) = Trunc(v, u) % Cap(w)
  <2>1. -m \in Int
    BY <1>1
  <2> QED BY <1>2, <2>1, MultipleAdded
<1>4. Trunc(v, u) + Cap(w) * (-m) = Trunc(v, u) - Cap(u)
  <2>1. Cap(w) * (-m) = -(Cap(w) * m) /\ Cap(w) * m \in Int
    BY <1>1, <1>2
  <2> QED BY <1>1, <1>2, <2>1
<1>5. Signed(v, u) \in {Trunc(v, u), Trunc(v, u) - Cap(u)}
  BY DEF Signed
<1> QED BY <1>3, <1>4, <1>5, SameLow

LEMMA ResultLow ==
    ASSUME NEW v \in Int, NEW w \in Widths
    PROVE  Result(v, w) % Cap(w) = v % Cap(w)
<1>1. CASE w < 4
  <2>1. 4 \in Widths /\ 8 \in Widths /\ w <= 4 /\ w <= 8
    BY <1>1 DEF Widths
  <2>2. Signed(v, 4) \in Int
    BY <2>1, SignedType
  <2>3. Trunc(Signed(v, 4), 8) % Cap(w) = Signed(v, 4) % Cap(w)
    BY <2>1, <2>2, SameLow
  <2>4. Signed(v, 4) % Cap(w) = v % Cap(w)
    BY <2>1, SignedLow
  <2> QED BY <1>1, <2>3, <2>4 DEF Result
<1>2. CASE ~(w < 4)
  <2>1. w <= w
    BY DEF Widths
  <2> QED BY <1>2, <2>1, SameLow DEF Result
<1> QED BY <1>1, <1>2

\* A negative number of w bytes, extended to the register.
LEMMA Extended ==
    ASSUME NEW v \in Int, NEW w \in {1, 2, 4}
    PROVE  LET e == Trunc(Signed(v, w), 8)
           IN  e \in 0..(Cap(8) - 1) /\ (e >= Cap(4) => e >= Cap(8) - (Cap(4) \div 2))
<1> DEFINE t == Trunc(v, w)
           s == Signed(v, w)
           h == Cap(4) \div 2
<1>1. w \in Widths /\ 8 \in Widths /\ 4 \in Widths
  BY DEF Widths
<1>2. /\ Cap(w) \in Nat /\ Cap(4) \in Nat /\ Cap(8) \in Nat /\ Cap(8) > 0
      /\ Cap(w) <= Cap(4) /\ 2 * Cap(4) <= Cap(8) /\ h \in Int /\ 2 * h = Cap(4)
  BY <1>1, CapType, CapOrder
<1>3. t \in Nat /\ t < Cap(w)
  BY <1>1, TruncType
<1>4. s = IF t < Cap(w) \div 2 THEN t ELSE t - Cap(w)
  BY DEF Signed
<1> HIDE DEF t, s, h
<1>5. CASE s = t
  <2>1. s = Cap(8) * 0 + s /\ s < Cap(8)
    BY <1>2, <1>3, <1>5
  <2>2. s % Cap(8) = s
    BY <1>2, <1>3, <1>5, <2>1, Division
  <2> QED BY <1>2, <1>3, <1>5, <2>2 DEF Trunc, s, h
<1>6. CASE s = t - Cap(w) /\ t >= Cap(w) \div 2
  <2>1. s >= -h /\ s < 0 /\ s \in Int
    BY <1>2, <1>3, <1>6
  <2>2. s = Cap(8) * (-1) + (s + Cap(8))
    BY <1>2, <2>1
  <2>3. s % Cap(8) = s + Cap(8)
    <3>1. s + Cap(8) \in Int /\ 0 <= s + Cap(8) /\ s + Cap(8) < Cap(8) /\ -1 \in Int
      BY <1>2, <2>1
    <3> QED BY <1>2, <2>1, <2>2, <3>1, Division
  <2> QED BY <1>2, <2>1, <2>3 DEF Trunc, s, h
<1> QED BY <1>2, <1>3, <1>4, <1>5, <1>6

LEMMA ResultHigh ==
    ASSUME NEW v \in Int, NEW w \in Widths
    PROVE  /\ Result(v, w) \in 0..(Cap(8) - 1)
           /\ Result(v, w) >= Cap(4) /\ w < 8 => Result(v, w) >= Cap(8) - (Cap(4) \div 2)
<1>1. 4 \in Widths /\ 8 \in Widths
  BY DEF Widths
<1>2. CASE w < 4
  <2>1. Result(v, w) = Trunc(Signed(v, 4), 8)
    BY <1>2 DEF Result
  <2> QED BY <2>1, Extended
<1>3. CASE w = 4
  <2>1. Result(v, w) = Trunc(v, 4)
    BY <1>3 DEF Result
  <2>2. Trunc(v, 4) \in Nat /\ Trunc(v, 4) < Cap(4) /\ 2 * Cap(4) <= Cap(8)
        /\ Cap(4) \in Nat /\ Cap(8) \in Nat
    BY <1>1, TruncType, CapOrder, CapType
  <2> QED BY <2>1, <2>2
<1>4. CASE w = 8
  <2>1. Result(v, w) = Trunc(v, 8)
    BY <1>4 DEF Result
  <2> QED BY <1>1, <1>4, <2>1, TruncType, CapType
<1> QED BY <1>2, <1>3, <1>4 DEF Widths

\* The product of two words in two halves.
LEMMA TimesLow ==
    ASSUME NEW x \in Nat, NEW y \in Nat, NEW w \in Widths
    PROVE  Times(x, y, w) % Cap(w) = (x * y) % Cap(w)
<1>1. CASE w < 8
  BY <1>1 DEF Times
<1>2. CASE w = 8
  <2> DEFINE h  == Cap(4)
             lo == y % h
             hi == y \div h
             q  == (x * hi) \div h
             r  == (x * hi) % h
             s  == x * lo + r * h
  <2>1. h \in Nat /\ h > 0 /\ Cap(8) = h * h /\ Cap(8) \in Nat /\ Cap(8) > 0
    BY CapType, Squares DEF Widths
  <2>2. Times(x, y, w) = s % Cap(8)
    BY <1>2 DEF Times
  <2> HIDE DEF h
  <2>3. lo \in Int /\ hi \in Int /\ y = h * hi + lo
    BY <2>1, Remainder
  <2> HIDE DEF lo, hi, q, r
  <2>4. q \in Int /\ r \in Int /\ x * hi = h * q + r
    <3> DEFINE p == x * hi
    <3>1. p \in Int
      BY <2>3
    <3> HIDE DEF p
    <3>2. p \div h \in Int /\ p % h \in 0..(h - 1) /\ p = h * (p \div h) + (p % h)
      BY <2>1, <3>1, Remainder
    <3> QED BY <2>1, <3>2 DEF p, q, r
  <2>5. x * y = s + Cap(8) * q /\ s \in Int
    <3>1. x * y = x * (h * hi) + x * lo
      BY <2>1, <2>3
    <3>2. x * (h * hi) = (x * hi) * h
      BY <2>1, <2>3
    <3>3. (h * q + r) * h = (h * h) * q + r * h
      BY <2>1, <2>4
    <3>4. x * lo \in Int /\ r * h \in Int /\ (h * h) * q \in Int
      BY <2>1, <2>3, <2>4
    <3>5. x * (h * hi) = (h * h) * q + r * h
      BY <2>4, <3>2, <3>3, Zenon
    <3>6. x * y = ((h * h) * q + r * h) + x * lo
      BY <3>1, <3>5, Zenon
    <3> QED BY <2>1, <3>4, <3>6
  <2> HIDE DEF s
  <2>6. (x * y) % Cap(8) = s % Cap(8)
    <3>1. (s + Cap(8) * q) % Cap(8) = s % Cap(8)
      BY <2>1, <2>4, <2>5, MultipleAdded
    <3> QED BY <2>5, <3>1, Zenon
  <2>7. (s % Cap(8)) % Cap(8) = s % Cap(8)
    <3>1. 8 \in Widths /\ 8 <= 8
      BY DEF Widths
    <3>2. Trunc(s, 8) % Cap(8) = s % Cap(8)
      BY <2>5, <3>1, SameLow
    <3> QED BY <3>2 DEF Trunc
  <2> QED BY <1>2, <2>2, <2>6, <2>7
<1> QED BY <1>1, <1>2 DEF Widths

-----------------------------------------------------------------------------
(* The accumulator.                                                        *)

Outcome == CASE oper \in UnaryOps  -> ApplyUnary(oper, right, width)
             [] oper \in ExtendOps -> Extend(oper, right, width)
             [] oper \in ArithOps  -> IF Undefined(oper, left, right, width) THEN right
                                      ELSE Apply(oper, left, right, width)

Operated ==
    /\ oper \in ArithOps \cup UnaryOps \cup ExtendOps
    /\ width \in Widths
    /\ left \in 0..(Cap(width) - 1)
    /\ right \in 0..(Cap(width) - 1)
    /\ acc \in {None, Outcome}

LEMMA OperatedInit == AccInit => Operated
<1> SUFFICES ASSUME AccInit PROVE Operated
  OBVIOUS
<1>1. width \in Widths /\ Operands(width) \subseteq 0..(Cap(width) - 1)
  BY OperandsAssumption DEF AccInit
<1>2. 0 \in 0..(Cap(width) - 1)
  BY <1>1, CapType
<1> QED BY <1>1, <1>2 DEF AccInit, Operated

LEMMA OperatedStep == Operated /\ [AccNext]_accvars => Operated'
<1> SUFFICES ASSUME Operated, [AccNext]_accvars PROVE Operated'
  OBVIOUS
<1>1. UNCHANGED <<oper, width, left, right>> /\ acc' \in {None, acc, Outcome}
  BY DEF AccNext, Compute, Computed, accvars, Outcome
<1>2. Outcome' = Outcome
  BY <1>1 DEF Outcome
<1> HIDE DEF Outcome
<1> QED BY <1>1, <1>2 DEF Operated

\* Operands, as numbers.
LEMMA OperandType ==
    ASSUME Operated
    PROVE  /\ left \in Nat /\ right \in Nat
           /\ Cap(width) \in Nat /\ Cap(width) > 0
           /\ left < Cap(width) /\ right < Cap(width)
           /\ width \in Widths
<1>1. Cap(width) \in Nat /\ Cap(width) > 0
  BY CapType DEF Operated
<1> QED BY <1>1 DEF Operated

\* The quotient rounds down.
LEMMA QuotientIs ==
    ASSUME NEW x \in Nat, NEW y \in Nat, y > 0
    PROVE  /\ x \div y \in 0..x
           /\ x \div y = CHOOSE q \in 0..x : q * y <= x /\ x < (q + 1) * y
           /\ x % y = x - y * (x \div y)
           /\ x % y \in 0..x
<1> DEFINE p == x \div y
           r == x % y
           Rounds(q) == q * y <= x /\ x < (q + 1) * y
<1>1. p \in Int /\ r \in Int /\ 0 <= r /\ r < y /\ x = y * p + r
  BY Remainder
<1> HIDE DEF p, r
<1>2. y * p \in Int
  BY <1>1
<1>3. p >= 0
  <2>1. SUFFICES ASSUME p + 1 <= 0 PROVE FALSE
    BY <1>1
  <2>2. y * (p + 1) <= y * 0
    BY <1>1, <2>1, ProductOrder
  <2>3. y * (p + 1) = y * p + y
    BY <1>1
  <2> QED BY <1>1, <1>2, <2>2, <2>3
<1>4. p <= x
  <2>1. 1 * p <= y * p
    <3>1. p * 1 <= p * y
      BY <1>1, <1>3, ProductOrder
    <3> QED BY <1>1, <3>1
  <2> QED BY <1>1, <1>2, <2>1
<1>5. Rounds(p)
  <2>1. p * y = y * p /\ (p + 1) * y = y * p + y
    BY <1>1
  <2> QED BY <1>1, <1>2, <2>1
<1>6. ASSUME NEW q \in 0..x, Rounds(q) PROVE q = p
  <2>1. q * y = y * q /\ (q + 1) * y = y * q + y /\ y * q \in Int
    OBVIOUS
  <2> DEFINE s == x - y * q
  <2>2. s \in Int /\ 0 <= s /\ s < y /\ x = y * q + s
    BY <1>6, <2>1
  <2> HIDE DEF s, Rounds
  <2>3. x \div y = q
    BY <2>2, Division
  <2> QED BY <2>3 DEF p
<1> HIDE DEF Rounds
<1>7. p = CHOOSE q \in 0..x : Rounds(q)
  <2>1. p \in 0..x
    BY <1>1, <1>3, <1>4
  <2> QED BY <1>5, <1>6, <2>1
<1>8. r = x - y * p /\ r \in 0..x /\ p \in 0..x
  <2>1. y * p >= 0
    BY <1>1, <1>3
  <2> QED BY <1>1, <1>2, <1>3, <1>4, <2>1
<1> QED BY <1>7, <1>8 DEF p, r, Rounds

LEMMA LowBytes == Operated => LowBytesExact
<1> SUFFICES ASSUME Operated, Defined, oper \notin BitOps
             PROVE  acc % Cap(width) = Exact % Cap(width)
  BY DEF LowBytesExact
<1> DEFINE w == width
           x == left
           y == right
           c == Cap(w)
<1>1. /\ x \in Nat /\ y \in Nat /\ c \in Nat /\ c > 0 /\ x < c /\ y < c /\ w \in Widths
      /\ oper \in ArithOps \cup UnaryOps \cup ExtendOps
  BY OperandType DEF Operated
<1>2. acc = Outcome
  BY DEF Operated, Defined
<1>3. PICK m \in Nat : m > 0 /\ Cap(8) = c * m
  <2>1. 8 \in Widths /\ w <= 8
    BY <1>1 DEF Widths
  <2> QED BY <1>1, <2>1, Multiple
<1>4. Cap(8) \in Nat
  BY CapType DEF Widths
<1>5. oper \in ArithOps => ~Undefined(oper, x, y, w)
  BY DEF Defined
<1>6. ASSUME oper \in ArithOps PROVE acc = Apply(oper, x, y, w)
  BY <1>2, <1>5, <1>6 DEF Outcome, ArithOps, UnaryOps, ExtendOps
<1>7. ASSUME oper \in UnaryOps PROVE acc = ApplyUnary(oper, y, w)
  BY <1>2, <1>7 DEF Outcome, ArithOps, UnaryOps, ExtendOps
<1>8. ASSUME oper \in ExtendOps PROVE acc = Extend(oper, y, w)
  BY <1>2, <1>8 DEF Outcome, ArithOps, UnaryOps, ExtendOps
<1> SUFFICES acc % c = Exact % c
  BY DEF c, w
<1> HIDE DEF w, x, y, c
<1>9. ASSUME NEW v \in Int, NEW k \in Int, acc = Result(v, w), Exact = v + c * k
      PROVE  acc % c = Exact % c
  <2>1. Result(v, w) % c = v % c
    BY <1>1, ResultLow DEF c
  <2>2. (v + c * k) % c = v % c
    BY <1>1, MultipleAdded
  <2> QED BY <1>9, <2>1, <2>2, Zenon
<1>10. CASE oper = "add"
  <2>1. acc = Result(x + y, w)
    BY <1>6, <1>10 DEF Apply, ArithOps
  <2>2. Exact = x + y
    BY <1>10 DEF Exact, ExtendOps, x, y
  <2>3. x + y \in Int /\ x + y = (x + y) + c * 0
    BY <1>1
  <2> QED BY <1>9, <2>1, <2>2, <2>3
<1>11. CASE oper = "sub"
  <2>1. acc = Result(x - y, w)
    BY <1>6, <1>11 DEF Apply, ArithOps
  <2>2. Exact = x + Cap(8) - y
    BY <1>11 DEF Exact, ExtendOps, x, y
  <2>3. x - y \in Int /\ Exact = (x - y) + c * m
    BY <1>1, <1>3, <1>4, <2>2
  <2> QED BY <1>3, <1>9, <2>1, <2>3
<1>12. CASE oper = "sign"
  <2>1. acc = Result(-y, w)
    BY <1>7, <1>12 DEF ApplyUnary, UnaryOps
  <2>2. Exact = Cap(8) - y
    BY <1>12 DEF Exact, ExtendOps, y
  <2>3. -y \in Int /\ Exact = (-y) + c * m
    BY <1>1, <1>3, <1>4, <2>2
  <2> QED BY <1>3, <1>9, <2>1, <2>3
<1>13. CASE oper = "mul"
  <2>1. acc = Result(Times(x, y, w), w)
    BY <1>6, <1>13 DEF Apply, ArithOps
  <2>5. Exact = x * y
    BY <1>13 DEF Exact, ExtendOps, x, y
  <2>2. Times(x, y, w) \in Int
    BY <1>1, TimesType
  <2>3. Result(Times(x, y, w), w) % c = Times(x, y, w) % c
    BY <1>1, <2>2, ResultLow DEF c
  <2>4. Times(x, y, w) % c = (x * y) % c
    BY <1>1, TimesLow DEF c
  <2> QED BY <2>1, <2>3, <2>4, <2>5, Zenon
<1>14. CASE oper \in {"div", "mod"}
  <2>1. y > 0
    BY <1>1, <1>5, <1>14 DEF Undefined, ArithOps
  <2>2. acc = (IF oper = "div" THEN x \div y ELSE x % y)
    BY <1>6, <1>14 DEF Apply, ArithOps
  <2>3. Exact = (IF oper = "div" THEN Quotient ELSE x - y * Quotient)
    BY <1>14 DEF Exact, ExtendOps, x, y
  <2>4. Quotient = x \div y
    BY <1>1, <2>1, QuotientIs DEF Quotient, x, y
  <2>5. x % y = x - y * (x \div y)
    BY <1>1, <2>1, QuotientIs
  <2> QED BY <2>2, <2>3, <2>4, <2>5, Zenon
<1>15. CASE oper \in {"and", "or", "neg"}
  <2>1. acc = Exact
    <3>1. CASE oper = "and"
      <4>1. acc = Bool(x # 0 /\ y # 0)
        BY <1>6, <3>1 DEF Apply, ArithOps
      <4>2. Exact = (IF {x, y} \cap {0} = {} THEN 1 ELSE 0)
        BY <3>1 DEF Exact, ExtendOps, x, y
      <4> QED BY <4>1, <4>2 DEF Bool
    <3>2. CASE oper = "or"
      <4>1. acc = Bool(x # 0 \/ y # 0)
        BY <1>6, <3>2 DEF Apply, ArithOps
      <4>2. Exact = (IF {x, y} # {0} THEN 1 ELSE 0)
        BY <3>2 DEF Exact, ExtendOps, x, y
      <4> QED BY <4>1, <4>2 DEF Bool
    <3>3. CASE oper = "neg"
      <4>1. acc = Bool(y = 0)
        BY <1>7, <3>3 DEF ApplyUnary, UnaryOps
      <4>2. Exact = (IF y = 0 THEN 1 ELSE 0)
        BY <3>3 DEF Exact, ExtendOps, y
      <4> QED BY <4>1, <4>2 DEF Bool
    <3> QED BY <1>15, <3>1, <3>2, <3>3
  <2> QED BY <2>1
<1>16. CASE oper \in ExtendOps
  <2>1. Exact = y
    BY <1>16 DEF Exact, ExtendOps, y
  <2>2. /\ 8 \in Widths /\ w <= 8 /\ w <= w /\ Signed(y, w) \in Int /\ y \in Int
    BY <1>1, SignedType DEF Widths
  <2>3. Trunc(y, w) % c = y % c
    BY <1>1, <2>2, SameLow DEF c
  <2>4. Trunc(Signed(y, w), 8) % c = Signed(y, w) % c
    BY <1>1, <2>2, SameLow DEF c
  <2>5. Signed(y, w) % c = y % c
    BY <1>1, <2>2, SignedLow DEF c
  <2>6. acc \in {Trunc(y, w), Trunc(Signed(y, w), 8)}
    BY <1>8, <1>16 DEF Extend
  <2> QED BY <2>1, <2>3, <2>4, <2>5, <2>6, Zenon
<1>17. oper \in {"add", "sub", "sign", "mul", "div", "mod", "and", "or", "neg"} \cup ExtendOps
  BY <1>1 DEF ArithOps, UnaryOps, BitOps
<1> QED BY <1>10, <1>11, <1>12, <1>13, <1>14, <1>15, <1>16, <1>17

LEMMA HighBytes == BitsFit /\ Operated => HighBytesExtend
<1> SUFFICES ASSUME BitsFit, Operated, Defined
             PROVE  /\ acc \in 0..(Cap(8) - 1)
                    /\ acc >= Cap(4) /\ width < 8 =>
                           /\ acc >= Cap(8) - (Cap(4) \div 2)
                           /\ oper \in {"add", "sub", "mul", "lshift", "sign", "bneg", "sext"}
  BY DEF HighBytesExtend
<1> DEFINE w == width
           x == left
           y == right
           High == {"add", "sub", "mul", "lshift", "sign", "bneg", "sext"}
           Good == /\ acc \in 0..(Cap(8) - 1)
                   /\ acc >= Cap(4) /\ w < 8 => acc >= Cap(8) - (Cap(4) \div 2) /\ oper \in High
<1>1. /\ x \in Nat /\ y \in Nat /\ Cap(w) \in Nat /\ Cap(w) > 0 /\ x < Cap(w) /\ y < Cap(w)
      /\ w \in Widths /\ oper \in ArithOps \cup UnaryOps \cup ExtendOps
  BY OperandType DEF Operated
<1>2. acc = Outcome
  BY DEF Operated, Defined
<1>3. oper \in ArithOps => ~Undefined(oper, x, y, w)
  BY DEF Defined
<1>4. ASSUME oper \in ArithOps PROVE acc = Apply(oper, x, y, w)
  BY <1>2, <1>3, <1>4 DEF Outcome, ArithOps, UnaryOps, ExtendOps
<1>5. ASSUME oper \in UnaryOps PROVE acc = ApplyUnary(oper, y, w)
  BY <1>2, <1>5 DEF Outcome, ArithOps, UnaryOps, ExtendOps
<1>6. ASSUME oper \in ExtendOps PROVE acc = Extend(oper, y, w)
  BY <1>2, <1>6 DEF Outcome, ArithOps, UnaryOps, ExtendOps
<1>7. /\ Cap(4) \in Nat /\ Cap(4) > 0 /\ Cap(8) \in Nat /\ 2 * Cap(4) <= Cap(8)
      /\ w < 8 => Cap(w) <= Cap(4)
      /\ Cap(w) <= Cap(8)
  <2>1. Cap(4) \in Nat /\ Cap(4) > 0 /\ Cap(8) \in Nat
    BY CapType DEF Widths
  <2> QED BY <1>1, <2>1, CapOrder DEF Widths
<1> SUFFICES Good
  BY DEF Good, High, w
<1> HIDE DEF w, x, y
\* What is no greater than an operand ...
<1>8. ASSUME acc \in Nat, acc < Cap(w) PROVE Good
  BY <1>1, <1>7, <1>8
\* ... or is cut to the width or extended from int.
<1>9. ASSUME NEW v \in Int, acc = Result(v, w), oper \in High PROVE Good
  BY <1>1, <1>9, ResultHigh
<1> HIDE DEF Good
<1>10. CASE oper \in {"add", "sub", "mul", "lshift"}
  <2>1. x + y \in Int /\ x - y \in Int
    BY <1>1
  <2>2. Times(x, y, w) \in Int
    BY <1>1, TimesType
  <2>3. Times(x, Trunc(TwoTo[y], Wider(w)), Wider(w)) \in Int
    <3>1. Wider(w) \in Widths
      BY <1>1 DEF Wider, Widths
    <3>2. TwoTo[y] \in Int
      BY <1>1, TwoToType
    <3>3. Trunc(TwoTo[y], Wider(w)) \in Nat
      BY <3>1, <3>2, TruncType
    <3> QED BY <1>1, <3>1, <3>3, TimesType
  <2>4. \/ acc = Result(x + y, w) \/ acc = Result(x - y, w) \/ acc = Result(Times(x, y, w), w)
        \/ acc = Result(Times(x, Trunc(TwoTo[y], Wider(w)), Wider(w)), w)
    BY <1>4, <1>10 DEF Apply, ArithOps
  <2>5. oper \in High
    BY <1>10
  <2> QED BY <1>9, <2>1, <2>2, <2>3, <2>4, <2>5
<1>11. CASE oper \in {"sign", "bneg"}
  <2>1. acc = Result(-y, w) \/ acc = Result(-y - 1, w)
    BY <1>5, <1>11 DEF ApplyUnary, UnaryOps
  <2>2. -y \in Int /\ -y - 1 \in Int /\ oper \in High
    BY <1>1, <1>11
  <2> QED BY <1>9, <2>1, <2>2
<1>12. CASE oper \in {"div", "mod"}
  <2>1. y > 0
    BY <1>1, <1>3, <1>12 DEF Undefined, ArithOps
  <2>2. acc \in {x \div y, x % y}
    BY <1>4, <1>12 DEF Apply, ArithOps
  <2>3. acc \in 0..x
    BY <1>1, <2>1, <2>2, QuotientIs
  <2> QED BY <1>1, <1>8, <2>3
<1>13. CASE oper = "rshift"
  <2>1. TwoTo[y] \in Nat /\ TwoTo[y] > 0
    BY <1>1, TwoToType
  <2>2. acc = x \div TwoTo[y]
    BY <1>4, <1>13 DEF Apply, ArithOps
  <2>3. acc \in 0..x
    BY <1>1, <2>1, <2>2, QuotientIs
  <2> QED BY <1>1, <1>8, <2>3
<1>14. CASE oper \in {"band", "bxor", "bor"}
  <2>1. x \in 0..(Cap(w) - 1) /\ y \in 0..(Cap(w) - 1)
    BY <1>1
  <2>2. {BitAnd(x, y), BitOr(x, y), BitXor(x, y)} \subseteq 0..(Cap(w) - 1)
    BY <1>1, <2>1 DEF BitsFit
  <2>3. acc \in {BitAnd(x, y), BitOr(x, y), BitXor(x, y)}
    BY <1>4, <1>14 DEF Apply, ArithOps
  <2>4. acc \in 0..(Cap(w) - 1)
    BY <2>2, <2>3
  <2> QED BY <1>1, <1>8, <2>4
<1>15. CASE oper \in {"and", "or", "neg"}
  <2>1. acc \in {0, 1}
    BY <1>4, <1>5, <1>15 DEF Apply, ApplyUnary, ArithOps, UnaryOps, Bool
  <2>2. 1 < Cap(w)
    <3>1. PICK m \in Nat : m > 0 /\ Cap(w) = Cap(1) * m
      <4>1. 1 \in Widths /\ 1 <= w
        BY <1>1 DEF Widths
      <4> QED BY <1>1, <4>1, Multiple
    <3>2. Cap(1) * 1 <= Cap(1) * m /\ Cap(1) \in Nat /\ Cap(1) > 1
      <4>1. Cap(1) \in Nat /\ Cap(1) > 1
        BY Squares, ByteAssumption
      <4>2. 1 \in Int /\ m \in Int /\ 1 <= m
        BY <3>1
      <4> QED BY <4>1, <4>2, ProductOrder
    <3> QED BY <3>1, <3>2
  <2> QED BY <1>1, <1>8, <2>1, <2>2
<1>16. CASE oper = "zext"
  <2>1. acc = Trunc(y, w)
    BY <1>6, <1>16 DEF Extend, ExtendOps
  <2> QED BY <1>1, <1>8, <2>1, TruncType
<1>17. CASE oper = "sext"
  <2>1. acc = Trunc(Signed(y, w), 8)
    BY <1>6, <1>17 DEF Extend, ExtendOps
  <2>2. Signed(y, w) \in Int /\ 8 \in Widths
    BY <1>1, SignedType DEF Widths
  <2>3. CASE w = 8
    <3>1. acc \in Nat /\ acc < Cap(8)
      BY <2>1, <2>2, TruncType
    <3> QED BY <1>8, <2>3, <3>1
  <2>4. CASE w # 8
    <3>1. w \in {1, 2, 4} /\ y \in Int
      BY <1>1, <2>4 DEF Widths
    <3>2. acc \in 0..(Cap(8) - 1) /\ (acc >= Cap(4) => acc >= Cap(8) - (Cap(4) \div 2))
      BY <2>1, <3>1, Extended
    <3> QED BY <1>17, <3>2 DEF Good
  <2> QED BY <2>3, <2>4
<1> QED BY <1>1, <1>10, <1>11, <1>12, <1>13, <1>14, <1>15, <1>16, <1>17
           DEF ArithOps, UnaryOps, ExtendOps

-----------------------------------------------------------------------------
\* vm.c: at every width, and for every operator of arithmetic, comparison with
\* zero and extension, the bytes of the operand's width in the register are what
\* the operator means, although the narrow ones are computed in int.
THEOREM LowBytesAreExact == AccSpec => []LowBytesExact
BY OperatedInit, OperatedStep, LowBytes, PTL DEF AccSpec

\* vm.c: above the operand's width the register has zeros or copies of a sign.
THEOREM HighBytesAreExtended ==
    ASSUME BitsFit
    PROVE  AccSpec => []HighBytesExtend
<1>1. Operated => HighBytesExtend
  BY HighBytes
<1> QED BY <1>1, OperatedInit, OperatedStep, PTL DEF AccSpec

-----------------------------------------------------------------------------
(* Binary digits.                                                          *)

\* Powers of two.
LEMMA PowerSum ==
    ASSUME NEW m \in Nat, NEW n \in Nat
    PROVE  TwoTo[m + n] = TwoTo[m] * TwoTo[n]
<1> DEFINE T == {k \in Nat : TwoTo[m + k] = TwoTo[m] * TwoTo[k]}
<1>1. TwoTo[0] = 1 /\ \A k \in Nat : TwoTo[k + 1] = 2 * TwoTo[k]
  BY TwoToStep
<1>2. \A k \in Nat : TwoTo[k] \in Nat
  BY TwoToType
<1>3. 0 \in T
  BY <1>1, <1>2
<1>4. ASSUME NEW k \in Nat, k \in T PROVE k + 1 \in T
  <2> DEFINE p == TwoTo[m]
             q == TwoTo[k]
  <2>1. p \in Nat /\ q \in Nat
    BY <1>2
  <2>2. TwoTo[k + 1] = 2 * q
    BY <1>1
  <2>3. TwoTo[m + (k + 1)] = 2 * (p * q)
    <3>1. m + (k + 1) = (m + k) + 1 /\ m + k \in Nat
      OBVIOUS
    <3>2. TwoTo[(m + k) + 1] = 2 * TwoTo[m + k]
      BY <1>1, <3>1
    <3> QED BY <1>4, <3>1, <3>2
  <2> HIDE DEF p, q
  <2>4. 2 * (p * q) = p * (2 * q)
    BY <2>1
  <2> QED BY <2>2, <2>3, <2>4 DEF p
<1>5. \A k \in Nat : k \in T
  <2> HIDE DEF T
  <2> QED BY <1>3, <1>4, Induction
<1> QED BY <1>5

\* A greater power of two is a multiple, and an even one.
LEMMA PowerMultiple ==
    ASSUME NEW m \in Nat, NEW n \in Nat, m <= n
    PROVE  TwoTo[n] = TwoTo[m] * TwoTo[n - m]
<1>1. n - m \in Nat /\ m + (n - m) = n
  OBVIOUS
<1> QED BY <1>1, PowerSum

LEMMA PowerEven ==
    ASSUME NEW m \in Nat, NEW n \in Nat, m < n
    PROVE  \E h \in Nat : h > 0 /\ TwoTo[n] = TwoTo[m] * (2 * h)
<1> DEFINE d == (n - m) - 1
<1>1. d \in Nat /\ n - m = d + 1 /\ m <= n
  OBVIOUS
<1> HIDE DEF d
<1>2. TwoTo[n] = TwoTo[m] * TwoTo[d + 1]
  BY <1>1, PowerMultiple
<1>3. TwoTo[d + 1] = 2 * TwoTo[d] /\ TwoTo[d] \in Nat /\ TwoTo[d] > 0
  BY <1>1, TwoToStep, TwoToType
<1> QED BY <1>2, <1>3

LEMMA PowerOrder ==
    ASSUME NEW m \in Nat, NEW n \in Nat
    PROVE  /\ m <= n => TwoTo[m] <= TwoTo[n]
           /\ m < n  => TwoTo[m] < TwoTo[n]
<1> DEFINE p == TwoTo[m]
<1>1. p \in Nat /\ p > 0
  BY TwoToType
<1> HIDE DEF p
<1>2. ASSUME m < n PROVE p < TwoTo[n]
  <2>1. PICK h \in Nat : h > 0 /\ TwoTo[n] = p * (2 * h)
    BY <1>2, PowerEven DEF p
  <2>2. p * 2 <= p * (2 * h)
    <3>1. 2 \in Int /\ 2 * h \in Int /\ 2 <= 2 * h
      BY <2>1
    <3> QED BY <1>1, <3>1, ProductOrder
  <2>3. p * (2 * h) \in Int
    BY <1>1
  <2> QED BY <1>1, <2>1, <2>2, <2>3
<1>3. ASSUME m <= n PROVE p <= TwoTo[n]
  <2>1. CASE m = n
    BY <1>1, <2>1 DEF p
  <2>2. CASE m < n
    <3>1. TwoTo[n] \in Nat
      BY TwoToType
    <3> QED BY <1>1, <1>2, <2>2, <3>1
  <2> QED BY <1>3, <2>1, <2>2
<1> QED BY <1>2, <1>3 DEF p

\* A word has as many values as its bits allow.
LEMMA CapPower ==
    ASSUME NEW w \in Widths
    PROVE  Cap(w) = TwoTo[w * ByteBits]
<1> DEFINE n == ByteBits
<1>1. n \in Nat /\ Cap(1) = TwoTo[n]
  BY BitsAssumption, Squares
<1> HIDE DEF n
<1>2. Cap(2) = TwoTo[n + n]
  BY <1>1, Squares, PowerSum
<1>3. Cap(4) = TwoTo[(n + n) + (n + n)]
  <2>1. n + n \in Nat
    BY <1>1
  <2> QED BY <2>1, <1>2, Squares, PowerSum
<1>4. Cap(8) = TwoTo[((n + n) + (n + n)) + ((n + n) + (n + n))]
  <2>1. (n + n) + (n + n) \in Nat
    BY <1>1
  <2> QED BY <2>1, <1>3, Squares, PowerSum
<1>5. /\ 1 * n = n /\ 2 * n = n + n /\ 4 * n = (n + n) + (n + n)
      /\ 8 * n = ((n + n) + (n + n)) + ((n + n) + (n + n))
  BY <1>1
<1>6. Cap(1) = TwoTo[1 * n] /\ Cap(2) = TwoTo[2 * n] /\ Cap(4) = TwoTo[4 * n] /\ Cap(8) = TwoTo[8 * n]
  BY <1>1, <1>2, <1>3, <1>4, <1>5, Zenon
<1> QED BY <1>6 DEF Widths, n

\* Dividing twice.
LEMMA QuotientTwice ==
    ASSUME NEW c \in Nat, c > 0, NEW d \in Nat, d > 0, NEW v \in Int
    PROVE  (v \div c) \div d = v \div (c * d)
<1> DEFINE q == v \div c
           r == v % c
           p == q \div d
           s == q % d
<1>1. q \in Int /\ r \in Int /\ 0 <= r /\ r < c /\ v = c * q + r
  BY Remainder
<1> HIDE DEF q, r
<1>2. p \in Int /\ s \in Int /\ 0 <= s /\ s < d /\ q = d * p + s
  BY <1>1, Remainder
<1> HIDE DEF p, s
<1>3. c * d \in Nat /\ c * d > 0
  BY ProductType
<1> DEFINE t == c * s + r
<1>4. t \in Int /\ 0 <= t /\ t < c * d
  <2>1. c * 0 <= c * s
    BY <1>2, ProductOrder
  <2>2. c * (s + 1) <= c * d
    BY <1>2, ProductOrder
  <2>3. c * (s + 1) = c * s + c /\ c * s \in Int
    BY <1>2
  <2> QED BY <1>1, <1>3, <2>1, <2>2, <2>3
<1>5. v = (c * d) * p + t
  <2>1. c * (d * p + s) = (c * d) * p + c * s
    BY <1>2
  <2>2. (c * d) * p \in Int /\ c * s \in Int
    BY <1>2
  <2> QED BY <1>1, <1>2, <2>1, <2>2
<1> HIDE DEF t
<1> DEFINE e == c * d
<1>6. e \in Nat /\ e > 0 /\ t < e /\ v = e * p + t
  BY <1>3, <1>4, <1>5
<1> HIDE DEF e
<1>7. v \div e = p
  BY <1>2, <1>4, <1>6, Division
<1> QED BY <1>7 DEF e, p, q

\* The k-th digit of v.
Digit(v, k) == (v \div TwoTo[k]) % 2 = 1

\* Dropping the last digits.
LEMMA DigitDrop ==
    ASSUME NEW x \in Int, NEW y \in Nat, NEW k \in Nat
    PROVE  Digit(x \div TwoTo[y], k) <=> Digit(x, y + k)
<1>1. TwoTo[y] \in Nat /\ TwoTo[y] > 0 /\ TwoTo[k] \in Nat /\ TwoTo[k] > 0
  BY TwoToType
<1>2. (x \div TwoTo[y]) \div TwoTo[k] = x \div (TwoTo[y] * TwoTo[k])
  BY <1>1, QuotientTwice
<1>3. TwoTo[y + k] = TwoTo[y] * TwoTo[k]
  BY PowerSum
<1> QED BY <1>2, <1>3 DEF Digit

\* A number below a power of two has no digits from there on.
LEMMA DigitNone ==
    ASSUME NEW v \in Nat, NEW n \in Nat, v < TwoTo[n], NEW k \in Nat, k >= n
    PROVE  ~Digit(v, k)
<1> DEFINE p == TwoTo[k]
<1>1. p \in Nat /\ p > 0 /\ TwoTo[n] \in Nat /\ TwoTo[n] <= p
  BY TwoToType, PowerOrder
<1> HIDE DEF p
<1>2. v < p /\ v = p * 0 + v
  BY <1>1
<1>3. v \div p = 0
  BY <1>1, <1>2, Division
<1> QED BY <1>3 DEF Digit, p

\* Cutting a number at n digits keeps those.
LEMMA DigitCut ==
    ASSUME NEW v \in Int, NEW n \in Nat, NEW k \in Nat, k < n
    PROVE  Digit(v % TwoTo[n], k) <=> Digit(v, k)
<1> DEFINE c == TwoTo[n]
           p == TwoTo[k]
<1>1. c \in Nat /\ c > 0 /\ p \in Nat /\ p > 0
  BY TwoToType
<1>2. PICK h \in Nat : h > 0 /\ c = p * (2 * h)
  BY PowerEven
<1> HIDE DEF c, p
<1> DEFINE q == v \div c
           r == v % c
<1>3. q \in Int /\ r \in Int /\ v = c * q + r
  BY <1>1, Remainder
<1> HIDE DEF q, r
<1> DEFINE a1 == r \div p
           b1 == r % p
<1>4. a1 \in Int /\ b1 \in Int /\ 0 <= b1 /\ b1 < p /\ r = p * a1 + b1
  BY <1>1, <1>3, Remainder
<1> HIDE DEF a1, b1
<1> DEFINE z == a1 + 2 * (h * q)
<1>5. h * q \in Int /\ z \in Int
  BY <1>3, <1>4
<1>6. v = p * z + b1
  <2>1. (p * (2 * h)) * q = p * (2 * (h * q))
    BY <1>1, <1>3
  <2>2. p * z = p * a1 + p * (2 * (h * q))
    BY <1>1, <1>4, <1>5
  <2>3. p * a1 \in Int /\ p * (2 * (h * q)) \in Int
    BY <1>1, <1>4, <1>5
  <2> QED BY <1>2, <1>3, <1>4, <2>1, <2>2, <2>3
<1> HIDE DEF z
<1>7. v \div p = z
  BY <1>1, <1>4, <1>5, <1>6, Division
<1>8. z % 2 = a1 % 2
  <2>1. (a1 + 2 * (h * q)) % 2 = a1 % 2
    <3> DEFINE g == h * q
    <3>1. g \in Int /\ 2 \in Nat /\ 2 > 0
      BY <1>5
    <3> HIDE DEF g
    <3>2. (a1 + 2 * g) % 2 = a1 % 2
      BY <1>4, <3>1, MultipleAdded
    <3> QED BY <3>2 DEF g
  <2> QED BY <2>1 DEF z
<1> QED BY <1>7, <1>8 DEF Digit, c, p, r, a1

\* Shifting to the left.
LEMMA DigitShift ==
    ASSUME NEW x \in Int, NEW y \in Nat, NEW k \in Nat
    PROVE  Digit(x * TwoTo[y], k) <=> k >= y /\ Digit(x, k - y)
<1> DEFINE p == TwoTo[y]
           q == TwoTo[k]
<1>1. p \in Nat /\ p > 0 /\ q \in Nat /\ q > 0
  BY TwoToType
<1>2. CASE k >= y
  <2> DEFINE d == k - y
             e == TwoTo[d]
  <2>1. d \in Nat /\ q = p * e /\ e \in Nat /\ e > 0
    BY <1>2, PowerMultiple, TwoToType
  <2> HIDE DEF d, e, p, q
  <2>2. x * p \in Int
    BY <1>1
  <2> DEFINE v == x * p
  <2>3. v = p * x + 0 /\ v \in Int /\ 0 \in Int
    BY <1>1, <2>2
  <2> HIDE DEF v
  <2>4. v \div p = x
    BY <1>1, <2>3, Division
  <2>5. (v \div p) \div e = v \div (p * e)
    BY <1>1, <2>1, <2>3, QuotientTwice
  <2>6. v \div q = x \div e
    BY <2>1, <2>4, <2>5
  <2> QED BY <1>2, <2>6 DEF Digit, v, p, q, d, e
<1>3. CASE k < y
  <2>1. PICK h \in Nat : h > 0 /\ p = q * (2 * h)
    BY <1>3, PowerEven
  <2> HIDE DEF p, q
  <2> DEFINE z == 2 * (x * h)
             v == x * p
  <2>2. v = q * z + 0 /\ z \in Int /\ v \in Int
    <3>1. x * (q * (2 * h)) = q * (2 * (x * h))
      BY <1>1
    <3>2. x * h \in Int /\ x * p \in Int
      BY <1>1
    <3>3. v = q * z /\ z \in Int
      BY <2>1, <3>1, <3>2
    <3> QED BY <3>2, <3>3
  <2>3. z % 2 = 0
    <3>1. x * h \in Int
      OBVIOUS
    <3> QED BY <3>1
  <2> HIDE DEF z, v
  <2>4. v \div q = z
    BY <1>1, <2>2, Division
  <2> QED BY <1>3, <2>3, <2>4 DEF Digit, v, p, q
<1> QED BY <1>2, <1>3

\* The complement.
LEMMA DigitFlip ==
    ASSUME NEW n \in Nat, NEW y \in Int, NEW k \in Nat, k < n
    PROVE  Digit(TwoTo[n] - 1 - y, k) <=> ~Digit(y, k)
<1> DEFINE p == TwoTo[k]
           c == TwoTo[n]
<1>1. p \in Nat /\ p > 0 /\ c \in Nat
  BY TwoToType
<1>2. PICK h \in Nat : h > 0 /\ c = p * (2 * h)
  BY PowerEven
<1> HIDE DEF c, p
<1> DEFINE q == y \div p
           r == y % p
<1>3. q \in Int /\ r \in Int /\ 0 <= r /\ r < p /\ y = p * q + r
  BY <1>1, Remainder
<1> HIDE DEF q, r
<1> DEFINE u == (2 * h - 1) - q
           t == (p - 1) - r
           v == c - 1 - y
<1>4. u \in Int /\ t \in Int /\ 0 <= t /\ t < p /\ v \in Int
  BY <1>1, <1>3
<1>5. v = p * u + t
  <2>1. p * u = (p * (2 * h) - p) - p * q
    BY <1>1, <1>3
  <2>2. p * q \in Int /\ p * u \in Int
    BY <1>1, <1>3, <1>4
  <2> HIDE DEF u
  <2> QED BY <1>1, <1>2, <1>3, <2>1, <2>2
<1>6. u % 2 = 1 <=> ~(q % 2 = 1)
  BY <1>3
<1> HIDE DEF u, t, v
<1>7. v \div p = u
  BY <1>1, <1>4, <1>5, Division
<1> QED BY <1>6, <1>7 DEF Digit, v, c, p, q

-----------------------------------------------------------------------------
(* Words as sets of bits.                                                  *)

\* The places of the bits of a w-byte word.
Places(w) == 0..(w * ByteBits - 1)

LEMMA PlacesType ==
    ASSUME NEW w \in Widths
    PROVE  /\ w * ByteBits \in Nat /\ 8 * ByteBits \in Nat
           /\ w * ByteBits <= 8 * ByteBits
           /\ Places(w) \subseteq Nat /\ Places(w) \subseteq 0..(8 * ByteBits - 1)
           /\ \A k \in Places(w) : k < w * ByteBits
<1> DEFINE n == w * ByteBits
           N == 8 * ByteBits
<1>1. ByteBits \in Nat
  BY BitsAssumption
<1>2. n \in Nat /\ N \in Nat /\ n <= N
  BY <1>1 DEF Widths
<1> HIDE DEF n, N
<1>3. 0..(n - 1) \subseteq Nat /\ 0..(n - 1) \subseteq 0..(N - 1) /\ \A k \in 0..(n - 1) : k < n
  BY <1>2
<1> QED BY <1>2, <1>3 DEF Places, n, N

\* Cut to a word, a number keeps the bits that have a place in it.
LEMMA WordBits ==
    ASSUME NEW v \in Int, NEW w \in Widths
    PROVE  Bits(v % Cap(w)) = {k \in Places(w) : Digit(v, k)}
<1> DEFINE n == w * ByteBits
           u == v % Cap(w)
           all == 0..(8 * ByteBits - 1)
<1>1. n \in Nat /\ Places(w) = 0..(n - 1) /\ Places(w) \subseteq all /\ all \subseteq Nat
  BY PlacesType DEF Places
<1>2. Cap(w) = TwoTo[n] /\ TwoTo[n] \in Nat /\ TwoTo[n] > 0
  BY <1>1, CapPower, TwoToType
<1>3. u \in Nat /\ u < TwoTo[n] /\ u = v % TwoTo[n]
  BY <1>2, Remainder
<1> HIDE DEF u, n
<1>4. ASSUME NEW k \in all PROVE Digit(u, k) <=> k \in Places(w) /\ Digit(v, k)
  <2>1. k \in Nat
    BY <1>1
  <2>2. CASE k < n
    <3>1. k \in Places(w)
      BY <1>1, <2>1, <2>2
    <3>2. Digit(v % TwoTo[n], k) <=> Digit(v, k)
      BY <1>1, <2>1, <2>2, DigitCut
    <3> QED BY <1>3, <3>1, <3>2
  <2>3. CASE k >= n
    <3>1. ~Digit(u, k)
      BY <1>1, <1>3, <2>1, <2>3, DigitNone
    <3>2. k \notin Places(w)
      BY <1>1, <2>3
    <3> QED BY <3>1, <3>2
  <2> QED BY <1>1, <2>1, <2>2, <2>3
<1>5. Bits(u) = {k \in all : Digit(u, k)}
  BY DEF Bits, Digit
<1> HIDE DEF all
<1>6. Bits(u) = {k \in Places(w) : Digit(v, k)}
  BY <1>1, <1>4, <1>5
<1> QED BY <1>6 DEF u

\* The bits of a word are its digits.
LEMMA BitsOf ==
    ASSUME NEW v \in Nat, NEW w \in Widths, v < Cap(w)
    PROVE  /\ \A k : k \in Bits(v) <=> k \in 0..(8 * ByteBits - 1) /\ Digit(v, k)
           /\ \A k \in Nat : Digit(v, k) => k \in Places(w) /\ k \in Bits(v)
<1> DEFINE n == w * ByteBits
<1>1. \A k : k \in Bits(v) <=> k \in 0..(8 * ByteBits - 1) /\ Digit(v, k)
  BY DEF Bits, Digit
<1>2. n \in Nat /\ Places(w) = 0..(n - 1) /\ Places(w) \subseteq 0..(8 * ByteBits - 1)
  BY PlacesType DEF Places
<1>3. v < TwoTo[n]
  BY <1>2, CapPower
<1> HIDE DEF n
<1>4. ASSUME NEW k \in Nat, Digit(v, k) PROVE k \in Places(w)
  <2>1. k < n
    BY <1>2, <1>3, <1>4, DigitNone
  <2> QED BY <1>2, <2>1
<1> QED BY <1>1, <1>2, <1>4

\* Shifts to the left.
LEMMA LeftBits ==
    ASSUME NEW x \in Nat, NEW y \in Nat, NEW w \in Widths, x < Cap(w), y < Wider(w) * ByteBits
    PROVE  Bits(Apply("lshift", x, y, w) % Cap(w)) = {k + y : k \in Bits(x)} \cap Places(w)
<1> DEFINE W == Wider(w)
           p == TwoTo[y]
           c == Cap(w)
           t == Times(x, Trunc(p, W), W)
<1>1. W \in Widths /\ w <= W
  BY DEF Wider, Widths
<1>2. p \in Nat /\ Cap(W) \in Nat /\ Cap(W) > 0 /\ p < Cap(W)
  <2>1. Cap(W) = TwoTo[W * ByteBits] /\ W * ByteBits \in Nat
    BY <1>1, CapPower, PlacesType
  <2>2. p < TwoTo[W * ByteBits]
    <3> DEFINE n == W * ByteBits
    <3>1. n \in Nat /\ y < n
      BY <2>1
    <3> HIDE DEF n
    <3> QED BY <3>1, PowerOrder DEF n
  <2> QED BY <1>1, <2>1, <2>2, TwoToType, CapType
<1>3. Trunc(p, W) = p
  <2> HIDE DEF p, W
  <2> DEFINE C == Cap(W)
  <2>1. C \in Nat /\ C > 0 /\ p < C /\ p = C * 0 + p
    BY <1>2
  <2> HIDE DEF C
  <2>2. p % C = p
    BY <1>2, <2>1, Division
  <2> QED BY <2>2 DEF Trunc, C
<1>4. Apply("lshift", x, y, w) = Result(t, w)
  BY DEF Apply
<1> HIDE DEF W, p
<1>5. t \in Int /\ t % Cap(W) = (x * p) % Cap(W)
  BY <1>1, <1>2, <1>3, TimesType, TimesLow
<1>6. x * p \in Int
  BY <1>2
<1> HIDE DEF t
<1>7. t % c = (x * p) % c
  <2> DEFINE z == x * p
  <2>1. z \in Int /\ t % Cap(W) = z % Cap(W)
    BY <1>5, <1>6
  <2> HIDE DEF z
  <2>2. Trunc(t, W) % c = t % c /\ Trunc(z, W) % c = z % c
    BY <1>1, <1>5, <2>1, SameLow
  <2>3. Trunc(t, W) = Trunc(z, W)
    BY <2>1 DEF Trunc
  <2> QED BY <2>2, <2>3 DEF z
<1>8. Apply("lshift", x, y, w) % c = (x * p) % c
  <2>1. Result(t, w) % c = t % c
    BY <1>5, ResultLow
  <2> QED BY <1>4, <1>7, <2>1
<1>9. Bits((x * p) % c) = {k \in Places(w) : Digit(x * p, k)}
  <2> DEFINE z == x * p
  <2>1. z \in Int
    BY <1>6
  <2> HIDE DEF z
  <2>2. Bits(z % Cap(w)) = {k \in Places(w) : Digit(z, k)}
    BY <2>1, WordBits
  <2> QED BY <2>2 DEF z
<1>10. ASSUME NEW k \in Places(w)
       PROVE  Digit(x * p, k) <=> k \in {j + y : j \in Bits(x)}
  <2>1. k \in Nat
    BY PlacesType
  <2>2. Digit(x * p, k) <=> k >= y /\ Digit(x, k - y)
    BY <2>1, DigitShift DEF p
  <2>3. \A j : j \in Bits(x) <=> j \in 0..(8 * ByteBits - 1) /\ Digit(x, j)
    BY BitsOf
  <2>4. \A j \in Nat : Digit(x, j) => j \in Bits(x)
    BY BitsOf
  <2>5. ASSUME k >= y, Digit(x, k - y) PROVE k \in {j + y : j \in Bits(x)}
    <3>1. k - y \in Nat /\ k = (k - y) + y
      BY <2>1, <2>5
    <3> QED BY <2>4, <2>5, <3>1
  <2>6. ASSUME NEW j \in Bits(x), k = j + y PROVE k >= y /\ Digit(x, k - y)
    <3>1. j \in 0..(8 * ByteBits - 1) /\ Digit(x, j)
      BY <2>3, <2>6
    <3>2. j \in Nat
      BY <3>1
    <3>3. k - y = j /\ k >= y
      BY <2>6, <3>2
    <3> QED BY <3>1, <3>3
  <2> QED BY <2>2, <2>5, <2>6
<1> QED BY <1>8, <1>9, <1>10

\* Shifts to the right.
LEMMA RightBits ==
    ASSUME NEW x \in Nat, NEW y \in Nat, NEW w \in Widths, x < Cap(w)
    PROVE  Bits((x \div TwoTo[y]) % Cap(w)) = ({k - y : k \in Bits(x)} \cap Nat) \cap Places(w)
<1> DEFINE v == x \div TwoTo[y]
<1>1. v \in Int
  BY TwoToType, Remainder
<1>2. \A k \in Nat : Digit(v, k) <=> Digit(x, y + k)
  BY DigitDrop
<1> HIDE DEF v
<1>3. Bits(v % Cap(w)) = {k \in Places(w) : Digit(v, k)}
  BY <1>1, WordBits
<1>4. ASSUME NEW k \in Places(w)
      PROVE  Digit(v, k) <=> k \in {j - y : j \in Bits(x)} \cap Nat
  <2>1. k \in Nat
    BY PlacesType
  <2>2. \A j : j \in Bits(x) <=> j \in 0..(8 * ByteBits - 1) /\ Digit(x, j)
    BY BitsOf
  <2>3. \A j \in Nat : Digit(x, j) => j \in Bits(x)
    BY BitsOf
  <2>4. ASSUME Digit(x, y + k) PROVE k \in {j - y : j \in Bits(x)}
    <3>1. y + k \in Nat /\ k = (y + k) - y
      BY <2>1
    <3> QED BY <2>3, <2>4, <3>1
  <2>5. ASSUME NEW j \in Bits(x), k = j - y PROVE Digit(x, y + k)
    <3>1. j \in 0..(8 * ByteBits - 1) /\ Digit(x, j)
      BY <2>2, <2>5
    <3>2. y + k = j
      BY <2>5, <3>1
    <3> QED BY <3>1, <3>2
  <2> QED BY <1>2, <2>1, <2>4, <2>5
<1>5. Bits(v % Cap(w)) = ({j - y : j \in Bits(x)} \cap Nat) \cap Places(w)
  BY <1>3, <1>4
<1> QED BY <1>5 DEF v

\* The complement.
LEMMA NotBits ==
    ASSUME NEW y \in Nat, NEW w \in Widths, y < Cap(w)
    PROVE  Bits(ApplyUnary("bneg", y, w) % Cap(w)) = (Bits(Cap(8) - 1) \ Bits(y)) \cap Places(w)
<1> DEFINE n == w * ByteBits
           N == 8 * ByteBits
           c == Cap(w)
<1>1. n \in Nat /\ N \in Nat /\ n <= N /\ Places(w) = 0..(n - 1) /\ Places(w) \subseteq 0..(N - 1)
  BY PlacesType DEF Places
<1>2. 8 \in Widths
  BY DEF Widths
<1>3. c = TwoTo[n] /\ Cap(8) = TwoTo[N] /\ c \in Nat /\ c > 0 /\ Cap(8) \in Nat /\ Cap(8) > 0
  BY <1>2, CapPower, CapType
<1>4. ApplyUnary("bneg", y, w) % c = (-y - 1) % c
  <2>1. -y - 1 \in Int
    OBVIOUS
  <2>2. ApplyUnary("bneg", y, w) = Result(-y - 1, w)
    BY DEF ApplyUnary
  <2> QED BY <2>1, <2>2, ResultLow
<1> HIDE DEF n, N, c
<1> DEFINE u == TwoTo[n] - 1 - y
<1>5. (-y - 1) % c = u % c /\ u \in Int
  <2> DEFINE z == -y - 1
  <2>1. z \in Int /\ u = z + c * 1 /\ 1 \in Int /\ u \in Int
    BY <1>3
  <2> HIDE DEF z
  <2>2. (z + c * 1) % c = z % c
    BY <1>3, <2>1, MultipleAdded
  <2> QED BY <2>1, <2>2 DEF z
<1>6. \A k \in Nat : k < n => (Digit(u, k) <=> ~Digit(y, k))
  BY <1>1, DigitFlip
<1> HIDE DEF u
<1>7. Bits(u % c) = {k \in Places(w) : Digit(u, k)}
  BY <1>5, WordBits DEF c
<1>8. ASSUME NEW k \in 0..(N - 1) PROVE k \in Bits(Cap(8) - 1)
  <2> DEFINE z == Cap(8) - 1
  <2>1. z \in Nat /\ z < Cap(8) /\ z = TwoTo[N] - 1 - 0
    BY <1>3
  <2>2. k \in Nat /\ k < N
    BY <1>1
  <2>3. Digit(TwoTo[N] - 1 - 0, k) <=> ~Digit(0, k)
    BY <1>1, <2>2, DigitFlip
  <2>4. ~Digit(0, k)
    <3>1. 0 < TwoTo[0] /\ k >= 0
      BY <2>2, TwoToStep
    <3> QED BY <2>2, <3>1, DigitNone
  <2>5. Digit(z, k)
    BY <2>1, <2>3, <2>4
  <2> HIDE DEF z
  <2>6. k \in Bits(z)
    BY <1>2, <2>1, <2>2, <2>5, BitsOf
  <2> QED BY <2>6 DEF z
<1>9. ASSUME NEW k \in Places(w)
      PROVE  Digit(u, k) <=> k \in Bits(Cap(8) - 1) \ Bits(y)
  <2>1. k \in Nat /\ k < n /\ k \in 0..(N - 1)
    BY <1>1
  <2>2. k \in Bits(y) <=> Digit(y, k)
    BY <2>1, BitsOf DEF N
  <2> QED BY <1>6, <1>8, <2>1, <2>2
<1> QED BY <1>4, <1>5, <1>7, <1>9 DEF c

-----------------------------------------------------------------------------
(* Shifts and operators on bits.                                           *)

\* What each operator leaves, bit by bit.
LEMMA LowBits == BitsFit /\ BitsAre /\ Operated => LowBitsExact
<1> SUFFICES ASSUME BitsFit, BitsAre, Operated, Defined, oper \in BitOps
             PROVE  Bits(acc % Cap(width)) = ExactBits \cap Places(width)
  BY DEF LowBitsExact, Places
<1> DEFINE w == width
           x == left
           y == right
<1>1. /\ x \in Nat /\ y \in Nat /\ Cap(w) \in Nat /\ Cap(w) > 0 /\ x < Cap(w) /\ y < Cap(w)
      /\ w \in Widths
  BY OperandType
<1>2. acc = Outcome
  BY DEF Operated, Defined
<1>3. oper \in ArithOps => ~Undefined(oper, x, y, w)
  BY DEF Defined
<1>4. ASSUME oper \in ArithOps PROVE acc = Apply(oper, x, y, w)
  BY <1>2, <1>3, <1>4 DEF Outcome, ArithOps, UnaryOps, ExtendOps
<1>5. ASSUME oper \in UnaryOps PROVE acc = ApplyUnary(oper, y, w)
  BY <1>2, <1>5 DEF Outcome, ArithOps, UnaryOps, ExtendOps
<1> SUFFICES Bits(acc % Cap(w)) = ExactBits \cap Places(w)
  BY DEF w
<1>6. CASE oper = "lshift"
  <2>1. acc = Apply("lshift", x, y, w)
    BY <1>4, <1>6 DEF ArithOps
  <2>2. ExactBits = {k + y : k \in Bits(x)}
    BY <1>6 DEF ExactBits
  <2>3. y < Wider(w) * ByteBits
    <3>1. Wider(w) * ByteBits \in Int
      BY <1>1, BitsAssumption DEF Wider, Widths
    <3>2. ~(y >= Wider(w) * ByteBits)
      BY <1>3, <1>6 DEF Undefined, ArithOps
    <3> HIDE DEF w, y
    <3> QED BY <1>1, <3>1, <3>2
  <2> HIDE DEF w, x, y
  <2>4. Bits(Apply("lshift", x, y, w) % Cap(w)) = {k + y : k \in Bits(x)} \cap Places(w)
    <3>1. x \in Nat /\ y \in Nat /\ w \in Widths /\ x < Cap(w)
      BY <1>1
    <3> QED BY ONLY <2>3, <3>1, LeftBits
  <2> QED BY <2>1, <2>2, <2>4
<1>7. CASE oper = "rshift"
  <2>1. acc = x \div TwoTo[y]
    BY <1>4, <1>7 DEF ArithOps, Apply
  <2>2. ExactBits = {k - y : k \in Bits(x)} \cap Nat
    BY <1>7 DEF ExactBits
  <2> HIDE DEF w, x, y
  <2>3. Bits((x \div TwoTo[y]) % Cap(w)) = ({k - y : k \in Bits(x)} \cap Nat) \cap Places(w)
    <3>1. x \in Nat /\ y \in Nat /\ w \in Widths /\ x < Cap(w)
      BY <1>1
    <3> QED BY ONLY <3>1, RightBits
  <2> QED BY <2>1, <2>2, <2>3
<1>8. CASE oper = "bneg"
  <2>1. acc = ApplyUnary("bneg", y, w)
    BY <1>5, <1>8 DEF UnaryOps
  <2>2. ExactBits = Bits(Cap(8) - 1) \ Bits(y)
    BY <1>8 DEF ExactBits
  <2> HIDE DEF w, x, y
  <2>3. Bits(ApplyUnary("bneg", y, w) % Cap(w)) = (Bits(Cap(8) - 1) \ Bits(y)) \cap Places(w)
    <3>1. y \in Nat /\ w \in Widths /\ y < Cap(w)
      BY <1>1
    <3> QED BY ONLY <3>1, NotBits
  <2> QED BY <2>1, <2>2, <2>3
<1>9. ASSUME acc \in 0..(Cap(w) - 1), ExactBits = Bits(acc)
      PROVE  Bits(acc % Cap(w)) = ExactBits \cap Places(w)
  <2> HIDE DEF w
  <2>1. acc \in Nat /\ acc < Cap(w) /\ acc \in Int
    BY <1>1, <1>9
  <2>2. Bits(acc % Cap(w)) = {k \in Places(w) : Digit(acc, k)}
    BY <1>1, <2>1, WordBits
  <2>3. \A k \in Nat : Digit(acc, k) => k \in Places(w) /\ k \in Bits(acc)
    BY <1>1, <2>1, BitsOf
  <2>4. \A k : k \in Bits(acc) <=> k \in 0..(8 * ByteBits - 1) /\ Digit(acc, k)
    BY <1>1, <2>1, BitsOf
  <2>5. Places(w) \subseteq Nat
    BY <1>1, PlacesType
  <2>6. \A k \in Places(w) : Digit(acc, k) <=> k \in Bits(acc)
    BY <2>3, <2>4, <2>5
  <2> QED BY <1>9, <2>2, <2>6
<1>10. CASE oper \in {"band", "bor", "bxor"}
  <2>1. x \in 0..(Cap(w) - 1) /\ y \in 0..(Cap(w) - 1)
    BY <1>1
  <2>2. /\ oper = "band" => acc = BitAnd(x, y) /\ ExactBits = Bits(x) \cap Bits(y)
        /\ oper = "bor"  => acc = BitOr(x, y) /\ ExactBits = Bits(x) \cup Bits(y)
        /\ oper = "bxor" => acc = BitXor(x, y)
                            /\ ExactBits = (Bits(x) \ Bits(y)) \cup (Bits(y) \ Bits(x))
    BY <1>4, <1>10 DEF ArithOps, Apply, ExactBits
  <2> HIDE DEF w, x, y
  <2>3. {BitAnd(x, y), BitOr(x, y), BitXor(x, y)} \subseteq 0..(Cap(w) - 1)
    BY <1>1, <2>1 DEF BitsFit
  <2>4. /\ Bits(BitAnd(x, y)) = Bits(x) \cap Bits(y)
        /\ Bits(BitOr(x, y)) = Bits(x) \cup Bits(y)
        /\ Bits(BitXor(x, y)) = (Bits(x) \ Bits(y)) \cup (Bits(y) \ Bits(x))
    BY <1>1, <2>1 DEF BitsAre
  <2>5. acc \in 0..(Cap(w) - 1) /\ ExactBits = Bits(acc)
    BY <1>10, <2>2, <2>3, <2>4
  <2> QED BY <1>9, <2>5
<1> QED BY <1>6, <1>7, <1>8, <1>10 DEF BitOps

\* vm.c: below the operand's width the register holds, after a shift or an operator
\* on bits, the bits it is for, though the narrow operands are shifted in int and
\* what is shifted out of them lies above.
THEOREM LowBitsAreExact ==
    ASSUME BitsFit, BitsAre
    PROVE  AccSpec => []LowBitsExact
<1>1. Operated => LowBitsExact
  BY LowBits
<1> QED BY <1>1, OperatedInit, OperatedStep, PTL DEF AccSpec

-----------------------------------------------------------------------------
(* The machine.                                                            *)

Sane ==
    /\ IsImage(img)
    /\ ip \in Int
    /\ a \in Int
    /\ bp \in Nat
    /\ sp \in Nat
    /\ size \in Nat
    /\ DOMAIN mem \subseteq Nat
    /\ \A x \in DOMAIN mem : mem[x] \in 0..(ByteBase - 1)

-----------------------------------------------------------------------------
(* Words in memory.                                                        *)

LEMMA PlaceType ==
    ASSUME NEW n \in Int
    PROVE  Weight(n) \in Nat /\ Weight(n) > 0
<1> DEFINE p4 == IF n >= 4 THEN Cap(4) ELSE 1
           p2 == IF n % 4 >= 2 THEN Cap(2) ELSE 1
           p1 == IF n % 2 = 1 THEN ByteBase ELSE 1
           p  == p4 * p2
<1>1. p4 \in Nat /\ p4 > 0 /\ p2 \in Nat /\ p2 > 0
  <2>1. Cap(4) \in Nat /\ Cap(4) > 0 /\ Cap(2) \in Nat /\ Cap(2) > 0
    BY CapType DEF Widths
  <2> QED BY <2>1
<1>2. p1 \in Nat /\ p1 > 0
  BY ByteAssumption
<1> HIDE DEF p4, p2, p1
<1>3. p \in Nat /\ p > 0
  BY <1>1, ProductType, Zenon
<1> HIDE DEF p
<1>4. p * p1 \in Nat /\ p * p1 > 0
  BY <1>2, <1>3, ProductType, Zenon
<1> QED BY <1>4 DEF Weight, p, p1, p2, p4

LEMMA ByteType ==
    ASSUME NEW v \in Int, NEW w \in Widths, NEW k \in Int
    PROVE  ByteOf(v, w, k) \in 0..(ByteBase - 1)
<1>1. Weight(w - 1 - k) \in Nat /\ Weight(w - 1 - k) > 0
  <2>1. w - 1 - k \in Int
    BY DEF Widths
  <2> QED BY <2>1, PlaceType
<1> DEFINE q == v \div Weight(w - 1 - k)
<1>2. q \in Int
  BY <1>1
<1> HIDE DEF q
<1>3. q % ByteBase \in 0..(ByteBase - 1)
  BY <1>2, ByteAssumption
<1> QED BY <1>3 DEF ByteOf, q

\* A word read from bytes is a number.
LEMMA WordType ==
    ASSUME NEW m, NEW lo \in Int, NEW w \in Nat,
           \A x \in Cells(lo, w) : m[x] \in 0..(ByteBase - 1)
    PROVE  WordAt(m, lo, w) \in Nat
<1> DEFINE byte(k) == IF k < w THEN m[lo + k] ELSE 0
           step == [p \in Nat \X Nat |-> p[2] * ByteBase + byte(p[1])]
           Reads(g) == g = [k \in 0..w |-> IF k = 0 THEN 0
                                            ELSE g[k - 1] * ByteBase + m[lo + k - 1]]
<1>1. step \in [Nat \X Nat -> Nat]
  <2>1. ASSUME NEW k \in Nat PROVE byte(k) \in Nat
    <3>1. CASE k < w
      <4>1. lo + k \in Cells(lo, w)
        BY <3>1 DEF Cells
      <4> QED BY <3>1, <4>1, ByteAssumption
    <3> QED BY <3>1
  <2>2. ASSUME NEW k \in Nat, NEW v \in Nat PROVE v * ByteBase + byte(k) \in Nat
    <3> HIDE DEF byte
    <3>1. byte(k) \in Nat
      BY <2>1
    <3>2. v * ByteBase \in Nat
      BY ByteAssumption
    <3> QED BY <3>1, <3>2
  <2> HIDE DEF byte
  <2> QED BY <2>2
<1>2. PICK f \in [Nat -> Nat] : Recurs(f, 0, step)
  <2>1. 0 \in Nat
    OBVIOUS
  <2> HIDE DEF step, Reads
  <2> QED BY <1>1, <2>1, Recursion, Zenon
<1> DEFINE h == [k \in 0..w |-> f[k]]
<1>3. Reads(h)
  <2>1. ASSUME NEW k \in 0..w, k # 0 PROVE h[k] = h[k - 1] * ByteBase + m[lo + k - 1]
    <3>1. k - 1 \in Nat /\ (k - 1) + 1 = k /\ k - 1 < w /\ k - 1 \in 0..w /\ k \in Nat
          /\ lo + (k - 1) = lo + k - 1
      BY <2>1
    <3>2. f[k] = step[<<k - 1, f[k - 1]>>]
      BY <1>2, <3>1 DEF Recurs
    <3>3. byte(k - 1) = m[lo + k - 1]
      BY <3>1
    <3> HIDE DEF byte
    <3>4. f[k] = f[k - 1] * ByteBase + byte(k - 1)
      BY <1>2, <3>1, <3>2
    <3> QED BY <3>1, <3>3, <3>4
  <2>2. h[0] = 0 /\ 0 \in 0..w
    <3>1. 0 \in 0..w
      OBVIOUS
    <3>2. f[0] = 0
      BY <1>2 DEF Recurs
    <3> QED BY <3>1, <3>2
  <2>3. h = [k \in 0..w |-> h[k]]
    OBVIOUS
  <2> HIDE DEF h
  <2>4. \A k \in 0..w : h[k] = IF k = 0 THEN 0 ELSE h[k - 1] * ByteBase + m[lo + k - 1]
    BY <2>1, <2>2
  <2> QED BY <2>3, <2>4
<1> DEFINE first == CHOOSE g : Reads(g)
<1>4. Reads(first)
  <2> HIDE DEF h, Reads
  <2> QED BY <1>3
<1>5. WordAt(m, lo, w) = first[w]
  BY DEF WordAt
<1> DEFINE T == {k \in 0..w : first[k] \in Nat}
<1> HIDE DEF first
<1>6. 0 \in T
  BY <1>4
<1>7. ASSUME NEW k \in 0..(w - 1), k \in T PROVE k + 1 \in T
  <2>1. k + 1 \in 0..w /\ k + 1 # 0 /\ (k + 1) - 1 = k /\ lo + (k + 1) - 1 = lo + k
    OBVIOUS
  <2>2. first[k + 1] = first[(k + 1) - 1] * ByteBase + m[lo + (k + 1) - 1]
    BY <1>4, <2>1
  <2>3. m[lo + k] \in Nat
    <3>1. lo + k \in Cells(lo, w)
      BY DEF Cells
    <3> QED BY <3>1, ByteAssumption
  <2>4. first[k] * ByteBase \in Nat
    BY <1>7, ByteAssumption
  <2>5. first[k] * ByteBase + m[lo + k] \in Nat
    BY <2>3, <2>4
  <2> QED BY <2>1, <2>2, <2>5
<1>8. \A k \in 0..w : k \in T
  <2> HIDE DEF T
  <2> QED BY <1>6, <1>7, BoundedInduction, Zenon
<1>9. w \in 0..w
  OBVIOUS
<1> QED BY <1>5, <1>8, <1>9

-----------------------------------------------------------------------------
(* What the instructions do to memory.                                     *)

\* Memory after a write at or above the bottom of the stack: the bytes written
\* are bytes, the others are what they were.
LEMMA StoredType ==
    ASSUME Sane, NEW lo \in Nat, NEW v \in Int, NEW w \in Widths, NEW m, m = Stored(lo, v, w)
    PROVE  /\ DOMAIN m \subseteq Nat
           /\ \A x \in DOMAIN m : m[x] \in 0..(ByteBase - 1)
           /\ \A x \in DOMAIN mem : x < lo => x \in DOMAIN m /\ m[x] = mem[x]
<1>1. Cells(lo, w) \subseteq Nat /\ \A x \in Cells(lo, w) : x >= lo
  BY DEF Cells, Widths
<1>2. DOMAIN m = DOMAIN mem \cup Cells(lo, w)
  BY DEF Stored
<1>3. DOMAIN m \subseteq Nat
  BY <1>1, <1>2 DEF Sane
<1>4. ASSUME NEW x \in DOMAIN m PROVE m[x] \in 0..(ByteBase - 1)
  <2>1. CASE x \in Cells(lo, w)
    <3>1. x - lo \in Int
      BY <1>1, <2>1
    <3>2. m[x] = ByteOf(v, w, x - lo)
      BY <2>1, <1>2 DEF Stored
    <3> QED BY <3>1, <3>2, ByteType
  <2>2. CASE x \notin Cells(lo, w)
    <3>1. m[x] = mem[x] /\ x \in DOMAIN mem
      BY <2>2, <1>2 DEF Stored
    <3> QED BY <3>1 DEF Sane
  <2> QED BY <2>1, <2>2
<1>5. ASSUME NEW x \in DOMAIN mem, x < lo PROVE x \in DOMAIN m /\ m[x] = mem[x]
  <2>1. x \notin Cells(lo, w)
    BY <1>1, <1>5 DEF Sane
  <2> QED BY <1>2, <2>1 DEF Stored
<1> QED BY <1>3, <1>4, <1>5

\* A word that can be read lies above the bottom, and is a number.
LEMMA ReadType ==
    ASSUME Sane, NEW lo \in Int, NEW w \in Widths, Readable(lo, w)
    PROVE  lo \in Nat /\ Word(lo, w) \in Nat
<1>1. lo \in Cells(lo, w) /\ w \in Nat
  BY DEF Cells, Widths
<1>2. lo \in Nat
  BY <1>1 DEF Readable, Sane
<1>3. \A x \in Cells(lo, w) : mem[x] \in 0..(ByteBase - 1)
  BY DEF Readable, Sane
<1>4. WordAt(mem, lo, w) \in Nat
  BY <1>1, <1>3, WordType
<1> QED BY <1>2, <1>4 DEF Word

LEMMA GrownType ==
    ASSUME Sane, NEW w \in Widths
    PROVE  Grown(w) \in Nat
<1>1. Max({BlockSize, w}) \in Nat
  <2>1. BlockSize \in Nat /\ w \in Nat
    BY StackAssumption DEF Widths
  <2>2. Max({BlockSize, w}) \in {BlockSize, w}
    BY <2>1 DEF Max
  <2> QED BY <2>1, <2>2
<1> QED BY <1>1 DEF Grown, Sane

\* An instruction that is fetched.
LEMMA FetchType ==
    ASSUME Sane, NEW S, Fetch(S)
    PROVE  /\ I \in Instrs
           /\ I.op \in S
           /\ I.op \in Sized => I.w \in Widths
           /\ I.arg \in Int
           /\ NextIp \in Int
<1>1. I \in Instrs /\ I.op \in S
  BY DEF Fetch, Sane, IsImage, I
<1>2. I \in InstrRecords /\ I.w \in WidthsOf(I.op)
  BY <1>1 DEF Instrs
<1> HIDE DEF I
<1>3. I.op \in Sized => I.w \in Widths
  BY <1>2 DEF WidthsOf, Widths
<1>4. I.arg \in Int /\ Length(I) \in Int
  BY <1>2 DEF InstrRecords, Length, Widths
<1>5. ip \in Int
  BY DEF Sane
<1> QED BY <1>1, <1>3, <1>4, <1>5 DEF NextIp

-----------------------------------------------------------------------------
(* The steps.  Each preserves Sane and, but for MOV_A_OFFSET, what lies    *)
(* below the stack pointer.                                                *)

Kept == \A x \in DOMAIN mem : x < sp => x \in DOMAIN mem' /\ mem'[x] = mem[x]

LEMMA StopStep ==
    ASSUME Sane, NEW s, Stop(s)
    PROVE  Sane' /\ Kept
  BY DEF Stop, Sane, IsImage, Kept

\* An instruction that leaves memory alone.
LEMMA QuietStep ==
    ASSUME Sane, UNCHANGED <<img, size, mem>>, ip' \in Int, a' \in Int, bp' \in Nat, sp' \in Nat
    PROVE  Sane' /\ Kept
  BY DEF Sane, IsImage, Kept

\* An instruction that pushes.
LEMMA PushStep ==
    ASSUME Sane, NEW v \in Int, NEW w \in Widths, PushVal(v, w), UNCHANGED img,
           ip' \in Int, a' \in Int, bp' \in Nat, sp' \in Nat
    PROVE  Sane' /\ Kept
<1>1. sp \in Nat /\ IsImage(img)'
  BY DEF Sane, IsImage
<1>2. mem' = Stored(sp, v, w) /\ size' = Grown(w)
  BY DEF PushVal
<1>3. /\ DOMAIN mem' \subseteq Nat
      /\ \A x \in DOMAIN mem' : mem'[x] \in 0..(ByteBase - 1)
      /\ \A x \in DOMAIN mem : x < sp => x \in DOMAIN mem' /\ mem'[x] = mem[x]
  BY <1>1, <1>2, StoredType
<1>4. size' \in Nat
  BY <1>2, GrownType
<1> QED BY <1>1, <1>3, <1>4 DEF Sane, Kept

LEMMA AccType ==
    ASSUME Sane, NEW w \in Widths
    PROVE  Acc(w) \in Nat
  BY TruncType DEF Acc, Sane

LEMMA MovAOffsetStep ==
    ASSUME Sane, MovAOffset
    PROVE  Sane'
<1>1. I.w \in Widths /\ I.arg \in Int /\ NextIp \in Int
  BY FetchType DEF MovAOffset, Sized
<1> DEFINE lo == BpPos(I.w, I.arg)
<1>2. CASE \E s : Stop(s)
  BY <1>2, StopStep
<1>3. CASE ~BpFails(I.w, I.arg) /\ mem' = Stored(lo, a, I.w) /\ Step
           /\ UNCHANGED <<a, bp, flags, sp, size, out>>
  <2>1. bp \in Nat /\ a \in Int /\ I.w \in Nat /\ Cap(8) \in Nat
    BY <1>1, CapType DEF Sane, Widths
  <2>2. lo \in Nat
    BY <1>1, <1>3, <2>1 DEF BpPos, BpFails
  <2> HIDE DEF lo
  <2>3. /\ DOMAIN mem' \subseteq Nat
        /\ \A x \in DOMAIN mem' : mem'[x] \in 0..(ByteBase - 1)
    BY <1>1, <1>3, <2>1, <2>2, StoredType
  <2> QED BY <1>1, <1>3, <2>3 DEF Sane, IsImage, Step
<1> QED BY <1>2, <1>3 DEF MovAOffset

LEMMA MovOffsetAStep ==
    ASSUME Sane, MovOffsetA
    PROVE  Sane' /\ Kept
<1>1. I.w \in Widths /\ I.arg \in Int /\ NextIp \in Int
  BY FetchType DEF MovOffsetA, Sized
<1> DEFINE lo == BpPos(I.w, I.arg)
<1>2. CASE \E s : Stop(s)
  BY <1>2, StopStep
<1>3. CASE Readable(lo, I.w) /\ a' = Word(lo, I.w) /\ Step /\ UNCHANGED <<bp, sp, size, mem>>
  <2>1. bp \in Nat /\ I.w \in Nat /\ Cap(8) \in Nat /\ sp \in Nat
    BY <1>1, CapType DEF Sane, Widths
  <2>2. lo \in Int
    BY <1>1, <2>1 DEF BpPos
  <2> HIDE DEF lo
  <2>3. a' \in Int
    BY <1>1, <1>3, <2>2, ReadType
  <2> QED BY <1>1, <1>3, <2>1, <2>3, QuietStep DEF Step
<1> QED BY <1>2, <1>3 DEF MovOffsetA

\* The instructions that compute in the accumulator.
LEMMA AccumulatorStep ==
    ASSUME BitsClosed, Sane, MovImm \/ UnaryOp \/ ExtendA \/ SetCC
    PROVE  Sane' /\ Kept
<1>1. I.arg \in Int /\ NextIp \in Int /\ UNCHANGED <<img, bp, sp, size, mem>> /\ ip' = NextIp
  BY FetchType DEF MovImm, UnaryOp, ExtendA, SetCC, Step
<1>2. a' \in Int
  <2>1. CASE MovImm
    BY <1>1, <2>1 DEF MovImm
  <2>2. CASE UnaryOp
    <3>1. I.op \in UnaryOps /\ I.w \in Widths
      BY <2>2, FetchType DEF UnaryOp, Sized
    <3>2. Acc(I.w) \in Nat
      BY <3>1, AccType
    <3> QED BY <2>2, <3>1, <3>2, ApplyUnaryType DEF UnaryOp
  <2>3. CASE ExtendA
    <3>1. I.w \in Widths /\ a \in Int
      BY <2>3, FetchType DEF ExtendA, Sized, Sane
    <3> QED BY <2>3, <3>1, ExtendType DEF ExtendA
  <2>4. CASE SetCC
    BY <2>4 DEF SetCC, Bool
  <2> QED BY <2>1, <2>2, <2>3, <2>4
<1>3. bp \in Nat /\ sp \in Nat
  BY DEF Sane
<1> QED BY <1>1, <1>2, <1>3, QuietStep

\* The instructions that pop.
LEMMA PopStep ==
    ASSUME BitsClosed, Sane, Binary \/ Cmp \/ Ret
    PROVE  Sane' /\ Kept
<1>1. bp \in Nat /\ sp \in Nat /\ a \in Int
  BY DEF Sane
<1>2. CASE \E s : Stop(s)
  BY <1>2, StopStep
<1>3. CASE Binary /\ ~\E s : Stop(s)
  <2>1. I.op \in ArithOps /\ I.w \in Widths /\ NextIp \in Int
    BY <1>3, FetchType DEF Binary, Sized
  <2>2. /\ Readable(sp - I.w, I.w) /\ ~Undefined(I.op, Popped(I.w), Acc(I.w), I.w)
        /\ a' = Apply(I.op, Popped(I.w), Acc(I.w), I.w)
        /\ sp' = sp - I.w
        /\ Step
        /\ UNCHANGED <<bp, size, mem>>
    BY <1>3 DEF Binary
  <2>3. sp - I.w \in Int
    BY <1>1, <2>1 DEF Widths
  <2>4. sp - I.w \in Nat /\ Popped(I.w) \in Nat /\ Acc(I.w) \in Nat
    BY <2>1, <2>2, <2>3, ReadType, AccType DEF Popped
  <2>5. a' \in Int
    BY <2>1, <2>2, <2>4, ApplyType
  <2> QED BY <1>1, <2>1, <2>2, <2>4, <2>5, QuietStep DEF Step
<1>4. CASE Cmp /\ ~\E s : Stop(s)
  <2>1. I.w \in Widths /\ NextIp \in Int
    BY <1>4, FetchType DEF Cmp, Sized
  <2>2. Readable(sp - I.w, I.w) /\ sp' = sp - I.w /\ Step /\ UNCHANGED <<a, bp, size, mem>>
    BY <1>4 DEF Cmp
  <2>3. sp - I.w \in Int
    BY <1>1, <2>1 DEF Widths
  <2>4. sp - I.w \in Nat
    BY <2>1, <2>2, <2>3, ReadType
  <2> QED BY <1>1, <2>1, <2>2, <2>4, QuietStep DEF Step
<1>5. CASE Ret /\ ~\E s : Stop(s)
  <2>1. Readable(sp - 8, 8) /\ ip' = Word(sp - 8, 8) /\ sp' = sp - 8
        /\ UNCHANGED <<img, a, bp, size, mem>>
    BY <1>5 DEF Ret, Popped
  <2>2. sp - 8 \in Int /\ 8 \in Widths
    BY <1>1 DEF Widths
  <2>3. sp - 8 \in Nat /\ Word(sp - 8, 8) \in Nat
    BY <2>1, <2>2, ReadType
  <2> QED BY <1>1, <2>1, <2>3, QuietStep
<1> QED BY <1>2, <1>3, <1>4, <1>5

\* The instructions that push.
LEMMA PushesStep ==
    ASSUME Sane, PushA \/ Call \/ Enter
    PROVE  Sane' /\ Kept
<1>1. /\ bp \in Nat /\ sp \in Nat /\ a \in Int /\ NextIp \in Int /\ I.arg \in Int
      /\ 8 \in Widths /\ sp + 8 \in Nat
  BY FetchType DEF Sane, PushA, Call, Enter, Widths
<1>2. CASE \E s : Stop(s)
  BY <1>2, StopStep
<1>3. CASE PushA /\ ~\E s : Stop(s)
  <2>1. I.w \in Widths
    BY <1>3, FetchType DEF PushA, Sized
  <2>2. PushVal(Acc(I.w), I.w) /\ sp' = sp + I.w /\ Step /\ UNCHANGED <<a, bp>>
    BY <1>3 DEF PushA
  <2>3. Acc(I.w) \in Int /\ sp + I.w \in Nat
    BY <1>1, <2>1, AccType DEF Widths
  <2> QED BY <1>1, <2>1, <2>2, <2>3, PushStep DEF Step
<1>4. CASE Call /\ ~\E s : Stop(s)
  <2>1. PushVal(NextIp, 8) /\ sp' = sp + 8 /\ ip' = I.arg /\ UNCHANGED <<img, a, bp>>
    BY <1>4 DEF Call
  <2> QED BY <1>1, <2>1, PushStep
<1>5. CASE Enter /\ ~\E s : Stop(s)
  <2>1. PushVal(bp, 8) /\ sp' = sp + 8 /\ bp' = sp + 8 /\ Step /\ UNCHANGED a
    BY <1>5 DEF Enter
  <2> QED BY <1>1, <2>1, PushStep DEF Step
<1> QED BY <1>2, <1>3, <1>4, <1>5

\* The instructions that do no more than move a pointer, and the ends of a run.
LEMMA PointerStep ==
    ASSUME Sane, Jz \/ Jmp \/ Leave \/ AddSp \/ Exit
    PROVE  Sane' /\ Kept
<1>1. bp \in Nat /\ sp \in Nat /\ a \in Int /\ NextIp \in Int /\ I.arg \in Int
  BY FetchType DEF Sane, Jz, Jmp, Leave, AddSp, Exit
<1>2. CASE \E s : Stop(s)
  BY <1>2, StopStep
<1>3. CASE Jz \/ Jmp \/ Exit
  BY <1>1, <1>3, QuietStep DEF Jz, Jmp, Exit
<1>4. CASE Leave /\ ~\E s : Stop(s)
  <2>1. Readable(bp - 8, 8) /\ sp' = bp - 8 /\ bp' = Word(bp - 8, 8) /\ Step
        /\ UNCHANGED <<a, size, mem>>
    BY <1>4 DEF Leave
  <2>2. bp - 8 \in Int /\ 8 \in Widths
    BY <1>1 DEF Widths
  <2>3. bp - 8 \in Nat /\ Word(bp - 8, 8) \in Nat
    BY <2>1, <2>2, ReadType
  <2> QED BY <1>1, <2>1, <2>3, QuietStep DEF Step
<1>5. CASE AddSp /\ ~\E s : Stop(s)
  <2>1. I.arg <= sp /\ sp' = sp - I.arg /\ Step /\ UNCHANGED <<a, bp, size, mem>>
    BY <1>1, <1>5 DEF AddSp
  <2>2. sp' \in Nat
    BY <1>1, <2>1
  <2> QED BY <1>1, <2>1, <2>2, QuietStep DEF Step
<1> QED BY <1>2, <1>3, <1>4, <1>5

LEMMA SysFunStep ==
    ASSUME Sane, SysFun
    PROVE  Sane' /\ Kept
<1>1. bp \in Nat /\ sp \in Nat /\ NextIp \in Int /\ I.arg \in Int /\ 8 \in Widths
  BY FetchType DEF Sane, SysFun, Widths
<1>2. CASE \E s : Stop(s)
  BY <1>2, StopStep
<1>3. CASE ~\E s : Stop(s)
  <2> DEFINE w == Widths4[I.arg + 1]
  <2>1. /\ I.arg \in 0..SysFunLast /\ I.arg # SysFunLast
        /\ Readable(sp - w, w)
        /\ PushVal(bp, 8)
        /\ a' = Popped(w)
        /\ Step
        /\ UNCHANGED <<bp, sp>>
    BY <1>3 DEF SysFun
  <2>2. w \in Widths
    BY <1>1, <2>1 DEF SysFunLast, Widths4, Widths
  <2> HIDE DEF w
  <2>3. sp - w \in Int
    BY <1>1, <2>2 DEF Widths
  <2>4. a' \in Int
    BY <2>1, <2>2, <2>3, ReadType DEF Popped
  <2> QED BY <1>1, <2>1, <2>4, PushStep DEF Step
<1> QED BY <1>2, <1>3

\* Start, and the steps that leave everything but the status alone.
LEMMA OtherStep ==
    ASSUME Sane, Start \/ OffEnd \/ Stray \/ Stopped \/ UNCHANGED <<img, vmvars>>
    PROVE  Sane' /\ Kept
<1>1. CASE Start
  BY <1>1, StackAssumption DEF Start, Sane, IsImage, NoMain, Kept
<1>2. CASE OffEnd \/ Stray
  BY <1>2, StopStep DEF OffEnd, Stray
<1>3. CASE Stopped \/ UNCHANGED <<img, vmvars>>
  BY <1>3 DEF Stopped, vmvars, Sane, IsImage, Kept
<1> QED BY <1>1, <1>2, <1>3

\* Every step of the machine.
LEMMA MachineStep ==
    ASSUME BitsClosed, Sane, [Next]_<<img, vmvars>>
    PROVE  Sane' /\ (MovAOffset \/ Kept)
<1>1. CASE Start \/ OffEnd \/ Stray \/ Stopped \/ UNCHANGED <<img, vmvars>>
  BY <1>1, OtherStep
<1>2. CASE MovAOffset
  BY <1>2, MovAOffsetStep
<1>3. CASE MovOffsetA \/ MovImm \/ UnaryOp \/ ExtendA \/ SetCC
  BY <1>3, MovOffsetAStep, AccumulatorStep
<1>4. CASE PushA \/ Binary \/ Cmp \/ Call \/ Ret \/ Enter
  BY <1>4, PushesStep, PopStep
<1>5. CASE Jz \/ Jmp \/ Leave \/ AddSp \/ SysFun \/ Exit
  BY <1>5, PointerStep, SysFunStep
<1> QED BY <1>1, <1>2, <1>3, <1>4, <1>5 DEF Next, Run

LEMMA MachineInit ==
    ASSUME IsImage(img), Off
    PROVE  Sane
<1>1. mem = <<>> /\ ip = 0 /\ a = 0 /\ bp = 0 /\ sp = 0 /\ size = 0
  BY DEF Off
<1>2. DOMAIN mem = {}
  <2>1. <<>> \in Seq(Nat) /\ Len(<<>>) = 0
    OBVIOUS
  <2>2. DOMAIN <<>> = 1..0
    BY <2>1
  <2> QED BY <1>1, <2>2
<1> QED BY <1>1, <1>2 DEF Sane

-----------------------------------------------------------------------------
\* vm.c: whatever image the machine is given, the stack pointer never goes below
\* the stack's allocation and nothing below it is ever written.
THEOREM MachineAboveBottom ==
    ASSUME BitsClosed
    PROVE  MachineSpec => []AboveBottom
<1>1. IsImage(img) /\ Off => Sane
  BY MachineInit
<1>2. Sane /\ [Next]_<<img, vmvars>> => Sane'
  BY MachineStep
<1>3. Sane => AboveBottom
  BY DEF Sane, AboveBottom
<1> QED BY <1>1, <1>2, <1>3, PTL DEF MachineSpec

\* vm.c: whatever image it is given, only a MOV_A_OFFSET changes a byte that lies
\* on the stack.
THEOREM MachineKeepsStack ==
    ASSUME BitsClosed
    PROVE  MachineSpec => StackKept
<1> DEFINE Step2 == status = "run" /\ ~(ip \in DOMAIN img.code /\ I.op = "mov_a_offset") => Kept
<1>1. IsImage(img) /\ Off => Sane
  BY MachineInit
<1>2. Sane /\ [Next]_<<img, vmvars>> => Sane'
  BY MachineStep
<1>3. Sane /\ [Next]_<<img, vmvars>> => [Step2]_vmvars
  <2> SUFFICES ASSUME Sane, [Next]_<<img, vmvars>> PROVE Step2
    OBVIOUS
  <2>1. MovAOffset => ip \in DOMAIN img.code /\ I.op = "mov_a_offset"
    BY DEF MovAOffset, Fetch
  <2> QED BY <2>1, MachineStep
<1> QED BY <1>1, <1>2, <1>3, PTL DEF MachineSpec, StackKept, Kept

=============================================================================
