------------------------------ MODULE MCWords ------------------------------
(* Every operator on every pair of operands of one-bit bytes, for TLC. *)
EXTENDS GalachAccumulator

MCBits == INSTANCE Bitwise
MCBitAnd(x, y) == MCBits!&(x, y)
MCBitOr(x, y)  == MCBits!|(x, y)
MCBitXor(x, y) == MCBits!^^(x, y)

\* At the greatest width a selection: around the powers of two.
AllOperands(w) == IF w < 8 THEN 0..(Cap(w) - 1)
                  ELSE {0, 1, 2, 3, 7, 8, 15, 16, 127, 128, 200, 254, 255}

\* What HighBytesAreExtended assumes of the operators on bits is so of these.
ASSUME MCBitsFit == BitsFit

\* So is what LowBitsAreExact assumes of them.
ASSUME MCBitsAre == BitsAre

=============================================================================
