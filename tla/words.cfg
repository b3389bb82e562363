SPECIFICATION AccSpec
CONSTANTS
    ByteBase = 2
    ByteBits = 1
    BitAnd <- MCBitAnd
    BitOr <- MCBitOr
    BitXor <- MCBitXor
    Operands <- AllOperands
INVARIANTS LowBytesExact LowBitsExact HighBytesExtend
