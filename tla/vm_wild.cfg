SPECIFICATION Spec
CONSTANTS
    ByteBase = 4
    ByteBits = 2
    BitAnd <- MCBitAnd
    BitOr <- MCBitOr
    BitXor <- MCBitXor
    BlockSize = 64
    MaxStack = 64
    MaxPrints = 2
INVARIANTS AboveBottom
PROPERTIES StackKept
