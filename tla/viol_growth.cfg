SPECIFICATION PipelineSpec
CONSTANTS
    ByteBase = 4
    ByteBits = 2
    BitAnd <- MCBitAnd
    BitOr <- MCBitOr
    BitXor <- MCBitXor
    BlockSize = 64
    MaxStack = 128
    MaxPrints = 4
    MaxSteps = 60
    FunHeads <- MainOnly
    Params <- NoParams
    VarNames = {"x"}
    VarTypes = {"i64"}
    UsedNames = {"x", "print8"}
    Literals = {1}
    FloatImages = {}
    UnOps = {}
    BinOps = {"setlt"}
    AssignOps = {"sub"}
    MaxArgs = 1
    MaxNodes = 9
    Shapes = {"var", "int"}
INVARIANTS StackGrows
