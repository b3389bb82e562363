SPECIFICATION PipelineSpec
CONSTANTS
    ByteBase = 4
    ByteBits = 2
    BitAnd <- MCBitAnd
    BitOr <- MCBitOr
    BitXor <- MCBitXor
    BlockSize = 64
    MaxStack = 128
    MaxPrints = 4
    MaxSteps = 60
    FunHeads <- MainOnly
    Params <- NoParams
    VarNames = {}
    VarTypes = {"i8"}
    UsedNames = {"print8"}
    Literals = {1}
    FloatImages = {}
    UnOps = {"sign"}
    BinOps = {}
    AssignOps = {}
    MaxArgs = 1
    MaxNodes = 4
    Shapes = {"int", "call"}
INVARIANTS DoesWhatItSays
