SPECIFICATION PipelineSpec
CONSTANTS
    ByteBase = 4
    ByteBits = 2
    BitAnd <- MCBitAnd
    BitOr <- MCBitOr
    BitXor <- MCBitXor
    BlockSize = 64
    MaxStack = 128
    MaxPrints = 4
    MaxSteps = 60
    FunHeads <- FunAndMain
    Params <- TwoParams
    VarNames = {"x"}
    VarTypes = {"i8", "i32"}
    UsedNames = {"x", "p", "f"}
    Literals = {2}
    FloatImages = {}
    UnOps = {}
    BinOps = {"sub"}
    AssignOps = {"assign"}
    MaxArgs = 2
    MaxNodes = 5
    Shapes = {"int", "ident", "call", "return", "var", "varinit", "assign", "block"}
INVARIANTS OperandsBalanced RunsClean DoesWhatItSays SlotsDisjoint AccessesInFrame
