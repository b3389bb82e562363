SPECIFICATION PipelineSpec
CONSTANTS
    ByteBase = 4
    ByteBits = 2
    BitAnd <- MCBitAnd
    BitOr <- MCBitOr
    BitXor <- MCBitXor
    BlockSize = 64
    MaxStack = 192
    MaxPrints = 4
    MaxSteps = 60
    FunHeads <- FunAndMain
    Params <- TwoParams
    VarNames = {}
    VarTypes = {"i8"}
    UsedNames = {"f", "p", "print16"}
    Literals = {2}
    FloatImages = {}
    UnOps = {}
    BinOps = {}
    AssignOps = {}
    MaxArgs = 2
    MaxNodes = 6
    Shapes = {"int", "ident", "call", "return", "recursion", "if"}
INVARIANTS TypeOK ListsTheCode RunsClean DoesWhatItSays StackLevel
PROPERTIES CallDiscipline Terminates
