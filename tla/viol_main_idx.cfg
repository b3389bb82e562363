SPECIFICATION DriverSpec
CONSTANTS
    ByteBase = 4
    FunHeads <- FunAndMain
    Params <- NoParams
    VarNames = {"x"}
    VarTypes = {"i8", "unit"}
    UsedNames = {}
    Literals = {1}
    FloatImages = {}
    UnOps = {}
    BinOps = {}
    AssignOps = {}
    MaxArgs = 0
    MaxNodes = 2
    MaxSources = 2
    Shapes = {"var", "int", "global"}
INVARIANTS MainIdxInFuns
