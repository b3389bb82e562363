SPECIFICATION DriverSpec
CONSTANTS
    ByteBase = 4
    FunHeads <- FunAndMain
    Params <- NoParams
    VarNames = {"x"}
    VarTypes = {"i8", "unit"}
    UsedNames = {"x"}
    Literals = {1}
    FloatImages = {7}
    UnOps = {"neg"}
    BinOps = {}
    AssignOps = {"assign"}
    MaxArgs = 0
    MaxNodes = 4
    MaxSources = 3
    Shapes = {"var", "varinit", "assign", "int", "global", "float", "string"}
INVARIANTS RunsOnlyCompiled EntersMain FreshFrame AccessesInFrame
