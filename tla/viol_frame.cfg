SPECIFICATION Spec
CONSTANTS
    ByteBase = 4
    FunHeads <- FunAndMain
    Params <- OneParam
    VarNames = {"x"}
    VarTypes = {"i8", "i32"}
    UsedNames = {"x"}
    Literals = {1}
    FloatImages = {}
    UnOps = {}
    BinOps = {}
    AssignOps = {"assign", "add"}
    MaxArgs = 1
    MaxNodes = 6
    Shapes = {"var", "varinit", "block", "int", "ident", "assign", "mixedassign"}
INVARIANTS AccessesInFrame
