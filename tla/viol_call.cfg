SPECIFICATION Spec
CONSTANTS
    ByteBase = 4
    FunHeads <- ThreeFuns
    Params <- NoParams
    VarNames = {}
    VarTypes = {}
    UsedNames = {"g"}
    Literals = {5}
    FloatImages = {7}
    UnOps = {"neg"}
    BinOps = {"add", "setlt"}
    AssignOps = {}
    MaxArgs = 0
    MaxNodes = 3
    Shapes = {"global", "int", "float", "string", "ident", "call", "latercall", "recursion", "return", "while", "if"}
INVARIANTS CallsReachCallee
