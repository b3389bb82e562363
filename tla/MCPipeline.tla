----------------------------- MODULE MCPipeline -----------------------------
(* Instances of the pipeline for TLC. *)
EXTENDS GalachMeaning, GalachDisas

MCBits == INSTANCE Bitwise
MCBitAnd(x, y) == MCBits!&(x, y)
MCBitOr(x, y)  == MCBits!|(x, y)
MCBitXor(x, y) == MCBits!^^(x, y)

Head1(name, type) == [name |-> name, type |-> type]

MainOnly   == {Head1("main", "unit")}
FunAndMain == {Head1("f", "i16"), Head1("main", "unit")}
NoParams   == {}
TwoParams  == {Head1("p", "i8"), Head1("q", "i16"), Head1("r", "unit")}

=============================================================================
