----------------------------- MODULE MCCodegen -----------------------------
(* Instances of the code generator for TLC. *)
EXTENDS GalachVerify

Head1(name, type) == [name |-> name, type |-> type]

FunAndMain == {Head1("f", "i16"), Head1("main", "unit")}
ThreeFuns  == {Head1("f", "i16"), Head1("g", "i16"), Head1("main", "unit")}
NoParams   == {}
OneParam   == {Head1("x", "i8")}

=============================================================================
