------------------------------ MODULE MCDriver ------------------------------
(* Instances of the driver for TLC. *)
EXTENDS GalachDriver

Head1(name, type) == [name |-> name, type |-> type]

FunAndMain == {Head1("f", "i16"), Head1("main", "unit")}
NoParams   == {}

=============================================================================
