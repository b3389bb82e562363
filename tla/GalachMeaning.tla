---------------------------- MODULE GalachMeaning ----------------------------
(***************************************************************************)
(* What generator and machine do with a source, against what it means.     *)
(***************************************************************************)
EXTENDS GalachPipeline

CONSTANT MaxSteps

Eval == INSTANCE GalachEval WITH Src <- src

\* The machine has printed what the evaluation has, and holds its last value.
Agrees(r) ==
    r.mode # "undefined" =>
    /\ r.mode = "live"
    /\ out = r.out
    /\ r.known => LET c == Cap(TypeSize(r.type)) IN a % c = r.val % c

\* A program that has run to its EXIT has printed what its source says, in the
\* order it says, and leaves in the accumulator the value of the expression the
\* source evaluates last: whatever was pushed, popped, cast, jumped over, called
\* and shadowed on the way.  (Nothing is claimed of a source that uses a value
\* nothing defines, such as that of a print.)
DoesWhatItSays ==
    machine = "exit" => Agrees(Eval!Meaning)

=============================================================================
