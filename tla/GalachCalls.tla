---------------------------- MODULE GalachCalls ----------------------------
(***************************************************************************)
(* What calling promises, whatever the stack holds in between: a call      *)
(* remembers where it was made and the base pointer it was made with, and  *)
(* a return goes back to the latest call that has not returned yet.        *)
(***************************************************************************)
EXTENDS Integers, SequencesExt

CONSTANT CallLength   \* how far past a call its return address lies

VARIABLES at,     \* the instruction about to be executed
          frames  \* the calls in progress, [ret, bp], the latest one last

Init == frames = <<>>

\* The base pointer remembered is the caller's business; that it is still
\* remembered when the callee leaves is what Work and Return say.
Call == /\ frames' # <<>>
        /\ Front(frames') = frames
        /\ Last(frames').ret = at + CallLength

Return == /\ frames # <<>>
          /\ frames' = Front(frames)
          /\ at' = Last(frames).ret

Work == frames' = frames

Next == Call \/ Return \/ Work

Spec == Init /\ [][Next]_<<at, frames>>

=============================================================================
