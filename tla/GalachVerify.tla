---------------------------- MODULE GalachVerify ----------------------------
(***************************************************************************)
(* The check bytecode.h asks for ("Should implement gh_bytecode_verify     *)
(* that checks if the bytecode is valid"): what compiled code must satisfy *)
(* for the virtual machine to run it, stated over the generator's output.  *)
(* The branch targets and the frame accesses are in GalachCodegen, beside  *)
(* their proofs; here is what needs the operand stack simulated.           *)
(***************************************************************************)
EXTENDS GalachCodegen

\* The operand stack of a function: how many bytes are in use, and where in
\* them the operands begin.  Bad when a pop has not found what was pushed for
\* it.
Empty == [sp |-> 0, starts |-> {}]
Bad   == [sp |-> -1, starts |-> {}]

Pushed(s, w) == [sp |-> s.sp + w, starts |-> s.starts \cup {s.sp}]
Popped(s, n) == [sp |-> s.sp - n, starts |-> {o \in s.starts : o < s.sp - n}]

\* The operand on top has w bytes.
OnTop(s, w) == s.sp - w \in s.starts /\ \A o \in s.starts : o <= s.sp - w

SysFunWidths == <<1, 2, 4, 8>>

\* ADD_SP after a call drops whole arguments.
Effect(s, i) ==
    IF s = Bad THEN Bad
    ELSE CASE i.op = "push"  -> Pushed(s, i.w)
           [] i.op \in ArithOps \cup {"cmp"} ->
                  IF OnTop(s, i.w) THEN Popped(s, i.w) ELSE Bad
           [] i.op = "sysfun" ->
                  IF OnTop(s, SysFunWidths[i.arg + 1]) THEN s ELSE Bad
           [] i.op = "add_sp" ->
                  IF s.sp - i.arg \in s.starts THEN Popped(s, i.arg) ELSE Bad
           [] i.op \in Jumps \cup {"leave", "ret", "exit"} -> IF s = Empty THEN s ELSE Bad
           [] OTHER -> s

\* One pass over code in the order its instructions lie in, from the address
\* first on: the stack in front of the n-th byte.  (No branch is emitted while
\* an operand is on the stack.)
Stacks(code, first) ==
    LET at[n \in Nat] ==
            IF n = 0 THEN Empty
            ELSE IF first + (n - 1) \in DOMAIN code
                 THEN Effect(at[n - 1], code[first + (n - 1)])
                 ELSE at[n - 1]
    IN  at

\* Whatever way expressions, arguments and statements nest, every operator pops
\* the operand pushed for it, at the width it was pushed with; every system
\* function finds its argument on top; and the stack is empty wherever control
\* branches or arrives from a branch.
OperandsBalanced ==
    status = "done" =>
        \A k \in 1..Len(funs) :
            LET first == funs[k].offset + PrologueLen
                at    == Stacks(bytes.code, first)
            IN  /\ at[funs[k].nbytes - PrologueLen] = Empty
                /\ \A x \in Code(funs[k]) : bytes.code[x].op \in Jumps =>
                       bytes.code[x].arg >= first /\ at[bytes.code[x].arg - first] = Empty

\* A call is emitted with the address of the function it names, which is the
\* one it finds when functions are called while later ones are still unknown.
CallsReachCallee ==
    At("args") /\ Top.fun.id = "fun" =>
        \E k \in 1..Len(funs) :
            /\ scopes[1][Len(SysFuns) + k].name = Top.fun.name
            /\ CallCode(Top.fun, Top.pop)[1].arg = funs[k].offset

=============================================================================
