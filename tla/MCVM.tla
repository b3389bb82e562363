-------------------------------- MODULE MCVM --------------------------------
(* The virtual machine on every short program over a menu of instructions. *)
EXTENDS GalachVM

MCBits == INSTANCE Bitwise
MCBitAnd(x, y) == MCBits!&(x, y)
MCBitOr(x, y)  == MCBits!|(x, y)
MCBitXor(x, y) == MCBits!^^(x, y)

Menu == {Instr("enter", 0, 0), Instr("leave", 0, 0), Instr("ret", 0, 0),
         Instr("push", 1, 0), Instr("push", 8, 0), Instr("mov_imm", 1, 3),
         Instr("add", 1, 0), Instr("add_sp", 0, -1), Instr("add_sp", 0, 1),
         Instr("mov_a_offset", 2, -1), Instr("mov_a_offset", 2, 7), Instr("mov_offset_a", 1, 7),
         Instr("sysfun", 0, 0), Instr("sysfun", 0, 4), Instr("sysfun", 0, -1),
         Instr("call", 0, 0), Instr("jmp", 0, -1), Instr("jz", 1, 1),
         Instr("cmp", 1, 0), Instr("setlt", 0, 0), Instr("neg", 1, 0), Instr("sext", 2, 0),
         Instr("exit", 0, 0)}

Assemble(s) ==
    LET at[k \in 1..(Len(s) + 1)] == IF k = 1 THEN 0 ELSE at[k - 1] + Length(s[k - 1])
        addr(k) == at[k]
    IN  [code  |-> [x \in {addr(k) : k \in 1..Len(s)} |->
                       s[CHOOSE k \in 1..Len(s) : addr(k) = x]],
         used  |-> addr(Len(s) + 1),
         entry |-> 0]

\* Too long for the menu: a base pointer taken from memory, and a position that
\* wraps behind it; an offset that is out of range.
Far    == Cap(8) \div 2
Longer == {<<Instr("enter", 0, 0), Instr("mov_imm", 8, Cap(8) - 1), Instr("mov_a_offset", 8, 0),
             Instr("leave", 0, 0), Instr("mov_a_offset", 2, -20), Instr("exit", 0, 0)>>}
              \cup {<<Instr(op, 2, Far - 2)>> : op \in {"mov_a_offset", "mov_offset_a"}}

ShortImages == {Assemble(s) : s \in UNION {[1..n -> Menu] : n \in 1..4}}
                 \cup {Assemble(s) : s \in Longer}
                 \cup {[Assemble(<<Instr("ret", 0, 0)>>) EXCEPT !.entry = NoMain]}

ASSUME MenuAssumption == \A i \in Menu : IsImage(Assemble(<<i>>))

Init == img \in ShortImages /\ Off
Spec == Init /\ [][Next]_<<img, vmvars>>

=============================================================================
