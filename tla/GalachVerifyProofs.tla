-------------------------- MODULE GalachVerifyProofs -------------------------
(***************************************************************************)
(* What gh_bytecode_verify was to check holds of every program the code    *)
(* generator makes, for every value of its constants.                      *)
(***************************************************************************)
EXTENDS GalachVerify, GalachDisas, GalachCodegenAccesses

-----------------------------------------------------------------------------
(* The code lies without gaps.                                             *)

\* Behind an instruction is the next one, or the end of the code.
Packed(b) ==
    /\ b.used > 0 => 0 \in DOMAIN b.code
    /\ \A x \in DOMAIN b.code :
           /\ x + Length(b.code[x]) \in DOMAIN b.code \cup {b.used}
           /\ \A y \in DOMAIN b.code : y > x => y >= x + Length(b.code[x])

LEMMA EmitPacked ==
    ASSUME NEW b, BytesOK(b), Packed(b), NEW i \in InstrRecords
    PROVE  Packed(Emit(b, i))
<1> DEFINE c == Emit(b, i)
           n == Length(i)
<1>1. /\ c.code = [x \in DOMAIN b.code \cup {b.used} |-> IF x = b.used THEN i ELSE b.code[x]]
      /\ c.used = b.used + n
  BY DEF Emit
<1>2. n \in Nat /\ n >= 1 /\ b.used \in Nat
  BY LengthType DEF BytesOK
<1>3. \A x \in DOMAIN b.code : x \in Nat /\ x < b.used
  BY <1>2 DEF BytesOK
<1>4. /\ DOMAIN c.code = DOMAIN b.code \cup {b.used}
      /\ \A x \in DOMAIN b.code : c.code[x] = b.code[x]
      /\ c.code[b.used] = i
  BY <1>1, <1>3
<1> HIDE DEF c
<1>5. c.used > 0 => 0 \in DOMAIN c.code
  BY <1>2, <1>4 DEF Packed
<1>6. ASSUME NEW x \in DOMAIN c.code
      PROVE  /\ x + Length(c.code[x]) \in DOMAIN c.code \cup {c.used}
             /\ \A y \in DOMAIN c.code : y > x => y >= x + Length(c.code[x])
  <2>1. CASE x = b.used
    <3>1. Length(c.code[x]) = n
      BY <1>4, <2>1
    <3>2. \A y \in DOMAIN c.code : ~(y > x)
      BY <1>2, <1>3, <1>4, <2>1
    <3> QED BY <1>1, <2>1, <3>1, <3>2
  <2>2. CASE x \in DOMAIN b.code
    <3> DEFINE z == x + Length(b.code[x])
    <3>1. z \in DOMAIN b.code \cup {b.used} /\ \A y \in DOMAIN b.code : y > x => y >= z
      BY <2>2 DEF Packed
    <3>2. c.code[x] = b.code[x]
      BY <1>4, <2>2
    <3> HIDE DEF z
    <3>3. b.used >= z
      BY <1>2, <1>3, <3>1
    <3>4. z \in DOMAIN c.code \cup {c.used} /\ \A y \in DOMAIN c.code : y > x => y >= z
      BY <1>4, <3>1, <3>3
    <3> QED BY <3>2, <3>4 DEF z
  <2> QED BY <1>4, <2>1, <2>2
<1> QED BY <1>5, <1>6 DEF Packed, c

LEMMA EmitAllPacked ==
    ASSUME NEW b, BytesOK(b), Packed(b), NEW s \in Seq(InstrRecords)
    PROVE  Packed(EmitAll(b, s))
<1> DEFINE step(c, k) == IF k <= Len(s) THEN Emit(c, s[k]) ELSE c
           Good(c)    == BytesOK(c) /\ Packed(c)
<1>1. ASSUME NEW c, Good(c), NEW k \in 1..5
      PROVE  Good(step(c, k))
  <2>1. CASE k <= Len(s)
    <3>1. s[k] \in InstrRecords
      BY <2>1
    <3> QED BY <1>1, <2>1, <3>1, EmitType, EmitPacked
  <2>2. CASE ~(k <= Len(s))
    BY <1>1, <2>2
  <2> QED BY <2>1, <2>2
<1> DEFINE c1 == step(b, 1)
           c2 == step(c1, 2)
           c3 == step(c2, 3)
           c4 == step(c3, 4)
           c5 == step(c4, 5)
<1>2. EmitAll(b, s) = c5
  BY DEF EmitAll
<1>3. Good(b)
  OBVIOUS
<1> HIDE DEF step, Good
<1>4. Good(c1)
  BY <1>1, <1>3
<1>5. Good(c2)
  BY <1>1, <1>4
<1>6. Good(c3)
  BY <1>1, <1>5
<1>7. Good(c4)
  BY <1>1, <1>6
<1>8. Good(c5)
  BY <1>1, <1>7
<1> QED BY <1>2, <1>8 DEF Good

LEMMA PatchPacked ==
    ASSUME NEW b, BytesOK(b), Packed(b), NEW x, NEW arg \in Int
    PROVE  BytesOK(Patch(b, x, arg)) /\ Packed(Patch(b, x, arg))
<1> DEFINE c == Patch(b, x, arg)
<1>1. /\ BytesOK(c) /\ c.used = b.used /\ DOMAIN c.code = DOMAIN b.code
      /\ \A y \in DOMAIN b.code : /\ c.code[y].op = b.code[y].op
                                  /\ c.code[y].w = b.code[y].w
  BY PatchChanges
<1> HIDE DEF c
<1>2. \A y \in DOMAIN b.code : Length(c.code[y]) = Length(b.code[y])
  BY <1>1 DEF Length
<1>3. Packed(c)
  BY <1>1, <1>2 DEF Packed
<1> QED BY <1>1, <1>3 DEF c

LEMMA StatementPacked ==
    ASSUME SourceTypes, Shape, Packed(bytes), Statement \/ Expression
    PROVE  Packed(bytes')
<1>1. BytesOK(bytes) /\ bytes.used \in Nat
  BY DEF SourceTypes, BytesOK
<1>2. CASE UNCHANGED bytes
  BY <1>2
<1>3. CASE Emits(Calm)
  <2>1. PICK s \in Seq(Calm) : bytes' = EmitAll(bytes, s)
    BY <1>3 DEF Emits
  <2>2. s \in Seq(InstrRecords)
    BY MuteInstrs
  <2> QED BY <1>1, <2>1, <2>2, EmitAllPacked
<1>4. ASSUME NEW op \in Jumps, NEW w \in Widths \cup {0}, NEW arg \in Int
      PROVE  Packed(EmitAll(bytes, <<Instr(op, w, arg)>>)) /\ BytesOK(EmitAll(bytes, <<Instr(op, w, arg)>>))
  <2> DEFINE i == Instr(op, w, arg)
             s == <<i>>
  <2>1. op \in Ops
    BY DEF Jumps, Ops, WithOperand
  <2>2. i \in InstrRecords
    BY <2>1, InstrType
  <2>3. s \in Seq(InstrRecords)
    BY <2>2
  <2> HIDE DEF s
  <2>4. Packed(EmitAll(bytes, s)) /\ BytesOK(EmitAll(bytes, s))
    BY <1>1, <2>3, EmitAllPacked, EmitAllType
  <2> QED BY <2>4 DEF s
<1>5. ASSUME IfJz \/ WhileJz PROVE Packed(bytes')
  <2>1. Top.step \in CellSteps
    BY <1>5 DEF IfJz, WhileJz, At, CellSteps
  <2>2. TypeSize(Cell) \in Widths \cup {0} /\ "jz" \in Jumps /\ 0 \in Int
    BY <2>1, CellType DEF Jumps
  <2>3. UNCHANGED bytes \/ bytes' = EmitAll(bytes, <<Instr("jz", TypeSize(Cell), 0)>>)
    BY <1>5 DEF IfJz, WhileJz, Fail
  <2> QED BY <1>2, <1>4, <2>2, <2>3, Zenon
<1>6. ASSUME NEW else \in {"none", "elseif", "else"}, IfJmp(else) PROVE Packed(bytes')
  <2>1. bytes' = EmitAll(bytes, <<Instr("jmp", 0, 0)>>)
    BY <1>6 DEF IfJmp
  <2>2. 0 \in Widths \cup {0} /\ "jmp" \in Jumps /\ 0 \in Int
    BY DEF Jumps
  <2> QED BY <1>4, <2>1, <2>2, Zenon
<1>7. CASE EndIf
  <2> DEFINE b == IF Top.jz = None THEN bytes ELSE Patch(bytes, Top.jz, Top.to)
  <2>1. bytes' = Patch(b, Top.jmp, bytes.used)
    BY <1>7 DEF EndIf
  <2>2. Top.to \in Int
    BY TopOutside DEF Items
  <2>3. BytesOK(b) /\ Packed(b)
    BY <1>1, <2>2, PatchPacked
  <2> HIDE DEF b
  <2> QED BY <1>1, <2>1, <2>3, PatchPacked
<1>8. CASE EndWhile
  <2> DEFINE b == EmitAll(bytes, <<Instr("jmp", 0, Top.to)>>)
  <2>1. bytes' = Patch(b, Top.jz, b.used)
    BY <1>8 DEF EndWhile
  <2>2. Top.to \in Int
    BY TopOutside DEF Items
  <2>3. 0 \in Widths \cup {0} /\ "jmp" \in Jumps
    BY DEF Jumps
  <2>4. BytesOK(b) /\ Packed(b)
    BY <1>4, <2>2, <2>3
  <2> HIDE DEF b
  <2>5. b.used \in Int
    BY <2>4 DEF BytesOK
  <2> QED BY <2>1, <2>4, <2>5, PatchPacked
<1>9. EmitWhile => UNCHANGED bytes
  BY DEF EmitWhile
<1> QED BY <1>2, <1>3, <1>5, <1>6, <1>7, <1>8, <1>9, StatementCode, Zenon

\* The functions lie one behind the other, from the start of the code on.
Tiled ==
    /\ \A k \in 1..Len(funs) :
           /\ funs[k].offset \in DOMAIN bytes.code
           /\ k = 1 => funs[k].offset = 0
           /\ k < Len(funs) => funs[k].offset + funs[k].nbytes = funs[k + 1].offset
    /\ ~Open => IF Len(funs) = 0 THEN bytes.used = 0
                ELSE funs[Len(funs)].offset + funs[Len(funs)].nbytes = bytes.used

LEMMA DeclarationPacked ==
    ASSUME SourceTypes, Shape, Packed(bytes), Prologue \/ EndFun
    PROVE  Packed(bytes')
<1>1. BytesOK(bytes) /\ offset_counter \in Int
  BY DEF SourceTypes
<1>2. \A op \in {"enter", "add_sp", "exit", "leave", "ret"} : Instr(op, 0, 0) \in InstrRecords
  <2> SUFFICES ASSUME NEW op \in {"enter", "add_sp", "exit", "leave", "ret"} PROVE Instr(op, 0, 0) \in InstrRecords
    OBVIOUS
  <2>1. op \in Ops /\ 0 \in Widths \cup {0} /\ 0 \in Int
    BY DEF Ops, WithOperand
  <2> QED BY <2>1, InstrType, Zenon
<1>3. Instr("mov_imm", 8, 0) \in InstrRecords
  <2>1. "mov_imm" \in Ops /\ 8 \in Widths \cup {0} /\ 0 \in Int
    BY DEF Ops, Widths
  <2> QED BY <2>1, InstrType, Zenon
<1>4. CASE Prologue
  <2> DEFINE s == <<Instr("enter", 0, 0), Instr("add_sp", 0, 0)>>
  <2>1. bytes' = EmitAll(bytes, s)
    BY <1>4 DEF Prologue
  <2>2. s \in Seq(InstrRecords)
    BY <1>2
  <2> HIDE DEF s
  <2> QED BY <1>1, <2>1, <2>2, EmitAllPacked
<1>5. CASE EndFun
  <2> DEFINE s1 == <<Instr("exit", 0, 0)>>
             s2 == <<Instr("mov_imm", 8, 0), Instr("leave", 0, 0), Instr("ret", 0, 0)>>
             s  == IF Top.word = "main" THEN s1 ELSE s2
             b  == EmitAll(bytes, s)
  <2>1. bytes' = Patch(b, Last(funs).offset + 1, offset_counter)
    BY <1>5 DEF EndFun
  <2>2. s1 \in Seq(InstrRecords) /\ s2 \in Seq(InstrRecords)
    BY <1>2, <1>3
  <2> HIDE DEF s1, s2
  <2>3. s \in Seq(InstrRecords)
    BY <2>2
  <2> HIDE DEF s
  <2>4. BytesOK(b) /\ Packed(b)
    BY <1>1, <2>3, EmitAllPacked, EmitAllType
  <2> HIDE DEF b
  <2> QED BY <1>1, <2>1, <2>4, PatchPacked
<1> QED BY <1>4, <1>5

LEMMA TiledStep ==
    ASSUME SourceTypes, Shape, Branches, Packed(bytes), Tiled, [Next]_vars
    PROVE  Packed(bytes') /\ Tiled'
<1>1. Kept /\ Len(funs) \in Nat /\ BytesOK(bytes) /\ bytes.used \in Nat
  BY ShapeStep, FunFields DEF SourceTypes, BytesOK
<1>2. \A k \in 1..Len(funs) : funs[k].offset \in Nat /\ funs[k].nbytes \in Nat
  BY FunFields
<1>3. ASSUME UNCHANGED <<bytes, funs>>, ~Open' => ~Open PROVE Packed(bytes') /\ Tiled'
  BY <1>3 DEF Tiled
<1>4. CASE Statement \/ Expression
  <2>1. Packed(bytes')
    BY <1>4, StatementPacked
  <2>2. Inside /\ UNCHANGED funs /\ Grows
    BY <1>4, StatementScopes, StatementFuns, StatementKeeps
  <2>3. Open'
    BY <1>1, <2>2, InsideOpen
  <2> QED BY <2>1, <2>2, <2>3 DEF Tiled, Grows
<1>5. CASE Prologue
  <2>1. Packed(bytes')
    BY <1>5, DeclarationPacked
  <2>2. Open'
    BY <1>5, PrologueOpens
  <2>3. /\ ~Open /\ Len(funs') = Len(funs) + 1
        /\ \A k \in 1..Len(funs) : funs'[k] = funs[k]
        /\ funs'[Len(funs')] = [offset |-> bytes.used, nbytes |-> 0]
        /\ DOMAIN bytes'.code = DOMAIN bytes.code \cup {bytes.used, bytes.used + 1}
    BY <1>5, PrologueCode
  <2>4. funs'[Len(funs) + 1].offset = bytes.used
    BY <2>3
  <2>5. ASSUME NEW k \in 1..Len(funs')
        PROVE  /\ funs'[k].offset \in DOMAIN bytes'.code
               /\ k = 1 => funs'[k].offset = 0
               /\ k < Len(funs') => funs'[k].offset + funs'[k].nbytes = funs'[k + 1].offset
    <3>1. CASE k = Len(funs) + 1
      <4>1. k = 1 => bytes.used = 0
        BY <1>1, <2>3, <3>1 DEF Tiled
      <4> QED BY <1>1, <2>3, <2>4, <3>1, <4>1
    <3>2. CASE k = Len(funs)
      <4>1. k \in 1..Len(funs) /\ funs'[k] = funs[k]
        BY <1>1, <2>3, <3>2
      <4>2. funs[k].offset + funs[k].nbytes = bytes.used
        BY <1>1, <2>3, <3>2, <4>1 DEF Tiled
      <4> QED BY <1>1, <2>3, <2>4, <3>2, <4>1, <4>2 DEF Tiled
    <3>3. CASE k < Len(funs)
      <4>1. k \in 1..Len(funs) /\ k + 1 \in 1..Len(funs)
        BY <1>1, <3>3
      <4> QED BY <2>3, <3>3, <4>1 DEF Tiled
    <3> QED BY <1>1, <2>3, <3>1, <3>2, <3>3
  <2> QED BY <2>1, <2>2, <2>5 DEF Tiled
<1>6. CASE EndFun
  <2>1. Packed(bytes')
    BY <1>6, DeclarationPacked
  <2>2. /\ ~Open' /\ Home \in Nat /\ bytes'.used \in Nat
        /\ Len(funs) >= 1 /\ Len(funs') = Len(funs)
        /\ \A k \in 1..(Len(funs) - 1) : funs'[k] = funs[k]
        /\ funs'[Len(funs)].offset = Home
        /\ funs'[Len(funs)].nbytes = bytes'.used - Home
        /\ DOMAIN bytes.code \subseteq DOMAIN bytes'.code
    BY <1>6, EndFunCode
  <2>3. Home = funs[Len(funs)].offset
    BY <1>1, <2>2, FunFields
  <2>4. \A k \in 1..Len(funs) : funs'[k].offset = funs[k].offset
    BY <1>1, <2>2, <2>3
  <2>5. ASSUME NEW k \in 1..Len(funs')
        PROVE  /\ funs'[k].offset \in DOMAIN bytes'.code
               /\ k = 1 => funs'[k].offset = 0
               /\ k < Len(funs') => funs'[k].offset + funs'[k].nbytes = funs'[k + 1].offset
    <3>1. k \in 1..Len(funs) /\ funs'[k].offset = funs[k].offset
      BY <2>2, <2>4
    <3>2. CASE k < Len(funs)
      <4>1. k + 1 \in 1..Len(funs) /\ k \in 1..(Len(funs) - 1)
        BY <1>1, <3>1, <3>2
      <4>2. funs'[k + 1].offset = funs[k + 1].offset /\ funs'[k] = funs[k]
        BY <2>2, <2>4, <4>1
      <4> QED BY <2>2, <3>1, <3>2, <4>2 DEF Tiled
    <3>3. CASE k = Len(funs)
      BY <1>1, <2>2, <3>1, <3>3 DEF Tiled
    <3> QED BY <1>1, <3>1, <3>2, <3>3
  <2>6. funs'[Len(funs')].offset + funs'[Len(funs')].nbytes = bytes'.used
    BY <2>2
  <2> QED BY <1>1, <2>1, <2>2, <2>5, <2>6 DEF Tiled
<1>7. CASE \/ \E h \in FunHeads : DeclareFun(h)
           \/ \E p \in Params : AddParam(p)
           \/ DeclareVar \/ EndProgram
  BY <1>3, <1>7, OutsideSame, Zenon
<1>8. CASE UNCHANGED vars
  <2>1. Open' = Open /\ UNCHANGED <<bytes, funs>>
    BY <1>8 DEF vars, Open, Top
  <2> QED BY <1>3, <2>1
<1> QED BY <1>4, <1>5, <1>6, <1>7, <1>8 DEF Next, Compiled, Declaration

LEMMA InitialTiled == Afresh => Packed(bytes) /\ Tiled
  BY DEF Afresh, Packed, Tiled

\* A program that is done has its functions, and all of them complete.
Finished == status = "done" => Top.step = "decls" /\ Len(funs) > 0

LEMMA FinishedStep ==
    ASSUME SourceTypes, Shape, Finished, [Next]_vars
    PROVE  Finished'
<1>1. CASE Statement \/ Expression
  <2>1. status' # "done"
    BY <1>1, StatementStatus
  <2> QED BY <2>1 DEF Finished
<1>2. CASE EndProgram
  <2>1. UNCHANGED <<work, funs>> /\ Top.step = "decls" /\ funs # <<>>
    BY <1>2 DEF EndProgram, At
  <2> QED BY <2>1 DEF Finished, Top, SourceTypes
<1>3. CASE Declaration /\ ~EndProgram
  <2>1. status' # "done"
    BY <1>3 DEF Declaration, DeclareFun, AddParam, DeclareVar, Prologue, EndFun, Fail, At
  <2> QED BY <2>1 DEF Finished
<1>4. CASE UNCHANGED vars
  BY <1>4 DEF vars, Finished, Top
<1> QED BY <1>1, <1>2, <1>3, <1>4 DEF Next, Compiled

LEMMA InitialFinished == Afresh => Finished
  BY DEF Afresh, Finished


-----------------------------------------------------------------------------
(* The listing.                                                            *)

\* What is shown of an operand is what there is.
LEMMA ShownLength ==
    ASSUME NEW i \in InstrRecords
    PROVE  Shown(i) \in Nat /\ Length(i) = 1 + Shown(i)
<1>1. i.op \in Ops /\ i.w \in Nat
  BY DEF InstrRecords, Widths
<1>2. CASE i.op = "mov_imm"
  BY <1>1, <1>2 DEF Shown, Length, WithOperand
<1>3. CASE i.op \in WithOperand
  BY <1>3 DEF Shown, Length, WithOperand
<1>4. CASE i.op \notin WithOperand \cup {"mov_imm"}
  BY <1>4 DEF Shown, Length, WithOperand
<1> QED BY <1>2, <1>3, <1>4

Lines == [lines : SUBSET Nat, at : Nat]

\* The loop of gh_disas_func, round by round.
LEMMA ListingRounds ==
    ASSUME SourceTypes, NEW f \in Funs
    PROVE  \E round \in [Nat -> Lines] :
               /\ round[0] = [lines |-> {}, at |-> f.offset]
               /\ \A n \in Nat : round[n + 1] = IF round[n].at >= f.offset + f.nbytes THEN round[n]
                                                ELSE Line(round[n], f.offset + f.nbytes)
               /\ Listing(f) = round[f.nbytes]
<1> DEFINE end   == f.offset + f.nbytes
           first == [lines |-> {}, at |-> f.offset]
           Go(r) == IF r.at >= end THEN r ELSE Line(r, end)
           step  == [p \in Nat \X Lines |-> Go(p[2])]
<1>1. f.offset \in Nat /\ f.nbytes \in Nat /\ end \in Nat
  BY DEF Funs
<1>2. first \in Lines
  BY <1>1 DEF Lines
<1>3. ASSUME NEW r \in Lines PROVE Go(r) \in Lines
  <2> DEFINE x == r.at
  <2>1. x \in Nat /\ r.lines \subseteq Nat
    BY DEF Lines
  <2>2. x \in DOMAIN bytes.code => Shown(bytes.code[x]) \in Nat
    BY ShownLength DEF SourceTypes, BytesOK
  <2> HIDE DEF end
  <2>3. Line(r, end).lines = r.lines \cup {x} /\ Line(r, end).at \in Nat
    BY <2>1, <2>2 DEF Line
  <2>4. Line(r, end) = [lines |-> Line(r, end).lines, at |-> Line(r, end).at]
    BY DEF Line
  <2>5. Line(r, end) \in Lines
    BY <2>1, <2>3, <2>4 DEF Lines
  <2> QED BY <2>5
<1> HIDE DEF Go
<1>4. step \in [Nat \X Lines -> Lines]
  BY <1>3
<1>5. PICK g \in [Nat -> Lines] : Recurs(g, first, step)
  <2> HIDE DEF step, first
  <2> QED BY <1>2, <1>4, Recursion, Zenon
<1>6. g[0] = first /\ \A n \in Nat : g[n + 1] = Go(g[n])
  BY <1>5 DEF Recurs
<1> HIDE DEF step
<1> DEFINE Walks(h) == h = [n \in Nat |-> IF n = 0 THEN first ELSE Go(h[n - 1])]
           walk == CHOOSE h : Walks(h)
<1>7. Walks(g)
  <2>1. ASSUME NEW n \in Nat, n # 0 PROVE g[n] = Go(g[n - 1])
    <3>1. n - 1 \in Nat /\ (n - 1) + 1 = n
      BY <2>1
    <3> QED BY <1>6, <3>1
  <2> HIDE DEF first
  <2> QED BY <1>5, <1>6, <2>1
<1>8. Listing(f) = walk[f.nbytes]
  BY DEF Listing, Go
<1>9. Walks(walk)
  <2> HIDE DEF Walks
  <2> QED BY <1>7
<1> HIDE DEF walk
<1>10. walk[0] = first
  BY <1>9
<1>11. ASSUME NEW n \in Nat PROVE walk[n + 1] = Go(walk[n])
  <2>1. n + 1 \in Nat /\ n + 1 # 0 /\ (n + 1) - 1 = n
    OBVIOUS
  <2>2. walk[n + 1] = Go(walk[(n + 1) - 1])
    <3> HIDE DEF first
    <3> QED BY <1>9, <2>1
  <2> QED BY <2>1, <2>2
<1>12. \A n \in Nat : walk[n] \in Lines
  <2> DEFINE T == {n \in Nat : walk[n] \in Lines}
  <2>1. 0 \in T
    BY <1>2, <1>10
  <2>2. \A n \in Nat : n \in T => n + 1 \in T
    BY <1>3, <1>11
  <2>3. \A n \in Nat : n \in T
    <3> HIDE DEF T
    <3> QED BY <2>1, <2>2, Induction, Zenon
  <2> QED BY <2>3
<1>13. walk \in [Nat -> Lines]
  BY <1>9, <1>12
<1> HIDE DEF Walks
<1> QED BY <1>8, <1>10, <1>11, <1>13 DEF Go

\* Over packed code that ends where an instruction does, it loses no step.
LEMMA ListingWhole ==
    ASSUME SourceTypes, Packed(bytes), NEW f \in Funs, f.offset \in DOMAIN bytes.code,
           f.offset + f.nbytes \in DOMAIN bytes.code \cup {bytes.used}
    PROVE  Listing(f) = [lines |-> Code(f), at |-> f.offset + f.nbytes]
<1> DEFINE o   == f.offset
           end == f.offset + f.nbytes
<1>1. o \in Nat /\ f.nbytes \in Nat /\ end \in Nat /\ bytes.used \in Nat /\ end = o + f.nbytes
  BY DEF Funs, SourceTypes, BytesOK
<1>2. \A x \in DOMAIN bytes.code : x \in Nat /\ x < bytes.used /\ bytes.code[x] \in InstrRecords
  BY <1>1 DEF SourceTypes, BytesOK
<1>3. PICK round \in [Nat -> Lines] :
          /\ round[0] = [lines |-> {}, at |-> o]
          /\ \A n \in Nat : round[n + 1] = IF round[n].at >= end THEN round[n] ELSE Line(round[n], end)
          /\ Listing(f) = round[f.nbytes]
  BY ListingRounds
<1> DEFINE Right(r) == /\ r.lines = DOMAIN bytes.code \cap o..(r.at - 1)
                       /\ r.at >= o /\ r.at <= end
                       /\ r.at \in DOMAIN bytes.code \cup {end}
           T == {n \in Nat : Right(round[n]) /\ (round[n].at >= o + n \/ round[n].at = end)}
<1>4. 0 \in T
  <2>1. round[0].lines = {} /\ round[0].at = o
    BY <1>3
  <2>2. o..(o - 1) = {}
    BY <1>1
  <2>3. o \in DOMAIN bytes.code
    OBVIOUS
  <2> HIDE DEF o, end
  <2>4. Right(round[0])
    BY <1>1, <2>1, <2>2, <2>3
  <2> HIDE DEF Right
  <2> QED BY <1>1, <2>1, <2>4
<1>5. ASSUME NEW r \in Lines, Right(r), r.at < end
      PROVE  Right(Line(r, end)) /\ Line(r, end).at > r.at
  <2> DEFINE x == r.at
             n == Length(bytes.code[x])
             z == x + n
  <2>1. x \in Nat /\ x \in DOMAIN bytes.code /\ x >= o /\ x < end
    BY <1>1, <1>5 DEF Lines
  <2>2. n \in Nat /\ n >= 1 /\ n = 1 + Shown(bytes.code[x]) /\ Shown(bytes.code[x]) \in Nat
    BY <1>2, <2>1, ShownLength, LengthType
  <2>3. z \in DOMAIN bytes.code \cup {bytes.used} /\ \A y \in DOMAIN bytes.code : y > x => y >= z
    BY <2>1 DEF Packed
  <2>4. z \in Nat /\ z > x /\ z = x + 1 + Shown(bytes.code[x])
    BY <2>1, <2>2
  <2> HIDE DEF z, n
  <2>5. end >= z /\ z \in DOMAIN bytes.code \cup {end}
    <3>1. CASE end \in DOMAIN bytes.code
      <4>1. end >= z
        BY <2>1, <2>3, <3>1
      <4>2. z # bytes.used
        BY <1>1, <1>2, <2>4, <3>1, <4>1
      <4> QED BY <2>3, <4>1, <4>2
    <3>2. CASE end = bytes.used
      BY <1>1, <1>2, <2>3, <3>2
    <3> QED BY <3>1, <3>2
  <2>6. ~(end - (x + 1) < Shown(bytes.code[x]))
    BY <1>1, <2>1, <2>2, <2>4, <2>5
  <2>7. Line(r, end) = [lines |-> r.lines \cup {x}, at |-> z]
    <3> HIDE DEF end, o
    <3> QED BY <2>1, <2>4, <2>6 DEF Line
  <2>8. r.lines \cup {x} = DOMAIN bytes.code \cap o..(z - 1)
    <3>1. \A y \in DOMAIN bytes.code : y \in Nat /\ (y > x => y >= z)
      BY <1>2, <2>3
    <3>2. \A y \in DOMAIN bytes.code : y \in o..(z - 1) <=> y \in o..(x - 1) \/ y = x
      BY <1>1, <2>1, <2>4, <3>1
    <3>3. r.lines = DOMAIN bytes.code \cap o..(x - 1)
      BY <1>5
    <3> QED BY <2>1, <3>2, <3>3
  <2>9. Line(r, end).at = z /\ Line(r, end).lines = r.lines \cup {x}
    BY <2>7
  <2> HIDE DEF o, end
  <2> QED BY <1>1, <2>1, <2>4, <2>5, <2>8, <2>9
<1>6. ASSUME NEW n \in Nat, n \in T PROVE n + 1 \in T
  <2> DEFINE r == round[n]
  <2>1. r \in Lines /\ Right(r) /\ (r.at >= o + n \/ r.at = end)
    BY <1>6
  <2>2. round[n + 1] = IF r.at >= end THEN r ELSE Line(r, end)
    BY <1>3
  <2>3. r.at \in Nat /\ r.at <= end
    BY <2>1 DEF Lines
  <2>4. CASE r.at = end
    <3>1. round[n + 1] = r
      BY <1>1, <2>2, <2>4
    <3> HIDE DEF Right
    <3> QED BY <2>1, <2>4, <3>1
  <2>5. CASE r.at < end
    <3>1. round[n + 1] = Line(r, end)
      BY <1>1, <2>2, <2>3, <2>5
    <3>2. Right(Line(r, end)) /\ Line(r, end).at > r.at
      BY <1>5, <2>1, <2>5
    <3>3. round[n + 1] \in Lines
      BY <1>3
    <3>4. Line(r, end).at \in Nat
      BY <3>1, <3>3 DEF Lines
    <3>5. Line(r, end).at >= o + (n + 1)
      BY <1>1, <2>1, <2>3, <2>5, <3>2, <3>4
    <3> HIDE DEF Right, o, end, r
    <3> QED BY <3>1, <3>2, <3>5
  <2> QED BY <1>1, <2>3, <2>4, <2>5
<1>7. f.nbytes \in T
  <2>1. \A n \in Nat : n \in T
    <3> HIDE DEF T
    <3> QED BY <1>4, <1>6, Induction, Zenon
  <2> QED BY <1>1, <2>1
<1> DEFINE r == Listing(f)
<1>8. r \in Lines /\ Right(r) /\ (r.at >= o + f.nbytes \/ r.at = end)
  BY <1>1, <1>3, <1>7
<1>9. r.at = end /\ r.lines = DOMAIN bytes.code \cap o..(end - 1)
  <2>1. r.at \in Nat /\ r.at <= end
    BY <1>8 DEF Lines
  <2>2. r.at = end
    BY <1>1, <1>8, <2>1
  <2> QED BY <1>8, <2>2
<1>10. r = [lines |-> r.lines, at |-> r.at]
  BY <1>8 DEF Lines
<1>11. Code(f) = DOMAIN bytes.code \cap o..(end - 1)
  <2>1. o + (f.nbytes - 1) = end - 1
    BY <1>1
  <2> QED BY <2>1 DEF Code
<1> HIDE DEF r, o, end
<1>12. r = [lines |-> Code(f), at |-> end]
  BY <1>9, <1>10, <1>11
<1> QED BY <1>12 DEF r, end

\* What lies below the end of a function is code of it or of one before it.
LEMMA TilesCover ==
    ASSUME SourceTypes, Tiled, NEW x \in DOMAIN bytes.code, ~Open
    PROVE  \E k \in 1..Len(funs) : x \in Code(funs[k])
<1> DEFINE End(k) == funs[k].offset + funs[k].nbytes
           T == {n \in Nat : n <= Len(funs) /\ n >= 1 /\ x < End(n)
                                 => \E k \in 1..Len(funs) : x \in Code(funs[k])}
<1>1. Len(funs) \in Nat /\ x \in Nat /\ x < bytes.used /\ bytes.used \in Nat
  BY FunFields DEF SourceTypes, BytesOK
<1>2. \A k \in 1..Len(funs) : funs[k].offset \in Nat /\ funs[k].nbytes \in Nat
  BY FunFields
<1>3. 0 \in T
  OBVIOUS
<1>4. ASSUME NEW n \in Nat, n \in T PROVE n + 1 \in T
  <2>1. SUFFICES ASSUME n + 1 <= Len(funs), x < End(n + 1)
                 PROVE  \E k \in 1..Len(funs) : x \in Code(funs[k])
    OBVIOUS
  <2>2. n + 1 \in 1..Len(funs)
    BY <1>1, <2>1
  <2>3. CASE x >= funs[n + 1].offset
    <3>1. x \in funs[n + 1].offset..(End(n + 1) - 1)
      BY <1>1, <1>2, <2>1, <2>2, <2>3
    <3>2. funs[n + 1].offset + (funs[n + 1].nbytes - 1) = End(n + 1) - 1
      BY <1>2, <2>2
    <3>3. x \in Code(funs[n + 1])
      BY <3>1, <3>2 DEF Code
    <3> QED BY <2>2, <3>3
  <2>4. CASE ~(x >= funs[n + 1].offset)
    <3>1. n # 0
      BY <1>1, <2>2, <2>4 DEF Tiled
    <3>2. n \in 1..Len(funs) /\ n < Len(funs)
      BY <1>1, <2>2, <3>1
    <3>3. End(n) = funs[n + 1].offset
      BY <3>2 DEF Tiled
    <3> QED BY <1>1, <1>2, <1>4, <2>2, <2>4, <3>2, <3>3
  <2> QED BY <2>3, <2>4
<1>5. Len(funs) \in T
  <2>1. \A n \in Nat : n \in T
    <3> HIDE DEF T
    <3> QED BY <1>3, <1>4, Induction, Zenon
  <2> QED BY <1>1, <2>1
<1>6. Len(funs) >= 1 /\ x < End(Len(funs))
  BY <1>1 DEF Tiled
<1> QED BY <1>1, <1>5, <1>6

LEMMA ListingShows ==
    ASSUME SourceTypes, Shape, Branches, Packed(bytes), Tiled, Finished
    PROVE  ListsTheCode
<1> SUFFICES ASSUME status = "done" PROVE ListsTheCode
  BY DEF ListsTheCode
<1>1. ~Open /\ Len(funs) \in Nat
  BY TopOutside, FunFields DEF Finished, Open
<1>2. ASSUME NEW k \in 1..Len(funs)
      PROVE  Listing(funs[k]).at = funs[k].offset + funs[k].nbytes /\ Listing(funs[k]).lines = Code(funs[k])
  <2>1. funs[k] \in Funs /\ funs[k].offset \in DOMAIN bytes.code
    BY FunFields DEF Tiled
  <2>2. funs[k].offset + funs[k].nbytes \in DOMAIN bytes.code \cup {bytes.used}
    <3>1. CASE k < Len(funs)
      <4>1. k + 1 \in 1..Len(funs)
        BY <1>1, <3>1
      <4> QED BY <3>1, <4>1 DEF Tiled
    <3>2. CASE k = Len(funs)
      BY <1>1, <3>2 DEF Tiled
    <3> QED BY <1>1, <3>1, <3>2
  <2>3. Listing(funs[k]) = [lines |-> Code(funs[k]), at |-> funs[k].offset + funs[k].nbytes]
    BY <2>1, <2>2, ListingWhole
  <2> QED BY <2>3
<1>3. UNION {Listing(funs[k]).lines : k \in 1..Len(funs)} = DOMAIN bytes.code
  <2>1. \A x \in DOMAIN bytes.code : \E k \in 1..Len(funs) : x \in Code(funs[k])
    BY <1>1, TilesCover
  <2>2. \A k \in 1..Len(funs) : Code(funs[k]) \subseteq DOMAIN bytes.code
    BY DEF Code
  <2>3. {Listing(funs[k]).lines : k \in 1..Len(funs)} = {Code(funs[k]) : k \in 1..Len(funs)}
    BY <1>2
  <2> QED BY <2>1, <2>2, <2>3
<1> QED BY <1>2, <1>3 DEF ListsTheCode

\* The listing "galach -d" prints of a program has every instruction of it at its
\* address and nothing else, whatever the program: the lengths debug.c steps by are
\* those the generator counted, functions lie one behind the other, and each ends
\* where its last instruction does.
THEOREM ListingIsTheCode == Spec => []ListsTheCode
<1>1. Init => SourceTypes /\ Shape /\ Branches /\ Packed(bytes) /\ Tiled /\ Finished
  BY InitialSource, InitialShape, InitialBranches, InitialTiled, InitialFinished
<1>2. SourceTypes /\ Shape /\ Branches /\ Packed(bytes) /\ Tiled /\ Finished /\ [Next]_vars
          => SourceTypes' /\ Shape' /\ Branches' /\ Packed(bytes)' /\ Tiled' /\ Finished'
  BY ShapeStep, BranchesStep, TiledStep, FinishedStep DEF Kept
<1>3. SourceTypes /\ Shape /\ Branches /\ Packed(bytes) /\ Tiled /\ Finished => ListsTheCode
  BY ListingShows
<1> QED BY <1>1, <1>2, <1>3, PTL DEF Spec

-----------------------------------------------------------------------------
(* The operand stack along the code.                                       *)

StackStates == [sp : Int, starts : SUBSET Int]

\* Operands begin below the top.
Good == {s \in [sp : Nat, starts : SUBSET Nat] : \A o \in s.starts : o < s.sp}

\* What has no effect on operands, and what has none where there are none.
Still == {i \in InstrRecords : i.op \notin ArithOps \cup Jumps
                             \cup {"cmp", "push", "sysfun", "add_sp", "leave", "ret", "exit"}}
Bare  == {i \in InstrRecords : i.op \notin ArithOps \cup {"cmp", "push", "sysfun", "add_sp"}}

LEMMA StackKinds ==
    /\ Empty \in Good /\ Empty \in StackStates /\ Bad \in StackStates
    /\ Good \subseteq StackStates /\ Bad \notin Good
    /\ \A s \in StackStates : s = [sp |-> s.sp, starts |-> s.starts]
    /\ Still \subseteq InstrRecords /\ Bare \subseteq InstrRecords
<1>1. Empty \in Good /\ Empty \in StackStates /\ Bad \in StackStates
  BY DEF Empty, Bad, Good, StackStates
<1>2. Good \subseteq StackStates
  BY DEF Good, StackStates
<1>3. \A s \in Good : s.sp >= 0
  BY DEF Good
<1>4. Bad.sp = -1
  BY DEF Bad
<1>5. Bad \notin Good
  BY <1>3, <1>4
<1>6. \A s \in StackStates : s = [sp |-> s.sp, starts |-> s.starts]
  BY DEF StackStates
<1> QED BY <1>1, <1>2, <1>5, <1>6 DEF Still, Bare

LEMMA EffectType ==
    ASSUME NEW s \in StackStates, NEW i \in InstrRecords
    PROVE  Effect(s, i) \in StackStates
<1>1. s.sp \in Int /\ s.starts \subseteq Int /\ i.w \in Int /\ i.arg \in Int
  BY DEF StackStates, InstrRecords, Widths
<1>2. \A n \in Int : Pushed(s, n) \in StackStates /\ Popped(s, n) \in StackStates
  BY <1>1 DEF StackStates, Pushed, Popped
<1>3. Bad \in StackStates
  BY StackKinds
<1>4. CASE s = Bad
  BY <1>3, <1>4 DEF Effect
<1>5. CASE s # Bad
  <2>1. Effect(s, i) \in {s, Bad, Pushed(s, i.w), Popped(s, i.w), Popped(s, i.arg)}
    BY <1>5 DEF Effect
  <2> QED BY <1>1, <1>2, <1>3, <2>1
<1> QED BY <1>4, <1>5

LEMMA StillEffect ==
    ASSUME NEW s, NEW i \in Still
    PROVE  Effect(s, i) = s
<1>1. i.op \notin ArithOps \cup Jumps \cup {"cmp", "push", "sysfun", "add_sp", "leave", "ret", "exit"}
  BY DEF Still
<1> QED BY <1>1 DEF Effect

LEMMA BareEffect ==
    ASSUME NEW i \in Bare
    PROVE  Effect(Empty, i) = Empty
<1>1. i.op \notin ArithOps \cup {"cmp", "push", "sysfun", "add_sp"}
  BY DEF Bare
<1>2. Empty # Bad
  BY StackKinds
<1> QED BY <1>1, <1>2 DEF Effect

\* What the instructions that use operands do.
LEMMA OperandEffect ==
    ASSUME NEW s, s # Bad, NEW i, i.op \in ArithOps \cup {"cmp"}, OnTop(s, i.w)
    PROVE  Effect(s, i) = Popped(s, i.w)
  BY Zenon DEF Effect, ArithOps, Jumps

LEMMA SysFunEffect ==
    ASSUME NEW s, s # Bad, NEW i, i.op = "sysfun", OnTop(s, SysFunWidths[i.arg + 1])
    PROVE  Effect(s, i) = s
  BY Zenon DEF Effect, ArithOps, Jumps

LEMMA DropEffect ==
    ASSUME NEW s, s # Bad, NEW i, i.op = "add_sp", s.sp - i.arg \in s.starts
    PROVE  Effect(s, i) = Popped(s, i.arg)
  BY Zenon DEF Effect, ArithOps, Jumps

LEMMA PushedEffect ==
    ASSUME NEW s, s # Bad, NEW i, i.op = "push"
    PROVE  Effect(s, i) = Pushed(s, i.w)
  BY Zenon DEF Effect, ArithOps, Jumps

\* An operand that was pushed is on top, and popping it undoes the push.
LEMMA PushedOnTop ==
    ASSUME NEW s \in Good, NEW w \in Nat, w > 0
    PROVE  /\ Pushed(s, w) \in Good
           /\ OnTop(Pushed(s, w), w)
           /\ Popped(Pushed(s, w), w) = s
<1>1. s.sp \in Nat /\ s.starts \subseteq Nat /\ \A o \in s.starts : o < s.sp
  BY DEF Good
<1>2. s = [sp |-> s.sp, starts |-> s.starts]
  BY StackKinds
<1> DEFINE p == s.sp
           q == s.starts
           t == Pushed(s, w)
<1>3. t = [sp |-> p + w, starts |-> q \cup {p}]
  BY DEF Pushed
<1>4. p \in Nat /\ q \subseteq Nat /\ \A o \in q : o < p
  BY <1>1
<1> HIDE DEF p, q
<1>5. t.sp = p + w /\ t.starts = q \cup {p} /\ (p + w) - w = p
  BY <1>3, <1>4
<1>6. t \in Good
  BY <1>3, <1>4 DEF Good
<1> HIDE DEF t
<1>7. OnTop(t, w)
  <2>1. t.sp - w = p
    BY <1>4, <1>5
  <2>2. p \in t.starts /\ \A o \in t.starts : o <= p
    <3>1. p <= p /\ \A o \in q : o <= p
      BY <1>4
    <3> QED BY <1>5, <3>1, Zenon
  <2> QED BY <2>1, <2>2, Zenon DEF OnTop
<1>8. {o \in q \cup {p} : o < p} = q
  <2>1. ~(p < p)
    BY <1>4
  <2> QED BY <1>4, <2>1, Zenon
<1>9. Popped(t, w) = [sp |-> p, starts |-> q]
  BY <1>5, <1>8 DEF Popped
<1> QED BY <1>2, <1>6, <1>7, <1>9 DEF p, q, t

\* Stacks, step by step.
LEMMA StacksPass ==
    ASSUME NEW code, NEW first \in Nat, \A x \in DOMAIN code : code[x] \in InstrRecords
    PROVE  LET at == Stacks(code, first) IN
           /\ at \in [Nat -> StackStates]
           /\ at[0] = Empty
           /\ \A n \in Nat : at[n + 1] = IF first + n \in DOMAIN code THEN Effect(at[n], code[first + n])
                                         ELSE at[n]
<1> DEFINE Go(n, s) == IF first + n \in DOMAIN code THEN Effect(s, code[first + n]) ELSE s
           step == [p \in Nat \X StackStates |-> Go(p[1], p[2])]
<1>1. ASSUME NEW n, NEW s \in StackStates PROVE Go(n, s) \in StackStates
  BY EffectType
<1> HIDE DEF Go
<1>2. step \in [Nat \X StackStates -> StackStates]
  BY <1>1
<1>3. Empty \in StackStates
  BY StackKinds
<1>4. PICK g \in [Nat -> StackStates] : Recurs(g, Empty, step)
  <2> HIDE DEF step
  <2> QED BY <1>2, <1>3, Recursion, Zenon
<1>5. g[0] = Empty /\ \A n \in Nat : g[n + 1] = Go(n, g[n])
  BY <1>4 DEF Recurs
<1> HIDE DEF step
<1> DEFINE Walks(h) == h = [n \in Nat |-> IF n = 0 THEN Empty
                                         ELSE IF first + (n - 1) \in DOMAIN code
                                              THEN Effect(h[n - 1], code[first + (n - 1)])
                                              ELSE h[n - 1]]
           walk == CHOOSE h : Walks(h)
<1>6. Walks(g)
  <2>1. ASSUME NEW n \in Nat, n # 0 PROVE g[n] = Go(n - 1, g[n - 1])
    <3>1. n - 1 \in Nat /\ (n - 1) + 1 = n
      BY <2>1
    <3> QED BY <1>5, <3>1
  <2> QED BY <1>4, <1>5, <2>1 DEF Go
<1>7. Stacks(code, first) = walk
  BY DEF Stacks
<1>8. Walks(walk)
  <2> HIDE DEF Walks
  <2> QED BY <1>6
<1> HIDE DEF walk
<1>9. walk[0] = Empty
  BY <1>8
<1>10. ASSUME NEW n \in Nat PROVE walk[n + 1] = Go(n, walk[n])
  <2>1. n + 1 \in Nat /\ n + 1 # 0 /\ (n + 1) - 1 = n
    OBVIOUS
  <2>2. walk[n + 1] = Go((n + 1) - 1, walk[(n + 1) - 1])
    BY <1>8, <2>1 DEF Go
  <2> QED BY <2>1, <2>2
<1>11. \A n \in Nat : walk[n] \in StackStates
  <2> DEFINE T == {n \in Nat : walk[n] \in StackStates}
  <2>1. 0 \in T
    BY <1>3, <1>9
  <2>2. \A n \in Nat : n \in T => n + 1 \in T
    BY <1>1, <1>10
  <2>3. \A n \in Nat : n \in T
    <3> HIDE DEF T
    <3> QED BY <2>1, <2>2, Induction, Zenon
  <2> QED BY <2>3
<1>12. walk \in [Nat -> StackStates]
  BY <1>8, <1>11
<1> HIDE DEF Walks
<1> QED BY <1>7, <1>9, <1>10, <1>12 DEF Go

\* Only what lies in front of a byte says what its stack is, and of a jump its
\* target says nothing.
LEMMA SameStacks ==
    ASSUME NEW c, NEW d, NEW first \in Nat, NEW N \in Nat,
           \A x \in DOMAIN c : c[x] \in InstrRecords,
           \A x \in DOMAIN d : d[x] \in InstrRecords,
           \A x \in Nat : x >= first /\ x < first + N =>
               /\ x \in DOMAIN c <=> x \in DOMAIN d
               /\ x \in DOMAIN c => c[x] = d[x] \/ (c[x].op = d[x].op /\ c[x].op \in Jumps)
    PROVE  \A n \in 0..N : Stacks(c, first)[n] = Stacks(d, first)[n]
<1> DEFINE a == Stacks(c, first)
           b == Stacks(d, first)
           T == {n \in 0..N : a[n] = b[n]}
<1>1. /\ a[0] = Empty
      /\ \A n \in Nat : a[n + 1] = IF first + n \in DOMAIN c THEN Effect(a[n], c[first + n]) ELSE a[n]
  BY StacksPass
<1>2. /\ b[0] = Empty
      /\ \A n \in Nat : b[n + 1] = IF first + n \in DOMAIN d THEN Effect(b[n], d[first + n]) ELSE b[n]
  BY StacksPass
<1> HIDE DEF a, b
<1>3. ASSUME NEW n \in 0..(N - 1), a[n] = b[n] PROVE a[n + 1] = b[n + 1]
  <2> DEFINE x == first + n
  <2>1. n \in Nat /\ x \in Nat /\ x >= first /\ x < first + N
    OBVIOUS
  <2>2. a[n + 1] = IF x \in DOMAIN c THEN Effect(a[n], c[x]) ELSE a[n]
    BY <1>1, <2>1
  <2>3. b[n + 1] = IF x \in DOMAIN d THEN Effect(b[n], d[x]) ELSE b[n]
    BY <1>2, <2>1
  <2> HIDE DEF x
  <2>4. /\ x \in DOMAIN c <=> x \in DOMAIN d
        /\ x \in DOMAIN c => c[x] = d[x] \/ (c[x].op = d[x].op /\ c[x].op \in Jumps)
    BY <2>1
  <2>5. ASSUME x \in DOMAIN c, c[x].op = d[x].op, c[x].op \in Jumps
        PROVE  Effect(a[n], c[x]) = Effect(a[n], d[x])
    <3>1. c[x].op \notin ArithOps \cup {"cmp", "push", "sysfun", "add_sp"}
      BY <2>5 DEF Jumps, ArithOps
    <3> QED BY <2>5, <3>1 DEF Effect
  <2> QED BY <1>3, <2>2, <2>3, <2>4, <2>5
<1>4. 0 \in T
  BY <1>1, <1>2
<1>5. \A n \in 0..(N - 1) : n \in T => n + 1 \in T
  BY <1>3
<1>6. \A n \in 0..N : n \in T
  <2> HIDE DEF T
  <2> QED BY <1>4, <1>5, BoundedInduction
<1> QED BY <1>6 DEF a, b

\* Where no instruction begins nothing happens.
LEMMA IdleStacks ==
    ASSUME NEW c, NEW first \in Nat, NEW n \in Nat, NEW m \in Nat, n <= m,
           \A x \in DOMAIN c : c[x] \in InstrRecords,
           \A x \in DOMAIN c : ~(x >= first + n /\ x < first + m)
    PROVE  Stacks(c, first)[m] = Stacks(c, first)[n]
<1> DEFINE a == Stacks(c, first)
           N == m - n
           T == {k \in 0..N : a[n + k] = a[n]}
<1>1. \A k \in Nat : a[k + 1] = IF first + k \in DOMAIN c THEN Effect(a[k], c[first + k]) ELSE a[k]
  BY StacksPass
<1> HIDE DEF a
<1>2. N \in Nat /\ n + N = m
  OBVIOUS
<1>3. ASSUME NEW k \in 0..(N - 1), a[n + k] = a[n] PROVE a[n + (k + 1)] = a[n]
  <2>1. n + k \in Nat /\ n + (k + 1) = (n + k) + 1 /\ first + (n + k) >= first + n /\ first + (n + k) < first + m
    BY <1>2
  <2>2. first + (n + k) \notin DOMAIN c
    BY <2>1
  <2> QED BY <1>1, <1>3, <2>1, <2>2
<1>4. 0 \in T
  BY <1>2
<1>5. \A k \in 0..(N - 1) : k \in T => k + 1 \in T
  BY <1>2, <1>3
<1>6. N \in T
  <2>1. \A k \in 0..N : k \in T
    <3> HIDE DEF T, N
    <3> QED BY <1>2, <1>4, <1>5, BoundedInduction
  <2> QED BY <1>2, <2>1
<1>7. a[n + N] = a[n]
  BY <1>6
<1> QED BY <1>2, <1>7 DEF a

\* The stack behind the code b, of a function whose body begins at first; and the
\* one that instructions leave.
Behind(b, first) == Stacks(b.code, first)[b.used - first]

After(t, s) ==
    LET step(u, k) == IF k <= Len(s) THEN Effect(u, s[k]) ELSE u
    IN  step(step(step(step(step(t, 1), 2), 3), 4), 5)

\* What is emitted acts on the stack behind the code before it.
LEMMA EmitStack ==
    ASSUME NEW b, BytesOK(b), NEW first \in Nat, first <= b.used, NEW i \in InstrRecords
    PROVE  Behind(Emit(b, i), first) = Effect(Behind(b, first), i)
<1> DEFINE c == Emit(b, i)
           a == Stacks(c.code, first)
           n == b.used - first
           m == c.used - first
<1>1. BytesOK(c) /\ c.used = b.used + Length(i) /\ Length(i) \in Nat /\ Length(i) >= 1
  BY EmitType, LengthType DEF Emit
<1>2. b.used \in Nat /\ c.used \in Nat /\ n \in Nat /\ m \in Nat /\ n + 1 <= m /\ first + n = b.used
      /\ first + (n + 1) = b.used + 1 /\ first + m = c.used
  BY <1>1 DEF BytesOK
<1>3. /\ \A x \in DOMAIN b.code : b.code[x] \in InstrRecords /\ x < b.used /\ x \in Nat
      /\ \A x \in DOMAIN c.code : c.code[x] \in InstrRecords
  BY <1>1, <1>2 DEF BytesOK
<1>4. c.code = [x \in DOMAIN b.code \cup {b.used} |-> IF x = b.used THEN i ELSE b.code[x]]
  BY DEF Emit
<1> HIDE DEF c
<1>5. /\ DOMAIN c.code = DOMAIN b.code \cup {b.used} /\ c.code[b.used] = i
      /\ \A x \in DOMAIN b.code : x # b.used /\ c.code[x] = b.code[x]
  BY <1>2, <1>3, <1>4
<1>6. Behind(b, first) = a[n]
  <2>1. \A x \in Nat : x >= first /\ x < first + n =>
            /\ x \in DOMAIN b.code <=> x \in DOMAIN c.code
            /\ x \in DOMAIN b.code => b.code[x] = c.code[x] \/ (b.code[x].op = c.code[x].op /\ b.code[x].op \in Jumps)
    BY <1>2, <1>5
  <2>2. \A k \in 0..n : Stacks(b.code, first)[k] = a[k]
    <3> HIDE DEF n, m
    <3> QED BY <1>2, <1>3, <2>1, SameStacks
  <2> QED BY <1>2, <2>2 DEF Behind
<1>7. a[n + 1] = Effect(a[n], i)
  <2>1. \A k \in Nat : a[k + 1] = IF first + k \in DOMAIN c.code THEN Effect(a[k], c.code[first + k]) ELSE a[k]
    BY <1>3, StacksPass
  <2> HIDE DEF a, n
  <2>2. first + n \in DOMAIN c.code /\ c.code[first + n] = i
    BY <1>2, <1>5
  <2> QED BY <1>2, <2>1, <2>2
<1>8. a[m] = a[n + 1]
  <2>1. \A x \in DOMAIN c.code : ~(x >= first + (n + 1) /\ x < first + m)
    BY <1>2, <1>3, <1>5
  <2>2. n + 1 \in Nat
    BY <1>2
  <2> DEFINE k == n + 1
  <2> HIDE DEF m, k
  <2>3. k \in Nat /\ m \in Nat /\ k <= m /\ \A x \in DOMAIN c.code : ~(x >= first + k /\ x < first + m)
    BY <1>2, <2>1, <2>2 DEF k
  <2>4. a[m] = a[k]
    BY <1>3, <2>3, IdleStacks
  <2> QED BY <2>4 DEF k
<1> QED BY <1>6, <1>7, <1>8 DEF Behind, c

LEMMA EmitAllStack ==
    ASSUME NEW b, BytesOK(b), NEW first \in Nat, first <= b.used, NEW s \in Seq(InstrRecords)
    PROVE  Behind(EmitAll(b, s), first) = After(Behind(b, first), s)
<1> DEFINE step(c, k) == IF k <= Len(s) THEN Emit(c, s[k]) ELSE c
           turn(u, k) == IF k <= Len(s) THEN Effect(u, s[k]) ELSE u
           Holds(c)   == BytesOK(c) /\ first <= c.used
<1>1. ASSUME NEW c, Holds(c), NEW k \in 1..5
      PROVE  Holds(step(c, k)) /\ Behind(step(c, k), first) = turn(Behind(c, first), k)
  <2>1. CASE k <= Len(s)
    <3>1. s[k] \in InstrRecords
      BY <2>1
    <3>2. BytesOK(Emit(c, s[k])) /\ Emit(c, s[k]).used >= c.used
      BY <1>1, <3>1, EmitType
    <3>3. first <= Emit(c, s[k]).used
      <4>1. c.used \in Nat /\ Emit(c, s[k]).used \in Nat
        BY <1>1, <3>2 DEF BytesOK
      <4> QED BY <1>1, <3>2, <4>1
    <3> QED BY <1>1, <2>1, <3>1, <3>2, <3>3, EmitStack
  <2>2. CASE ~(k <= Len(s))
    BY <1>1, <2>2
  <2> QED BY <2>1, <2>2
<1> DEFINE c1 == step(b, 1)
           c2 == step(c1, 2)
           c3 == step(c2, 3)
           c4 == step(c3, 4)
           c5 == step(c4, 5)
           t  == Behind(b, first)
           t1 == turn(t, 1)
           t2 == turn(t1, 2)
           t3 == turn(t2, 3)
           t4 == turn(t3, 4)
           t5 == turn(t4, 5)
<1>2. EmitAll(b, s) = c5 /\ After(t, s) = t5
  BY DEF EmitAll, After
<1>3. Holds(b)
  OBVIOUS
<1> HIDE DEF step, turn, Holds
<1>4. Holds(c1) /\ Behind(c1, first) = t1
  BY <1>1, <1>3
<1>5. Holds(c2) /\ Behind(c2, first) = t2
  BY <1>1, <1>4
<1>6. Holds(c3) /\ Behind(c3, first) = t3
  BY <1>1, <1>5
<1>7. Holds(c4) /\ Behind(c4, first) = t4
  BY <1>1, <1>6
<1>8. Holds(c5) /\ Behind(c5, first) = t5
  BY <1>1, <1>7
<1> QED BY <1>2, <1>8

\* Instructions without an effect leave the stack, however many.
LEMMA AfterSame ==
    ASSUME NEW t, NEW s \in Seq(InstrRecords), \A k \in 1..Len(s) : Effect(t, s[k]) = t
    PROVE  After(t, s) = t
<1> DEFINE turn(u, k) == IF k <= Len(s) THEN Effect(u, s[k]) ELSE u
<1>1. \A k \in 1..5 : turn(t, k) = t
  BY DEF turn
<1>2. After(t, s) = turn(turn(turn(turn(turn(t, 1), 2), 3), 4), 5)
  BY DEF After
<1> HIDE DEF turn
<1> QED BY <1>1, <1>2

\* Code without an effect, and code without one on the empty stack.
LEMMA AfterStill ==
    ASSUME NEW t, NEW s \in Seq(Still)
    PROVE  After(t, s) = t
<1>1. s \in Seq(InstrRecords) /\ \A k \in 1..Len(s) : s[k] \in Still
  BY StackKinds
<1> QED BY <1>1, StillEffect, AfterSame

LEMMA AfterBare ==
    ASSUME NEW s \in Seq(Bare)
    PROVE  After(Empty, s) = Empty
<1>1. s \in Seq(InstrRecords) /\ \A k \in 1..Len(s) : s[k] \in Bare
  BY StackKinds
<1> QED BY <1>1, BareEffect, AfterSame

\* One instruction, and two.
LEMMA AfterOne ==
    ASSUME NEW t, NEW i
    PROVE  After(t, <<i>>) = Effect(t, i)
<1>1. Len(<<i>>) = 1
  OBVIOUS
<1> QED BY <1>1 DEF After

LEMMA AfterTwo ==
    ASSUME NEW t, NEW i, NEW j
    PROVE  After(t, <<i, j>>) = Effect(Effect(t, i), j)
<1>1. Len(<<i, j>>) = 2
  OBVIOUS
<1> QED BY <1>1 DEF After

\* A push and a pop of the same width, on a stack that is in order.
LEMMA PushEffect ==
    ASSUME NEW s \in Good, NEW w, NEW arg
    PROVE  Effect(s, Instr("push", w, arg)) = Pushed(s, w)
<1> DEFINE i == Instr("push", w, arg)
<1>1. s # Bad /\ i.op = "push" /\ i.w = w
  BY StackKinds DEF Instr
<1> HIDE DEF i
<1>2. Effect(s, i) = Pushed(s, i.w)
  BY <1>1, PushedEffect
<1> QED BY <1>1, <1>2 DEF i

LEMMA PopEffect ==
    ASSUME NEW s \in Good, NEW w \in Nat, w > 0, NEW op \in ArithOps \cup {"cmp"}, NEW arg
    PROVE  Effect(Pushed(s, w), Instr(op, w, arg)) = s
<1> DEFINE t == Pushed(s, w)
<1>1. t \in Good /\ OnTop(t, w) /\ Popped(t, w) = s
  BY PushedOnTop
<1> DEFINE i == Instr(op, w, arg)
<1>2. i.op \in ArithOps \cup {"cmp"} /\ i.w = w
  BY DEF Instr
<1> HIDE DEF t, i
<1>3. t # Bad
  BY <1>1, StackKinds
<1>4. Effect(t, i) = Popped(t, i.w)
  BY <1>1, <1>2, <1>3, OperandEffect
<1> QED BY <1>1, <1>2, <1>4 DEF t, i

-----------------------------------------------------------------------------
(* What may be called.                                                     *)

\* No parameter is of type unit; a system function has one, of the width the
\* machine will read; a function is called at an address.
Callable(l) ==
    /\ \A k \in 1..Len(l.params) : l.params[k] # "unit"
    /\ l.id = "fun" => l.offset \in Nat
    /\ l.id = "sysfun" => /\ Len(l.params) = 1
                          /\ TypeSize(l.params[1]) = SysFunWidths[SysFunIdx(l) + 1]

Callables ==
    /\ \A k \in 1..Len(scopes) : \A i \in 1..Len(scopes[k]) : Callable(scopes[k][i])
    /\ Top.step = "params" => Last(scopes[1]).id = "fun"

LEMMA InitialCallables == Afresh => Callables
<1> SUFFICES ASSUME Afresh PROVE Callables
  OBVIOUS
<1>1. scopes = <<SysFuns>> /\ work = <<Item("decls")>>
  BY DEF Afresh
<1>2. Len(SysFuns) = 4
  BY DEF SysFuns
<1>3. Callable(SysFuns[1])
  BY DEF SysFuns, Local, Callable, SysFunIdx, SysFunWidths, TypeSize
<1>4. Callable(SysFuns[2])
  BY DEF SysFuns, Local, Callable, SysFunIdx, SysFunWidths, TypeSize
<1>5. Callable(SysFuns[3])
  BY DEF SysFuns, Local, Callable, SysFunIdx, SysFunWidths, TypeSize
<1>6. Callable(SysFuns[4])
  BY DEF SysFuns, Local, Callable, SysFunIdx, SysFunWidths, TypeSize
<1>7. \A i \in 1..4 : Callable(SysFuns[i])
  BY <1>3, <1>4, <1>5, <1>6
<1>8. \A k \in 1..Len(scopes) : \A i \in 1..Len(scopes[k]) : Callable(scopes[k][i])
  <2>1. ASSUME NEW k \in 1..Len(scopes) PROVE scopes[k] = SysFuns
    BY <1>1, <2>1
  <2> QED BY <1>2, <1>7, <2>1
<1>9. Top.step = "decls"
  <2>1. Top = Item("decls")
    BY <1>1 DEF Top, Last
  <2> QED BY <2>1 DEF Item
<1> QED BY <1>8, <1>9 DEF Callables

LEMMA FoundCallable ==
    ASSUME SourceTypes, Callables, NEW name, Declared(name)
    PROVE  Find(name) \in Locals /\ Callable(Find(name))
<1>1. PICK k \in 1..Len(scopes) : \E i \in 1..Len(scopes[k]) : Find(name) = scopes[k][i]
  BY FindType DEF SourceTypes
<1> QED BY <1>1, FindType DEF Callables, SourceTypes

\* A variable can be called as far as this goes (it is refused by its id).
LEMMA LocalCallable ==
    ASSUME NEW id \in {"var", "fun"}, NEW name, NEW type, NEW offset,
           id = "fun" => offset \in Nat
    PROVE  Callable(Local(id, name, type, <<>>, offset))
<1> DEFINE l == Local(id, name, type, <<>>, offset)
<1> SUFFICES Callable(l)
  OBVIOUS
<1>1. l.id = id /\ l.params = <<>> /\ l.offset = offset
  BY DEF Local
<1> HIDE DEF l
<1>2. Len(l.params) = 0
  BY <1>1
<1> QED BY <1>1, <1>2 DEF Callable

\* Locals that were there, and new ones that can be called.
LEMMA MoreCallables ==
    ASSUME Callables, SourceTypes', Top'.step # "params",
           \A k \in 1..Len(scopes') : \A i \in 1..Len(scopes'[k]) :
               \/ k \in 1..Len(scopes) /\ i \in 1..Len(scopes[k]) /\ scopes'[k][i] = scopes[k][i]
               \/ Callable(scopes'[k][i])
    PROVE  Callables'
<1>1. ASSUME NEW l PROVE Callable(l)' <=> Callable(l)
  BY DEF Callable
<1>2. \A k \in 1..Len(scopes') : \A i \in 1..Len(scopes'[k]) : Callable(scopes'[k][i])
  BY DEF Callables
<1> QED BY <1>2 DEF Callables, Callable

LEMMA StatementCallables ==
    ASSUME SourceTypes, Shape, Callables, Kept, Statement \/ Expression
    PROVE  Callables'
<1>1. Inside /\ Top'.step # "params" /\ SourceTypes'
  BY StatementScopes DEF Kept
<1>2. scopes \in Seq(Seq(Locals)) /\ Len(scopes) >= 2 /\ Len(scopes) \in Nat
  <2>1. Len(scopes) >= 2
    BY <1>1, TopInFunction DEF Inside
  <2> QED BY <2>1 DEF SourceTypes
<1>3. ASSUME UNCHANGED scopes PROVE Callables'
  BY <1>1, <1>3, MoreCallables
<1>4. ASSUME OpenScope PROVE Callables'
  <2>1. /\ Len(scopes') = Len(scopes) + 1
        /\ \A k \in 1..Len(scopes) : scopes'[k] = scopes[k]
        /\ scopes'[Len(scopes) + 1] = <<>>
    BY <1>2, <1>4 DEF OpenScope
  <2>2. ASSUME NEW k \in 1..Len(scopes'), NEW i \in 1..Len(scopes'[k])
        PROVE  k \in 1..Len(scopes) /\ i \in 1..Len(scopes[k]) /\ scopes'[k][i] = scopes[k][i]
    BY <1>2, <2>1, <2>2
  <2> QED BY <1>1, <2>2, MoreCallables
<1>5. CASE EndScope
  <2> DEFINE n == Top.n - 1
  <2>1. scopes' = SubSeq(scopes, 1, n) /\ Top.step = "endscope"
    BY <1>5 DEF EndScope, At
  <2>2. n \in 2..Len(scopes)
    <3>1. Top.n \in 3..Len(scopes)
      BY <2>1, TopInFunction DEF Nested
    <3> QED BY <1>2, <3>1
  <2> HIDE DEF n
  <2>3. Len(scopes') = n /\ \A k \in 1..n : scopes'[k] = scopes[k]
    <3>1. n \in Nat /\ n <= Len(scopes)
      BY <1>2, <2>2
    <3> QED BY <1>2, <2>1, <3>1, PrefixType, Zenon
  <2>4. ASSUME NEW k \in 1..Len(scopes'), NEW i \in 1..Len(scopes'[k])
        PROVE  k \in 1..Len(scopes) /\ i \in 1..Len(scopes[k]) /\ scopes'[k][i] = scopes[k][i]
    BY <1>2, <2>2, <2>3
  <2> QED BY <1>1, <2>4, MoreCallables
<1>6. CASE EndVar
  <2>1. UNCHANGED scopes \/ \E offset : AddLocal(Local("var", Top.word, Cell, <<>>, offset))
    BY <1>6 DEF EndVar
  <2>2. ASSUME NEW offset, AddLocal(Local("var", Top.word, Cell, <<>>, offset)) PROVE Callables'
    <3> DEFINE l == Local("var", Top.word, Cell, <<>>, offset)
               n == Len(scopes)
    <3>1. Callable(l)
      BY LocalCallable
    <3>2. scopes' = [scopes EXCEPT ![n] = Append(@, l)]
      BY <2>2 DEF AddLocal
    <3>3. n \in 1..n /\ scopes[n] \in Seq(Locals)
      BY <1>2
    <3> HIDE DEF l, n
    <3>4. scopes' = [scopes EXCEPT ![n] = Append(scopes[n], l)]
      BY <3>2
    <3>5. DOMAIN scopes = 1..Len(scopes) /\ DOMAIN scopes' = DOMAIN scopes /\ n \in DOMAIN scopes
      BY <1>2, <3>3, <3>4 DEF n
    <3>6. Len(scopes') = Len(scopes)
      BY <1>2, <3>4
    <3>7. /\ \A k \in 1..Len(scopes) : k # n => scopes'[k] = scopes[k]
          /\ scopes'[n] = Append(scopes[n], l)
      BY <3>4, <3>5
    <3>8. ASSUME NEW k \in 1..Len(scopes'), NEW i \in 1..Len(scopes'[k])
          PROVE  \/ k \in 1..Len(scopes) /\ i \in 1..Len(scopes[k]) /\ scopes'[k][i] = scopes[k][i]
                 \/ Callable(scopes'[k][i])
      <4>1. CASE k # n
        BY <3>6, <3>7, <3>8, <4>1
      <4>2. CASE k = n
        BY <3>1, <3>3, <3>6, <3>7, <3>8, <4>2
      <4> QED BY <4>1, <4>2
    <3> QED BY <1>1, <3>8, MoreCallables
  <2> QED BY <1>3, <2>1, <2>2
<1>7. ASSUME NEW else \in {"none", "elseif", "else"}, IfJmp(else) PROVE UNCHANGED scopes \/ OpenScope
  BY <1>7 DEF IfJmp
<1>8. CASE \/ EndStmts \/ EndReturn \/ EmitIf \/ IfJz \/ EndIf \/ EmitWhile \/ WhileJz \/ EndWhile
           \/ EmitBlock \/ EmitMatch \/ EmitExprStmt
           \/ \E name \in VarNames, t \in VarTypes, init \in BOOLEAN : EmitVar(name, t, init)
           \/ \E expr \in BOOLEAN : EmitReturn(expr)
  <2>1. UNCHANGED scopes \/ OpenScope
    BY <1>8 DEF EndStmts, EndReturn, EmitIf, IfJz, EndIf, EmitWhile, WhileJz, EndWhile,
                EmitBlock, EmitMatch, EmitExprStmt, EmitVar, EmitReturn, Fail
  <2> QED BY <1>3, <1>4, <2>1
<1>9. CASE Expression
  <2>1. UNCHANGED scopes
    BY <1>9 DEF Expression, Literal, Arg, EndArg, EndCall, EndUnary, Push, EndBinary, Store,
                EndAssgn, Ident, Call, EmitUnary, EmitBinary, Assign, Fail
  <2> QED BY <1>3, <2>1
<1> QED BY <1>3, <1>4, <1>5, <1>6, <1>7, <1>8, <1>9, Zenon DEF Statement

\* Every name the generator can find stays callable.
LEMMA CallablesStep ==
    ASSUME SourceTypes, Shape, Callables, [Next]_vars
    PROVE  Callables'
<1>1. Kept /\ SourceTypes'
  BY ShapeStep DEF Kept
<1>2. /\ scopes \in Seq(Seq(Locals)) /\ Len(scopes) \in Nat /\ Len(scopes) >= 1
      /\ work \in Seq(Items) /\ Len(work) \in Nat /\ Len(work) >= 1
      /\ Len(scopes[1]) >= 1 /\ scopes[1] \in Seq(Locals)
  BY DEF SourceTypes, Shape, Nesting
<1>3. CASE Statement \/ Expression
  BY <1>1, <1>3, StatementCallables
<1>4. ASSUME NEW h \in FunHeads, DeclareFun(h) PROVE Callables'
  <2>1. CASE Fail
    BY <2>1 DEF Fail, Callables, Top, Callable
  <2>2. CASE ~Fail
    <3> DEFINE l == Local("fun", h.name, h.type, <<>>, 0)
               it == [Item("params") EXCEPT !.offset = 16]
               fn == [Item("endfun") EXCEPT !.word = h.name]
    <3>1. scopes' = <<Append(scopes[1], l), <<>>>>
      BY <1>4, <2>2 DEF DeclareFun
    <3>2. Callable(l) /\ l.id = "fun"
      BY LocalCallable DEF Local
    <3> HIDE DEF l
    <3>3. /\ Len(scopes') = 2 /\ scopes'[1] = Append(scopes[1], l) /\ scopes'[2] = <<>>
          /\ Last(scopes'[1]) = l
      BY <1>2, <3>1 DEF Last
    <3>4. ASSUME NEW k \in 1..Len(scopes'), NEW i \in 1..Len(scopes'[k]) PROVE Callable(scopes'[k][i])
      <4>1. k = 1
        BY <3>3, <3>4
      <4>2. CASE i \in 1..Len(scopes[1])
        <5>1. scopes'[1][i] = scopes[1][i]
          <6> DEFINE f == scopes[1]
          <6>1. f \in Seq(Locals) /\ i \in 1..Len(f) /\ scopes'[1] = Append(f, l)
            BY <1>2, <3>3, <4>2
          <6> HIDE DEF f
          <6>2. Append(f, l)[i] = f[i]
            BY <6>1
          <6> QED BY <6>1, <6>2 DEF f
        <5>2. 1 \in 1..Len(scopes)
          BY <1>2
        <5>3. Callable(scopes[1][i])
          BY <4>2, <5>2, Zenon DEF Callables
        <5> QED BY <4>1, <5>1, <5>3
      <4>3. CASE i \notin 1..Len(scopes[1])
        BY <1>2, <3>2, <3>3, <3>4, <4>1, <4>3
      <4> QED BY <4>2, <4>3
    <3> QED BY <3>2, <3>3, <3>4 DEF Callables, Callable
  <2> QED BY <2>1, <2>2
<1>5. ASSUME NEW p \in Params, AddParam(p) PROVE Callables'
  <2>1. CASE Fail
    BY <2>1 DEF Fail, Callables, Top, Callable
  <2>2. CASE ~Fail
    <3> DEFINE f == scopes[1]
               n == Len(f)
               g == [f EXCEPT ![n].params = Append(@, p.type)]
               l == Local("var", p.name, p.type, <<>>, Top.offset)
               v == Append(scopes[2], l)
    <3>1. /\ p.type # "unit" /\ Top.step = "params"
          /\ scopes' = [scopes EXCEPT ![1][Len(scopes[1])].params = Append(@, p.type),
                                      ![2] = Append(@, l)]
      BY <1>5, <2>2 DEF AddParam, At
    <3>2. Len(scopes) = 2 /\ scopes[2] \in Seq(Locals)
      <4>1. Len(scopes) = 2
        BY <3>1, TopOutside, Zenon
      <4>2. 2 \in 1..Len(scopes)
        BY <4>1
      <4>3. scopes[2] \in Seq(Locals)
        BY <1>2, <4>2, ElementOfSeq, Zenon
      <4> QED BY <4>1, <4>3
    <3>3. p.type \in Types
      BY SourceAssumption
    <3>4. /\ Callable(l)
      BY LocalCallable
    <3> HIDE DEF l
    <3>5. Len(scopes') = 2 /\ scopes'[1] = g /\ scopes'[2] = v
      <4>1. scopes' = [scopes EXCEPT ![1] = g, ![2] = v]
        BY <1>2, <3>1, <3>2
      <4> HIDE DEF g, v
      <4> QED BY <1>2, <3>2, <4>1
    <3>6. n \in 1..n /\ f[n] \in Locals /\ f[n].id = "fun" /\ Callable(f[n]) /\ f[n].params \in Seq(Types)
      <4>1. n \in 1..n /\ f[n] \in Locals /\ f[n] = Last(f)
        BY <1>2 DEF Last
      <4>2. f[n].id = "fun"
        BY <3>1, <4>1 DEF Callables
      <4>3. 1 \in 1..Len(scopes)
        BY <1>2
      <4>4. Callable(f[n])
        BY <4>1, <4>3, Zenon DEF Callables
      <4> QED BY <4>1, <4>2, <4>4, LocalField
    <3>7. f \in Seq(Locals)
      BY <1>2
    <3> DEFINE q == [f[n] EXCEPT !.params = Append(@, p.type)]
    <3>8. /\ Len(g) = n /\ g[n] = q /\ \A i \in 1..n : i # n => g[i] = f[i]
      BY <3>6, <3>7
    <3>9. Callable(q) /\ q.id = "fun"
      <4> DEFINE r == f[n]
      <4>1. r \in Locals /\ r.id = "fun" /\ Callable(r) /\ r.params \in Seq(Types)
        BY <3>6
      <4>2. q = [r EXCEPT !.params = Append(r.params, p.type)]
        OBVIOUS
      <4> HIDE DEF r, q
      <4>3. q.id = "fun" /\ q.params = Append(r.params, p.type) /\ q.offset = r.offset
        BY <4>1, <4>2 DEF Locals
      <4>4. \A k \in 1..Len(q.params) : q.params[k] # "unit"
        BY <3>1, <3>3, <4>1, <4>3 DEF Callable
      <4>5. q.offset \in Nat
        BY <4>1, <4>3 DEF Callable
      <4> QED BY <4>3, <4>4, <4>5 DEF Callable
    <3>10. Last(g).id = "fun"
      BY <3>6, <3>8, <3>9 DEF Last
    <3> HIDE DEF q, g
    <3>11. ASSUME NEW i \in 1..Len(g) PROVE Callable(g[i])
      <4>1. CASE i = n
        BY <3>8, <3>9, <4>1
      <4>2. CASE i # n
        <5>1. i \in 1..Len(scopes[1]) /\ 1 \in 1..Len(scopes) /\ g[i] = scopes[1][i]
          BY <1>2, <3>8, <3>11, <4>2
        <5> QED BY <5>1 DEF Callables
      <4> QED BY <4>1, <4>2
    <3>12. ASSUME NEW i \in 1..Len(v) PROVE Callable(v[i])
      <4>1. Callable(scopes[2][i]) \/ i = Len(scopes[2]) + 1
        BY <3>2, <3>12 DEF Callables
      <4> QED BY <3>2, <3>4, <3>12, <4>1
    <3> HIDE DEF v, f, n
    <3>13. \A k \in 1..Len(scopes') : \A i \in 1..Len(scopes'[k]) : Callable(scopes'[k][i])
      <4> SUFFICES ASSUME NEW k \in 1..Len(scopes'), NEW i \in 1..Len(scopes'[k])
                   PROVE  Callable(scopes'[k][i])
        OBVIOUS
      <4>1. k = 1 \/ k = 2
        BY <3>5
      <4> QED BY <3>5, <3>11, <3>12, <4>1
    <3> QED BY <3>5, <3>10, <3>13 DEF Callables, Callable
  <2> QED BY <2>1, <2>2
<1>6. CASE Prologue
  <2>1. Top'.step # "params" /\ UNCHANGED scopes
    BY <1>6, PrologueOpens DEF Prologue, Open
  <2> QED BY <1>1, <2>1, MoreCallables
<1>7. CASE EndFun
  <2>1. scopes' = <<scopes[1]>> /\ work' = Front(work) /\ Top.step = "endfun"
    BY <1>7 DEF EndFun, At
  <2>2. Len(work) = 2
    BY <2>1, TopOutside, Zenon
  <2>3. Len(work') = 1 /\ work'[1] = work[1]
    <3>1. Len(work') = Len(work) - 1 /\ \A i \in 1..(Len(work) - 1) : work'[i] = work[i]
      BY <1>2, <2>1, FrontType, Zenon DEF Front
    <3> QED BY <2>2, <3>1
  <2>4. Top'.step # "params"
    <3>1. Top' = work'[1]
      BY <2>3 DEF Top, Last
    <3>2. work[1].step = "decls"
      BY DEF Shape, Handlers
    <3> QED BY <2>3, <3>1, <3>2
  <2>5. ASSUME NEW k \in 1..Len(scopes'), NEW i \in 1..Len(scopes'[k])
        PROVE  k \in 1..Len(scopes) /\ i \in 1..Len(scopes[k]) /\ scopes'[k][i] = scopes[k][i]
    BY <1>2, <2>1, <2>5
  <2> QED BY <1>1, <2>4, <2>5, MoreCallables
<1>8. CASE DeclareVar \/ EndProgram \/ UNCHANGED vars
  <2>1. UNCHANGED <<scopes, work>>
    BY <1>8 DEF DeclareVar, EndProgram, Fail, vars
  <2> QED BY <2>1 DEF Callables, Top, Callable
<1> QED BY <1>3, <1>4, <1>5, <1>6, <1>7, <1>8, Zenon DEF Next, Compiled, Declaration

-----------------------------------------------------------------------------
(* The operands the handlers hold.                                         *)

\* The handlers of statements, which only run on an empty stack, and the ones
\* that hold operands.
Level == {"stmts", "endscope", "endvar", "ifjz", "ifjmp", "endif", "whilejz", "endwhile", "endreturn"}
Odd   == {"args", "endarg", "endbin", "endassgn"}

\* The arguments pushed so far, of n parameters that are left.
Pushing(fun, n, pop, s, t) ==
    /\ Callable(fun) /\ fun.id # "var"
    /\ t.sp = s.sp + pop
    /\ s.starts = {o \in t.starts : o < s.sp}
    /\ IF pop = 0 THEN t = s ELSE s.sp \in t.starts
    /\ n = Len(fun.params) => pop = 0
    /\ fun.id = "sysfun" /\ n = 0 => t = Pushed(s, SysFunWidths[SysFunIdx(fun) + 1])

\* With t on the stack now, what the handler item leaves there is s.
Carries(item, s, t, ts) ==
    /\ item.step \in Level => s = Empty
    /\ item.step \notin Odd => t = s
    /\ item.step \in {"endbin", "endassgn"} =>
           ts[item.cell] # "unit" /\ t = Pushed(s, TypeSize(ts[item.cell]))
    /\ item.step \in {"args", "endarg"} => Pushing(item.fun, item.n, item.pop, s, t)
    /\ item.step = "endarg" => ts[item.cell] = item.fun.params[item.n]

\* The stacks between the handlers, innermost last.
Held(d) ==
    /\ d[3] = Empty
    /\ d[Len(work) + 1] = Behind(bytes, Body)
    /\ \A i \in 3..Len(work) : Carries(work[i], d[i], d[i + 1], types)

Operands == Open => \E d \in [3..(Len(work) + 1) -> Good] : Held(d)

\* What a step makes of the handler on top, which had s to leave.
Turned(s) ==
    LET n == Len(work)
        t == Behind(bytes', Body)
    IN  /\ t \in Good
        /\ Len(work') < n => t = s
        /\ Len(work') >= n => Carries(work'[n], s, t, types')
        /\ \A i \in (n + 1)..Len(work') : Carries(work'[i], t, t, types')

Taken ==
    \A s \in Good : Behind(bytes, Body) \in Good /\ Carries(Top, s, Behind(bytes, Body), types) => Turned(s)

\* A cell that is no longer unit stays what it is.
LEMMA CarriesOn ==
    ASSUME NEW item, NEW s, NEW t, NEW ntypes \in Nat, NEW nscopes, Nested(item, ntypes, nscopes),
           NEW ts, NEW us, \A c \in 1..ntypes : ts[c] # "unit" => us[c] = ts[c],
           Carries(item, s, t, ts)
    PROVE  Carries(item, s, t, us)
<1>1. CASE item.step \notin {"endbin", "endassgn", "endarg"}
  BY <1>1 DEF Carries
<1>2. CASE item.step \in {"endbin", "endassgn"}
  <2>1. item.cell \in 1..ntypes
    BY <1>2 DEF Nested, CellSteps
  <2>2. ts[item.cell] # "unit"
    BY <1>2 DEF Carries
  <2>3. us[item.cell] = ts[item.cell]
    BY <2>1, <2>2
  <2> QED BY <1>2, <2>3 DEF Carries
<1>3. CASE item.step = "endarg"
  <2>1. item.cell \in 1..ntypes /\ item.n \in 1..Len(item.fun.params)
    BY <1>3 DEF Nested, CellSteps
  <2>2. ts[item.cell] = item.fun.params[item.n] /\ Callable(item.fun)
    BY <1>3 DEF Carries, Pushing
  <2>3. us[item.cell] = ts[item.cell]
    BY <2>1, <2>2 DEF Callable
  <2> QED BY <1>3, <2>3 DEF Carries
<1> QED BY <1>1, <1>2, <1>3

\* When only the handler on top has changed what is on the stack, and every other
\* one's cell has kept its type, all still hold what they held.
LEMMA Turn ==
    ASSUME SourceTypes, SourceTypes', Shape, Operands, Inside, Open, UNCHANGED funs,
           Typed, Rests, Taken
    PROVE  Operands'
<1> DEFINE n == Len(work)
           m == Len(work')
           t == Behind(bytes', Body)
<1>1. PICK d \in [3..(n + 1) -> Good] : Held(d)
  BY DEF Operands
<1>2. /\ d[3] = Empty /\ d[n + 1] = Behind(bytes, Body)
      /\ \A i \in 3..n : Carries(work[i], d[i], d[i + 1], types)
  BY <1>1 DEF Held
<1>3. n \in Nat /\ n >= 3 /\ m \in Nat /\ m >= n - 1 /\ Top = work[n]
      /\ \A i \in 1..(n - 1) : work'[i] = work[i]
  <2>1. n >= 3 /\ Top = work[n]
    BY TopInFunction DEF Inside
  <2>2. n \in Nat
    BY DEF SourceTypes
  <2>3. m \in Nat /\ m >= n - 1 /\ \A i \in 1..(n - 1) : work'[i] = work[i]
    BY DEF Rests
  <2> QED BY <2>1, <2>2, <2>3
<1>4. Turned(d[n])
  <2>1. n \in 3..n /\ n \in 3..(n + 1)
    BY <1>3
  <2>2. Carries(work[n], d[n], d[n + 1], types) /\ d[n] \in Good
    BY <1>2, <2>1
  <2>3. d[n + 1] \in Good
    BY <1>3
  <2> QED BY <1>2, <1>3, <2>2, <2>3 DEF Taken
<1>5. /\ t \in Good
      /\ m < n => t = d[n]
      /\ m >= n => Carries(work'[n], d[n], t, types')
      /\ \A i \in (n + 1)..m : Carries(work'[i], t, t, types')
  BY <1>4 DEF Turned
<1>6. Body' = Body
  BY DEF Body, Home
<1>7. ASSUME NEW i \in 3..(n - 1) PROVE Carries(work'[i], d[i], d[i + 1], types')
  <2>1. i \in 3..n /\ work'[i] = work[i]
    BY <1>3, <1>7
  <2>2. Nested(work[i], Len(types), Len(scopes)) /\ Len(types) \in Nat
    BY <2>1 DEF Shape, Handlers, SourceTypes
  <2>3. Carries(work[i], d[i], d[i + 1], types)
    BY <1>2, <2>1
  <2>4. \A c \in 1..Len(types) : types[c] # "unit" => types'[c] = types[c]
    BY DEF Typed
  <2> HIDE DEF n, m, t
  <2> QED BY <2>1, <2>2, <2>3, <2>4, CarriesOn
<1> DEFINE e == [i \in 3..(m + 1) |-> IF i <= n THEN d[i] ELSE t]
<1> HIDE DEF n, m, t
<1>8. e \in [3..(m + 1) -> Good]
  BY <1>3, <1>5
<1>9. e[3] = Empty
  BY <1>2, <1>3
<1>10. e[m + 1] = t
  <2>1. m + 1 \in 3..(m + 1)
    BY <1>3
  <2>2. CASE m < n
    <3>1. m + 1 = n
      BY <1>3, <2>2
    <3> QED BY <1>3, <1>5, <2>1, <2>2, <3>1
  <2>3. CASE m >= n
    BY <1>3, <2>1, <2>3
  <2> QED BY <1>3, <2>2, <2>3
<1>11. ASSUME NEW i \in 3..m PROVE Carries(work'[i], e[i], e[i + 1], types')
  <2>1. i \in 3..(m + 1) /\ i + 1 \in 3..(m + 1)
    BY <1>3
  <2>2. /\ e[i] = IF i <= n THEN d[i] ELSE t
        /\ e[i + 1] = IF i + 1 <= n THEN d[i + 1] ELSE t
    BY <2>1
  <2> HIDE DEF e
  <2>3. CASE i < n
    <3>1. i \in 3..(n - 1) /\ i <= n /\ i + 1 <= n
      BY <1>3, <2>3
    <3> QED BY <1>7, <2>2, <3>1
  <2>4. CASE i = n
    <3>1. i <= n /\ ~(i + 1 <= n) /\ m >= n
      BY <1>3, <2>4
    <3>2. Carries(work'[n], d[n], t, types') /\ e[i] = d[n] /\ e[i + 1] = t
      BY <1>5, <2>2, <2>4, <3>1
    <3> QED BY <2>4, <3>2
  <2>5. CASE i > n
    <3>1. ~(i <= n) /\ ~(i + 1 <= n) /\ i \in (n + 1)..m
      BY <1>3, <2>5
    <3>2. Carries(work'[i], t, t, types') /\ e[i] = t /\ e[i + 1] = t
      BY <1>5, <2>2, <3>1
    <3> QED BY <3>2
  <2> QED BY <1>3, <2>3, <2>4, <2>5
<1> HIDE DEF e
<1>12. \E f \in [3..(m + 1) -> Good] : /\ f[3] = Empty /\ f[m + 1] = t
                                       /\ \A i \in 3..m : Carries(work'[i], f[i], f[i + 1], types')
  BY <1>8, <1>9, <1>10, <1>11
<1> QED BY <1>6, <1>12 DEF Operands, Held, m, t, Carries, Pushing, Callable, Behind

\* Handlers that leave the stack alone.
LEMMA PlainCarries ==
    ASSUME NEW item, item.step \notin Odd, NEW s, item.step \in Level => s = Empty, NEW ts
    PROVE  Carries(item, s, s, ts)
  BY DEF Carries, Odd

\* What a handler of a statement leaves is an empty stack, and what one without
\* operands leaves is what it finds.
LEMMA CarriesLevel ==
    ASSUME NEW item, NEW s, NEW t, NEW ts, Carries(item, s, t, ts)
    PROVE  /\ item.step \in Level => s = Empty /\ t = Empty
           /\ item.step \notin Odd => t = s
  BY DEF Carries, Level, Odd

\* A step after which no handler on top holds an operand.
LEMMA EvenTurned ==
    ASSUME SourceTypes, Leaves(Odd), NEW s \in Good, Behind(bytes', Body) = s,
           s = Empty \/ \A i \in Len(work)..Len(work') : work'[i].step \notin Level
    PROVE  Turned(s)
<1> DEFINE n == Len(work)
<1>1. n \in Nat
  BY DEF SourceTypes
<1>2. \A i \in n..Len(work') : Carries(work'[i], s, s, types')
  BY PlainCarries DEF Leaves
<1>3. Len(work') \in Nat
  BY DEF Leaves
<1>4. \A i \in (n + 1)..Len(work') : i \in n..Len(work')
  BY <1>1, <1>3
<1>5. Len(work') >= n => n \in n..Len(work')
  BY <1>1, <1>3
<1> QED BY <1>2, <1>4, <1>5 DEF Turned

\* The step of a handler that returns, and of one that goes on as two.
LEMMA PoppedTurned ==
    ASSUME SourceTypes, work' = Front(work), NEW s \in Good, Behind(bytes', Body) = s
    PROVE  Turned(s)
<1>1. Leaves(Odd) /\ Leaves(Level)
  BY LeavesNone
<1> QED BY <1>1, EvenTurned DEF Leaves

LEMMA OneTurned ==
    ASSUME SourceTypes, NEW a \in Items, Become(<<a>>), NEW s, NEW t \in Good,
           Behind(bytes', Body) = t, Carries(a, s, t, types')
    PROVE  Turned(s)
<1> DEFINE n == Len(work)
           q == <<a>>
<1>1. n \in Nat /\ n >= 1 /\ work \in Seq(Items)
  BY DEF SourceTypes
<1>2. q \in Seq(Items) /\ Len(q) = 1 /\ q[1] = a /\ Become(q)
  OBVIOUS
<1> HIDE DEF q
<1>3. /\ Len(work') = n - 1 + Len(q)
      /\ \A i \in 1..Len(work') : work'[i] = IF i < n THEN work[i] ELSE q[i - (n - 1)]
  BY <1>1, <1>2, BecomeSeq
<1> HIDE DEF n
<1>4. Len(work') = n /\ work'[n] = a
  <2>1. Len(work') = n
    BY <1>1, <1>2, <1>3
  <2>2. n \in 1..Len(work') /\ ~(n < n) /\ n - (n - 1) = 1
    BY <1>1, <2>1
  <2> QED BY <1>2, <1>3, <2>1, <2>2
<1>5. \A i \in (n + 1)..Len(work') : FALSE
  BY <1>1, <1>4
<1>6. ~(Len(work') < n)
  BY <1>1, <1>4
<1> QED BY <1>4, <1>5, <1>6 DEF Turned, n

LEMMA TwoTurned ==
    ASSUME SourceTypes, NEW a \in Items, NEW b \in Items, Become(<<a, b>>), NEW s, NEW t \in Good,
           Behind(bytes', Body) = t, Carries(a, s, t, types'), Carries(b, t, t, types')
    PROVE  Turned(s)
<1> DEFINE n == Len(work)
           q == <<a, b>>
<1>1. n \in Nat /\ n >= 1 /\ work \in Seq(Items)
  BY DEF SourceTypes
<1>2. q \in Seq(Items) /\ Len(q) = 2 /\ q[1] = a /\ q[2] = b /\ Become(q)
  OBVIOUS
<1> HIDE DEF q
<1>3. /\ Len(work') = n - 1 + Len(q)
      /\ \A i \in 1..Len(work') : work'[i] = IF i < n THEN work[i] ELSE q[i - (n - 1)]
  BY <1>1, <1>2, BecomeSeq
<1> HIDE DEF n
<1>4. Len(work') = n + 1
  BY <1>1, <1>2, <1>3
<1>5. work'[n] = a
  <2>1. n \in 1..Len(work') /\ ~(n < n) /\ n - (n - 1) = 1
    BY <1>1, <1>4
  <2> QED BY <1>2, <1>3, <2>1
<1>6. work'[n + 1] = b
  <2>1. n + 1 \in 1..Len(work') /\ ~(n + 1 < n) /\ (n + 1) - (n - 1) = 2
    BY <1>1, <1>4
  <2> QED BY <1>2, <1>3, <2>1
<1>7. \A i \in (n + 1)..Len(work') : i = n + 1
  BY <1>1, <1>4
<1>8. ~(Len(work') < n)
  BY <1>1, <1>4
<1> QED BY <1>5, <1>6, <1>7, <1>8 DEF Turned, n

-----------------------------------------------------------------------------
(* Expressions.                                                            *)

LEMMA StillInstr ==
    ASSUME NEW op \in {"mov_imm", "mov_a_offset", "mov_offset_a", "call"} \cup UnaryOps \cup SetOps,
           NEW w \in Widths \cup {0}, NEW arg \in Int
    PROVE  Instr(op, w, arg) \in Still
<1>1. op \in Ops
  BY DEF Ops, WithOperand
<1>2. op \notin ArithOps \cup Jumps \cup {"cmp", "push", "sysfun", "add_sp", "leave", "ret", "exit"}
  BY DEF ArithOps, Jumps, UnaryOps, SetOps
<1>3. Instr(op, w, arg) \in InstrRecords
  BY <1>1, InstrType, Zenon
<1> QED BY <1>2, <1>3 DEF Still, Instr

LEMMA StillCast ==
    ASSUME NEW from \in Types, NEW to \in Types, ~CastFails(from, to)
    PROVE  CastCode(from, to) \in Seq(Still)
<1> DEFINE lo == WidthIdx(TypeSize(from))
           n  == WidthIdx(TypeSize(to)) - lo
           op(k) == IF IsSigned(to) /\ (k > 1 \/ IsSigned(from)) THEN "sext" ELSE "zext"
           s  == CastCode(from, to)
<1>1. s \in Seq(InstrRecords)
  BY CastType
<1>2. s = [k \in 1..n |-> Instr(op(k), Widths4[lo + k - 1], 0)]
  BY DEF CastCode
<1> HIDE DEF s, n, lo
<1>3. ASSUME NEW k \in 1..Len(s) PROVE s[k] \in Still
  <2>1. s[k] \in InstrRecords /\ k \in DOMAIN s
    BY <1>1
  <2>2. s[k] = Instr(op(k), Widths4[lo + k - 1], 0)
    BY <1>2, <2>1
  <2>3. s[k].op \in {"sext", "zext"}
    BY <2>2 DEF Instr
  <2> QED BY <2>1, <2>3 DEF Still, Jumps, ArithOps
<1>4. s \in Seq(Still)
  BY <1>1, <1>3
<1> QED BY <1>4 DEF s

\* What a step does to the stack is what the instructions it emits do.
LEMMA StepBehind ==
    ASSUME SourceTypes, Shape, Branches, Inside, NEW s \in Seq(InstrRecords), bytes' = EmitAll(bytes, s)
    PROVE  Behind(bytes', Body) = After(Behind(bytes, Body), s)
<1>1. BytesOK(bytes) /\ Body \in Nat /\ Body <= bytes.used
  BY BodyType DEF SourceTypes
<1> DEFINE b == Body
<1>2. b \in Nat /\ b <= bytes.used
  BY <1>1
<1>3. Behind(EmitAll(bytes, s), b) = After(Behind(bytes, b), s)
  <2> HIDE DEF b
  <2> QED BY <1>1, <1>2, EmitAllStack, Zenon
<1> QED BY <1>3

LEMMA IdleBehind ==
    ASSUME SourceTypes, Shape, Branches, Inside, Emits(Still)
    PROVE  Behind(bytes', Body) = Behind(bytes, Body)
<1>1. PICK s \in Seq(Still) : bytes' = EmitAll(bytes, s)
  BY DEF Emits
<1>2. s \in Seq(InstrRecords)
  BY StackKinds
<1> QED BY <1>1, <1>2, StepBehind, AfterStill

\* A handler that holds nothing, and neither do those it leaves.
LEMMA IdleTaken ==
    ASSUME SourceTypes, Shape, Branches, Inside, Top.step \notin Odd, Emits(Still),
           Leaves(Odd \cup Level)
    PROVE  Taken
<1> SUFFICES ASSUME NEW s \in Good, Carries(Top, s, Behind(bytes, Body), types) PROVE Turned(s)
  BY DEF Taken
<1>1. Behind(bytes', Body) = s
  BY IdleBehind, CarriesLevel
<1>2. Leaves(Odd) /\ \A i \in Len(work)..Len(work') : work'[i].step \notin Level
  BY DEF Leaves
<1> QED BY <1>1, <1>2, EvenTurned

\* A refusal changes no code and no handler.
LEMMA SameTaken ==
    ASSUME SourceTypes, Shape, Inside, Typed, UNCHANGED <<bytes, work>>
    PROVE  Taken /\ Rests
<1> DEFINE n == Len(work)
           t == Behind(bytes, Body)
<1>1. n \in Nat /\ n >= 3 /\ Top = work[n]
  BY TopInFunction DEF Inside, SourceTypes
<1>2. ASSUME NEW s \in Good, t \in Good, Carries(Top, s, t, types) PROVE Turned(s)
  <2>1. Nested(Top, Len(types), Len(scopes)) /\ Len(types) \in Nat
    BY TopInFunction DEF Inside, SourceTypes
  <2>2. \A c \in 1..Len(types) : types[c] # "unit" => types'[c] = types[c]
    BY DEF Typed
  <2> HIDE DEF t
  <2>3. Carries(Top, s, t, types')
    BY <1>2, <2>1, <2>2, CarriesOn
  <2>4. Carries(work'[n], s, t, types')
    BY <1>1, <2>3
  <2>5. Behind(bytes', Body) = t /\ Len(work') = n
    BY DEF t
  <2>6. \A i \in (n + 1)..n : FALSE
    BY <1>1
  <2> QED BY <1>1, <1>2, <2>4, <2>5, <2>6 DEF Turned
<1>3. Rests
  BY <1>1 DEF Rests
<1> QED BY <1>2, <1>3 DEF Taken

\* The handlers of expressions that hold no operand.
LEMMA EvenSteps ==
    \A step \in {"expr", "endunary", "push", "store"} : step \in Steps /\ step \notin Odd \cup Level
  BY DEF Steps, Odd, Level

LEMMA ExprItem ==
    ASSUME NEW c \in Nat
    PROVE  ItemWith("expr", c) \in Items /\ ItemWith("expr", c).step = "expr"
<1>1. "expr" \in Steps
  BY EvenSteps
<1> QED BY <1>1, CellItem, Zenon

LEMMA ExprCarries ==
    ASSUME NEW item, item.step = "expr", NEW s, NEW ts
    PROVE  Carries(item, s, s, ts)
<1>1. item.step \notin Odd /\ item.step \notin Level
  BY EvenSteps
<1> QED BY <1>1, PlainCarries, Zenon

LEMMA EvenItem ==
    ASSUME NEW step \in {"endunary", "push"}, NEW c \in Nat, NEW word \in Names \cup Operators
    PROVE  LET it == [ItemWith(step, c) EXCEPT !.word = word]
           IN  it \in Items /\ it.step \notin Odd \cup Level
<1> DEFINE it == ItemWith(step, c)
<1>1. step \in Steps /\ step \notin Odd \cup Level
  BY EvenSteps
<1>2. it \in Items /\ it.step = step
  BY <1>1, CellItem
<1> HIDE DEF it
<1>3. [it EXCEPT !.word = word] \in Items /\ [it EXCEPT !.word = word].step = it.step
  BY <1>2, NamedItem, Zenon
<1> QED BY <1>1, <1>2, <1>3 DEF it

\* A handler that emits code without an effect and returns, or hands on to
\* others that hold nothing.
LEMMA ReturnTaken ==
    ASSUME SourceTypes, Shape, Branches, Inside, Top.step \notin Odd, Emits(Still), work' = Front(work)
    PROVE  Taken
  BY IdleTaken, LeavesNone

LEMMA EmitsStill ==
    ASSUME SourceTypes, UNCHANGED bytes
    PROVE  Emits(Still)
  BY EmitsNone, StackKinds

\* Literals and variables.
LEMMA LiteralTaken ==
    ASSUME SourceTypes, Shape, Branches, NEW id \in {"int", "float", "string"},
           NEW v \in Literals \cup FloatImages, Literal(id, v)
    PROVE  Fail \/ Taken
<1> DEFINE t == Infer(IF id = "float" THEN "f32" ELSE "i32")
           w == TypeSize(t)
<1>1. Top.step = "expr" /\ Inside /\ Top.step \notin Odd
  BY DEF Literal, At, Inside, Odd
<1>2. t \in Types /\ t # "unit"
  <2>1. (IF id = "float" THEN "f32" ELSE "i32") \in Types \ {"unit"}
    BY DEF Types, FloatTypes, IntTypes
  <2> QED BY <1>1, <2>1, ExprCell DEF Infer
<1>3. \/ Fail
      \/ bytes' = EmitAll(bytes, <<Instr("mov_imm", w, v % Cap(w))>>) /\ work' = Front(work)
  BY DEF Literal
<1>4. Instr("mov_imm", w, v % Cap(w)) \in Still
  <2>1. w \in Widths /\ w \in Widths \cup {0}
    BY <1>2, SizeOfType
  <2> HIDE DEF t
  <2>2. v % Cap(w) \in Int
    <3> HIDE DEF w
    <3> QED BY <2>1, ImmediateType, SourceAssumption
  <2>3. "mov_imm" \in {"mov_imm", "mov_a_offset", "mov_offset_a", "call"} \cup UnaryOps \cup SetOps
    OBVIOUS
  <2> HIDE DEF w
  <2> QED BY <2>1, <2>2, <2>3, StillInstr, Zenon
<1> HIDE DEF t, w
<1> QED BY <1>1, <1>3, <1>4, EmitsOne, ReturnTaken, Zenon

LEMMA IdentTaken ==
    ASSUME SourceTypes, Shape, Branches, NEW name \in UsedNames, Ident(name)
    PROVE  Fail \/ Taken
<1> DEFINE local == Find(name)
           t     == Infer(local.type)
           load  == <<Instr("mov_offset_a", TypeSize(local.type), local.offset)>>
           cast  == CastCode(local.type, t)
<1>1. SUFFICES ASSUME ~Fail PROVE Taken
  OBVIOUS
<1>2. /\ Declared(name)
      /\ ~CastFails(local.type, t)
      /\ bytes' = EmitAll(bytes, load \o cast)
      /\ work' = Front(work)
  BY <1>1 DEF Ident
<1>3. local \in Locals
  BY <1>2, FindType, Zenon DEF SourceTypes
<1>4. local.type \in Types /\ local.offset \in Int
  BY <1>3, LocalField, Zenon
<1>5. Top.step = "expr" /\ Inside /\ Top.step \notin Odd /\ t \in Types
  BY <1>4, ExprCell DEF Ident, At, Inside, Odd
<1> HIDE DEF local, t
<1>6. cast \in Seq(Still)
  BY <1>2, <1>4, <1>5, StillCast, Zenon
<1>7. load \in Seq(Still)
  <2>1. "mov_offset_a" \in {"mov_imm", "mov_a_offset", "mov_offset_a", "call"} \cup UnaryOps \cup SetOps
    OBVIOUS
  <2>2. TypeSize(local.type) \in Widths \cup {0}
    BY <1>4, SizeOfType, Zenon
  <2>3. Instr("mov_offset_a", TypeSize(local.type), local.offset) \in Still
    BY <1>4, <2>1, <2>2, StillInstr, Zenon
  <2> QED BY <2>3
<1> HIDE DEF load, cast
<1> QED BY <1>2, <1>5, <1>6, <1>7, EmitsBoth, ReturnTaken, Zenon

LEMMA EmitUnaryTaken ==
    ASSUME SourceTypes, Shape, Branches, NEW op \in UnOps, EmitUnary(op)
    PROVE  Taken
<1> DEFINE end == [ItemWith("endunary", Top.cell) EXCEPT !.word = op]
           ex  == ItemWith("expr", Top.cell)
<1>1. Top.step = "expr" /\ UNCHANGED bytes /\ Become(<<end, ex>>)
  BY DEF EmitUnary, At
<1>2. Top.cell \in Nat /\ Inside /\ Top.step \notin Odd
  BY <1>1, ExprCell, EvenSteps DEF Inside
<1>3. op \in Names \cup Operators
  BY SourceAssumption DEF Operators
<1>4. end \in Items /\ end.step \notin Odd \cup Level
  BY <1>2, <1>3, EvenItem, Zenon
<1>5. ex \in Items /\ ex.step \notin Odd \cup Level
  BY <1>2, ExprItem, EvenSteps
<1> HIDE DEF end, ex
<1> QED BY <1>1, <1>2, <1>4, <1>5, LeavesTwo, EmitsStill, IdleTaken, Zenon

LEMMA EmitBinaryTaken ==
    ASSUME SourceTypes, Shape, Branches, NEW op \in BinOps, EmitBinary(op)
    PROVE  Taken
<1> DEFINE push == [ItemWith("push", Top.cell) EXCEPT !.word = op]
           ex   == ItemWith("expr", Top.cell)
<1>1. Top.step = "expr" /\ UNCHANGED bytes /\ Become(<<push, ex>>)
  BY DEF EmitBinary, At
<1>2. Top.cell \in Nat /\ Inside /\ Top.step \notin Odd
  BY <1>1, ExprCell, EvenSteps DEF Inside
<1>3. op \in Names \cup Operators
  BY SourceAssumption DEF Operators
<1>4. push \in Items /\ push.step \notin Odd \cup Level
  BY <1>2, <1>3, EvenItem, Zenon
<1>5. ex \in Items /\ ex.step \notin Odd \cup Level
  BY <1>2, ExprItem, EvenSteps
<1> HIDE DEF push, ex
<1> QED BY <1>1, <1>2, <1>4, <1>5, LeavesTwo, EmitsStill, IdleTaken, Zenon

LEMMA EndUnaryTaken ==
    ASSUME SourceTypes, Shape, Branches, EndUnary \/ Store
    PROVE  Fail \/ Taken
<1> DEFINE w == TypeSize(Cell)
<1>1. Top.step \in CellSteps /\ Inside /\ Top.step \notin Odd
  BY DEF EndUnary, Store, At, CellSteps, Inside, Odd
<1>2. w \in Widths \cup {0} /\ 0 \in Int /\ Top.offset \in Int
  <2>1. Top \in Items
    BY <1>1, TopInFunction DEF Inside
  <2> QED BY <1>1, <2>1, CellType DEF Items
<1>3. CASE EndUnary
  <2>1. \/ Fail
        \/ bytes' = EmitAll(bytes, <<Instr(Top.word, w, 0)>>) /\ work' = Front(work)
    BY <1>3 DEF EndUnary
  <2>2. Top.word \in UnaryOps
    BY <1>3, TopWord DEF EndUnary, At
  <2> HIDE DEF w
  <2>3. Instr(Top.word, w, 0) \in Still
    <3>1. Top.word \in {"mov_imm", "mov_a_offset", "mov_offset_a", "call"} \cup UnaryOps \cup SetOps
      BY <2>2
    <3> QED BY <1>2, <3>1, StillInstr, Zenon
  <2> QED BY <1>1, <2>1, <2>3, EmitsOne, ReturnTaken, Zenon
<1>4. CASE Store
  <2>1. \/ Fail
        \/ bytes' = EmitAll(bytes, <<Instr("mov_a_offset", w, Top.offset)>>) /\ work' = Front(work)
    BY <1>4 DEF Store
  <2> HIDE DEF w
  <2>2. Instr("mov_a_offset", w, Top.offset) \in Still
    <3>1. "mov_a_offset" \in {"mov_imm", "mov_a_offset", "mov_offset_a", "call"} \cup UnaryOps \cup SetOps
      OBVIOUS
    <3> QED BY <1>2, <3>1, StillInstr, Zenon
  <2> QED BY <1>1, <2>1, <2>2, EmitsOne, ReturnTaken, Zenon
<1> QED BY <1>3, <1>4

\* The handlers that hold operands.  First those of binary operators ...
LEMMA GoodPush ==
    ASSUME NEW s \in Good, NEW t \in Types, t # "unit"
    PROVE  LET w == TypeSize(t)
           IN  /\ w \in Nat /\ w > 0 /\ w \in Widths \cup {0}
               /\ Pushed(s, w) \in Good
               /\ Instr("push", w, 0) \in InstrRecords
               /\ Effect(s, Instr("push", w, 0)) = Pushed(s, w)
<1> DEFINE w == TypeSize(t)
<1>1. w \in Nat /\ w \in Widths \cup {0} /\ w # 0
  BY SizeOfType
<1>2. w > 0
  BY <1>1
<1>3. "push" \in Ops
  BY DEF Ops
<1>4. Instr("push", w, 0) \in InstrRecords
  <2> HIDE DEF w
  <2> QED BY <1>1, <1>3, InstrType
<1> HIDE DEF w
<1>5. Pushed(s, w) \in Good
  BY <1>1, <1>2, PushedOnTop
<1>6. Effect(s, Instr("push", w, 0)) = Pushed(s, w)
  BY PushEffect, Zenon
<1> QED BY <1>1, <1>2, <1>4, <1>5, <1>6 DEF w

\* An operator's first operand is pushed ...
LEMMA PushTaken ==
    ASSUME SourceTypes, Shape, Branches, Push
    PROVE  Fail \/ Taken
<1> SUFFICES ASSUME ~Fail PROVE Taken
  OBVIOUS
<1> DEFINE it  == Top
           end == [it EXCEPT !.step = "endbin"]
           ex  == ItemWith("expr", it.cell)
           w   == TypeSize(Cell)
<1>1. /\ it.step = "push" /\ Inside /\ Top.step \in CellSteps
      /\ Cell # "unit"
      /\ bytes' = EmitAll(bytes, <<Instr("push", w, 0)>>)
      /\ Become(<<end, ex>>)
      /\ UNCHANGED types
  BY DEF Push, At, Inside, CellSteps
<1>2. it \in Items /\ Cell \in Types
  BY <1>1, TopInFunction, CellType DEF Inside
<1>3. Cell = types[it.cell]
  BY DEF Cell
<1> SUFFICES ASSUME NEW s \in Good, Carries(Top, s, Behind(bytes, Body), types) PROVE Turned(s)
  BY DEF Taken
<1>4. Behind(bytes, Body) = s
  BY <1>1, CarriesLevel, EvenSteps
<1>5. /\ Pushed(s, w) \in Good
      /\ Instr("push", w, 0) \in InstrRecords
      /\ Effect(s, Instr("push", w, 0)) = Pushed(s, w)
  BY <1>1, <1>2, GoodPush
<1> HIDE DEF it
<1>6. end \in Items /\ end.step = "endbin" /\ end.cell = it.cell
  <2>1. "endbin" \in Steps
    BY DEF Steps
  <2> QED BY <1>2, <2>1 DEF Items
<1>7. ex \in Items /\ Carries(ex, Pushed(s, w), Pushed(s, w), types')
  <2>1. it.cell \in Nat
    BY <1>2 DEF Items
  <2> QED BY <2>1, ExprItem, ExprCarries
<1>8. Carries(end, s, Pushed(s, w), types')
  <2> HIDE DEF end
  <2> QED BY <1>1, <1>3, <1>6 DEF Carries, Level, Odd
<1>9. Behind(bytes', Body) = Pushed(s, w)
  <2> HIDE DEF w
  <2>1. <<Instr("push", w, 0)>> \in Seq(InstrRecords)
    BY <1>5
  <2>2. Behind(bytes', Body) = After(s, <<Instr("push", w, 0)>>)
    BY <1>1, <1>4, <2>1, StepBehind
  <2> QED BY <1>5, <2>2, AfterOne
<1> HIDE DEF end, ex, w
<1> QED BY <1>1, <1>5, <1>6, <1>7, <1>8, <1>9, TwoTurned

\* The operand on the stack has the size of the handler's cell.
LEMMA HeldCell ==
    ASSUME SourceTypes, Shape, Inside, Top.step \in {"endbin", "endassgn"},
           NEW s \in Good, Carries(Top, s, Behind(bytes, Body), types)
    PROVE  /\ Cell \in Types /\ TypeSize(Cell) \in Nat /\ TypeSize(Cell) > 0
           /\ TypeSize(Cell) \in Widths \cup {0}
           /\ Behind(bytes, Body) = Pushed(s, TypeSize(Cell))
<1>1. Cell \in Types
  BY CellType DEF CellSteps
<1>2. Cell # "unit" /\ Behind(bytes, Body) = Pushed(s, TypeSize(Cell))
  BY DEF Carries, Cell
<1>3. TypeSize(Cell) \in Nat /\ TypeSize(Cell) # 0 /\ TypeSize(Cell) \in Widths \cup {0}
  BY <1>1, <1>2, SizeOfType
<1> QED BY <1>1, <1>2, <1>3

LEMMA OperatorInstr ==
    ASSUME NEW op \in ArithOps \cup {"cmp"}, NEW w \in Widths \cup {0}, NEW arg \in Int
    PROVE  Instr(op, w, arg) \in InstrRecords
<1>1. op \in Ops
  BY DEF Ops
<1> QED BY <1>1, InstrType, Zenon

LEMMA PopInstr ==
    ASSUME NEW s \in Good, NEW w \in Nat, w > 0, w \in Widths \cup {0},
           NEW op \in ArithOps \cup {"cmp"}
    PROVE  Instr(op, w, 0) \in InstrRecords /\ Effect(Pushed(s, w), Instr(op, w, 0)) = s
<1>1. 0 \in Int
  OBVIOUS
<1>2. Instr(op, w, 0) \in InstrRecords
  BY <1>1, OperatorInstr, Zenon
<1>3. ASSUME NEW arg PROVE Effect(Pushed(s, w), Instr(op, w, arg)) = s
  BY PopEffect, Zenon
<1> QED BY <1>2, <1>3, Zenon

LEMMA EndBinaryTaken ==
    ASSUME SourceTypes, Shape, Branches, EndBinary
    PROVE  Taken
<1> DEFINE w == TypeSize(Cell)
<1>1. /\ Top.step = "endbin" /\ Inside
      /\ bytes' = EmitAll(bytes, BinCode(Top.word, w)) /\ work' = Front(work)
  BY DEF EndBinary, At, Inside
<1>2. Top.word \in ArithOps \cup SetOps
  BY <1>1, TopWord
<1> SUFFICES ASSUME NEW s \in Good, Carries(Top, s, Behind(bytes, Body), types) PROVE Turned(s)
  BY DEF Taken
<1>3. w \in Nat /\ w > 0 /\ w \in Widths \cup {0} /\ Behind(bytes, Body) = Pushed(s, w)
  BY <1>1, HeldCell
<1> HIDE DEF w
<1>4. Behind(bytes', Body) = s
  <2>1. CASE Top.word \in SetOps
    <3> DEFINE i == Instr("cmp", w, 0)
               j == Instr(Top.word, 0, 0)
    <3>1. bytes' = EmitAll(bytes, <<i, j>>)
      BY <1>1, <2>1 DEF BinCode
    <3>2. "cmp" \in ArithOps \cup {"cmp"} /\ 0 \in Int /\ 0 \in Widths \cup {0}
      OBVIOUS
    <3>3. i \in InstrRecords /\ Effect(Pushed(s, w), i) = s
      <4> HIDE DEF i
      <4>1. \A op \in ArithOps \cup {"cmp"} :
                Instr(op, w, 0) \in InstrRecords /\ Effect(Pushed(s, w), Instr(op, w, 0)) = s
        BY <1>3, PopInstr, Zenon
      <4> QED BY <3>2, <4>1, Zenon DEF i
    <3>4. j \in Still
      <4>1. Top.word \in {"mov_imm", "mov_a_offset", "mov_offset_a", "call"} \cup UnaryOps \cup SetOps
        BY <2>1
      <4> QED BY <3>2, <4>1, StillInstr, Zenon
    <3> HIDE DEF i, j
    <3>5. j \in InstrRecords /\ Effect(s, j) = s
      BY <3>4, StillEffect, StackKinds
    <3>6. <<i, j>> \in Seq(InstrRecords)
      BY <3>3, <3>5
    <3>7. Behind(bytes', Body) = After(Pushed(s, w), <<i, j>>)
      BY <1>1, <1>3, <3>1, <3>6, StepBehind
    <3>8. After(Pushed(s, w), <<i, j>>) = Effect(Effect(Pushed(s, w), i), j)
      BY AfterTwo
    <3> QED BY <3>3, <3>5, <3>7, <3>8
  <2>2. CASE Top.word \notin SetOps
    <3> DEFINE i == Instr(Top.word, w, 0)
    <3>1. bytes' = EmitAll(bytes, <<i>>)
      BY <1>1, <2>2 DEF BinCode
    <3>2. Top.word \in ArithOps \cup {"cmp"} /\ 0 \in Int
      BY <1>2, <2>2
    <3>3. i \in InstrRecords /\ Effect(Pushed(s, w), i) = s
      BY <1>3, <3>2, PopInstr, Zenon
    <3> HIDE DEF i
    <3>4. <<i>> \in Seq(InstrRecords)
      BY <3>3
    <3>5. Behind(bytes', Body) = After(Pushed(s, w), <<i>>)
      BY <1>1, <1>3, <3>1, <3>4, StepBehind
    <3> QED BY <3>3, <3>5, AfterOne
  <2> QED BY <2>1, <2>2
<1> QED BY <1>1, <1>4, PoppedTurned

\* ... then those of compound assignments ...
LEMMA EndAssgnTaken ==
    ASSUME SourceTypes, Shape, Branches, EndAssgn
    PROVE  Fail \/ Taken
<1> SUFFICES ASSUME ~Fail PROVE Taken
  OBVIOUS
<1> DEFINE w == TypeSize(Cell)
           i == Instr(Top.word, w, 0)
           j == Instr("mov_a_offset", w, Top.offset)
<1>1. /\ Top.step = "endassgn" /\ Inside
      /\ bytes' = EmitAll(bytes, <<i, j>>) /\ work' = Front(work)
  BY DEF EndAssgn, At, Inside
<1>2. Top.word \in ArithOps \cup {"cmp"}
  BY <1>1, TopWord DEF ArithOps
<1>3. Top.offset \in Int
  <2>1. Top \in Items
    BY <1>1, TopInFunction DEF Inside
  <2> QED BY <2>1 DEF Items
<1> SUFFICES ASSUME NEW s \in Good, Carries(Top, s, Behind(bytes, Body), types) PROVE Turned(s)
  BY DEF Taken
<1>4. w \in Nat /\ w > 0 /\ w \in Widths \cup {0} /\ Behind(bytes, Body) = Pushed(s, w)
  BY <1>1, HeldCell
<1> HIDE DEF w
<1>5. i \in InstrRecords /\ Effect(Pushed(s, w), i) = s
  BY <1>2, <1>4, PopInstr, Zenon
<1>6. j \in Still
  <2>1. "mov_a_offset" \in {"mov_imm", "mov_a_offset", "mov_offset_a", "call"} \cup UnaryOps \cup SetOps
    OBVIOUS
  <2> QED BY <1>3, <1>4, <2>1, StillInstr, Zenon
<1> HIDE DEF i, j
<1>7. j \in InstrRecords /\ Effect(s, j) = s
  BY <1>6, StillEffect, StackKinds
<1>8. <<i, j>> \in Seq(InstrRecords)
  BY <1>5, <1>7
<1>9. Behind(bytes', Body) = After(Pushed(s, w), <<i, j>>)
  BY <1>1, <1>4, <1>8, StepBehind
<1>10. Behind(bytes', Body) = s
  <2>1. After(Pushed(s, w), <<i, j>>) = Effect(Effect(Pushed(s, w), i), j)
    BY AfterTwo
  <2> QED BY <1>5, <1>7, <1>9, <2>1
<1> QED BY <1>1, <1>10, PoppedTurned

LEMMA AssignTaken ==
    ASSUME SourceTypes, Shape, Branches, NEW name \in UsedNames, NEW op \in AssignOps, Assign(name, op)
    PROVE  UNCHANGED <<bytes, work>> \/ Taken
<1> DEFINE local == Find(name)
           t     == Infer(local.type)
           w     == TypeSize(t)
           step  == IF op = "assign" THEN "store" ELSE "endassgn"
           it    == ItemWith(step, Top.cell)
           store == [it EXCEPT !.word = op, !.offset = local.offset]
           ex    == ItemWith("expr", Top.cell)
           i     == Instr("mov_offset_a", w, local.offset)
           j     == Instr("push", w, 0)
<1>1. SUFFICES ASSUME ~UNCHANGED <<bytes, work>> PROVE Taken
  OBVIOUS
<1>2. /\ Declared(name)
      /\ op # "assign" => t # "unit"
      /\ bytes' = IF op = "assign" THEN bytes ELSE EmitAll(bytes, <<i, j>>)
      /\ Become(<<store, ex>>)
      /\ Top.step = "expr" /\ Inside
      /\ SetCell(t)
  BY <1>1 DEF Assign, At, Inside
<1>3. local \in Locals
  BY <1>2, FindType, Zenon DEF SourceTypes
<1>4. local.type \in Types /\ local.offset \in Int
  BY <1>3, LocalField, Zenon
<1>5. t \in Types /\ Top.cell \in Nat /\ Top.cell \in 1..Len(types)
  BY <1>2, <1>4, ExprCell, Zenon
<1>6. it \in Items /\ it.step = step /\ it.cell = Top.cell
  <2>1. step \in Steps
    BY DEF Steps
  <2> QED BY <1>5, <2>1, CellItem
<1>7. op \in Names \cup Operators
  BY SourceAssumption DEF Operators, ArithOps
<1>8. types'[Top.cell] = t
  BY <1>2, <1>5 DEF SetCell, SourceTypes
<1>9. ex \in Items /\ ex.step = "expr"
  BY <1>5, ExprItem
<1> HIDE DEF local, t, it
<1>10. store \in Items /\ store.step = step /\ store.cell = Top.cell
  BY <1>4, <1>6, <1>7 DEF Items
<1> SUFFICES ASSUME NEW s \in Good, Carries(Top, s, Behind(bytes, Body), types) PROVE Turned(s)
  BY DEF Taken
<1>11. Behind(bytes, Body) = s
  BY <1>2, CarriesLevel, EvenSteps
<1>12. CASE op = "assign"
  <2>1. UNCHANGED bytes /\ store.step = "store"
    BY <1>2, <1>10, <1>12
  <2>2. Carries(store, s, s, types') /\ Carries(ex, s, s, types')
    BY <1>9, <2>1, PlainCarries, EvenSteps
  <2>3. Behind(bytes', Body) = s
    BY <1>11, <2>1
  <2> HIDE DEF store, ex
  <2> QED BY <1>2, <1>9, <1>10, <2>2, <2>3, TwoTurned
<1>13. CASE op # "assign"
  <2>1. t # "unit" /\ store.step = "endassgn" /\ bytes' = EmitAll(bytes, <<i, j>>)
    BY <1>2, <1>10, <1>13
  <2>2. /\ w \in Widths \cup {0}
        /\ Pushed(s, w) \in Good
        /\ j \in InstrRecords
        /\ Effect(s, j) = Pushed(s, w)
    BY <1>5, <2>1, GoodPush
  <2>3. i \in Still
    <3>1. "mov_offset_a" \in {"mov_imm", "mov_a_offset", "mov_offset_a", "call"} \cup UnaryOps \cup SetOps
      OBVIOUS
    <3> HIDE DEF w
    <3> QED BY <1>4, <2>2, <3>1, StillInstr, Zenon
  <2>4. Carries(ex, Pushed(s, w), Pushed(s, w), types')
    BY <1>9, ExprCarries
  <2>5. Carries(store, s, Pushed(s, w), types')
    <3> HIDE DEF store
    <3> QED BY <1>8, <1>10, <2>1 DEF Carries, Level, Odd
  <2> HIDE DEF i, j, w, store, ex
  <2>6. i \in InstrRecords /\ Effect(s, i) = s
    BY <2>3, StillEffect, StackKinds
  <2>7. <<i, j>> \in Seq(InstrRecords)
    BY <2>2, <2>6
  <2>8. Behind(bytes', Body) = After(s, <<i, j>>)
    BY <1>2, <1>11, <2>1, <2>7, StepBehind
  <2>9. Behind(bytes', Body) = Pushed(s, w)
    <3>1. After(s, <<i, j>>) = Effect(Effect(s, i), j)
      BY AfterTwo
    <3> QED BY <2>2, <2>6, <2>8, <3>1
  <2> QED BY <1>2, <1>9, <1>10, <2>2, <2>4, <2>5, <2>9, TwoTurned
<1> QED BY <1>12, <1>13

\* ... and those of calls.
LEMMA CallTaken ==
    ASSUME SourceTypes, Shape, Branches, Callables,
           NEW name \in UsedNames, NEW nargs \in 0..MaxArgs, Call(name, nargs)
    PROVE  UNCHANGED <<bytes, work>> \/ Taken
<1> DEFINE local == Find(name)
           it    == Item("args")
           args  == [it EXCEPT !.n = nargs, !.fun = local]
<1>1. nargs \in Nat
  BY SourceAssumption
<1>2. SUFFICES ASSUME ~UNCHANGED <<bytes, work>> PROVE Taken
  OBVIOUS
<1>3. /\ Declared(name) /\ Become(<<args>>) /\ UNCHANGED bytes
      /\ Len(local.params) = nargs /\ local.id # "var"
      /\ Top.step = "expr"
  BY <1>2 DEF Call, At
<1>4. local \in Locals /\ Callable(local)
  BY <1>3, FoundCallable, Zenon
<1>5. it \in Items /\ it.step = "args" /\ it.pop = 0
  <2>1. "args" \in Steps
    BY DEF Steps
  <2> QED BY <2>1, ItemType DEF Item
<1> HIDE DEF local, it
<1>6. args \in Items /\ args.step = "args" /\ args.n = nargs /\ args.fun = local /\ args.pop = 0
  BY <1>1, <1>4, <1>5 DEF Items
<1> SUFFICES ASSUME NEW s \in Good, Carries(Top, s, Behind(bytes, Body), types) PROVE Turned(s)
  BY DEF Taken
<1>7. Behind(bytes', Body) = s
  BY <1>3, CarriesLevel, EvenSteps
<1> HIDE DEF args
<1>8. Pushing(args.fun, args.n, args.pop, s, s)
  <2>1. s.sp + 0 = s.sp /\ \A o \in s.starts : o < s.sp
    BY DEF Good
  <2>2. s.starts = {o \in s.starts : o < s.sp}
    BY <2>1
  <2>3. ~(local.id = "sysfun" /\ nargs = 0)
    BY <1>3, <1>4 DEF Callable
  <2> QED BY <1>3, <1>4, <1>6, <2>1, <2>2, <2>3 DEF Pushing
<1>9. Carries(args, s, s, types')
  BY <1>6, <1>8 DEF Carries, Level, Odd
<1> QED BY <1>3, <1>6, <1>7, <1>9, OneTurned

\* An argument is evaluated ...
LEMMA ArgTaken ==
    ASSUME SourceTypes, Shape, Branches, Arg
    PROVE  Taken
<1> DEFINE it  == Top
           end == [it EXCEPT !.step = "endarg", !.cell = NewCell]
           ex  == ItemWith("expr", NewCell)
           t   == Behind(bytes, Body)
<1>1. /\ it.step = "args" /\ NewCell \in Nat /\ Inside
      /\ Become(<<end, ex>>) /\ UNCHANGED bytes
      /\ MakeCell(it.fun.params[it.n])
  BY DEF Arg, At, NewCell, SourceTypes, Inside
<1>2. it \in Items
  BY <1>1, TopInFunction DEF Inside
<1>3. types'[NewCell] = it.fun.params[it.n]
  BY <1>1 DEF MakeCell, NewCell, SourceTypes
<1> SUFFICES ASSUME NEW s \in Good, t \in Good, Carries(it, s, t, types) PROVE Turned(s)
  BY DEF Taken
<1>4. Pushing(it.fun, it.n, it.pop, s, t)
  BY <1>1 DEF Carries
<1> HIDE DEF it
<1>5. /\ end \in Items /\ end.step = "endarg" /\ end.cell = NewCell
      /\ end.n = it.n /\ end.fun = it.fun /\ end.pop = it.pop
  <2>1. "endarg" \in Steps
    BY DEF Steps
  <2> QED BY <1>1, <1>2, <2>1 DEF Items
<1>6. ex \in Items /\ Carries(ex, t, t, types')
  BY <1>1, ExprItem, ExprCarries
<1>7. Behind(bytes', Body) = t
  BY <1>1
<1> HIDE DEF end, ex, t
<1>8. Carries(end, s, t, types')
  BY <1>3, <1>4, <1>5 DEF Carries, Level, Odd
<1> QED BY <1>1, <1>5, <1>6, <1>7, <1>8, TwoTurned

\* ... and pushed, below the ones before it ...
LEMMA PushingMore ==
    ASSUME NEW fun, fun.params \in Seq(Types), NEW n \in 1..Len(fun.params), NEW pop \in Nat,
           NEW s \in Good, NEW t \in Good, Pushing(fun, n, pop, s, t),
           NEW w \in Nat, w > 0, w = TypeSize(fun.params[n])
    PROVE  Pushing(fun, n - 1, pop + w, s, Pushed(t, w))
<1> DEFINE u == Pushed(t, w)
<1>1. s.sp \in Nat /\ t.sp \in Nat /\ t.starts \subseteq Nat /\ Len(fun.params) \in Nat
  BY DEF Good
<1>2. u.sp = t.sp + w /\ u.starts = t.starts \cup {t.sp}
  BY DEF Pushed
<1>3. /\ Callable(fun)
      /\ t.sp = s.sp + pop
      /\ s.starts = {o \in t.starts : o < s.sp}
      /\ pop = 0 => t = s
      /\ pop # 0 => s.sp \in t.starts
      /\ n = Len(fun.params) => pop = 0
  BY DEF Pushing
<1>4. u.sp = s.sp + (pop + w) /\ pop + w \in Nat /\ pop + w # 0
  BY <1>1, <1>2, <1>3
<1>5. s.starts = {o \in u.starts : o < s.sp}
  <2>1. ~(t.sp < s.sp)
    BY <1>1, <1>3
  <2> QED BY <1>2, <1>3, <2>1, Zenon
<1>6. s.sp \in u.starts
  BY <1>2, <1>3
<1>7. n - 1 # Len(fun.params)
  BY <1>1
<1>8. ASSUME fun.id = "sysfun", n - 1 = 0
      PROVE  u = Pushed(s, SysFunWidths[SysFunIdx(fun) + 1])
  <2>1. Len(fun.params) = 1 /\ TypeSize(fun.params[1]) = SysFunWidths[SysFunIdx(fun) + 1]
    BY <1>3, <1>8 DEF Callable
  <2>2. n = 1
    BY <1>8
  <2>3. t = s
    BY <1>3, <2>1, <2>2
  <2> QED BY <2>1, <2>2, <2>3
<1> HIDE DEF u
<1> QED BY <1>3, <1>4, <1>5, <1>6, <1>7, <1>8 DEF Pushing, u

LEMMA EndArgTaken ==
    ASSUME SourceTypes, Shape, Branches, EndArg
    PROVE  Fail \/ Taken
<1> SUFFICES ASSUME ~Fail PROVE Taken
  OBVIOUS
<1> DEFINE it   == Top
           w    == TypeSize(Cell)
           args == [it EXCEPT !.step = "args", !.n = it.n - 1, !.pop = it.pop + w]
           t    == Behind(bytes, Body)
           u    == Pushed(t, w)
<1>1. it.step = "endarg" /\ Top.step \in CellSteps /\ Inside
  BY DEF EndArg, At, CellSteps, Inside
<1>2. /\ it \in Items /\ Cell \in Types /\ Cell = types[it.cell]
      /\ it.n \in 1..Len(it.fun.params) /\ it.pop \in Nat /\ it.fun.params \in Seq(Types)
  <2>1. it \in Items /\ Nested(it, Len(types), Len(scopes))
    BY <1>1, TopInFunction DEF Inside
  <2>2. it.fun \in Locals /\ it.pop \in Nat
    BY <2>1 DEF Items
  <2>3. it.n \in 1..Len(it.fun.params)
    BY <1>1, <2>1 DEF Nested
  <2> QED BY <1>1, <2>1, <2>2, <2>3, CellType, LocalField DEF Cell
<1>3. bytes' = EmitAll(bytes, <<Instr("push", w, 0)>>) /\ Become(<<args>>)
  BY <1>2 DEF EndArg, Items
<1> SUFFICES ASSUME NEW s \in Good, t \in Good, Carries(it, s, t, types) PROVE Turned(s)
  BY DEF Taken
<1>4. Pushing(it.fun, it.n, it.pop, s, t) /\ Cell = it.fun.params[it.n] /\ Cell # "unit"
  <2>1. Pushing(it.fun, it.n, it.pop, s, t) /\ Cell = it.fun.params[it.n]
    BY <1>1, <1>2 DEF Carries
  <2>2. Callable(it.fun)
    BY <2>1 DEF Pushing
  <2> QED BY <1>2, <2>1, <2>2 DEF Callable
<1>5. /\ w \in Nat /\ w > 0 /\ w \in Widths \cup {0}
      /\ u \in Good
      /\ Instr("push", w, 0) \in InstrRecords
      /\ Effect(t, Instr("push", w, 0)) = u
  <2> HIDE DEF t
  <2> QED BY <1>2, <1>4, GoodPush
<1>6. Behind(bytes', Body) = u
  <2> HIDE DEF w, u
  <2>1. <<Instr("push", w, 0)>> \in Seq(InstrRecords)
    BY <1>5
  <2>2. Behind(bytes', Body) = After(t, <<Instr("push", w, 0)>>)
    BY <1>1, <1>3, <2>1, StepBehind
  <2> QED BY <1>5, <2>2, AfterOne
<1>7. w = TypeSize(it.fun.params[it.n])
  BY <1>4
<1> HIDE DEF it, w, t
<1>8. args \in Items /\ args.step = "args" /\ args.n = it.n - 1 /\ args.pop = it.pop + w /\ args.fun = it.fun
  <2>1. it.n - 1 \in Nat /\ it.pop + w \in Nat /\ "args" \in Steps
    BY <1>2, <1>5 DEF Steps
  <2> QED BY <1>2, <2>1 DEF Items
<1>9. Pushing(it.fun, it.n - 1, it.pop + w, s, u)
  <2> DEFINE fun == it.fun
             n   == it.n
             pop == it.pop
  <2>1. /\ fun.params \in Seq(Types) /\ n \in 1..Len(fun.params) /\ pop \in Nat
        /\ Pushing(fun, n, pop, s, t) /\ w \in Nat /\ w > 0 /\ w = TypeSize(fun.params[n])
    BY <1>2, <1>4, <1>5, <1>7
  <2> HIDE DEF fun, n, pop
  <2>2. Pushing(fun, n - 1, pop + w, s, Pushed(t, w))
    BY <2>1, PushingMore
  <2> QED BY <2>2 DEF fun, n, pop
<1> HIDE DEF u, args
<1>10. Carries(args, s, u, types')
  BY <1>8, <1>9 DEF Carries, Level, Odd
<1> QED BY <1>3, <1>5, <1>6, <1>8, <1>10, OneTurned

\* ... and dropping as many bytes as were pushed drops them all.
LEMMA ArgumentsDrop ==
    ASSUME NEW s \in Good, NEW t \in Good, NEW pop \in Nat, t.sp = s.sp + pop,
           s.starts = {o \in t.starts : o < s.sp}, s.sp \in t.starts
    PROVE  Effect(t, Instr("add_sp", 0, pop)) = s
<1> DEFINE i == Instr("add_sp", 0, pop)
<1>1. i.op = "add_sp" /\ i.arg = pop
  BY DEF Instr
<1> HIDE DEF i
<1>2. s.sp \in Nat /\ t.sp \in Nat /\ t.sp - pop = s.sp /\ t # Bad /\ s = [sp |-> s.sp, starts |-> s.starts]
  BY StackKinds DEF Good
<1>3. Effect(t, i) = Popped(t, i.arg)
  <2>1. t.sp - i.arg \in t.starts
    BY <1>1, <1>2
  <2> QED BY <1>1, <1>2, <2>1, DropEffect
<1>4. Popped(t, pop) = s
  BY <1>2 DEF Popped
<1> QED BY <1>1, <1>3, <1>4 DEF i

LEMMA JoinOne == ASSUME NEW a, NEW b PROVE <<a>> \o <<b>> = <<a, b>>
<1> DEFINE S == {a, b}
<1>1. <<a>> \in Seq(S) /\ <<b>> \in Seq(S) /\ <<a, b>> \in Seq(S)
  OBVIOUS
<1>2. Len(<<a>>) = 1 /\ Len(<<b>>) = 1 /\ Len(<<a, b>>) = 2
  OBVIOUS
<1>3. <<a>> \o <<b>> \in Seq(S) /\ Len(<<a>> \o <<b>>) = 2
  BY <1>1, <1>2, ConcatProperties
<1>4. (<<a>> \o <<b>>)[1] = a /\ (<<a>> \o <<b>>)[2] = b
  BY <1>1, <1>2, ConcatProperties
<1> DEFINE u == <<a>> \o <<b>>
           v == <<a, b>>
<1>5. v[1] = a /\ v[2] = b
  OBVIOUS
<1>6. u \in Seq(S) /\ v \in Seq(S) /\ Len(u) = 2 /\ Len(v) = 2 /\ u[1] = a /\ u[2] = b
  BY <1>1, <1>2, <1>3, <1>4
<1> HIDE DEF S, u, v
<1>7. \A i \in 1..Len(u) : u[i] = v[i]
  BY <1>5, <1>6
<1>8. Len(u) = Len(v)
  BY <1>6
<1>9. u = v
  BY <1>6, <1>7, <1>8, SeqEqual, Zenon
<1> QED BY <1>9 DEF u, v

LEMMA EndCallTaken ==
    ASSUME SourceTypes, Shape, Branches, EndCall
    PROVE  Taken
<1> DEFINE fun  == Top.fun
           pop  == Top.pop
           call == IF fun.id = "sysfun" THEN Instr("sysfun", 0, SysFunIdx(fun))
                                        ELSE Instr("call", 0, fun.offset)
           drop == Instr("add_sp", 0, pop)
           t    == Behind(bytes, Body)
<1>1. Top.step = "args" /\ Inside /\ Top.n = 0 /\ work' = Front(work)
  BY DEF EndCall, At, Inside
<1>2. Top \in Items
  BY <1>1, TopInFunction DEF Inside
<1>3. fun \in Locals /\ pop \in Nat /\ fun.offset \in Int
  <2>1. fun \in Locals /\ pop \in Nat
    BY <1>2 DEF Items
  <2> QED BY <2>1, LocalField
<1>4. bytes' = EmitAll(bytes, <<call>> \o (IF pop = 0 THEN <<>> ELSE <<drop>>))
  BY DEF EndCall, CallCode
<1> SUFFICES ASSUME NEW s \in Good, t \in Good, Carries(Top, s, t, types) PROVE Turned(s)
  BY DEF Taken
<1>5. Pushing(fun, 0, pop, s, t)
  BY <1>1 DEF Carries
<1> HIDE DEF fun, pop, t
<1>6. drop \in InstrRecords /\ (pop # 0 => Effect(t, drop) = s)
  <2>1. "add_sp" \in Ops /\ 0 \in Widths \cup {0} /\ pop \in Int
    BY <1>3 DEF Ops, WithOperand
  <2>2. drop \in InstrRecords
    BY <2>1, InstrType, Zenon
  <2>3. ASSUME pop # 0 PROVE Effect(t, drop) = s
    <3>1. t.sp = s.sp + pop /\ s.starts = {o \in t.starts : o < s.sp} /\ s.sp \in t.starts
      BY <1>5, <2>3 DEF Pushing
    <3> HIDE DEF drop
    <3>2. t \in Good
      OBVIOUS
    <3>3. Effect(t, Instr("add_sp", 0, pop)) = s
      BY <1>3, <3>1, <3>2, ArgumentsDrop
    <3> QED BY <3>3 DEF drop
  <2> QED BY <2>2, <2>3
<1>7. call \in InstrRecords /\ Effect(t, call) = t /\ (pop = 0 => t = s)
  <2>1. CASE fun.id = "sysfun"
    <3> DEFINE k == SysFunIdx(fun)
               w == SysFunWidths[k + 1]
               i == Instr("sysfun", 0, k)
    <3>1. call = i
      BY <2>1
    <3>2. k \in 0..3 /\ k \in Int
      BY DEF SysFunIdx
    <3>3. t = Pushed(s, w) /\ t.sp = s.sp + pop
      BY <1>5, <2>1 DEF Pushing
    <3>4. i.op = "sysfun" /\ i.arg = k
      BY DEF Instr
    <3>5. i \in InstrRecords
      <4>1. "sysfun" \in Ops /\ 0 \in Widths \cup {0}
        BY DEF Ops, WithOperand
      <4> HIDE DEF k
      <4> QED BY <3>2, <4>1, InstrType, Zenon
    <3> HIDE DEF k
    <3>6. w \in Nat /\ w > 0
      BY <3>2 DEF SysFunWidths
    <3> HIDE DEF w, i, call
    <3>7. OnTop(t, w)
      BY <3>3, <3>6, PushedOnTop
    <3>8. OnTop(t, SysFunWidths[i.arg + 1])
      BY <3>4, <3>7 DEF w
    <3>9. t # Bad
      BY StackKinds
    <3>10. Effect(t, i) = t
      BY <3>4, <3>8, <3>9, SysFunEffect, Zenon
    <3>11. pop # 0
      <4>1. Pushed(s, w).sp = s.sp + w
        BY DEF Pushed
      <4>2. s.sp \in Nat
        BY DEF Good
      <4> QED BY <1>3, <3>3, <3>6, <4>1, <4>2
    <3> QED BY <3>1, <3>5, <3>10, <3>11
  <2>2. CASE fun.id # "sysfun"
    <3>1. call = Instr("call", 0, fun.offset)
      BY <2>2
    <3>2. "call" \in {"mov_imm", "mov_a_offset", "mov_offset_a", "call"} \cup UnaryOps \cup SetOps
          /\ 0 \in Widths \cup {0}
      OBVIOUS
    <3>3. Instr("call", 0, fun.offset) \in Still
      BY <1>3, <3>2, StillInstr, Zenon
    <3> HIDE DEF call
    <3>4. call \in InstrRecords /\ Effect(t, call) = t
      BY <3>1, <3>3, StillEffect, StackKinds
    <3> QED BY <1>5, <3>4 DEF Pushing
  <2> QED BY <2>1, <2>2
<1> HIDE DEF call, drop
<1>8. Behind(bytes', Body) = s
  <2>1. CASE pop = 0
    <3>1. bytes' = EmitAll(bytes, <<call>>)
      BY <1>4, <2>1
    <3>2. <<call>> \in Seq(InstrRecords)
      BY <1>7
    <3>3. Behind(bytes', Body) = After(t, <<call>>)
      BY <1>1, <3>1, <3>2, StepBehind DEF t
    <3> QED BY <1>7, <2>1, <3>3, AfterOne
  <2>2. CASE pop # 0
    <3>0. bytes' = EmitAll(bytes, <<call>> \o <<drop>>)
      BY <1>4, <2>2
    <3>1. bytes' = EmitAll(bytes, <<call, drop>>)
      BY <3>0, JoinOne
    <3>2. <<call, drop>> \in Seq(InstrRecords)
      BY <1>6, <1>7
    <3>3. Behind(bytes', Body) = After(t, <<call, drop>>)
      BY <1>1, <3>1, <3>2, StepBehind DEF t
    <3> QED BY <1>6, <1>7, <2>2, <3>3, AfterTwo
  <2> QED BY <2>1, <2>2
<1> QED BY <1>1, <1>8, PoppedTurned

\* Every step of an expression keeps to what its handler has to leave.
LEMMA ExpressionTaken ==
    ASSUME SourceTypes, Shape, Branches, Callables, Expression
    PROVE  UNCHANGED <<bytes, work>> \/ Taken
<1> DEFINE P == UNCHANGED <<bytes, work>> \/ Taken
<1>1. ASSUME Fail \/ Taken PROVE P
  BY <1>1, FailSame
<1>2. ASSUME Arg \/ EndCall \/ EndBinary PROVE P
  BY <1>2, ArgTaken, EndCallTaken, EndBinaryTaken
<1>3. ASSUME EndArg \/ EndUnary \/ Store \/ Push \/ EndAssgn PROVE Fail \/ Taken
  BY <1>3, EndArgTaken, EndUnaryTaken, PushTaken, EndAssgnTaken
<1>4. ASSUME NEW id \in {"int", "float", "string"}, NEW v \in Literals \cup FloatImages, Literal(id, v)
      PROVE  Fail \/ Taken
  BY <1>4, LiteralTaken, Zenon
<1>5. ASSUME NEW name \in UsedNames, Ident(name) PROVE Fail \/ Taken
  BY <1>5, IdentTaken, Zenon
<1>6. ASSUME NEW name \in UsedNames, NEW n \in 0..MaxArgs, Call(name, n) PROVE P
  BY <1>6, CallTaken, Zenon
<1>7. ASSUME NEW op \in UnOps, EmitUnary(op) PROVE P
  BY <1>7, EmitUnaryTaken, Zenon
<1>8. ASSUME NEW op \in BinOps, EmitBinary(op) PROVE P
  BY <1>8, EmitBinaryTaken, Zenon
<1>9. ASSUME NEW name \in UsedNames, NEW op \in AssignOps, Assign(name, op) PROVE P
  BY <1>9, AssignTaken, Zenon
<1> HIDE DEF P
<1>10. P
  BY <1>1, <1>2, <1>3, <1>4, <1>5, <1>6, <1>7, <1>8, <1>9, Zenon DEF Expression
<1> QED BY <1>10 DEF P

-----------------------------------------------------------------------------
(* Statements, which find the stack empty and leave it so.                 *)

Cleared == Behind(bytes', Body) = Empty /\ Leaves(Odd)

LEMMA LevelSteps == \A step \in Level \cup {"expr"} : step \in Steps /\ step \notin Odd
  BY DEF Level, Odd, Steps

LEMMA BareOps ==
    \A op \in {"mov_imm", "mov_a_offset", "leave", "ret", "exit", "jz", "jmp"} :
        op \in Ops /\ op \notin ArithOps \cup {"cmp", "push", "sysfun", "add_sp"}
  BY DEF Ops, WithOperand, ArithOps

LEMMA BareInstr ==
    ASSUME NEW op \in {"mov_imm", "mov_a_offset", "leave", "ret", "exit", "jz", "jmp"},
           NEW w \in Widths \cup {0}, NEW arg \in Int
    PROVE  Instr(op, w, arg) \in Bare
<1>1. op \in Ops /\ op \notin ArithOps \cup {"cmp", "push", "sysfun", "add_sp"}
  BY BareOps
<1>2. Instr(op, w, arg) \in InstrRecords
  BY <1>1, InstrType, Zenon
<1> QED BY <1>1, <1>2 DEF Bare, Instr

\* What a statement emits is without an effect on the empty stack.
LEMMA BareCleared ==
    ASSUME SourceTypes, Shape, Branches, Inside, Behind(bytes, Body) = Empty,
           Emits(Bare), Leaves(Odd)
    PROVE  Cleared
<1>1. PICK s \in Seq(Bare) : bytes' = EmitAll(bytes, s)
  BY DEF Emits
<1>2. s \in Seq(InstrRecords)
  BY StackKinds
<1>3. Behind(bytes', Body) = After(Behind(bytes, Body), s)
  BY <1>1, <1>2, StepBehind
<1>4. After(Empty, s) = Empty
  BY AfterBare
<1> QED BY <1>3, <1>4 DEF Cleared

LEMMA SameCleared ==
    ASSUME SourceTypes, Shape, Branches, Inside, Behind(bytes, Body) = Empty,
           UNCHANGED bytes, Leaves(Odd)
    PROVE  Cleared
<1>1. Emits(Bare)
  BY EmitsNone, StackKinds
<1> QED BY <1>1, BareCleared

\* What statements leave to do holds no operand.
LEMMA StatementItems ==
    ASSUME SourceTypes
    PROVE  /\ CloseScope \in Items /\ CloseScope.step \notin Odd
           /\ Item("stmts") \in Items /\ Item("stmts").step \notin Odd
           /\ Item("ifjmp") \in Items /\ Item("ifjmp").step \notin Odd
<1> DEFINE n  == Len(scopes) + 1
           it == Item("endscope")
<1>1. n \in Nat
  BY DEF SourceTypes
<1>2. "endscope" \in Steps \ Odd /\ "stmts" \in Steps \ Odd /\ "ifjmp" \in Steps \ Odd
  BY LevelSteps DEF Level
<1>3. it \in Items /\ it.step = "endscope"
  BY <1>2, ItemType
<1> HIDE DEF it
<1>4. [it EXCEPT !.n = n] \in Items /\ [it EXCEPT !.n = n].step = it.step
  BY <1>1, <1>3, NumberedItem, Zenon
<1> QED BY <1>2, <1>3, <1>4, ItemType DEF CloseScope, it

LEMMA MoreEven ==
    ASSUME SourceTypes, Shape, Top.step = "stmts"
    PROVE  More \in Items /\ More.step \notin Odd
<1>1. Top \in Items
  BY TopInFunction, Zenon
<1>2. [Top EXCEPT !.n = 1] \in Items /\ [Top EXCEPT !.n = 1].step = Top.step
  <2>1. 1 \in Nat
    OBVIOUS
  <2> QED BY <1>1, <2>1, NumberedItem, Zenon
<1>3. "stmts" \notin Odd
  BY DEF Odd
<1> QED BY <1>2, <1>3 DEF More

LEMMA CellEven ==
    ASSUME NEW step \in {"endvar", "ifjz", "whilejz", "endreturn", "expr"}, NEW c \in Nat
    PROVE  ItemWith(step, c) \in Items /\ ItemWith(step, c).step \notin Odd
<1>1. step \in Steps /\ step \notin Odd
  BY LevelSteps DEF Level
<1> QED BY <1>1, CellItem

\* Statements one by one: those that emit nothing here ...
LEMMA QuietCleared ==
    ASSUME SourceTypes, Shape, Branches, Behind(bytes, Body) = Empty,
           EndStmts \/ EndScope \/ EmitIf \/ EmitBlock \/ EmitMatch \/ EmitExprStmt
    PROVE  Cleared
<1>1. CASE EndStmts \/ EndScope
  <2>1. Inside /\ UNCHANGED bytes /\ work' = Front(work)
    BY <1>1 DEF EndStmts, EndScope, At, Inside
  <2> QED BY <2>1, LeavesNone, SameCleared
<1>2. CASE EmitIf \/ EmitBlock \/ EmitMatch \/ EmitExprStmt
  <2>1. Top.step = "stmts" /\ Inside /\ UNCHANGED bytes
    BY <1>2 DEF EmitIf, EmitBlock, EmitMatch, EmitExprStmt, At, Inside
  <2>2. NewCell \in Nat
    BY DEF NewCell, SourceTypes
  <2>3. \/ Become(<<More, ItemWith("ifjz", NewCell), ItemWith("expr", NewCell)>>)
        \/ Become(<<More, CloseScope, Item("stmts")>>)
        \/ Become(<<More>>)
        \/ Become(<<More, ItemWith("expr", NewCell)>>)
    BY <1>2 DEF EmitIf, EmitBlock, EmitMatch, EmitExprStmt
  <2>4. More \in Items /\ More.step \notin Odd
    BY <2>1, MoreEven
  <2>5. Leaves(Odd)
    BY <2>2, <2>3, <2>4, CellEven, StatementItems, LeavesOne, LeavesTwo, LeavesThree, Zenon
  <2> QED BY <2>1, <2>5, SameCleared
<1> QED BY <1>1, <1>2

\* ... declarations ...
LEMMA EmitVarCleared ==
    ASSUME SourceTypes, Shape, Branches, Behind(bytes, Body) = Empty,
           NEW name \in VarNames, NEW t \in VarTypes, NEW init \in BOOLEAN, EmitVar(name, t, init)
    PROVE  Cleared
<1> DEFINE it  == ItemWith("endvar", NewCell)
           end == [it EXCEPT !.word = name]
           ex  == ItemWith("expr", NewCell)
<1>1. Top.step = "stmts" /\ Inside /\ NewCell \in Nat
  BY DEF EmitVar, At, Inside, NewCell, SourceTypes
<1>2. More \in Items /\ More.step \notin Odd
  BY <1>1, MoreEven, Zenon
<1>3. name \in Names \cup Operators
  BY SourceAssumption DEF Names
<1>4. end \in Items /\ end.step \notin Odd
  <2>1. it \in Items /\ it.step \notin Odd
    BY <1>1, CellEven
  <2> HIDE DEF it
  <2> QED BY <1>3, <2>1, NamedItem
<1>5. ex \in Items /\ ex.step \notin Odd
  BY <1>1, CellEven
<1>6. CASE init
  <2>1. UNCHANGED bytes /\ Become(<<More, end, ex>>)
    BY <1>6 DEF EmitVar
  <2> HIDE DEF end, ex
  <2> QED BY <1>1, <1>2, <1>4, <1>5, <2>1, LeavesThree, SameCleared
<1>7. CASE ~init
  <2>1. bytes' = EmitAll(bytes, <<Instr("mov_imm", 8, 0)>>) /\ Become(<<More, end>>)
    BY <1>7 DEF EmitVar
  <2>2. Instr("mov_imm", 8, 0) \in Bare
    <3>1. 8 \in Widths \cup {0} /\ 0 \in Int
      BY DEF Widths
    <3> QED BY <3>1, BareInstr
  <2> HIDE DEF end, ex
  <2>3. Emits(Bare) /\ Leaves(Odd)
    BY <1>2, <1>4, <2>1, <2>2, LeavesTwo, EmitsOne, Zenon
  <2> QED BY <1>1, <2>3, BareCleared
<1> QED BY <1>6, <1>7

LEMMA EndVarCleared ==
    ASSUME SourceTypes, Shape, Branches, Behind(bytes, Body) = Empty, EndVar
    PROVE  UNCHANGED <<bytes, work>> \/ Cleared
<1> DEFINE size   == TypeSize(Cell)
           offset == offset_counter - size
<1>1. Top.step \in CellSteps /\ Inside
  BY DEF EndVar, At, CellSteps, Inside
<1>2. size \in Widths \cup {0} /\ size \in Nat /\ offset \in Int
  BY <1>1, CellType DEF SourceTypes
<1>3. \/ UNCHANGED <<bytes, work>>
      \/ bytes' = EmitAll(bytes, <<Instr("mov_a_offset", size, offset)>>) /\ work' = Front(work)
  BY DEF EndVar
<1> HIDE DEF size, offset
<1>4. Instr("mov_a_offset", size, offset) \in Bare
  BY <1>2, BareInstr
<1>5. CASE bytes' = EmitAll(bytes, <<Instr("mov_a_offset", size, offset)>>) /\ work' = Front(work)
  <2>1. Emits(Bare) /\ Leaves(Odd)
    BY <1>4, <1>5, EmitsOne, LeavesNone, Zenon
  <2> QED BY <1>1, <2>1, BareCleared
<1> QED BY <1>3, <1>5

\* ... returns ...
LEMMA EmitReturnCleared ==
    ASSUME SourceTypes, Shape, Branches, Behind(bytes, Body) = Empty,
           NEW expr \in BOOLEAN, EmitReturn(expr)
    PROVE  Cleared
<1>1. Top.step = "stmts" /\ Inside /\ NewCell \in Nat
  BY DEF EmitReturn, At, Inside, NewCell, SourceTypes
<1>2. More \in Items /\ More.step \notin Odd
  BY <1>1, MoreEven, Zenon
<1>3. CASE expr
  <2>1. UNCHANGED bytes
    BY <1>3 DEF EmitReturn
  <2>2. Become(<<More, ItemWith("endreturn", NewCell), ItemWith("expr", NewCell)>>)
    BY <1>3 DEF EmitReturn
  <2>3. Leaves(Odd)
    BY <1>1, <1>2, <2>2, CellEven, LeavesThree, Zenon
  <2> QED BY <1>1, <2>1, <2>3, SameCleared
<1>4. CASE ~expr
  <2>1. /\ bytes' = EmitAll(bytes, <<Instr("leave", 0, 0), Instr("ret", 0, 0)>>)
        /\ Become(<<More>>)
    BY <1>4 DEF EmitReturn
  <2>2. Instr("leave", 0, 0) \in Bare /\ Instr("ret", 0, 0) \in Bare
    BY BareInstr
  <2>3. Emits(Bare) /\ Leaves(Odd)
    BY <1>2, <2>1, <2>2, LeavesOne, EmitsTwo, Zenon
  <2> QED BY <1>1, <2>3, BareCleared
<1> QED BY <1>3, <1>4

LEMMA EndReturnCleared ==
    ASSUME SourceTypes, Shape, Branches, Behind(bytes, Body) = Empty, EndReturn
    PROVE  Fail \/ Cleared
<1> SUFFICES ASSUME ~Fail PROVE Cleared
  OBVIOUS
<1> DEFINE cast == CastCode(Cell, fun_ret_type)
           tail == <<Instr("leave", 0, 0), Instr("ret", 0, 0)>>
<1>1. /\ ~CastFails(Cell, fun_ret_type)
      /\ bytes' = EmitAll(bytes, cast \o tail)
      /\ work' = Front(work)
  BY DEF EndReturn
<1>2. Top.step \in CellSteps /\ Inside
  BY DEF EndReturn, At, CellSteps, Inside
<1>3. cast \in Seq(Bare)
  <2>1. cast \in Seq(Still)
    BY <1>1, <1>2, CellType, StillCast DEF SourceTypes
  <2>2. Still \subseteq Bare
    BY DEF Still, Bare
  <2> HIDE DEF cast
  <2> QED BY <2>1, <2>2
<1>4. tail \in Seq(Bare)
  <2>1. Instr("leave", 0, 0) \in Bare /\ Instr("ret", 0, 0) \in Bare
    BY BareInstr
  <2> HIDE DEF cast
  <2> QED BY <2>1
<1> HIDE DEF cast, tail
<1>5. Emits(Bare) /\ Leaves(Odd)
  BY <1>1, <1>3, <1>4, EmitsBoth, LeavesNone
<1> QED BY <1>2, <1>5, BareCleared

\* A patched branch has the effect it had.
LEMMA PatchBehind ==
    ASSUME NEW b, BytesOK(b), NEW first \in Nat, first <= b.used,
           NEW x, x \in DOMAIN b.code => b.code[x].op \in Jumps, NEW arg \in Int
    PROVE  Behind(Patch(b, x, arg), first) = Behind(b, first)
<1> DEFINE c == Patch(b, x, arg)
           N == b.used - first
<1>1. /\ BytesOK(c) /\ c.used = b.used
      /\ DOMAIN c.code = DOMAIN b.code
      /\ \A y \in DOMAIN b.code : c.code[y].op = b.code[y].op /\ (y # x => c.code[y] = b.code[y])
  BY PatchChanges
<1>2. N \in Nat
  BY DEF BytesOK
<1> HIDE DEF c, N
<1>3. \A y \in DOMAIN b.code : b.code[y] = c.code[y] \/ (b.code[y].op = c.code[y].op /\ b.code[y].op \in Jumps)
  BY <1>1
<1>4. /\ \A y \in DOMAIN b.code : b.code[y] \in InstrRecords
      /\ \A y \in DOMAIN c.code : c.code[y] \in InstrRecords
  BY <1>1 DEF BytesOK
<1> DEFINE d == b.code
           e == c.code
<1>5. \A n \in 0..N : Stacks(d, first)[n] = Stacks(e, first)[n]
  <2>1. /\ \A y \in DOMAIN d : d[y] \in InstrRecords
        /\ \A y \in DOMAIN e : e[y] \in InstrRecords
        /\ \A y \in Nat : y >= first /\ y < first + N =>
               /\ y \in DOMAIN d <=> y \in DOMAIN e
               /\ y \in DOMAIN d => d[y] = e[y] \/ (d[y].op = e[y].op /\ d[y].op \in Jumps)
    BY <1>1, <1>3, <1>4
  <2> HIDE DEF d, e
  <2> QED BY <1>2, <2>1, SameStacks
<1>6. N \in 0..N
  BY <1>2
<1>7. Stacks(b.code, first)[N] = Stacks(c.code, first)[N]
  BY <1>5, <1>6
<1> QED BY <1>1, <1>7 DEF Behind, N, c

\* ... loops and conditions ...
LEMMA EmitWhileCleared ==
    ASSUME SourceTypes, Shape, Branches, Behind(bytes, Body) = Empty, EmitWhile
    PROVE  Cleared
<1> DEFINE it  == ItemWith("whilejz", NewCell)
           jz  == [it EXCEPT !.to = bytes.used]
           ex  == ItemWith("expr", NewCell)
<1>1. Top.step = "stmts" /\ Inside /\ NewCell \in Nat /\ UNCHANGED bytes /\ Become(<<More, jz, ex>>)
  BY DEF EmitWhile, At, Inside, NewCell, SourceTypes
<1>2. More \in Items /\ More.step \notin Odd
  BY <1>1, MoreEven, Zenon
<1>3. jz \in Items /\ jz.step \notin Odd
  <2>1. it \in Items /\ it.step \notin Odd
    BY <1>1, CellEven
  <2>2. bytes.used \in Nat
    BY DEF SourceTypes, BytesOK
  <2> HIDE DEF it
  <2> QED BY <2>1, <2>2 DEF Items
<1>4. ex \in Items /\ ex.step \notin Odd
  BY <1>1, CellEven
<1> HIDE DEF jz, ex
<1> QED BY <1>1, <1>2, <1>3, <1>4, LeavesThree, SameCleared

LEMMA GuardCleared ==
    ASSUME SourceTypes, Shape, Branches, Behind(bytes, Body) = Empty, Inside,
           NEW w \in Widths \cup {0}, bytes' = EmitAll(bytes, <<Instr("jz", w, 0)>>),
           NEW end \in Items, end.step \notin Odd, Become(<<end, CloseScope, Item("stmts")>>)
    PROVE  Cleared
<1>1. Instr("jz", w, 0) \in Bare
  <2> DEFINE z == 0
  <2>1. z \in Int
    OBVIOUS
  <2> HIDE DEF z
  <2>2. Instr("jz", w, z) \in Bare
    BY <2>1, BareInstr
  <2> QED BY <2>2 DEF z
<1>2. Emits(Bare) /\ Leaves(Odd)
  BY <1>1, StatementItems, EmitsOne, LeavesThree, Zenon
<1> QED BY <1>2, BareCleared

LEMMA JzCleared ==
    ASSUME SourceTypes, Shape, Branches, Behind(bytes, Body) = Empty, IfJz \/ WhileJz
    PROVE  Fail \/ Cleared
<1> SUFFICES ASSUME ~Fail PROVE Cleared
  OBVIOUS
<1> DEFINE w == TypeSize(Cell)
<1>1. Inside /\ Top.step \in CellSteps /\ (WhileJz => Top.step = "whilejz")
  BY DEF IfJz, WhileJz, At, Inside, CellSteps
<1>2. w \in Widths \cup {0} /\ bytes.used \in Nat
  BY <1>1, CellType DEF SourceTypes, BytesOK
<1>3. bytes' = EmitAll(bytes, <<Instr("jz", w, 0)>>)
  BY DEF IfJz, WhileJz
<1> HIDE DEF w
<1>4. CASE IfJz
  <2> DEFINE it  == Item("ifjmp")
             end == [it EXCEPT !.jz = bytes.used]
  <2>1. Become(<<end, CloseScope, Item("stmts")>>)
    BY <1>4 DEF IfJz
  <2>2. it \in Items /\ it.step \notin Odd
    BY StatementItems
  <2> HIDE DEF it
  <2>3. end \in Items /\ end.step \notin Odd
    BY <1>2, <2>2 DEF Items
  <2> HIDE DEF end
  <2> QED BY <1>1, <1>2, <1>3, <2>1, <2>3, GuardCleared
<1>5. CASE WhileJz
  <2> DEFINE it  == Item("endwhile")
             end == [it EXCEPT !.jz = bytes.used, !.to = Top.to]
  <2>1. Become(<<end, CloseScope, Item("stmts")>>)
    BY <1>5 DEF WhileJz
  <2>2. it \in Items /\ it.step \notin Odd
    <3>1. "endwhile" \in Steps \ Odd
      BY LevelSteps DEF Level
    <3> QED BY <3>1, ItemType
  <2>3. Top \in Items
    BY <1>1, BodyType
  <2>4. Top.to \in Nat
    BY <2>3 DEF Items
  <2> HIDE DEF it
  <2>5. end \in Items /\ end.step \notin Odd
    BY <1>2, <2>2, <2>4 DEF Items
  <2> HIDE DEF end
  <2> QED BY <1>1, <1>2, <1>3, <2>1, <2>5, GuardCleared
<1> QED BY <1>4, <1>5

\* ... and what patches branches.
LEMMA IfJmpCleared ==
    ASSUME SourceTypes, SourceTypes', Shape, Branches, Behind(bytes, Body) = Empty,
           NEW else \in {"none", "elseif", "else"}, IfJmp(else)
    PROVE  Cleared
<1> DEFINE b    == EmitAll(bytes, <<Instr("jmp", 0, 0)>>)
           it   == Item("endif")
           end  == [it EXCEPT !.jz = Top.jz, !.jmp = bytes.used, !.to = b.used]
           jz   == ItemWith("ifjz", NewCell)
           ex   == ItemWith("expr", NewCell)
           jmp  == Item("ifjmp")
           stmts == Item("stmts")
<1>1. Inside /\ bytes' = b /\ NewCell \in Nat
  BY DEF IfJmp, At, Inside, NewCell, SourceTypes
<1>2. bytes.used \in Nat /\ b.used \in Nat /\ Top.jz \in Nat \cup {None}
  <2>1. Top \in Items
    BY <1>1, BodyType
  <2>2. BytesOK(bytes') /\ BytesOK(bytes)
    BY DEF SourceTypes
  <2> HIDE DEF b
  <2> QED BY <1>1, <2>1, <2>2 DEF BytesOK, Items
<1>3. it \in Items /\ it.step \notin Odd
  <2>1. "endif" \in Steps \ Odd
    BY LevelSteps DEF Level
  <2> QED BY <2>1, ItemType
<1>4. \/ Become(<<end>>) \/ Become(<<end, jz, ex>>) \/ Become(<<end, jmp, CloseScope, stmts>>)
  BY DEF IfJmp
<1>5. jz \in Items /\ jz.step \notin Odd /\ ex \in Items /\ ex.step \notin Odd
  BY <1>1, CellEven
<1>6. /\ CloseScope \in Items /\ CloseScope.step \notin Odd
      /\ stmts \in Items /\ stmts.step \notin Odd /\ jmp \in Items /\ jmp.step \notin Odd
  BY StatementItems
<1>7. Emits(Bare)
  <2>1. 0 \in Widths \cup {0} /\ 0 \in Int
    OBVIOUS
  <2>2. Instr("jmp", 0, 0) \in Bare
    BY <2>1, BareInstr
  <2> QED BY <1>1, <2>2, EmitsOne
<1> HIDE DEF it, b
<1>8. end \in Items /\ end.step \notin Odd
  BY <1>2, <1>3 DEF Items
<1> HIDE DEF end, jz, ex, jmp, stmts
<1>9. Leaves(Odd)
  BY <1>4, <1>5, <1>6, <1>8, LeavesOne, LeavesThree, LeavesFour, Zenon
<1> QED BY <1>1, <1>7, <1>9, BareCleared

LEMMA EndIfCleared ==
    ASSUME SourceTypes, Shape, Branches, Behind(bytes, Body) = Empty, EndIf
    PROVE  Cleared
<1> DEFINE b == IF Top.jz = None THEN bytes ELSE Patch(bytes, Top.jz, Top.to)
           home == Body
<1>1. Top.step = "endif" /\ Inside /\ bytes' = Patch(b, Top.jmp, bytes.used) /\ work' = Front(work)
  BY DEF EndIf, At, Inside
<1>2. /\ home \in Nat /\ home <= bytes.used /\ bytes.used \in Nat /\ Branch(Top)
      /\ Top \in Items
  BY <1>1, BodyType
<1>3. /\ Top.to \in Int /\ BytesOK(bytes) /\ IsJump(Top.jmp)
      /\ Top.jz # None => IsJump(Top.jz)
  BY <1>1, <1>2 DEF Branch, Waits, Items, SourceTypes
<1> HIDE DEF home
<1>4. /\ BytesOK(b) /\ b.used = bytes.used /\ Behind(b, home) = Behind(bytes, home)
      /\ Top.jmp \in DOMAIN b.code /\ b.code[Top.jmp].op \in Jumps
  <2>1. CASE Top.jz = None
    BY <1>3, <2>1 DEF IsJump
  <2>2. CASE Top.jz # None
    <3>1. b = Patch(bytes, Top.jz, Top.to)
      BY <2>2
    <3>2. bytes.code[Top.jz].op \in Jumps
      BY <1>3, <2>2 DEF IsJump
    <3> HIDE DEF b
    <3>3. Behind(b, home) = Behind(bytes, home)
      BY <1>2, <1>3, <3>1, <3>2, PatchBehind
    <3>4. /\ BytesOK(b) /\ b.used = bytes.used /\ DOMAIN b.code = DOMAIN bytes.code
          /\ \A y \in DOMAIN bytes.code : b.code[y].op = bytes.code[y].op
      BY <1>3, <3>1, PatchChanges
    <3> QED BY <1>3, <3>3, <3>4 DEF IsJump
  <2> QED BY <2>1, <2>2
<1> HIDE DEF b
<1>5. Behind(bytes', home) = Behind(b, home)
  BY <1>1, <1>2, <1>4, PatchBehind
<1>6. Behind(bytes', Body) = Behind(bytes, Body)
  BY <1>4, <1>5 DEF home
<1> QED BY <1>1, <1>6, LeavesNone DEF Cleared

LEMMA EndWhileCleared ==
    ASSUME SourceTypes, Shape, Branches, Behind(bytes, Body) = Empty, EndWhile
    PROVE  Cleared
<1> DEFINE i == Instr("jmp", 0, Top.to)
           b == EmitAll(bytes, <<i>>)
           home == Body
<1>1. Top.step = "endwhile" /\ Inside /\ bytes' = Patch(b, Top.jz, b.used) /\ work' = Front(work)
  BY DEF EndWhile, At, Inside
<1>2. /\ home \in Nat /\ home <= bytes.used /\ bytes.used \in Nat /\ Branch(Top)
      /\ Top \in Items
  BY <1>1, BodyType
<1>3. Top.to \in Int /\ BytesOK(bytes) /\ IsJump(Top.jz)
  BY <1>1, <1>2 DEF Branch, Waits, Items, SourceTypes
<1>4. /\ BytesOK(b) /\ b.used > bytes.used
      /\ DOMAIN b.code = DOMAIN bytes.code \cup {bytes.used}
      /\ \A x \in DOMAIN bytes.code : x # bytes.used /\ b.code[x] = bytes.code[x]
  <2>1. "jmp" \in Jumps /\ 0 \in Widths \cup {0}
    BY DEF Jumps
  <2> QED BY <1>1, <1>3, <2>1, EmitJump
<1>5. i \in Bare
  <2>1. 0 \in Widths \cup {0} /\ Top.to \in Int
    BY <1>3
  <2> QED BY <2>1, BareInstr
<1>6. Behind(b, home) = Empty
  <2>1. <<i>> \in Seq(Bare)
    <3> HIDE DEF i
    <3> QED BY <1>5
  <2>2. <<i>> \in Seq(InstrRecords)
    <3> HIDE DEF i
    <3> QED BY <1>5, StackKinds
  <2> DEFINE s == <<i>>
  <2> HIDE DEF home, i
  <2>3. Behind(EmitAll(bytes, s), home) = After(Behind(bytes, home), s)
    <3> HIDE DEF s
    <3> QED BY <1>2, <1>3, <2>2, EmitAllStack DEF s
  <2>4. After(Empty, s) = Empty
    BY <2>1, AfterBare
  <2> QED BY <2>3, <2>4 DEF home
<1>7. b.used \in Nat /\ Top.jz \in DOMAIN b.code /\ b.code[Top.jz].op \in Jumps
  <2> HIDE DEF b
  <2> QED BY <1>3, <1>4 DEF IsJump, BytesOK
<1> HIDE DEF b, home
<1>8. home <= b.used /\ b.used \in Int
  BY <1>2, <1>4, <1>7
<1>9. Behind(bytes', home) = Behind(b, home)
  BY <1>1, <1>2, <1>4, <1>7, <1>8, PatchBehind
<1>10. Behind(bytes', Body) = Empty
  BY <1>6, <1>9 DEF home
<1> QED BY <1>1, <1>10, LeavesNone DEF Cleared

\* Whatever its kind, a statement leaves the stack as empty as it found it.
LEMMA StatementCleared ==
    ASSUME SourceTypes, SourceTypes', Shape, Branches, Behind(bytes, Body) = Empty, Statement
    PROVE  UNCHANGED <<bytes, work>> \/ Cleared
<1> DEFINE P == UNCHANGED <<bytes, work>> \/ Cleared
<1>1. ASSUME Fail \/ Cleared PROVE P
  BY <1>1, FailSame
<1>2. ASSUME \/ EndStmts \/ EndScope \/ EmitIf \/ EmitBlock \/ EmitMatch \/ EmitExprStmt
             \/ EndIf \/ EmitWhile \/ EndWhile
      PROVE  P
  BY <1>2, QuietCleared, EndIfCleared, EmitWhileCleared, EndWhileCleared
<1>3. ASSUME EndReturn \/ IfJz \/ WhileJz PROVE Fail \/ Cleared
  BY <1>3, EndReturnCleared, JzCleared
<1>4. ASSUME EndVar PROVE P
  BY <1>4, EndVarCleared
<1>5. ASSUME NEW name \in VarNames, NEW t \in VarTypes, NEW init \in BOOLEAN, EmitVar(name, t, init)
      PROVE  P
  BY <1>5, EmitVarCleared, Zenon
<1>6. ASSUME NEW else \in {"none", "elseif", "else"}, IfJmp(else) PROVE P
  BY <1>6, IfJmpCleared, Zenon
<1>7. ASSUME NEW expr \in BOOLEAN, EmitReturn(expr) PROVE P
  BY <1>7, EmitReturnCleared, Zenon
<1> HIDE DEF P
<1>8. P
  BY <1>1, <1>2, <1>3, <1>4, <1>5, <1>6, <1>7, Zenon DEF Statement
<1> QED BY <1>8 DEF P

\* A statement keeps to what its handler has to leave.
LEMMA ClearedTaken ==
    ASSUME SourceTypes, Top.step \in Level, Cleared
    PROVE  Taken
<1> SUFFICES ASSUME NEW s \in Good, Carries(Top, s, Behind(bytes, Body), types) PROVE Turned(s)
  BY DEF Taken
<1>1. s = Empty
  BY CarriesLevel
<1> QED BY <1>1, EvenTurned DEF Cleared

\* Which handlers are of statements.
LEMMA StatementLevel ==
    ASSUME Statement
    PROVE  Top.step \in Level
<1>1. CASE EndStmts \/ EndScope \/ EndVar \/ EndReturn \/ EmitIf \/ IfJz \/ EndIf \/ EmitWhile
  BY <1>1 DEF EndStmts, EndScope, EndVar, EndReturn, EmitIf, IfJz, EndIf, EmitWhile, At, Level
<1>2. CASE WhileJz \/ EndWhile \/ EmitBlock \/ EmitMatch \/ EmitExprStmt
  BY <1>2 DEF WhileJz, EndWhile, EmitBlock, EmitMatch, EmitExprStmt, At, Level
<1>3. ASSUME NEW name \in VarNames, NEW t \in VarTypes, NEW init \in BOOLEAN, EmitVar(name, t, init)
      PROVE  Top.step \in Level
  BY <1>3 DEF EmitVar, At, Level
<1>4. ASSUME NEW else \in {"none", "elseif", "else"}, IfJmp(else)
      PROVE  Top.step \in Level
  BY <1>4 DEF IfJmp, At, Level
<1>5. ASSUME NEW expr \in BOOLEAN, EmitReturn(expr)
      PROVE  Top.step \in Level
  BY <1>5 DEF EmitReturn, At, Level
<1> QED BY <1>1, <1>2, <1>3, <1>4, <1>5, Zenon DEF Statement

LEMMA ExpressionLevel ==
    ASSUME Expression
    PROVE  Top.step \notin Level
<1>1. CASE Arg \/ EndArg \/ EndCall \/ EndUnary \/ Push \/ EndBinary \/ Store \/ EndAssgn
  BY <1>1 DEF Arg, EndArg, EndCall, EndUnary, Push, EndBinary, Store, EndAssgn, At, Level
<1>2. ASSUME Top.step = "expr" PROVE Top.step \notin Level
  BY <1>2 DEF Level
<1>3. ASSUME NEW id \in {"int", "float", "string"}, NEW v \in Literals \cup FloatImages, Literal(id, v)
      PROVE  Top.step = "expr"
  BY <1>3 DEF Literal, At
<1>4. ASSUME NEW name \in UsedNames, Ident(name) PROVE Top.step = "expr"
  BY <1>4 DEF Ident, At
<1>5. ASSUME NEW name \in UsedNames, NEW n \in 0..MaxArgs, Call(name, n) PROVE Top.step = "expr"
  BY <1>5 DEF Call, At
<1>6. ASSUME NEW op, EmitUnary(op) \/ EmitBinary(op) PROVE Top.step = "expr"
  BY <1>6 DEF EmitUnary, EmitBinary, At
<1>7. ASSUME NEW name \in UsedNames, NEW op \in AssignOps, Assign(name, op) PROVE Top.step = "expr"
  BY <1>7 DEF Assign, At
<1> QED BY <1>1, <1>2, <1>3, <1>4, <1>5, <1>6, <1>7, Zenon DEF Expression

\* Where a statement begins or goes on, the stack is empty.
LEMMA LevelEmpty ==
    ASSUME SourceTypes, Shape, Operands, Open, Inside, Top.step \in Level
    PROVE  Behind(bytes, Body) = Empty
<1> DEFINE n == Len(work)
<1>1. PICK d \in [3..(n + 1) -> Good] : Held(d)
  BY DEF Operands
<1>2. n \in Nat /\ n >= 3 /\ Top = work[n]
  BY TopInFunction DEF Inside, SourceTypes
<1>3. Carries(work[n], d[n], d[n + 1], types)
  BY <1>1, <1>2 DEF Held
<1>4. d[n + 1] = Empty
  <2> DEFINE s == d[n]
             t == d[n + 1]
             item == work[n]
  <2>1. Carries(item, s, t, types) /\ item.step \in Level
    BY <1>2, <1>3
  <2> HIDE DEF s, t, item, n
  <2>2. t = Empty
    BY <2>1, CarriesLevel
  <2> QED BY <2>2 DEF t, n
<1> QED BY <1>1, <1>4 DEF Held

\* So does every step inside a function.
LEMMA StatementOperands ==
    ASSUME SourceTypes, Shape, Branches, Callables, Operands, Kept, Statement \/ Expression
    PROVE  /\ Operands'
           /\ Top.step \in Level => Behind(bytes, Body) = Empty /\ Behind(bytes', Body) = Empty
<1>1. Inside /\ UNCHANGED funs /\ Typed /\ Rests /\ SourceTypes'
  BY StatementScopes, StatementFuns, StatementTyped, StatementBranches DEF Directed, Kept
<1>2. Open
  BY <1>1, BodyType
<1>3. UNCHANGED <<bytes, work>> => Taken
  BY <1>1, SameTaken
<1>4. CASE Statement
  <2>1. Top.step \in Level /\ Behind(bytes, Body) = Empty
    BY <1>1, <1>2, <1>4, StatementLevel, LevelEmpty
  <2>2. UNCHANGED <<bytes, work>> \/ Cleared
    BY <1>1, <1>4, <2>1, StatementCleared
  <2>3. Taken
    BY <1>3, <2>1, <2>2, ClearedTaken
  <2>4. Operands'
    BY <1>1, <1>2, <2>3, Turn
  <2>5. Behind(bytes', Body) = Empty
    BY <2>1, <2>2 DEF Cleared
  <2> QED BY <2>1, <2>4, <2>5
<1>5. CASE Expression
  <2>1. Top.step \notin Level
    BY <1>5, ExpressionLevel
  <2>2. Taken
    BY <1>3, <1>5, ExpressionTaken
  <2>3. Operands'
    BY <1>1, <1>2, <2>2, Turn
  <2> QED BY <2>1, <2>3
<1> QED BY <1>4, <1>5

-----------------------------------------------------------------------------
(* The stack where branches go to.                                         *)

\* The stack is empty in front of the address y of the body.
Flat(y) == y \in Body..bytes.used /\ Stacks(bytes.code, Body)[y - Body] = Empty

\* So it is wherever a branch goes to or is to be patched to go to.
Targets ==
    Open => /\ \A i \in 3..Len(work) :
                   work[i].step \in {"whilejz", "endif", "endwhile"} => Flat(work[i].to)
            /\ \A x \in DOMAIN bytes.code : x >= Home /\ bytes.code[x].op \in Jumps =>
                   Flat(bytes.code[x].arg) \/ \E i \in 3..Len(work) : Waits(work[i], x)

\* The code before an address stays what it is, but for operands of branches.
LEMMA FlatStays ==
    ASSUME SourceTypes, SourceTypes', Shape, Branches, Statement \/ Expression, NEW y, Flat(y)
    PROVE  Flat(y)'
<1> DEFINE b == Body
           N == bytes.used - b
           c == bytes.code
           d == bytes'.code
<1>1. b \in Nat /\ b <= bytes.used /\ bytes.used \in Nat
  BY StatementScopes, BodyType
<1>2. Grows /\ \A x \in DOMAIN bytes.code : bytes'.code[x] = bytes.code[x] \/ IsJump(x)
  BY StatementKeeps
<1>3. Body' = b
  BY StatementFuns DEF Body, Home
<1>4. bytes'.used \in Nat /\ bytes.used <= bytes'.used
  BY <1>2 DEF Grows
<1>5. N \in Nat
  BY <1>1
<1>6. /\ \A x \in DOMAIN c : c[x] \in InstrRecords
      /\ \A x \in DOMAIN d : d[x] \in InstrRecords
  BY DEF SourceTypes, BytesOK
<1>7. \A x \in Nat : x >= b /\ x < b + N =>
          /\ x \in DOMAIN c <=> x \in DOMAIN d
          /\ x \in DOMAIN c => c[x] = d[x] \/ (c[x].op = d[x].op /\ c[x].op \in Jumps)
  <2> SUFFICES ASSUME NEW x \in Nat, x >= b, x < b + N
               PROVE  /\ x \in DOMAIN c <=> x \in DOMAIN d
                      /\ x \in DOMAIN c => c[x] = d[x] \/ (c[x].op = d[x].op /\ c[x].op \in Jumps)
    OBVIOUS
  <2>1. x < bytes.used
    BY <1>1
  <2>2. x \in DOMAIN c <=> x \in DOMAIN d
    BY <1>2, <2>1 DEF Grows
  <2>3. x \in DOMAIN c => c[x] = d[x] \/ (c[x].op = d[x].op /\ c[x].op \in Jumps)
    BY <1>2 DEF Grows, IsJump
  <2> QED BY <2>2, <2>3
<1>8. y \in b..bytes.used /\ Stacks(c, b)[y - b] = Empty
  BY DEF Flat
<1>9. y - b \in 0..N
  BY <1>1, <1>8
<1> HIDE DEF b, N, c, d
<1>10. \A n \in 0..N : Stacks(c, b)[n] = Stacks(d, b)[n]
  BY <1>1, <1>5, <1>6, <1>7, SameStacks
<1>11. Stacks(d, b)[y - b] = Empty
  BY <1>8, <1>9, <1>10
<1>12. y \in b..bytes'.used
  BY <1>1, <1>4, <1>8
<1> QED BY <1>3, <1>11, <1>12 DEF Flat, d

\* Where a step lets a branch go to, the stack is empty.
LEMMA NearFlat ==
    ASSUME SourceTypes, SourceTypes', Shape, Branches, Targets, Statement \/ Expression,
           Top.step \in Level => Behind(bytes, Body) = Empty /\ Behind(bytes', Body) = Empty,
           NEW y, Near(y)
    PROVE  Flat(y)'
<1>1. Inside /\ Open /\ Body \in Nat /\ Body <= bytes.used /\ bytes.used \in Nat
  BY StatementScopes, BodyType
<1>2. Body' = Body
  BY StatementFuns DEF Body, Home
<1>3. bytes'.used \in Nat /\ bytes.used <= bytes'.used
  BY StatementKeeps DEF Grows
<1>4. CASE Top.step \in Branching \cup {"stmts"} /\ y = bytes.used
  <2>1. Top.step \in Level
    BY <1>4 DEF Level, Branching
  <2>2. Stacks(bytes.code, Body)[y - Body] = Empty
    BY <1>4, <2>1 DEF Behind
  <2>3. y \in Body..bytes.used
    BY <1>1, <1>4
  <2>4. Flat(y)
    BY <2>2, <2>3 DEF Flat
  <2> QED BY <2>4, FlatStays
<1>5. CASE Top.step \in Branching \cup {"stmts"} /\ y = bytes'.used
  <2>1. Top.step \in Level
    BY <1>5 DEF Level, Branching
  <2>2. Stacks(bytes'.code, Body)[y - Body] = Empty
    BY <1>5, <2>1 DEF Behind
  <2>3. y \in Body..bytes'.used
    BY <1>1, <1>3, <1>5
  <2> QED BY <1>2, <2>2, <2>3 DEF Flat
<1>6. CASE Top.step \in {"whilejz", "endif", "endwhile"} /\ y = Top.to
  <2>1. Len(work) \in 3..Len(work) /\ Top = work[Len(work)]
    BY <1>1, TopInFunction DEF Inside, SourceTypes
  <2>2. Flat(y)
    BY <1>1, <1>6, <2>1 DEF Targets
  <2> QED BY <2>2, FlatStays
<1> QED BY <1>4, <1>5, <1>6 DEF Near

LEMMA StatementTargets ==
    ASSUME SourceTypes, Shape, Branches, Targets, Kept, Statement \/ Expression,
           Top.step \in Level => Behind(bytes, Body) = Empty /\ Behind(bytes', Body) = Empty
    PROVE  Targets'
<1> DEFINE n == Len(work)
           m == Len(work')
<1>1. Inside /\ Open /\ UNCHANGED funs /\ SourceTypes'
  BY StatementScopes, StatementFuns, BodyType DEF Kept
<1>2. Directed /\ Grows
  BY StatementBranches, StatementKeeps
<1>3. /\ n \in Nat /\ n >= 3 /\ Top = work[n]
      /\ m \in Nat /\ m >= n - 1 /\ \A i \in 1..(n - 1) : work'[i] = work[i]
  <2>1. n \in Nat /\ n >= 3 /\ Top = work[n]
    BY <1>1, TopInFunction DEF Inside, SourceTypes
  <2> QED BY <1>2, <2>1 DEF Directed, Rests
<1>4. \A y : Flat(y) => Flat(y)'
  BY <1>1, FlatStays
<1>5. \A y : Near(y) => Flat(y)'
  BY <1>1, NearFlat
<1>6. ASSUME NEW i \in 3..m, work'[i].step \in {"whilejz", "endif", "endwhile"}
      PROVE  Flat(work[i].to)'
  <2>1. PICK y : y = work'[i].to
    OBVIOUS
  <2>2. Flat(y)'
    <3>1. CASE i < n
      <4>1. work'[i] = work[i] /\ i \in 3..n
        BY <1>3, <3>1
      <4>2. Flat(y)
        BY <1>1, <1>6, <2>1, <4>1 DEF Targets
      <4> QED BY <1>4, <4>2
    <3>2. CASE i >= n
      <4>1. i \in n..m
        BY <1>3, <3>2
      <4>2. Near(y)
        BY <1>2, <1>6, <2>1, <4>1 DEF Directed
      <4> QED BY <1>5, <4>2
    <3> QED BY <1>3, <3>1, <3>2
  <2> QED BY <2>1, <2>2 DEF Flat
<1>7. ASSUME NEW x \in DOMAIN bytes'.code, x >= Home, bytes'.code[x].op \in Jumps
      PROVE  Flat(bytes.code[x].arg)' \/ \E i \in 3..m : Waits(work'[i], x)
  <2>1. PICK y : y = bytes'.code[x].arg
    OBVIOUS
  <2>2. Flat(y)' \/ \E i \in 3..m : Waits(work'[i], x)
    <3>1. CASE x \in DOMAIN bytes.code /\ y = bytes.code[x].arg /\ ~Waits(Top, x)
      <4>1. bytes.code[x].op \in Jumps
        BY <1>2, <1>7, <3>1 DEF Grows
      <4>2. Flat(y) \/ \E i \in 3..n : Waits(work[i], x)
        BY <1>1, <1>7, <3>1, <4>1 DEF Targets
      <4>3. ASSUME NEW i \in 3..n, Waits(work[i], x) PROVE \E j \in 3..m : Waits(work'[j], x)
        <5>1. i # n
          BY <1>3, <3>1, <4>3
        <5>2. i \in 3..m /\ work'[i] = work[i]
          BY <1>3, <5>1
        <5> QED BY <4>3, <5>2
      <4> QED BY <1>4, <4>2, <4>3
    <3>2. CASE Near(y)
      BY <1>5, <3>2
    <3>3. CASE \E i \in n..m : Waits(work'[i], x)
      BY <1>3, <3>3
    <3> QED BY <1>2, <1>7, <2>1, <3>1, <3>2, <3>3 DEF Directed
  <2> QED BY <2>1, <2>2 DEF Flat
<1>8. Home' = Home
  BY <1>1 DEF Home
<1> HIDE DEF n, m
<1> QED BY <1>6, <1>7, <1>8 DEF Targets, m

\* A function starts with an empty stack.
LEMMA PrologueStacks ==
    ASSUME SourceTypes, SourceTypes', Shape, Prologue
    PROVE  Operands' /\ Targets'
<1>1. /\ bytes.used \in Nat /\ Home' = bytes.used /\ Body' = bytes'.used
      /\ bytes'.used = bytes.used + 10
      /\ DOMAIN bytes'.code = DOMAIN bytes.code \cup {bytes.used, bytes.used + 1}
      /\ \A x \in DOMAIN bytes.code : x < bytes.used
      /\ bytes'.code[bytes.used].op = "enter"
      /\ bytes'.code[bytes.used + 1].op = "add_sp"
  BY PrologueCode
<1>2. Open' /\ Len(work') = 3 /\ work'[3].step = "stmts"
  BY PrologueOpens
<1>3. Behind(bytes, Body)' = Empty
  <2> DEFINE c == bytes'.code
             first == bytes'.used
  <2>1. first \in Nat /\ \A x \in DOMAIN c : c[x] \in InstrRecords
    BY <1>1 DEF SourceTypes, BytesOK
  <2> HIDE DEF c
  <2>2. Stacks(c, first)[0] = Empty
    <3> HIDE DEF first
    <3> QED BY <2>1, StacksPass
  <2>3. first - first = 0
    BY <2>1
  <2> QED BY <1>1, <2>2, <2>3 DEF Behind, c
<1>4. Operands'
  <2> DEFINE d == [i \in 3..4 |-> Empty]
  <2>1. d \in [3..(Len(work') + 1) -> Good]
    BY <1>2, StackKinds
  <2>2. Carries(work'[3], Empty, Empty, types')
    <3> DEFINE item == work'[3]
    <3>1. item.step \notin Odd
      BY <1>2, LevelSteps DEF Level
    <3> HIDE DEF item
    <3>2. Carries(item, Empty, Empty, types')
      BY <3>1, PlainCarries
    <3> QED BY <3>2 DEF item
  <2>3. Held(d)'
    <3>1. d[3] = Empty /\ d[4] = Empty /\ Len(work') + 1 = 4
      BY <1>2
    <3> HIDE DEF d
    <3>2. \A i \in 3..Len(work') : i = 3
      BY <1>2
    <3>3. \A i \in 3..Len(work') : Carries(work'[i], d[i], d[i + 1], types')
      BY <2>2, <3>1, <3>2
    <3> QED BY <1>3, <3>1, <3>3 DEF Held
  <2> HIDE DEF d
  <2> QED BY <2>1, <2>3 DEF Operands
<1>5. Targets'
  <2>1. ASSUME NEW i \in 3..Len(work') PROVE work'[i].step = "stmts"
    <3>1. i = 3
      BY <1>2
    <3> QED BY <1>2, <3>1
  <2>2. ASSUME NEW x \in DOMAIN bytes'.code, x >= Home' PROVE bytes'.code[x].op \notin Jumps
    <3>1. x = bytes.used \/ x = bytes.used + 1
      <4>1. DOMAIN bytes.code \subseteq Int
        BY DEF SourceTypes, BytesOK
      <4> QED BY <1>1, <2>2, <4>1
    <3> QED BY <1>1, <3>1 DEF Jumps
  <2> QED BY <2>1, <2>2 DEF Targets
<1> QED BY <1>4, <1>5

LEMMA SameOperands ==
    ASSUME Operands, Targets, UNCHANGED vars
    PROVE  Operands' /\ Targets'
<1>1. UNCHANGED <<bytes, funs, work, types>>
  BY DEF vars
<1>2. /\ Open' = Open /\ Home' = Home /\ Body' = Body
      /\ Behind(bytes, Body)' = Behind(bytes, Body)
  BY <1>1 DEF Open, Top, Home, Body, Behind
<1>3. Operands'
  BY <1>1, <1>2 DEF Operands, Held
<1>4. \A y : Flat(y)' <=> Flat(y)
  BY <1>1, <1>2 DEF Flat
<1>5. Targets'
  BY <1>1, <1>2, <1>4 DEF Targets, Flat
<1> QED BY <1>3, <1>5

\* The steps all together.
LEMMA OperandsStep ==
    ASSUME SourceTypes, Shape, Branches, Callables, Operands, Targets, [Next]_vars
    PROVE  Operands' /\ Targets'
<1>1. Kept /\ SourceTypes'
  BY ShapeStep DEF Kept
<1>2. CASE Statement \/ Expression
  <2>1. /\ Operands'
        /\ Top.step \in Level => Behind(bytes, Body) = Empty /\ Behind(bytes', Body) = Empty
    BY <1>1, <1>2, StatementOperands
  <2> QED BY <1>1, <1>2, <2>1, StatementTargets
<1>3. CASE Prologue
  BY <1>1, <1>3, PrologueStacks
<1>4. ASSUME ~Open' PROVE Operands' /\ Targets'
  BY <1>4 DEF Operands, Targets
<1>5. CASE EndFun
  BY <1>4, <1>5, EndFunCode
<1>6. CASE \/ \E h \in FunHeads : DeclareFun(h)
           \/ \E p \in Params : AddParam(p)
           \/ DeclareVar \/ EndProgram
  BY <1>4, <1>6, OutsideSame, Zenon
<1>7. CASE UNCHANGED vars
  BY <1>7, SameOperands
<1> QED BY <1>2, <1>3, <1>5, <1>6, <1>7 DEF Next, Compiled, Declaration

-----------------------------------------------------------------------------
(* Functions that are complete.                                            *)

\* The stack is empty at the function's end, and wherever one of its branches
\* goes to.
Balanced(f) ==
    LET first == f.offset + PrologueLen
        at    == Stacks(bytes.code, first)
    IN  /\ f.nbytes >= PrologueLen
        /\ at[f.nbytes - PrologueLen] = Empty
        /\ \A x \in Code(f) : bytes.code[x].op \in Jumps =>
               /\ bytes.code[x].arg \in first..(f.offset + f.nbytes)
               /\ at[bytes.code[x].arg - first] = Empty

AllBalanced == \A k \in 1..Len(funs) : k < Len(funs) \/ ~Open => Balanced(funs[k])

LEMMA BytesFields ==
    ASSUME NEW B, BytesOK(B)
    PROVE  (\A x \in DOMAIN B.code : B.code[x] \in InstrRecords) /\ DOMAIN B.code \subseteq Int
<1>1. \A x \in DOMAIN B.code : B.code[x] \in InstrRecords
  BY DEF BytesOK
<1>2. DOMAIN B.code \subseteq Int
  BY DEF BytesOK
<1> QED BY <1>1, <1>2

\* A function that is complete stays as it is.
LEMMA CompleteBalanced ==
    ASSUME SourceTypes, SourceTypes', Branches, Frozen, NEW k \in 1..Len(funs),
           k < Len(funs) \/ ~Open, funs'[k] = funs[k], Balanced(funs[k])
    PROVE  Balanced(funs[k])'
<1> DEFINE o == funs[k].offset
           l == funs[k].nbytes
           first == o + PrologueLen
           N == l - PrologueLen
           c == bytes.code
           d == bytes'.code
<1>1. o \in Nat /\ l \in Nat /\ first \in Nat
  BY FunFields DEF PrologueLen
<1>2. N \in Nat
  BY <1>1 DEF Balanced, PrologueLen
<1>3. /\ \A x \in DOMAIN c : c[x] \in InstrRecords
      /\ \A x \in DOMAIN d : d[x] \in InstrRecords
      /\ DOMAIN c \subseteq Int /\ DOMAIN d \subseteq Int
  <2>1. BytesOK(bytes) /\ BytesOK(bytes')
    BY DEF SourceTypes
  <2> QED BY <2>1, BytesFields, Zenon
<1>4. ASSUME NEW x \in Int, x >= o, x < o + l
      PROVE  (x \in DOMAIN c <=> x \in DOMAIN d) /\ (x \in DOMAIN c => d[x] = c[x])
  BY <1>4, CompleteCode
<1>5. /\ Stacks(c, first)[N] = Empty
      /\ \A x \in DOMAIN c \cap o..(o + l - 1) : c[x].op \in Jumps =>
             c[x].arg \in first..(o + l) /\ Stacks(c, first)[c[x].arg - first] = Empty
  BY DEF Balanced, Code
<1> HIDE DEF c, d
<1>6. \A n \in 0..N : Stacks(c, first)[n] = Stacks(d, first)[n]
  <2>1. \A x \in Nat : x >= first /\ x < first + N =>
            /\ x \in DOMAIN c <=> x \in DOMAIN d
            /\ x \in DOMAIN c => c[x] = d[x] \/ (c[x].op = d[x].op /\ c[x].op \in Jumps)
    <3> SUFFICES ASSUME NEW x \in Nat, x >= first, x < first + N
                 PROVE  /\ x \in DOMAIN c <=> x \in DOMAIN d
                        /\ x \in DOMAIN c => c[x] = d[x]
      OBVIOUS
    <3>1. x \in Int /\ x >= o /\ x < o + l
      <4>1. first = o + 10 /\ N = l - 10
        BY DEF PrologueLen
      <4> HIDE DEF o, l, first, N
      <4> QED BY <1>1, <1>2, <4>1
    <3> QED BY <1>4, <3>1
  <2>2. first \in Nat /\ N \in Nat
    BY <1>1, <1>2
  <2>3. (\A x \in DOMAIN c : c[x] \in InstrRecords) /\ (\A x \in DOMAIN d : d[x] \in InstrRecords)
    BY <1>3
  <2> HIDE DEF o, l, first, N
  <2>4. \A x \in DOMAIN c : c[x] \in InstrRecords
    BY <2>3
  <2>5. \A x \in DOMAIN d : d[x] \in InstrRecords
    BY <2>3
  <2>6. first \in Nat
    BY <2>2
  <2>7. N \in Nat
    BY <2>2
  <2> QED BY ONLY <2>1, <2>4, <2>5, <2>6, <2>7, SameStacks
<1>7. Stacks(d, first)[N] = Empty
  <2>1. N \in 0..N
    BY <1>2
  <2> HIDE DEF N
  <2> QED BY <1>5, <1>6, <2>1
<1>8. ASSUME NEW x \in DOMAIN d \cap o..(o + l - 1), d[x].op \in Jumps
      PROVE  d[x].arg \in first..(o + l) /\ Stacks(d, first)[d[x].arg - first] = Empty
  <2>1. x \in Int /\ x >= o /\ x < o + l
    BY <1>1, <1>3
  <2>2. x \in DOMAIN c /\ d[x] = c[x]
    BY <1>4, <2>1
  <2>3. c[x].arg \in first..(o + l) /\ Stacks(c, first)[c[x].arg - first] = Empty
    BY <1>5, <1>8, <2>2
  <2>4. c[x].arg - first \in 0..N
    <3>1. first = o + 10 /\ N = l - 10
      BY DEF PrologueLen
    <3> DEFINE a == c[x].arg
    <3>2. a \in first..(o + l)
      BY <2>3
    <3> HIDE DEF o, l, first, N, a
    <3>3. a - first \in 0..N
      BY <1>1, <3>1, <3>2
    <3> QED BY <3>3 DEF a
  <2> HIDE DEF first, N
  <2> QED BY <1>6, <2>2, <2>3, <2>4
<1>9. /\ funs'[k].offset = o /\ funs'[k].nbytes = l /\ bytes'.code = d
      /\ l >= PrologueLen
  BY <1>1, <1>2 DEF d, Balanced
<1> QED BY <1>7, <1>8, <1>9 DEF Balanced, Code

\* The function that is ended is complete and balanced.
LEMMA EndFunBalanced ==
    ASSUME SourceTypes, SourceTypes', Shape, Branches, Operands, Targets, EndFun
    PROVE  Balanced(funs[Len(funs)])'
<1> DEFINE first == Body
           s == IF Top.word = "main" THEN <<Instr("exit", 0, 0)>>
                ELSE <<Instr("mov_imm", 8, 0), Instr("leave", 0, 0), Instr("ret", 0, 0)>>
           b == EmitAll(bytes, s)
           c == bytes.code
           d == bytes'.code
<1>1. /\ Open /\ Len(work) = 2
      /\ Home \in Nat /\ first \in Nat /\ first <= bytes.used /\ first = Home + 10
      /\ bytes.used \in Nat /\ bytes'.used \in Nat /\ bytes.used <= bytes'.used
      /\ Len(funs) >= 1 /\ Len(funs) \in Nat /\ Len(funs') = Len(funs)
      /\ funs'[Len(funs)].offset = Home
      /\ funs'[Len(funs)].nbytes = bytes'.used - Home
      /\ DOMAIN c \subseteq DOMAIN d
      /\ \A x \in DOMAIN d : x \in DOMAIN c \/ (x >= bytes.used /\ d[x].op \notin Jumps)
      /\ \A x \in DOMAIN c : d[x].op = c[x].op /\ (x # Home + 1 => d[x] = c[x])
      /\ Home + 1 \in DOMAIN c /\ c[Home + 1].op = "add_sp"
  BY EndFunCode
<1>2. bytes' = Patch(b, Home + 1, offset_counter)
  BY DEF EndFun, Home
<1>3. s \in Seq(Bare)
  <2>1. 8 \in Widths \cup {0} /\ 0 \in Widths \cup {0} /\ 0 \in Int
    BY DEF Widths
  <2>2. /\ Instr("exit", 0, 0) \in Bare /\ Instr("mov_imm", 8, 0) \in Bare
        /\ Instr("leave", 0, 0) \in Bare /\ Instr("ret", 0, 0) \in Bare
    BY <2>1, BareInstr
  <2> QED BY <2>2
<1> HIDE DEF s
<1>4. s \in Seq(InstrRecords) /\ BytesOK(bytes) /\ offset_counter \in Int
  BY <1>3, StackKinds DEF SourceTypes
<1>5. BytesOK(b)
  BY <1>4, EmitAllType
<1>6. Behind(bytes, first) = Empty
  <2>1. PICK e \in [3..(Len(work) + 1) -> Good] : Held(e)
    BY <1>1 DEF Operands
  <2>2. e[3] = Empty /\ e[3] = Behind(bytes, Body)
    BY <1>1, <2>1 DEF Held
  <2> QED BY <2>2
<1> HIDE DEF first
<1>7. Behind(b, first) = Empty
  <2>1. Behind(b, first) = After(Behind(bytes, first), s)
    BY <1>1, <1>4, EmitAllStack
  <2> QED BY <1>3, <1>6, <2>1, AfterBare
<1> HIDE DEF b
<1> DEFINE e == b.code
<1>8. /\ DOMAIN e = DOMAIN d /\ \A y \in DOMAIN e : y # Home + 1 => d[y] = e[y]
      /\ bytes'.used = b.used
  BY <1>2, <1>4, <1>5, PatchChanges
<1>9. /\ \A x \in DOMAIN c : c[x] \in InstrRecords
      /\ \A x \in DOMAIN d : d[x] \in InstrRecords
      /\ \A x \in DOMAIN e : e[x] \in InstrRecords
      /\ DOMAIN d \subseteq Int
  <2>1. BytesOK(bytes) /\ BytesOK(bytes')
    BY DEF SourceTypes
  <2> QED BY <1>5, <2>1, BytesFields, Zenon
<1> DEFINE M == bytes'.used - first
           N == bytes.used - first
<1>10. M \in Nat /\ N \in Nat
  BY <1>1
<1>11. Stacks(d, first)[M] = Empty
  <2>1. \A x \in Nat : x >= first /\ x < first + M =>
            /\ x \in DOMAIN e <=> x \in DOMAIN d
            /\ x \in DOMAIN e => e[x] = d[x] \/ (e[x].op = d[x].op /\ e[x].op \in Jumps)
    BY <1>1, <1>8
  <2>2. Stacks(e, first)[M] = Empty
    BY <1>7, <1>8 DEF Behind
  <2>3. M \in 0..M
    BY <1>10
  <2>4. first \in Nat /\ M \in Nat
    BY <1>1, <1>10
  <2>5. (\A x \in DOMAIN d : d[x] \in InstrRecords) /\ (\A x \in DOMAIN e : e[x] \in InstrRecords)
    BY <1>9
  <2> HIDE DEF M, d, e
  <2>6. \A n \in 0..M : Stacks(e, first)[n] = Stacks(d, first)[n]
    BY <2>1, <2>4, <2>5, SameStacks
  <2> QED BY <2>2, <2>3, <2>6
<1>12. \A n \in 0..N : Stacks(c, first)[n] = Stacks(d, first)[n]
  <2>1. \A x \in Nat : x >= first /\ x < first + N =>
            /\ x \in DOMAIN c <=> x \in DOMAIN d
            /\ x \in DOMAIN c => c[x] = d[x] \/ (c[x].op = d[x].op /\ c[x].op \in Jumps)
    <3> SUFFICES ASSUME NEW x \in Nat, x >= first, x < first + N
                 PROVE  (x \in DOMAIN c <=> x \in DOMAIN d) /\ (x \in DOMAIN c => c[x] = d[x])
      OBVIOUS
    <3>1. x < bytes.used /\ x # Home + 1
      BY <1>1
    <3> HIDE DEF N, c, d
    <3> QED BY <1>1, <3>1
  <2>2. first \in Nat /\ N \in Nat
    BY <1>1, <1>10
  <2>3. (\A x \in DOMAIN c : c[x] \in InstrRecords) /\ (\A x \in DOMAIN d : d[x] \in InstrRecords)
    BY <1>9
  <2> HIDE DEF N, c, d
  <2> QED BY <2>1, <2>2, <2>3, SameStacks
<1>13. ASSUME NEW x \in DOMAIN d, x >= Home, d[x].op \in Jumps
       PROVE  d[x].arg \in first..bytes'.used /\ Stacks(d, first)[d[x].arg - first] = Empty
  <2>1. x \in DOMAIN c /\ c[x].op \in Jumps
    BY <1>1, <1>13
  <2>2. x # Home + 1
    BY <1>1, <2>1 DEF Jumps
  <2>3. d[x] = c[x]
    BY <1>1, <2>1, <2>2
  <2>4. Flat(c[x].arg)
    <3>1. 3..Len(work) = {}
      BY <1>1
    <3> QED BY <1>1, <1>13, <2>1, <3>1 DEF Targets
  <2>5. c[x].arg \in first..bytes.used /\ Stacks(c, first)[c[x].arg - first] = Empty
    BY <2>4 DEF Flat, first
  <2>6. c[x].arg - first \in 0..N
    BY <1>1, <2>5
  <2>7. c[x].arg \in first..bytes'.used
    BY <1>1, <2>5
  <2> HIDE DEF N, c, d
  <2> QED BY <1>12, <2>3, <2>5, <2>6, <2>7
<1> DEFINE f == funs'[Len(funs)]
<1>14. /\ f.offset + PrologueLen = first /\ f.nbytes - PrologueLen = M /\ f.nbytes >= PrologueLen
       /\ f.offset + f.nbytes = bytes'.used /\ f.offset = Home
  <2>1. f.offset = Home /\ f.nbytes = bytes'.used - Home
    BY <1>1
  <2> HIDE DEF f
  <2>2. PrologueLen = 10
    BY DEF PrologueLen
  <2>3. Home + 10 = first /\ Home \in Nat /\ bytes'.used \in Nat /\ first <= bytes'.used
    BY <1>1
  <2> QED BY <2>1, <2>2, <2>3
<1>15. \A x \in DOMAIN d \cap f.offset..(f.offset + f.nbytes - 1) : x \in DOMAIN d /\ x >= Home
  BY <1>1, <1>9
<1> HIDE DEF M, f
<1> QED BY <1>1, <1>11, <1>13, <1>14, <1>15 DEF Balanced, Code, f

LEMMA AllBalancedStep ==
    ASSUME SourceTypes, Shape, Branches, Operands, Targets, AllBalanced, [Next]_vars
    PROVE  AllBalanced'
<1> SUFFICES ASSUME NEW k \in 1..Len(funs'), k < Len(funs') \/ ~Open'
             PROVE  Balanced(funs[k])'
  BY DEF AllBalanced
<1>1. Len(funs) \in Nat /\ SourceTypes'
  BY FunFields, ShapeStep DEF Kept
<1>2. ASSUME k \in 1..Len(funs), k < Len(funs) \/ ~Open, funs'[k] = funs[k], Frozen
      PROVE  Balanced(funs[k])'
  BY <1>1, <1>2, CompleteBalanced DEF AllBalanced
<1>3. CASE Statement \/ Expression
  <2>1. Frozen /\ UNCHANGED funs
    BY <1>3, StatementFrozen
  <2>2. Open'
    <3>1. Kept /\ Inside
      BY <1>3, ShapeStep, StatementScopes
    <3> QED BY <3>1, InsideOpen
  <2>3. k \in 1..Len(funs) /\ k < Len(funs) /\ funs'[k] = funs[k]
    BY <2>1, <2>2
  <2> QED BY <1>2, <2>1, <2>3
<1>4. CASE Prologue
  <2>1. /\ ~Open /\ Len(funs') = Len(funs) + 1
        /\ \A j \in 1..Len(funs) : funs'[j] = funs[j]
    BY <1>4, PrologueCode
  <2>2. Frozen /\ Open'
    BY <1>4, PrologueFrozen, PrologueOpens
  <2>3. k \in 1..Len(funs) /\ funs'[k] = funs[k]
    BY <1>1, <2>1, <2>2
  <2> QED BY <1>2, <2>1, <2>2, <2>3
<1>5. CASE EndFun
  <2>1. Len(funs') = Len(funs) /\ \A j \in 1..(Len(funs) - 1) : funs'[j] = funs[j]
    BY <1>5, EndFunCode
  <2>2. CASE k < Len(funs)
    <3>1. Frozen
      BY <1>5, EndFunFrozen
    <3>2. k \in 1..Len(funs) /\ funs'[k] = funs[k]
      BY <1>1, <2>1, <2>2
    <3> QED BY <1>2, <2>2, <3>1, <3>2
  <2>3. CASE k = Len(funs)
    <3>1. Balanced(funs[Len(funs)])'
      BY <1>1, <1>5, EndFunBalanced
    <3> QED BY <2>1, <2>3, <3>1
  <2> QED BY <1>1, <2>1, <2>2, <2>3
<1>6. ASSUME UNCHANGED <<bytes, funs>>, k < Len(funs) \/ ~Open PROVE Balanced(funs[k])'
  <2>1. Balanced(funs[k])
    BY <1>6 DEF AllBalanced
  <2> QED BY <1>6, <2>1 DEF Balanced, Code
<1>7. CASE \/ \E h \in FunHeads : DeclareFun(h)
           \/ \E p \in Params : AddParam(p)
           \/ DeclareVar \/ EndProgram
  <2>1. UNCHANGED <<bytes, funs>> /\ ~Open
    BY <1>7, OutsideSame, Zenon
  <2> QED BY <1>6, <2>1
<1>8. CASE UNCHANGED vars
  <2>1. UNCHANGED <<bytes, funs>> /\ Open' = Open
    BY <1>8 DEF vars, Open, Top
  <2> QED BY <1>6, <2>1
<1> QED BY <1>3, <1>4, <1>5, <1>7, <1>8 DEF Next, Compiled, Declaration

\* What each step of the generator keeps.
Evened == SourceTypes /\ Shape /\ Branches /\ Callables /\ Operands /\ Targets /\ AllBalanced /\ Finished

LEMMA InitialEvened == Afresh => Evened
<1> SUFFICES ASSUME Afresh PROVE Evened
  OBVIOUS
<1>1. SourceTypes /\ Shape /\ Branches /\ Callables /\ Finished
  BY InitialSource, InitialShape, InitialBranches, InitialCallables, InitialFinished
<1>2. ~Open /\ funs = <<>>
  BY DEF Afresh, Open
<1> QED BY <1>1, <1>2 DEF Evened, Operands, Targets, AllBalanced

LEMMA EvenedStep ==
    ASSUME Evened, [Next]_vars
    PROVE  Evened'
<1>1. SourceTypes' /\ Shape' /\ Branches' /\ Finished' /\ Callables'
  BY ShapeStep, BranchesStep, FinishedStep, CallablesStep DEF Kept, Evened
<1>2. Operands' /\ Targets' /\ AllBalanced'
  BY OperandsStep, AllBalancedStep DEF Evened
<1> QED BY <1>1, <1>2 DEF Evened

LEMMA EvenedShows == Evened => OperandsBalanced
<1> SUFFICES ASSUME Evened, status = "done", NEW k \in 1..Len(funs)
             PROVE  LET first == funs[k].offset + PrologueLen
                        at    == Stacks(bytes.code, first)
                    IN  /\ at[funs[k].nbytes - PrologueLen] = Empty
                        /\ \A x \in Code(funs[k]) : bytes.code[x].op \in Jumps =>
                               bytes.code[x].arg >= first /\ at[bytes.code[x].arg - first] = Empty
  BY DEF OperandsBalanced
<1>1. ~Open
  BY TopOutside DEF Evened, Finished, Open
<1>2. Balanced(funs[k])
  BY <1>1 DEF Evened, AllBalanced
<1>3. ASSUME NEW x \in Code(funs[k]), bytes.code[x].op \in Jumps
      PROVE  bytes.code[x].arg >= funs[k].offset + PrologueLen
  BY <1>2, <1>3 DEF Balanced
<1> QED BY <1>2, <1>3 DEF Balanced

\* However expressions, arguments and statements nest, in a program the generator
\* has made every operator pops the operand that was pushed for it, at the width
\* it was pushed with, every system function finds its argument on top, a call's
\* arguments are dropped to the byte, and the stack is empty at the end of a
\* function and wherever control branches or arrives from a branch: what
\* gh_emit_op_push, gh_emit_call and gh_emit_assgn achieve together.
THEOREM OperandsAreBalanced == Spec => []OperandsBalanced
<1>1. Init => Evened
  BY InitialEvened, SourceAssumption DEF Init, Afresh, Types
<1>2. Evened /\ [Next]_vars => Evened'
  BY EvenedStep
<1>3. Evened => OperandsBalanced
  BY EvenedShows
<1> QED BY <1>1, <1>2, <1>3, PTL DEF Spec

-----------------------------------------------------------------------------
(* What the code consists of.                                              *)

\* The instructions the handlers make are valid, one kind after the other:
\* those that work on register a at some width, ...
LEMMA WideInstr ==
    ASSUME NEW op \in ArithOps \cup UnaryOps \cup {"push", "cmp", "jz"}, NEW w \in Widths
    PROVE  Instr(op, w, 0) \in ValidInstrs
<1>1. op \in Ops /\ op \in Sized /\ op \notin {"zext", "sext"}
  BY DEF Ops, Sized, WithOperand, ArithOps, UnaryOps
<1>2. 0 \in OperandsOf(op, w)
  BY DEF OperandsOf, Jumps, ArithOps, UnaryOps
<1>3. w \in WidthsOf(op)
  BY <1>1 DEF WidthsOf
<1>4. Instr(op, w, 0) \in InstrRecords
  <2>1. w \in Widths \cup {0} /\ 0 \in Int
    OBVIOUS
  <2> QED BY <1>1, <2>1, InstrType, Zenon
<1> QED BY <1>2, <1>3, <1>4 DEF ValidInstrs, Instrs, Instr

\* ... those without a width ...
LEMMA ShortInstr ==
    ASSUME NEW op \in SetOps \cup {"enter", "leave", "ret", "exit", "jmp", "add_sp"}
    PROVE  Instr(op, 0, 0) \in ValidInstrs
<1>1. op \in Ops /\ op \notin Sized
  BY DEF Ops, Sized, WithOperand, SetOps, ArithOps, UnaryOps
<1>2. 0 \in OperandsOf(op, 0)
  BY DEF OperandsOf, Jumps, SetOps
<1>3. 0 \in WidthsOf(op)
  BY <1>1 DEF WidthsOf, Sized
<1>4. Instr(op, 0, 0) \in InstrRecords
  <2>1. 0 \in Widths \cup {0} /\ 0 \in Int
    OBVIOUS
  <2> QED BY <1>1, <2>1, InstrType, Zenon
<1> QED BY <1>2, <1>3, <1>4 DEF ValidInstrs, Instrs, Instr

\* ... and those with an operand.
LEMMA AccessInstr ==
    ASSUME NEW op \in Accesses, NEW w \in Widths, NEW offset \in Int
    PROVE  Instr(op, w, offset) \in ValidInstrs
<1>1. op \in Ops /\ op \in Sized /\ op \notin {"zext", "sext"}
  BY DEF Accesses, Ops, Sized, WithOperand
<1>2. offset \in OperandsOf(op, w)
  BY DEF OperandsOf, Accesses, Jumps
<1>3. w \in WidthsOf(op)
  BY <1>1 DEF WidthsOf
<1>4. Instr(op, w, offset) \in InstrRecords
  BY <1>1, InstrType
<1> QED BY <1>2, <1>3, <1>4 DEF ValidInstrs, Instrs, Instr

LEMMA ImmediateInstr ==
    ASSUME NEW w \in Widths, NEW v \in 0..(Cap(w) - 1)
    PROVE  Instr("mov_imm", w, v) \in ValidInstrs
<1>1. "mov_imm" \in Ops /\ "mov_imm" \in Sized
  BY DEF Ops, Sized
<1>2. v \in Int
  BY CapType
<1>3. v \in OperandsOf("mov_imm", w)
  BY DEF OperandsOf
<1>4. w \in WidthsOf("mov_imm")
  BY <1>1 DEF WidthsOf
<1>5. Instr("mov_imm", w, v) \in InstrRecords
  BY <1>1, <1>2, InstrType
<1> QED BY <1>3, <1>4, <1>5 DEF ValidInstrs, Instrs, Instr

LEMMA ControlInstr ==
    ASSUME NEW op \in {"jmp", "call", "sysfun", "add_sp"}, NEW arg \in Int,
           arg \in OperandsOf(op, 0)
    PROVE  Instr(op, 0, arg) \in ValidInstrs
<1>1. op \in Ops /\ op \notin Sized /\ op \notin {"zext", "sext"}
  BY DEF Ops, Sized, WithOperand, ArithOps, UnaryOps
<1>2. 0 \in WidthsOf(op)
  BY <1>1 DEF WidthsOf
<1>3. Instr(op, 0, arg) \in InstrRecords
  <2>1. 0 \in Widths \cup {0}
    OBVIOUS
  <2> QED BY <1>1, <2>1, InstrType, Zenon
<1> QED BY <1>2, <1>3 DEF ValidInstrs, Instrs, Instr

\* A cast extends step by step, and never from 64 bits.
LEMMA CastCoded ==
    ASSUME NEW from \in Types, NEW to \in Types, ~CastFails(from, to)
    PROVE  CastCode(from, to) \in Seq(ValidInstrs)
<1> DEFINE lo == WidthIdx(TypeSize(from))
           hi == WidthIdx(TypeSize(to))
           op(k) == IF IsSigned(to) /\ (k > 1 \/ IsSigned(from)) THEN "sext" ELSE "zext"
           s  == CastCode(from, to)
<1>1. s \in Seq(InstrRecords)
  BY CastType
<1>2. s = [k \in 1..(hi - lo) |-> Instr(op(k), Widths4[lo + k - 1], 0)]
  BY DEF CastCode
<1>3. lo \in 1..4 /\ hi \in 1..4
  <2>1. from # "unit" /\ to # "unit"
    BY DEF CastFails
  <2> QED BY <2>1, SizeOfType, IndexOfWidth
<1> HIDE DEF s, lo, hi
<1>4. ASSUME NEW k \in 1..Len(s) PROVE s[k] \in ValidInstrs
  <2>1. s[k] \in InstrRecords /\ k \in DOMAIN s
    BY <1>1
  <2>2. k \in 1..(hi - lo) /\ s[k] = Instr(op(k), Widths4[lo + k - 1], 0)
    BY <1>2, <2>1
  <2>3. lo + k - 1 \in 1..3
    BY <1>3, <2>2
  <2> DEFINE w == Widths4[lo + k - 1]
  <2>4. w \in {1, 2, 4}
    BY <2>3 DEF Widths4
  <2>5. s[k].op \in {"zext", "sext"} /\ s[k].w = w /\ s[k].arg = 0
    BY <2>2 DEF Instr
  <2> HIDE DEF w
  <2>6. s[k].w \in WidthsOf(s[k].op)
    BY <2>4, <2>5 DEF WidthsOf
  <2>7. s[k].arg \in OperandsOf(s[k].op, s[k].w)
    BY <2>5 DEF OperandsOf, Jumps
  <2> QED BY <2>1, <2>6, <2>7 DEF ValidInstrs, Instrs
<1>5. s \in Seq(ValidInstrs)
  BY <1>1, <1>4
<1> QED BY <1>5 DEF s

LEMMA ValidRecords == ValidInstrs \subseteq InstrRecords
  BY DEF ValidInstrs, Instrs

\* What is emitted behind valid code is valid, ...
CodedBytes(b) == \A x \in DOMAIN b.code : b.code[x] \in ValidInstrs

LEMMA EmitAllCoded ==
    ASSUME NEW b, BytesOK(b), CodedBytes(b), NEW s \in Seq(ValidInstrs)
    PROVE  BytesOK(EmitAll(b, s)) /\ CodedBytes(EmitAll(b, s))
<1>1. Extends(b, EmitAll(b, s), ValidInstrs)
  BY ValidRecords, EmitAllExtends
<1> QED BY <1>1 DEF Extends, CodedBytes

LEMMA EmitsCoded ==
    ASSUME SourceTypes, Coded, Emits(ValidInstrs)
    PROVE  Coded'
<1>1. PICK s \in Seq(ValidInstrs) : bytes' = EmitAll(bytes, s)
  BY DEF Emits
<1>2. CodedBytes(EmitAll(bytes, s))
  BY EmitAllCoded DEF SourceTypes, Coded, CodedBytes
<1> QED BY <1>1, <1>2 DEF Coded, CodedBytes

\* ... and a patch keeps the opcode and gives it an operand it can have.
LEMMA PatchCoded ==
    ASSUME NEW b, BytesOK(b), CodedBytes(b), NEW x, NEW arg \in Int,
           x \in DOMAIN b.code => arg \in OperandsOf(b.code[x].op, b.code[x].w)
    PROVE  BytesOK(Patch(b, x, arg)) /\ CodedBytes(Patch(b, x, arg))
<1> DEFINE c == Patch(b, x, arg)
<1>1. /\ BytesOK(c)
      /\ DOMAIN c.code = DOMAIN b.code
      /\ \A y \in DOMAIN b.code : /\ c.code[y].op = b.code[y].op
                                  /\ c.code[y].w = b.code[y].w
                                  /\ y # x => c.code[y] = b.code[y]
                                  /\ y = x => c.code[y].arg = arg
  BY PatchChanges
<1> HIDE DEF c
<1>2. ASSUME NEW y \in DOMAIN c.code PROVE c.code[y] \in ValidInstrs
  <2>1. b.code[y] \in ValidInstrs /\ y \in DOMAIN b.code
    BY <1>1 DEF CodedBytes
  <2>2. CASE y # x
    BY <1>1, <2>1, <2>2
  <2>3. CASE y = x
    <3>1. c.code[y] \in InstrRecords
      BY <1>1 DEF BytesOK
    <3>2. c.code[y].w \in WidthsOf(c.code[y].op)
      BY <1>1, <2>1 DEF ValidInstrs, Instrs
    <3>3. c.code[y].arg \in OperandsOf(c.code[y].op, c.code[y].w)
      BY <1>1, <2>1, <2>3
    <3> QED BY <3>1, <3>2, <3>3 DEF ValidInstrs, Instrs
  <2> QED BY <2>2, <2>3
<1> QED BY <1>1, <1>2 DEF CodedBytes, c

\* Jumps take addresses.
LEMMA JumpOperand ==
    ASSUME NEW op \in Jumps, NEW w
    PROVE  OperandsOf(op, w) = Nat
  BY DEF OperandsOf, Jumps

\* What the handler on top finds on the stack.
LEMMA TopCarries ==
    ASSUME SourceTypes, Shape, Branches, Operands, Inside
    PROVE  \E s \in Good : Carries(Top, s, Behind(bytes, Body), types)
<1> DEFINE n == Len(work)
<1>1. Open
  BY BodyType
<1>2. PICK d \in [3..(n + 1) -> Good] : Held(d)
  BY <1>1 DEF Operands
<1>3. n \in Nat /\ n >= 3 /\ Top = work[n]
  BY TopInFunction DEF Inside, SourceTypes
<1>4. Carries(work[n], d[n], d[n + 1], types) /\ d[n + 1] = Behind(bytes, Body)
  BY <1>2, <1>3 DEF Held
<1>5. d[n] \in Good
  BY <1>2, <1>3
<1> HIDE DEF n
<1> QED BY <1>3, <1>4, <1>5

\* The steps of expressions.  The width is that of a cell, which is not unit:
\* because the handler has looked, ...
Codes == UNCHANGED bytes \/ Emits(ValidInstrs)

LEMMA WordCodes ==
    ASSUME SourceTypes, Shape, EndUnary \/ Push \/ Store \/ IfJz \/ WhileJz
    PROVE  Codes
<1> SUFFICES ASSUME ~Fail PROVE Codes
  BY DEF Fail, Codes
<1> DEFINE w == TypeSize(Cell)
<1>1. Top.step \in CellSteps /\ Inside
  BY DEF EndUnary, Push, Store, IfJz, WhileJz, At, CellSteps, Inside
<1>2. Cell # "unit"
  BY DEF EndUnary, Push, Store, IfJz, WhileJz
<1>3. w \in Widths
  BY <1>1, <1>2, CellType, SizeOfType
<1>4. CASE Push
  <2>1. bytes' = EmitAll(bytes, <<Instr("push", w, 0)>>)
    BY <1>4 DEF Push
  <2> HIDE DEF w
  <2> QED BY <1>3, <2>1, WideInstr, EmitsOne DEF Codes
<1>5. CASE EndUnary
  <2>1. bytes' = EmitAll(bytes, <<Instr(Top.word, w, 0)>>)
    BY <1>5 DEF EndUnary
  <2>2. Top.word \in UnaryOps
    BY <1>5, TopWord DEF EndUnary, At
  <2> HIDE DEF w
  <2> QED BY <1>3, <2>1, <2>2, WideInstr, EmitsOne DEF Codes
<1>6. CASE IfJz \/ WhileJz
  <2>1. bytes' = EmitAll(bytes, <<Instr("jz", w, 0)>>)
    BY <1>6 DEF IfJz, WhileJz
  <2> HIDE DEF w
  <2> QED BY <1>3, <2>1, WideInstr, EmitsOne DEF Codes
<1>7. CASE Store
  <2>1. bytes' = EmitAll(bytes, <<Instr("mov_a_offset", w, Top.offset)>>)
    BY <1>7 DEF Store
  <2>2. Top.offset \in Int
    <3>1. Top \in Items
      BY <1>1, TopInFunction DEF Inside
    <3> QED BY <3>1 DEF Items
  <2> HIDE DEF w
  <2>3. Instr("mov_a_offset", w, Top.offset) \in ValidInstrs
    BY <1>3, <2>2, AccessInstr DEF Accesses
  <2> QED BY <2>1, <2>3, EmitsOne DEF Codes
<1> QED BY <1>4, <1>5, <1>6, <1>7

LEMMA LiteralCodes ==
    ASSUME SourceTypes, Shape, NEW id \in {"int", "float", "string"},
           NEW v \in Literals \cup FloatImages, Literal(id, v)
    PROVE  Codes
<1> SUFFICES ASSUME ~Fail PROVE Codes
  BY DEF Fail, Codes
<1> DEFINE t == Infer(IF id = "float" THEN "f32" ELSE "i32")
           w == TypeSize(t)
<1>1. Top.step = "expr"
  BY DEF Literal, At
<1>2. t \in Types /\ t # "unit"
  <2>1. (IF id = "float" THEN "f32" ELSE "i32") \in Types \ {"unit"}
    BY DEF Types, FloatTypes, IntTypes
  <2> QED BY <1>1, <2>1, ExprCell DEF Infer
<1>3. bytes' = EmitAll(bytes, <<Instr("mov_imm", w, v % Cap(w))>>)
  BY DEF Literal
<1>4. w \in Widths
  BY <1>2, SizeOfType
<1>5. v \in Nat
  BY SourceAssumption
<1> HIDE DEF t, w
<1>6. Instr("mov_imm", w, v % Cap(w)) \in ValidInstrs
  BY <1>4, <1>5, ImmediateType, ImmediateInstr
<1> QED BY <1>3, <1>6, EmitsOne DEF Codes

LEMMA IdentCodes ==
    ASSUME SourceTypes, Shape, NEW name \in UsedNames, Ident(name)
    PROVE  Codes
<1> SUFFICES ASSUME ~Fail PROVE Codes
  BY DEF Fail, Codes
<1> DEFINE local == Find(name)
           t     == Infer(local.type)
           i     == Instr("mov_offset_a", TypeSize(local.type), local.offset)
           cast  == CastCode(local.type, t)
<1>1. /\ Declared(name)
      /\ ~CastFails(local.type, t)
      /\ bytes' = EmitAll(bytes, <<i>> \o cast)
  BY DEF Ident
<1>2. local \in Locals
  BY <1>1, FindType, Zenon DEF SourceTypes
<1>3. local.type \in Types /\ local.offset \in Int
  BY <1>2, LocalField, Zenon
<1>4. t \in Types
  BY <1>3, ExprCell DEF Ident, At
<1>5. local.type # "unit"
  BY <1>1 DEF CastFails
<1> HIDE DEF local, t
<1>6. cast \in Seq(ValidInstrs)
  BY <1>1, <1>3, <1>4, CastCoded, Zenon
<1>7. i \in ValidInstrs
  <2>1. TypeSize(local.type) \in Widths /\ "mov_offset_a" \in Accesses
    BY <1>3, <1>5, SizeOfType DEF Accesses
  <2> QED BY <1>3, <2>1, AccessInstr, Zenon
<1> HIDE DEF i, cast
<1>8. <<i>> \in Seq(ValidInstrs)
  BY <1>7
<1> QED BY <1>1, <1>6, <1>8, EmitsBoth, Zenon DEF Codes

\* ... or because the operand that waits for it has it: a compound assignment,
\* which has looked before it emits anything, ...
LEMMA AssignCodes ==
    ASSUME SourceTypes, Shape, NEW name \in UsedNames, NEW op \in AssignOps, Assign(name, op)
    PROVE  Codes
<1> DEFINE local == Find(name)
           t     == Infer(local.type)
           w     == TypeSize(t)
           i     == Instr("mov_offset_a", w, local.offset)
           j     == Instr("push", w, 0)
<1> SUFFICES ASSUME ~UNCHANGED bytes PROVE Codes
  BY DEF Codes
<1>1. /\ Declared(name)
      /\ t # "unit"
      /\ bytes' = EmitAll(bytes, <<i, j>>)
      /\ Top.step = "expr"
  BY DEF Assign, At
<1>2. local \in Locals
  BY <1>1, FindType, Zenon DEF SourceTypes
<1>3. local.type \in Types /\ local.offset \in Int
  BY <1>2, LocalField, Zenon
<1>4. t \in Types
  BY <1>1, <1>3, ExprCell
<1> HIDE DEF local, t
<1>5. w \in Widths
  BY <1>1, <1>4, SizeOfType
<1> HIDE DEF w
<1>6. i \in ValidInstrs /\ j \in ValidInstrs
  BY <1>3, <1>5, AccessInstr, WideInstr DEF Accesses
<1> HIDE DEF i, j
<1> QED BY <1>1, <1>6, EmitsTwo DEF Codes

\* ... an operator, behind the push of its first operand, ...
LEMMA OperatorCodes ==
    ASSUME SourceTypes, Shape, Branches, Operands, EndBinary \/ EndAssgn
    PROVE  Codes
<1> SUFFICES ASSUME ~Fail PROVE Codes
  BY DEF Fail, Codes
<1> DEFINE w == TypeSize(Cell)
<1>1. Top.step \in {"endbin", "endassgn"} /\ Inside
  BY DEF EndBinary, EndAssgn, At, Inside
<1>2. PICK s \in Good : Carries(Top, s, Behind(bytes, Body), types)
  BY <1>1, TopCarries
<1>3. w \in Widths
  <2>1. w > 0 /\ w \in Widths \cup {0}
    BY <1>1, <1>2, HeldCell
  <2> QED BY <2>1
<1>4. CASE EndBinary
  <2>1. Top.word \in ArithOps \cup SetOps /\ bytes' = EmitAll(bytes, BinCode(Top.word, w))
    BY <1>4, TopWord DEF EndBinary, At
  <2> HIDE DEF w
  <2>2. CASE Top.word \in SetOps
    <3>1. bytes' = EmitAll(bytes, <<Instr("cmp", w, 0), Instr(Top.word, 0, 0)>>)
      BY <2>1, <2>2 DEF BinCode
    <3>2. Instr("cmp", w, 0) \in ValidInstrs /\ Instr(Top.word, 0, 0) \in ValidInstrs
      BY <1>3, <2>2, WideInstr, ShortInstr
    <3> QED BY <3>1, <3>2, EmitsTwo DEF Codes
  <2>3. CASE Top.word \notin SetOps
    <3>1. bytes' = EmitAll(bytes, <<Instr(Top.word, w, 0)>>)
      BY <2>1, <2>3 DEF BinCode
    <3>2. Instr(Top.word, w, 0) \in ValidInstrs
      BY <1>3, <2>1, <2>3, WideInstr
    <3> QED BY <3>1, <3>2, EmitsOne DEF Codes
  <2> QED BY <2>2, <2>3
<1>5. CASE EndAssgn
  <2>1. bytes' = EmitAll(bytes, <<Instr(Top.word, w, 0), Instr("mov_a_offset", w, Top.offset)>>)
    BY <1>5 DEF EndAssgn
  <2>2. Top.word \in ArithOps
    BY <1>5, TopWord DEF EndAssgn, At, ArithOps
  <2>3. Top.offset \in Int
    <3>1. Top \in Items
      BY <1>1, TopInFunction DEF Inside
    <3> QED BY <3>1 DEF Items
  <2> HIDE DEF w
  <2>4. Instr(Top.word, w, 0) \in ValidInstrs /\ Instr("mov_a_offset", w, Top.offset) \in ValidInstrs
    BY <1>3, <2>2, <2>3, WideInstr, AccessInstr DEF Accesses
  <2> QED BY <2>1, <2>4, EmitsTwo DEF Codes
<1> QED BY <1>4, <1>5

\* ... and an argument, the type of its parameter.
LEMMA EndArgCodes ==
    ASSUME SourceTypes, Shape, Branches, Operands, EndArg
    PROVE  Codes
<1> SUFFICES ASSUME ~Fail PROVE Codes
  BY DEF Fail, Codes
<1> DEFINE w == TypeSize(Cell)
<1>1. Top.step = "endarg" /\ Top.step \in CellSteps /\ Inside
  BY DEF EndArg, At, CellSteps, Inside
<1>2. Top.n \in 1..Len(Top.fun.params)
  <2>1. Nested(Top, Len(types), Len(scopes))
    BY <1>1, TopInFunction DEF Inside
  <2> QED BY <1>1, <2>1 DEF Nested
<1>3. PICK s \in Good : Carries(Top, s, Behind(bytes, Body), types)
  BY <1>1, TopCarries
<1>4. Cell = Top.fun.params[Top.n] /\ Callable(Top.fun)
  BY <1>1, <1>3 DEF Carries, Cell, Pushing
<1>5. Cell # "unit"
  BY <1>2, <1>4 DEF Callable
<1>6. w \in Widths
  BY <1>1, <1>5, CellType, SizeOfType
<1>7. bytes' = EmitAll(bytes, <<Instr("push", w, 0)>>)
  BY DEF EndArg
<1> HIDE DEF w
<1> QED BY <1>6, <1>7, WideInstr, EmitsOne DEF Codes

\* A call's operand is an address, a system function's one of the four.
LEMMA EndCallCodes ==
    ASSUME SourceTypes, Shape, Branches, Operands, EndCall
    PROVE  Codes
<1> DEFINE fun  == Top.fun
           pop  == Top.pop
           call == IF fun.id = "sysfun" THEN Instr("sysfun", 0, SysFunIdx(fun))
                                        ELSE Instr("call", 0, fun.offset)
           drop == Instr("add_sp", 0, pop)
           tail == IF pop = 0 THEN <<>> ELSE <<drop>>
<1>1. Top.step = "args" /\ Inside /\ bytes' = EmitAll(bytes, <<call>> \o tail)
  BY DEF EndCall, CallCode, At, Inside
<1>2. Top \in Items
  BY <1>1, TopInFunction DEF Inside
<1>3. fun \in Locals /\ pop \in Nat
  BY <1>2 DEF Items
<1>4. Callable(fun) /\ fun.id # "var"
  <2>1. PICK s \in Good : Carries(Top, s, Behind(bytes, Body), types)
    BY <1>1, TopCarries
  <2> QED BY <1>1, <2>1 DEF Carries, Pushing
<1>5. fun.id \in {"var", "fun", "sysfun"}
  <2> HIDE DEF fun
  <2> QED BY <1>3 DEF Locals
<1> HIDE DEF fun, pop
<1>6. call \in ValidInstrs
  <2>1. CASE fun.id = "sysfun"
    <3>1. SysFunIdx(fun) \in 0..3
      BY DEF SysFunIdx
    <3>2. SysFunIdx(fun) \in Int /\ SysFunIdx(fun) \in OperandsOf("sysfun", 0)
      BY <3>1 DEF OperandsOf, Jumps
    <3>3. Instr("sysfun", 0, SysFunIdx(fun)) \in ValidInstrs
      BY <3>2, ControlInstr
    <3> QED BY <2>1, <3>3
  <2>2. CASE fun.id # "sysfun"
    <3>1. fun.offset \in Nat
      BY <1>4, <1>5, <2>2 DEF Callable
    <3>2. fun.offset \in Int /\ fun.offset \in OperandsOf("call", 0)
      BY <3>1 DEF OperandsOf, Jumps
    <3>3. Instr("call", 0, fun.offset) \in ValidInstrs
      BY <3>2, ControlInstr
    <3> QED BY <2>2, <3>3
  <2> QED BY <2>1, <2>2
<1>7. drop \in ValidInstrs
  <2>1. pop \in Int /\ pop \in OperandsOf("add_sp", 0)
    BY <1>3 DEF OperandsOf, Jumps
  <2> QED BY <2>1, ControlInstr
<1> HIDE DEF call, drop
<1>8. <<call>> \in Seq(ValidInstrs) /\ tail \in Seq(ValidInstrs)
  BY <1>6, <1>7
<1> HIDE DEF tail
<1> QED BY <1>1, <1>8, EmitsBoth DEF Codes

\* The steps of statements.
LEMMA ReturnCodes ==
    ASSUME SourceTypes, Shape, EndReturn \/ \E expr \in BOOLEAN : EmitReturn(expr)
    PROVE  Codes
<1> DEFINE tail == <<Instr("leave", 0, 0), Instr("ret", 0, 0)>>
<1>1. tail \in Seq(ValidInstrs)
  <2>1. Instr("leave", 0, 0) \in ValidInstrs /\ Instr("ret", 0, 0) \in ValidInstrs
    BY ShortInstr
  <2> QED BY <2>1
<1>2. CASE \E expr \in BOOLEAN : EmitReturn(expr)
  <2>1. UNCHANGED bytes \/ bytes' = EmitAll(bytes, tail)
    BY <1>2 DEF EmitReturn
  <2> HIDE DEF tail
  <2> QED BY <1>1, <2>1 DEF Codes, Emits
<1>3. CASE EndReturn
  <2> SUFFICES ASSUME ~Fail PROVE Codes
    BY DEF Fail, Codes
  <2> DEFINE cast == CastCode(Cell, fun_ret_type)
  <2>1. ~CastFails(Cell, fun_ret_type) /\ bytes' = EmitAll(bytes, cast \o tail)
    BY <1>3 DEF EndReturn
  <2>2. Cell \in Types /\ fun_ret_type \in Types
    BY <1>3, CellType DEF EndReturn, At, CellSteps, SourceTypes
  <2>3. cast \in Seq(ValidInstrs)
    BY <2>1, <2>2, CastCoded, Zenon
  <2> HIDE DEF cast, tail
  <2> QED BY <1>1, <2>1, <2>3, EmitsBoth, Zenon DEF Codes
<1> QED BY <1>2, <1>3

LEMMA VarCodes ==
    ASSUME SourceTypes, Shape,
           EndVar \/ \E name \in VarNames, t \in VarTypes, init \in BOOLEAN : EmitVar(name, t, init)
    PROVE  Codes
<1>1. CASE \E name \in VarNames, t \in VarTypes, init \in BOOLEAN : EmitVar(name, t, init)
  <2>1. UNCHANGED bytes \/ bytes' = EmitAll(bytes, <<Instr("mov_imm", 8, 0)>>)
    BY <1>1, SMTT(30) DEF EmitVar
  <2>2. 8 \in Widths /\ 0 \in 0..(Cap(8) - 1)
    <3>1. 8 \in Widths
      BY DEF Widths
    <3> QED BY <3>1, CapType
  <2>3. Instr("mov_imm", 8, 0) \in ValidInstrs
    BY <2>2, ImmediateInstr
  <2> QED BY <2>1, <2>3, EmitsOne DEF Codes
<1>2. CASE EndVar
  <2> DEFINE w == TypeSize(Cell)
             o == offset_counter - w
  <2>1. UNCHANGED bytes \/ (w # 0 /\ bytes' = EmitAll(bytes, <<Instr("mov_a_offset", w, o)>>))
    BY <1>2 DEF EndVar
  <2>2. w \in Nat /\ w \in Widths \cup {0} /\ o \in Int
    BY <1>2, CellType DEF EndVar, At, CellSteps, SourceTypes
  <2> HIDE DEF w, o
  <2>3. w # 0 => Instr("mov_a_offset", w, o) \in ValidInstrs
    BY <2>2, AccessInstr DEF Accesses
  <2> QED BY <2>1, <2>3, EmitsOne DEF Codes
<1> QED BY <1>1, <1>2

LEMMA IfJmpCodes ==
    ASSUME NEW else \in {"none", "elseif", "else"}, IfJmp(else)
    PROVE  Codes
<1>1. bytes' = EmitAll(bytes, <<Instr("jmp", 0, 0)>>)
  BY DEF IfJmp
<1> QED BY <1>1, ShortInstr, EmitsOne DEF Codes

\* The end of a branch and of a loop: what is patched are jumps.
LEMMA EndIfCoded ==
    ASSUME SourceTypes, Shape, Branches, Coded, EndIf
    PROVE  Coded'
<1> DEFINE b == IF Top.jz = None THEN bytes ELSE Patch(bytes, Top.jz, Top.to)
<1>1. Top.step = "endif" /\ Inside /\ bytes' = Patch(b, Top.jmp, bytes.used)
  BY DEF EndIf, At, Inside
<1>2. Branch(Top) /\ Top \in Items /\ BytesOK(bytes) /\ CodedBytes(bytes) /\ bytes.used \in Nat
  BY <1>1, BodyType DEF SourceTypes, Coded, CodedBytes
<1>3. /\ Top.to \in Nat /\ IsJump(Top.jmp)
      /\ Top.jz # None => IsJump(Top.jz)
  BY <1>1, <1>2 DEF Branch, Waits, Items
<1>4. /\ BytesOK(b) /\ CodedBytes(b)
      /\ Top.jmp \in DOMAIN b.code /\ b.code[Top.jmp].op \in Jumps
  <2>1. CASE Top.jz = None
    BY <1>2, <1>3, <2>1 DEF IsJump
  <2>2. CASE Top.jz # None
    <3>1. b = Patch(bytes, Top.jz, Top.to)
      BY <2>2
    <3>2. Top.to \in OperandsOf(bytes.code[Top.jz].op, bytes.code[Top.jz].w) /\ Top.to \in Int
      BY <1>3, <2>2, JumpOperand DEF IsJump
    <3> HIDE DEF b
    <3>3. BytesOK(b) /\ CodedBytes(b)
      BY <1>2, <3>1, <3>2, PatchCoded
    <3>4. /\ DOMAIN b.code = DOMAIN bytes.code
          /\ \A y \in DOMAIN bytes.code : b.code[y].op = bytes.code[y].op
      BY <1>2, <3>1, <3>2, PatchChanges
    <3> QED BY <1>3, <3>3, <3>4 DEF IsJump
  <2> QED BY <2>1, <2>2
<1> HIDE DEF b
<1>5. bytes.used \in OperandsOf(b.code[Top.jmp].op, b.code[Top.jmp].w) /\ bytes.used \in Int
  BY <1>2, <1>4, JumpOperand
<1>6. CodedBytes(Patch(b, Top.jmp, bytes.used))
  BY <1>4, <1>5, PatchCoded
<1> QED BY <1>1, <1>6 DEF Coded, CodedBytes

LEMMA EndWhileCoded ==
    ASSUME SourceTypes, Shape, Branches, Coded, EndWhile
    PROVE  Coded'
<1> DEFINE i == Instr("jmp", 0, Top.to)
           b == EmitAll(bytes, <<i>>)
<1>1. Top.step = "endwhile" /\ Inside /\ bytes' = Patch(b, Top.jz, b.used)
  BY DEF EndWhile, At, Inside
<1>2. Branch(Top) /\ Top \in Items /\ BytesOK(bytes) /\ CodedBytes(bytes)
  BY <1>1, BodyType DEF SourceTypes, Coded, CodedBytes
<1>3. Top.to \in Nat /\ IsJump(Top.jz)
  BY <1>1, <1>2 DEF Branch, Waits, Items
<1>4. i \in ValidInstrs
  <2>1. Top.to \in Int /\ Top.to \in OperandsOf("jmp", 0)
    BY <1>3, JumpOperand DEF Jumps
  <2> QED BY <2>1, ControlInstr
<1>5. <<i>> \in Seq(ValidInstrs)
  <2> HIDE DEF i
  <2> QED BY <1>4
<1> HIDE DEF i
<1>6. Extends(bytes, b, ValidInstrs)
  BY <1>2, <1>5, ValidRecords, EmitAllExtends
<1>7. BytesOK(b) /\ CodedBytes(b)
  BY <1>2, <1>5, EmitAllCoded
<1> HIDE DEF b
<1>8. b.code[Top.jz].op \in Jumps /\ b.used \in Nat
  BY <1>3, <1>6, <1>7 DEF IsJump, Extends, BytesOK
<1>9. b.used \in OperandsOf(b.code[Top.jz].op, b.code[Top.jz].w) /\ b.used \in Int
  BY <1>8, JumpOperand
<1>10. CodedBytes(Patch(b, Top.jz, b.used))
  BY <1>7, <1>9, PatchCoded
<1> QED BY <1>1, <1>10 DEF Coded, CodedBytes

\* The frame of a function: an ADD_SP takes any offset.
LEMMA PrologueCodes ==
    ASSUME Prologue
    PROVE  Codes
<1>1. bytes' = EmitAll(bytes, <<Instr("enter", 0, 0), Instr("add_sp", 0, 0)>>)
  BY DEF Prologue
<1> QED BY <1>1, ShortInstr, EmitsTwo DEF Codes

LEMMA EndFunCoded ==
    ASSUME SourceTypes, Shape, Branches, Coded, EndFun
    PROVE  Coded'
<1> DEFINE exit == <<Instr("exit", 0, 0)>>
           tail == <<Instr("mov_imm", 8, 0), Instr("leave", 0, 0), Instr("ret", 0, 0)>>
           s == IF Top.word = "main" THEN exit ELSE tail
           b == EmitAll(bytes, s)
           x == Home + 1
<1>1. bytes' = Patch(b, x, offset_counter)
  BY DEF EndFun, Home
<1>2. x \in DOMAIN bytes.code /\ bytes.code[x].op = "add_sp"
  BY EndFunCode
<1>3. BytesOK(bytes) /\ CodedBytes(bytes) /\ offset_counter \in Int
  BY DEF SourceTypes, Coded, CodedBytes
<1>4. s \in Seq(ValidInstrs)
  <2>1. /\ Instr("exit", 0, 0) \in ValidInstrs
        /\ Instr("leave", 0, 0) \in ValidInstrs /\ Instr("ret", 0, 0) \in ValidInstrs
    BY ShortInstr
  <2>2. Instr("mov_imm", 8, 0) \in ValidInstrs
    <3>1. 8 \in Widths
      BY DEF Widths
    <3>2. 0 \in 0..(Cap(8) - 1)
      BY <3>1, CapType
    <3> QED BY <3>1, <3>2, ImmediateInstr
  <2>3. exit \in Seq(ValidInstrs) /\ tail \in Seq(ValidInstrs)
    BY <2>1, <2>2
  <2> HIDE DEF exit, tail
  <2> QED BY <2>3
<1> HIDE DEF s, x
<1>5. Extends(bytes, b, ValidInstrs) /\ BytesOK(b) /\ CodedBytes(b)
  BY <1>3, <1>4, ValidRecords, EmitAllExtends, EmitAllCoded
<1> HIDE DEF b
<1>6. b.code[x].op = "add_sp"
  BY <1>2, <1>5 DEF Extends
<1>7. offset_counter \in OperandsOf(b.code[x].op, b.code[x].w)
  BY <1>3, <1>6 DEF OperandsOf, Jumps
<1>8. CodedBytes(Patch(b, x, offset_counter))
  BY <1>3, <1>5, <1>7, PatchCoded
<1> QED BY <1>1, <1>8 DEF Coded, CodedBytes

\* Every step of the generator keeps the code valid.
LEMMA CodedStep ==
    ASSUME Evened, Coded, [Next]_vars
    PROVE  Coded'
<1>1. SourceTypes /\ Shape /\ Branches /\ Operands
  BY DEF Evened
<1>2. ASSUME Codes PROVE Coded'
  <2>1. CASE UNCHANGED bytes
    BY <2>1 DEF Coded
  <2>2. CASE Emits(ValidInstrs)
    BY <1>1, <2>2, EmitsCoded
  <2> QED BY <1>2, <2>1, <2>2 DEF Codes
<1>3. CASE UNCHANGED vars
  BY <1>2, <1>3 DEF Codes, vars
<1>4. CASE Declaration
  <2>1. CASE EndFun
    BY <1>1, <2>1, EndFunCoded
  <2>2. CASE Prologue
    BY <1>2, <2>2, PrologueCodes
  <2>3. CASE \/ \E h \in FunHeads : DeclareFun(h)
             \/ \E p \in Params : AddParam(p)
             \/ DeclareVar \/ EndProgram
    <3>1. UNCHANGED bytes
      BY <1>1, <2>3, OutsideSame, Zenon
    <3> QED BY <1>2, <3>1 DEF Codes
  <2> QED BY <1>4, <2>1, <2>2, <2>3, Zenon DEF Declaration
<1>5. CASE Statement
  <2>1. CASE EndStmts \/ EndScope \/ EmitIf \/ EmitWhile \/ EmitBlock \/ EmitMatch \/ EmitExprStmt
    BY <1>2, <2>1 DEF Codes, EndStmts, EndScope, EmitIf, EmitWhile, EmitBlock, EmitMatch, EmitExprStmt
  <2>2. CASE EndIf \/ EndWhile
    BY <1>1, <2>2, EndIfCoded, EndWhileCoded
  <2>3. CASE EndReturn \/ \E expr \in BOOLEAN : EmitReturn(expr)
    BY <1>1, <1>2, <2>3, ReturnCodes
  <2>4. CASE EndVar \/ \E name \in VarNames, t \in VarTypes, init \in BOOLEAN : EmitVar(name, t, init)
    BY <1>1, <1>2, <2>4, VarCodes, Zenon
  <2>5. CASE IfJz \/ WhileJz
    BY <1>1, <1>2, <2>5, WordCodes
  <2>6. CASE \E else \in {"none", "elseif", "else"} : IfJmp(else)
    BY <1>2, <2>6, IfJmpCodes
  <2> QED BY <1>5, <2>1, <2>2, <2>3, <2>4, <2>5, <2>6, Zenon DEF Statement
<1>6. CASE Expression
  <2>1. CASE \E id \in {"int", "float", "string"}, v \in Literals \cup FloatImages : Literal(id, v)
    BY <1>1, <1>2, <2>1, LiteralCodes
  <2>2. CASE \E name \in UsedNames : Ident(name)
    BY <1>1, <1>2, <2>2, IdentCodes
  <2>3. CASE \E name \in UsedNames, op \in AssignOps : Assign(name, op)
    BY <1>1, <1>2, <2>3, AssignCodes
  <2>4. CASE EndUnary \/ Push \/ Store
    BY <1>1, <1>2, <2>4, WordCodes
  <2>5. CASE EndBinary \/ EndAssgn
    BY <1>1, <1>2, <2>5, OperatorCodes
  <2>6. CASE EndArg \/ EndCall
    BY <1>1, <1>2, <2>6, EndArgCodes, EndCallCodes
  <2>7. ASSUME \/ Arg
               \/ \E name \in UsedNames, n \in 0..MaxArgs : Call(name, n)
               \/ \E op \in UnOps : EmitUnary(op)
               \/ \E op \in BinOps : EmitBinary(op)
        PROVE  Coded'
    <3>1. UNCHANGED bytes
      BY <2>7 DEF Arg, Call, EmitUnary, EmitBinary
    <3> QED BY <1>2, <3>1 DEF Codes
  <2> QED BY <1>6, <2>1, <2>2, <2>3, <2>4, <2>5, <2>6, <2>7, Zenon DEF Expression
<1> QED BY <1>3, <1>4, <1>5, <1>6, Zenon DEF Next, Compiled

\* Every variable of the code generator always holds what its C counterpart
\* can: no handler's type pointer dangles, and every instruction emitted, and
\* every operand patched into one, is one vm.h has, although OP_MULTI and its
\* kin add the index of a size to an opcode without looking at the size.
THEOREM TypeCorrect == Spec => []TypeOK
<1> DEFINE IInv == Evened /\ StateTypes /\ Coded
<1>1. Init => IInv
  <2> SUFFICES ASSUME Init PROVE IInv
    OBVIOUS
  <2>1. Evened
    BY InitialSource, InitialEvened
  <2>2. main_idx \in 0..Len(funs) /\ SourceTypes
    BY <2>1 DEF Init, Evened
  <2>3. Coded
    BY DEF Init, Coded
  <2> QED BY <2>1, <2>2, <2>3 DEF StateTypes
<1>2. IInv /\ [Next]_vars => IInv'
  <2> SUFFICES ASSUME IInv, [Next]_vars PROVE IInv'
    OBVIOUS
  <2>1. Evened' /\ Coded'
    BY EvenedStep, CodedStep
  <2>2. main_idx' \in 0..Len(funs')
    BY MainIdxStep DEF Evened
  <2> QED BY <2>1, <2>2 DEF StateTypes, Evened
<1>3. IInv => TypeOK
  BY DEF TypeOK
<1> QED BY <1>1, <1>2, <1>3, PTL DEF Spec

=============================================================================
