----------------------- MODULE GalachCodegenAccesses ------------------------
(***************************************************************************)
(* AccessesInFrame is an invariant of the code generator, for every value  *)
(* of its constants, when no assignment stores to a function or in a       *)
(* context that wants another width than the variable's (the run           *)
(* viol_frame shows why the second is needed).                             *)
(*                                                                         *)
(* The frame's size is patched into the prologue when the function ends,   *)
(* so the inductive invariant, Reached /\ Assigned, speaks of              *)
(* offset_counter instead: it only ever goes down inside a function, and   *)
(* the width of a store that is still to be emitted is that of a cell      *)
(* which, once it has a type, keeps it.                                    *)
(***************************************************************************)
EXTENDS GalachCodegenBranches

\* What is assumed of the source.
OrdinarySource == {"mixedassign", "funassign"} \cap Shapes = {}

-----------------------------------------------------------------------------
(* Instructions that fit in a frame.                                       *)

\* If they access it, they do so at a parameter or at what has been laid out
\* when offset_counter is c.
Tame(c) == {i \in InstrRecords : i.op \in Accesses => i.arg >= 16 \/ (i.arg >= c /\ i.arg + i.w <= 0)}

\* The code a step adds fits.
Fitting == \A x \in DOMAIN bytes'.code : x \notin DOMAIN bytes.code => bytes'.code[x] \in Tame(offset_counter')

LEMMA MuteFits == ASSUME NEW c PROVE Mute \subseteq Tame(c) /\ Tame(c) \subseteq InstrRecords
  BY DEF Mute, Tame

LEMMA InstrFits ==
    ASSUME NEW c \in Int, NEW op \in Ops, NEW w \in Widths \cup {0}, NEW arg \in Int,
           arg >= 16 \/ (arg >= c /\ arg + w <= 0)
    PROVE  Instr(op, w, arg) \in Tame(c)
<1>1. Instr(op, w, arg) \in InstrRecords
  BY InstrType
<1>2. Instr(op, w, arg).arg = arg /\ Instr(op, w, arg).w = w
  BY DEF Instr
<1> QED BY <1>1, <1>2 DEF Tame

LEMMA EmitsFitting ==
    ASSUME SourceTypes, NEW c, c = offset_counter', Emits(Tame(c))
    PROVE  Fitting
<1>1. PICK s \in Seq(Tame(c)) : bytes' = EmitAll(bytes, s)
  BY DEF Emits
<1>2. Tame(c) \subseteq InstrRecords /\ BytesOK(bytes)
  BY MuteFits DEF SourceTypes
<1>3. Extends(bytes, EmitAll(bytes, s), Tame(c))
  BY <1>2, EmitAllExtends
<1> QED BY <1>1, <1>3 DEF Extends, Fitting

LEMMA MuteFitting ==
    ASSUME SourceTypes, Emits(Mute)
    PROVE  Fitting
<1> DEFINE c == offset_counter'
<1>1. PICK s \in Seq(Mute) : bytes' = EmitAll(bytes, s)
  BY DEF Emits
<1>2. s \in Seq(Tame(c))
  <2>1. Mute \subseteq Tame(c)
    BY MuteFits
  <2> QED BY <2>1
<1>3. Emits(Tame(c))
  BY <1>1, <1>2 DEF Emits
<1> QED BY <1>3, EmitsFitting

LEMMA SameFitting == ASSUME UNCHANGED bytes PROVE Fitting
  BY DEF Fitting

-----------------------------------------------------------------------------
(* Cells keep the types they have.                                         *)

Typed == /\ Len(types') \in Nat /\ Len(types') >= Len(types)
         /\ \A c \in 1..Len(types) : types[c] # "unit" => types'[c] = types[c]

LEMMA TypedSame == ASSUME SourceTypes, UNCHANGED types PROVE Typed
  BY DEF SourceTypes, Typed

LEMMA TypedMade == ASSUME SourceTypes, NEW t, MakeCell(t) PROVE Typed
<1>1. types \in Seq(Types) /\ types' = Append(types, t)
  BY DEF SourceTypes, MakeCell
<1> QED BY <1>1 DEF Typed

LEMMA TypedSet ==
    ASSUME SourceTypes, Shape, Top.step = "expr", NEW t, SetCell(Infer(t))
    PROVE  Typed
<1> DEFINE c == Top.cell
<1>1. types \in Seq(Types) /\ c \in 1..Len(types)
  BY ExprCell DEF SourceTypes
<1>2. types' = [types EXCEPT ![c] = Infer(t)]
  BY DEF SetCell
<1>3. types[c] # "unit" => Infer(t) = types[c]
  BY DEF Infer, Cell
<1> HIDE DEF c
<1>4. Len(types') = Len(types) /\ \A d \in 1..Len(types) : types'[d] = IF d = c THEN Infer(t) ELSE types[d]
  BY <1>1, <1>2
<1> QED BY <1>1, <1>3, <1>4 DEF Typed

LEMMA StatementTyped ==
    ASSUME SourceTypes, Shape, Statement \/ Expression
    PROVE  Typed
<1>1. ASSUME UNCHANGED types PROVE Typed
  BY <1>1, TypedSame
<1>2. CASE \/ EndStmts \/ EndScope \/ EndVar \/ IfJz \/ EndIf \/ WhileJz \/ EndWhile
           \/ EndReturn \/ EmitBlock \/ EmitMatch
  BY <1>1, <1>2 DEF EndStmts, EndScope, EndVar, IfJz, EndIf, WhileJz, EndWhile, EndReturn,
                    EmitBlock, EmitMatch, Fail
<1>3. CASE \/ EndArg \/ EndCall \/ (\E op \in UnOps : EmitUnary(op)) \/ EndUnary
           \/ (\E op \in BinOps : EmitBinary(op)) \/ Push \/ EndBinary \/ Store \/ EndAssgn
  BY <1>1, <1>3 DEF EndArg, EndCall, EmitUnary, EndUnary, EmitBinary, Push, EndBinary,
                    Store, EndAssgn, Fail
<1>4. CASE EmitIf \/ EmitWhile \/ EmitExprStmt \/ Arg
  <2>1. \E t : MakeCell(t)
    BY <1>4 DEF EmitIf, EmitWhile, EmitExprStmt, Arg
  <2> QED BY <2>1, TypedMade
<1>5. ASSUME NEW name \in VarNames, NEW t \in VarTypes, NEW init \in BOOLEAN, EmitVar(name, t, init)
      PROVE  Typed
  <2>1. MakeCell(t)
    BY <1>5 DEF EmitVar
  <2> QED BY <2>1, TypedMade
<1>6. ASSUME NEW else \in {"none", "elseif", "else"}, IfJmp(else) PROVE Typed
  <2>1. UNCHANGED types \/ MakeCell("unit")
    BY <1>6 DEF IfJmp
  <2> QED BY <1>1, <2>1, TypedMade
<1>7. ASSUME NEW expr \in BOOLEAN, EmitReturn(expr) PROVE Typed
  <2>1. UNCHANGED types \/ MakeCell("unit")
    BY <1>7 DEF EmitReturn
  <2> QED BY <1>1, <2>1, TypedMade
<1>8. ASSUME NEW id \in {"int", "float", "string"}, NEW v \in Literals \cup FloatImages, Literal(id, v)
      PROVE  Typed
  <2>1. Top.step = "expr" /\ (UNCHANGED types \/ SetCell(Infer(IF id = "float" THEN "f32" ELSE "i32")))
    BY <1>8 DEF Literal, At, Fail
  <2> QED BY <1>1, <2>1, TypedSet, Zenon
<1>9. ASSUME NEW name \in UsedNames, Ident(name) PROVE Typed
  <2>1. Top.step = "expr" /\ (UNCHANGED types \/ SetCell(Infer(Find(name).type)))
    BY <1>9 DEF Ident, At, Fail
  <2> QED BY <1>1, <2>1, TypedSet, Zenon
<1>10. ASSUME NEW name \in UsedNames, NEW n \in 0..MaxArgs, Call(name, n) PROVE Typed
  <2>1. Top.step = "expr" /\ (UNCHANGED types \/ SetCell(Infer(Find(name).type)))
    BY <1>10 DEF Call, At
  <2> QED BY <1>1, <2>1, TypedSet, Zenon
<1>11. ASSUME NEW name \in UsedNames, NEW op \in AssignOps, Assign(name, op) PROVE Typed
  <2>1. Top.step = "expr" /\ (UNCHANGED types \/ SetCell(Infer(Find(name).type)))
    BY <1>11 DEF Assign, At
  <2> QED BY <1>1, <2>1, TypedSet, Zenon
<1>12. CASE Statement
  BY <1>2, <1>4, <1>5, <1>6, <1>7, <1>12, Zenon DEF Statement
<1>13. CASE Expression
  BY <1>3, <1>4, <1>8, <1>9, <1>10, <1>11, <1>13, Zenon DEF Expression
<1> QED BY <1>12, <1>13

-----------------------------------------------------------------------------
(* What the handlers add.                                                  *)

LEMMA QuietAccesses ==
    ASSUME SourceTypes, Quiet
    PROVE  Fitting /\ Leaves(Storing)
  BY MuteFitting DEF Quiet, Leaves, Pending

LEMMA FailAccesses ==
    ASSUME SourceTypes, UNCHANGED <<bytes, work>>, Top.step \notin Storing
    PROVE  Fitting /\ Leaves(Storing)
  BY SameFitting, LeavesSame

\* A variable's slot is laid out before it is stored to.
LEMMA EndVarAccesses ==
    ASSUME SourceTypes, Shape, Layout, EndVar
    PROVE  Fitting /\ Leaves(Storing) /\ offset_counter' \in Int /\ offset_counter' <= offset_counter
<1> DEFINE size   == TypeSize(Cell)
           offset == offset_counter - size
<1>1. Top.step \in CellSteps /\ Top.step \notin Storing
  BY DEF EndVar, At, CellSteps, Storing
<1>2. size \in Widths \cup {0} /\ size \in Nat /\ offset \in Int /\ offset_counter \in Int
  BY <1>1, CellType DEF SourceTypes
<1>3. offset_counter' = offset /\ offset_counter <= 0
  BY DEF EndVar, Layout, FrameBelow
<1>4. \/ UNCHANGED <<bytes, work>>
      \/ bytes' = EmitAll(bytes, <<Instr("mov_a_offset", size, offset)>>) /\ work' = Front(work)
  BY DEF EndVar
<1>5. offset >= offset /\ offset + size <= 0 /\ offset <= offset_counter
  BY <1>2, <1>3
<1>6. "mov_a_offset" \in Ops
  BY AccessOps DEF Accesses
<1> HIDE DEF size, offset
<1>7. Instr("mov_a_offset", size, offset) \in Tame(offset)
  BY <1>2, <1>5, <1>6, InstrFits
<1>8. CASE UNCHANGED <<bytes, work>>
  BY <1>1, <1>2, <1>3, <1>5, <1>8, FailAccesses
<1>9. CASE bytes' = EmitAll(bytes, <<Instr("mov_a_offset", size, offset)>>) /\ work' = Front(work)
  <2>1. Emits(Tame(offset))
    BY <1>7, <1>9, EmitsOne, Zenon
  <2>2. Fitting
    BY <1>3, <2>1, EmitsFitting
  <2> QED BY <1>2, <1>3, <1>5, <1>9, <2>2, LeavesNone
<1> QED BY <1>4, <1>8, <1>9

\* The store that ends an assignment.
LEMMA StoreAccesses ==
    ASSUME SourceTypes, Shape, Assigned, Store \/ EndAssgn, UNCHANGED offset_counter
    PROVE  UNCHANGED <<bytes, work>> \/ (Fitting /\ Leaves(Storing))
<1> DEFINE size == TypeSize(Cell)
           c    == offset_counter
<1>1. Top.step \in CellSteps /\ Top.step \in Storing /\ Top.step \notin {"decls", "endfun", "params"}
  BY DEF Store, EndAssgn, At, CellSteps, Storing
<1>2. Top \in Items /\ Len(work) >= 3 /\ Top = work[Len(work)]
  BY <1>1, TopInFunction, Zenon
<1>3. size \in Widths \cup {0} /\ size \in Nat /\ Top.offset \in Int /\ 0 \in Int /\ c \in Int
  <2>1. size \in Widths \cup {0} /\ size \in Nat
    BY <1>1, CellType
  <2>2. Top.offset \in Int
    BY <1>2 DEF Items
  <2> QED BY <2>1, <2>2 DEF SourceTypes
<1>4. Top.offset >= 16 \/ (Top.offset >= c /\ Top.offset + size <= 0)
  <2>1. Len(work) \in 3..Len(work)
    BY <1>2 DEF SourceTypes
  <2>2. work[Len(work)].step \in {"store", "endassgn"}
    BY <1>1, <1>2 DEF Storing
  <2>3. Within(work[Len(work)].offset, TypeSize(types[work[Len(work)].cell]))
    BY <2>1, <2>2 DEF Assigned
  <2> QED BY <1>2, <2>3 DEF Within, Cell
<1>5. Instr("mov_a_offset", size, Top.offset) \in Tame(c)
  <2>1. "mov_a_offset" \in Ops
    BY AccessOps DEF Accesses
  <2> HIDE DEF size, c
  <2> QED BY <1>3, <1>4, <2>1, InstrFits
<1>6. c = offset_counter'
  OBVIOUS
<1>7. CASE Store
  <2>1. \/ Fail
        \/ /\ bytes' = EmitAll(bytes, <<Instr("mov_a_offset", size, Top.offset)>>)
           /\ work' = Front(work)
    BY <1>7 DEF Store
  <2>2. CASE ~Fail
    <3> HIDE DEF size, c
    <3>1. Emits(Tame(c))
      BY <1>5, <2>1, <2>2, EmitsOne, Zenon
    <3> QED BY <1>6, <2>1, <2>2, <3>1, EmitsFitting, LeavesNone
  <2> QED BY <2>2, FailSame
<1>8. CASE EndAssgn
  <2>1. \/ Fail
        \/ /\ bytes' = EmitAll(bytes, <<Instr(Top.word, size, 0),
                                        Instr("mov_a_offset", size, Top.offset)>>)
           /\ work' = Front(work)
    BY <1>8 DEF EndAssgn
  <2>2. Instr(Top.word, size, 0) \in Tame(c)
    <3>1. Top.word \in ArithOps
      BY <1>8, TopWord DEF EndAssgn, At, ArithOps
    <3>2. Top.word \in Ops /\ Top.word \notin Jumps \cup Accesses
      BY <3>1, MuteOps
    <3> HIDE DEF size, c
    <3>3. Instr(Top.word, size, 0) \in Mute
      BY <1>3, <3>2, MuteInstr, Zenon
    <3> QED BY <3>3, MuteFits
  <2>3. CASE ~Fail
    <3> HIDE DEF size, c
    <3>1. Emits(Tame(c))
      BY <1>5, <2>1, <2>2, <2>3, EmitsTwo, Zenon
    <3> QED BY <1>6, <2>1, <2>3, <3>1, EmitsFitting, LeavesNone
  <2> QED BY <2>3, FailSame
<1> QED BY <1>7, <1>8

\* A local that is a variable has been laid out.
LEMMA FoundWithin ==
    ASSUME SourceTypes, Layout, NEW name, Declared(name), Find(name).id = "var"
    PROVE  /\ Find(name).type # "unit"
           /\ Within(Find(name).offset, TypeSize(Find(name).type))
<1>1. PICK k \in 1..Len(scopes) : \E i \in 1..Len(scopes[k]) : Find(name) = scopes[k][i]
  BY FindType DEF SourceTypes
<1>2. PICK i \in 1..Len(scopes[k]) : Find(name) = scopes[k][i]
  BY <1>1
<1>3. IsVar(k, i)
  BY <1>2 DEF IsVar
<1>4. Placed(scopes[k][i])
  BY <1>3 DEF Layout, VarsPlaced
<1> QED BY <1>2, <1>4 DEF Placed, Within

LEMMA IdentAccesses ==
    ASSUME SourceTypes, Shape, Layout, NEW name \in UsedNames, Ident(name)
    PROVE  UNCHANGED <<bytes, work>> \/ (Fitting /\ Leaves(Storing))
<1> DEFINE local == Find(name)
           t     == Infer(local.type)
           load  == <<Instr("mov_offset_a", TypeSize(local.type), local.offset)>>
           cast  == CastCode(local.type, t)
           c     == offset_counter
<1>1. SUFFICES ASSUME ~Fail PROVE Fitting /\ Leaves(Storing)
  BY FailSame
<1>2. /\ Declared(name) /\ local.id = "var"
      /\ ~CastFails(local.type, t)
      /\ bytes' = EmitAll(bytes, load \o cast)
      /\ work' = Front(work)
      /\ UNCHANGED offset_counter
  BY <1>1 DEF Ident
<1>3. local \in Locals /\ Within(local.offset, TypeSize(local.type))
  BY <1>2, FindType, FoundWithin, Zenon DEF SourceTypes
<1>4. local.type \in Types /\ local.offset \in Int /\ c \in Int
  BY <1>3, LocalField, Zenon DEF SourceTypes
<1>5. t \in Types
  BY <1>4, ExprCell DEF Ident, At
<1>6. c = offset_counter'
  BY <1>2
<1> HIDE DEF local, t
<1>7. cast \in Seq(Tame(c))
  <2>1. cast \in Seq(Mute)
    BY <1>2, <1>4, <1>5, MuteCast, Zenon
  <2>2. Mute \subseteq Tame(c)
    BY MuteFits
  <2> HIDE DEF cast
  <2> QED BY <2>1, <2>2
<1>8. load \in Seq(Tame(c))
  <2>1. "mov_offset_a" \in Ops
    BY AccessOps DEF Accesses
  <2>2. TypeSize(local.type) \in Widths \cup {0}
    BY <1>4, SizeOfType, Zenon
  <2>3. local.offset >= 16 \/ (local.offset >= c /\ local.offset + TypeSize(local.type) <= 0)
    BY <1>3 DEF Within
  <2>4. Instr("mov_offset_a", TypeSize(local.type), local.offset) \in Tame(c)
    <3> HIDE DEF c
    <3> QED BY <1>4, <2>1, <2>2, <2>3, InstrFits
  <2> QED BY <2>4
<1> HIDE DEF load, cast, c
<1>9. Emits(Tame(c))
  BY <1>2, <1>7, <1>8, EmitsBoth, Zenon
<1> QED BY <1>2, <1>6, <1>9, EmitsFitting, LeavesNone


\* An assignment loads, and leaves a store that will write, what it has found.
LEMMA AssignAccesses ==
    ASSUME SourceTypes, SourceTypes', Shape, Layout, OrdinarySource, Assigned, Typed,
           NEW name \in UsedNames, NEW op \in AssignOps, Assign(name, op)
    PROVE  Fitting /\ Assigned'
<1> DEFINE local == Find(name)
           t     == Infer(local.type)
           w     == TypeSize(t)
           step  == IF op = "assign" THEN "store" ELSE "endassgn"
           it    == ItemWith(step, Top.cell)
           store == [it EXCEPT !.word = op, !.offset = local.offset]
           ex    == ItemWith("expr", Top.cell)
           code  == <<Instr("mov_offset_a", w, local.offset), Instr("push", w, 0)>>
           c     == offset_counter
           n     == Len(work)
<1>1. CASE UNCHANGED <<bytes, work, types>>
  <2>1. UNCHANGED offset_counter
    BY DEF Assign
  <2> QED BY <1>1, <2>1, SameFitting DEF Assigned, Within
<1>2. CASE ~UNCHANGED <<bytes, work, types>>
  <2>1. /\ Declared(name)
        /\ bytes' = bytes \/ bytes' = EmitAll(bytes, code)
        /\ Become(<<store, ex>>)
        /\ Top.step = "expr"
        /\ SetCell(t)
        /\ UNCHANGED offset_counter
    BY <1>2 DEF Assign, At
  <2>2. local.id = "var" /\ TypeSize(t) = TypeSize(local.type)
    BY <2>1 DEF Assign, Ordinary, Uses, OrdinarySource
  <2>3. local \in Locals /\ Within(local.offset, TypeSize(local.type)) /\ local.type # "unit"
    BY <2>1, <2>2, FindType, FoundWithin, Zenon DEF SourceTypes
  <2>4. local.type \in Types /\ local.offset \in Int /\ c \in Int
    BY <2>3, LocalField, Zenon DEF SourceTypes
  <2>5. t \in Types /\ Top.cell \in 1..Len(types) /\ Top.cell \in Nat
    BY <2>1, <2>4, ExprCell, Zenon
  <2>6. w \in Widths \cup {0} /\ 0 \in Int /\ t # "unit"
    BY <2>2, <2>3, <2>4, <2>5, SizeOfType
  <2>7. types'[Top.cell] = t
    BY <2>1, <2>5 DEF SetCell, SourceTypes
  <2>8. it \in Items /\ it.step = step /\ it.cell = Top.cell
    <3>1. step \in Steps
      BY DEF Steps
    <3> QED BY <2>5, <3>1, CellItem
  <2>9. ex \in Items /\ ex.step \notin Storing
    BY <2>5, CellItems DEF Pending
  <2>10. op \in Names \cup Operators
    BY SourceAssumption DEF Operators, ArithOps
  <2>11. c = offset_counter'
    BY <2>1
  <2>12. Within(local.offset, w)
    BY <2>2, <2>3
  <2> HIDE DEF local, t, it, step, w, c
  <2>13. store \in Items /\ store.cell = Top.cell /\ store.offset = local.offset
    BY <2>4, <2>8, <2>10 DEF Items
  <2>14. Fitting
    <3>1. "mov_offset_a" \in Ops /\ "push" \in Ops /\ "push" \notin Jumps \cup Accesses
      BY AccessOps, MuteOps DEF Accesses
    <3>2. local.offset >= 16 \/ (local.offset >= c /\ local.offset + w <= 0)
      BY <2>12 DEF Within, c
    <3>3. Instr("mov_offset_a", w, local.offset) \in Tame(c)
      BY <2>4, <2>6, <3>1, <3>2, InstrFits
    <3>4. Instr("push", w, 0) \in Tame(c)
      <4>1. Instr("push", w, 0) \in Mute
        BY <2>6, <3>1, MuteInstr, Zenon
      <4> QED BY <4>1, MuteFits
    <3>5. CASE bytes' = EmitAll(bytes, code)
      <4>1. Emits(Tame(c))
        BY <3>3, <3>4, <3>5, EmitsTwo, Zenon
      <4> QED BY <2>11, <4>1, EmitsFitting
    <3> QED BY <2>1, <3>5, SameFitting
  <2>15. Assigned'
    <3> DEFINE s == <<store, ex>>
               m == Len(work')
    <3> HIDE DEF store, ex
    <3>1. s \in Seq(Items) /\ Len(s) = 2 /\ s[1] = store /\ s[2] = ex
      BY <2>9, <2>13
    <3>2. Become(s)
      BY <2>1
    <3>3. work \in Seq(Items) /\ n >= 1 /\ n \in Nat /\ n >= 3
      <4>1. Top.step \notin {"decls", "endfun"}
        BY <2>1
      <4>2. n >= 3
        BY <4>1, TopInFunction, Zenon
      <4> QED BY <4>2 DEF SourceTypes
    <3> HIDE DEF s
    <3>4. m = n + 1 /\ \A i \in 1..m : work'[i] = IF i < n THEN work[i] ELSE s[i - (n - 1)]
      <4>1. /\ m = n - 1 + Len(s)
            /\ \A i \in 1..m : work'[i] = IF i < n THEN work[i] ELSE s[i - (n - 1)]
        BY <3>1, <3>2, <3>3, BecomeSeq
      <4> HIDE DEF m, n
      <4> QED BY <3>1, <3>3, <4>1
    <3> SUFFICES ASSUME NEW i \in 3..m, work'[i].step \in {"store", "endassgn"}
                 PROVE  /\ types'[work'[i].cell] # "unit"
                        /\ Within(work'[i].offset, TypeSize(types'[work'[i].cell]))
      BY <2>11 DEF Assigned, Within, c
    <3>5. CASE i < n
      <4>1. i \in 3..n /\ work'[i] = work[i]
        BY <3>3, <3>4, <3>5
      <4>2. /\ types[work[i].cell] # "unit"
            /\ Within(work[i].offset, TypeSize(types[work[i].cell]))
        BY <4>1 DEF Assigned
      <4>3. work[i].cell \in 1..Len(types)
        BY <4>1 DEF Shape, Handlers, Nested, CellSteps
      <4> QED BY <4>1, <4>2, <4>3 DEF Typed
    <3>6. CASE i = n
      <4>1. work'[i] = store
        <5>1. i - (n - 1) = 1 /\ ~(i < n) /\ i \in 1..m
          BY <3>3, <3>4, <3>6
        <5> QED BY <3>1, <3>4, <5>1
      <4> QED BY <2>6, <2>7, <2>12, <2>13, <4>1 DEF w
    <3>7. CASE i = n + 1
      <4>1. work'[i] = ex
        <5>1. i - (n - 1) = 2 /\ ~(i < n) /\ i \in 1..m
          BY <3>3, <3>4, <3>7
        <5> QED BY <3>1, <3>4, <5>1
      <4> QED BY <2>9, <4>1 DEF Storing
    <3> QED BY <3>3, <3>4, <3>5, <3>6, <3>7
  <2> QED BY <2>14, <2>15
<1> QED BY <1>1, <1>2


\* Jumps access nothing.
LEMMA JumpFits ==
    ASSUME NEW c, NEW op \in Jumps, NEW w \in Widths \cup {0}, NEW arg \in Int
    PROVE  Instr(op, w, arg) \in Tame(c)
<1>1. op \in Ops /\ op \notin Accesses
  BY DEF Jumps, Ops, WithOperand, Accesses
<1>2. Instr(op, w, arg) \in InstrRecords
  BY <1>1, InstrType, Zenon
<1>3. Instr(op, w, arg).op = op
  BY DEF Instr
<1> QED BY <1>1, <1>2, <1>3 DEF Tame

LEMMA JumpFitting ==
    ASSUME SourceTypes, NEW op \in Jumps, NEW w \in Widths \cup {0},
           bytes' = EmitAll(bytes, <<Instr(op, w, 0)>>)
    PROVE  Fitting
<1> DEFINE c == offset_counter'
<1>1. Instr(op, w, 0) \in Tame(c)
  <2>1. 0 \in Int
    OBVIOUS
  <2> QED BY <2>1, JumpFits, Zenon
<1>2. Emits(Tame(c))
  <2> HIDE DEF c
  <2> QED BY <1>1, EmitsOne, Zenon
<1> QED BY <1>2, EmitsFitting

LEMMA GuardAccesses ==
    ASSUME SourceTypes, Shape, IfJz \/ WhileJz
    PROVE  UNCHANGED <<bytes, work>> \/ (Fitting /\ Leaves(Storing))
<1> DEFINE w     == TypeSize(Cell)
           stmts == Item("stmts")
<1>1. Top.step \in CellSteps /\ Top.step \notin {"decls", "endfun", "params"}
  BY DEF IfJz, WhileJz, At, CellSteps
<1>2. w \in Widths \cup {0} /\ "jz" \in Jumps /\ bytes.used \in Nat /\ Top.to \in Nat
  <2>1. Top \in Items
    BY <1>1, TopInFunction, Zenon
  <2> QED BY <1>1, <2>1, CellType DEF Jumps, Items, SourceTypes, BytesOK
<1>3. /\ CloseScope \in Items /\ CloseScope.step \notin Storing
      /\ stmts \in Items /\ stmts.step \notin Storing
  BY BodyItems DEF Pending
<1>4. SUFFICES ASSUME ~Fail PROVE Fitting /\ Leaves(Storing)
  BY FailSame
<1>5. bytes' = EmitAll(bytes, <<Instr("jz", w, 0)>>)
  BY <1>4 DEF IfJz, WhileJz
<1>6. Fitting
  <2> HIDE DEF w
  <2> QED BY <1>2, <1>5, JumpFitting
<1>7. CASE IfJz
  <2> DEFINE it  == Item("ifjmp")
             end == [it EXCEPT !.jz = bytes.used]
  <2>1. Become(<<end, CloseScope, stmts>>)
    BY <1>4, <1>7 DEF IfJz
  <2>2. it \in Items /\ it.step = "ifjmp"
    <3>1. "ifjmp" \in Steps
      BY DEF Steps
    <3> QED BY <3>1, ItemType
  <2> HIDE DEF it, stmts
  <2>3. end \in Items /\ end.step \notin Storing
    BY <1>2, <2>2 DEF Items, Storing
  <2> HIDE DEF end
  <2> QED BY <1>3, <1>6, <2>1, <2>3, LeavesThree, Zenon
<1>8. CASE WhileJz
  <2> DEFINE it  == Item("endwhile")
             end == [it EXCEPT !.jz = bytes.used, !.to = Top.to]
  <2>1. Become(<<end, CloseScope, stmts>>)
    BY <1>4, <1>8 DEF WhileJz
  <2>2. it \in Items /\ it.step = "endwhile"
    <3>1. "endwhile" \in Steps
      BY DEF Steps
    <3> QED BY <3>1, ItemType
  <2> HIDE DEF it, stmts
  <2>3. end \in Items /\ end.step \notin Storing
    BY <1>2, <2>2 DEF Items, Storing
  <2> HIDE DEF end
  <2> QED BY <1>3, <1>6, <2>1, <2>3, LeavesThree, Zenon
<1> QED BY <1>7, <1>8

LEMMA EmitWhileAccesses ==
    ASSUME SourceTypes, Shape, EmitWhile
    PROVE  Fitting /\ Leaves(Storing)
<1> DEFINE it == ItemWith("whilejz", NewCell)
           jz == [it EXCEPT !.to = bytes.used]
           ex == ItemWith("expr", NewCell)
<1>1. Top.step = "stmts" /\ NewCell \in Nat /\ Become(<<More, jz, ex>>) /\ UNCHANGED bytes
  BY DEF EmitWhile, At, NewCell, SourceTypes
<1>2. it \in Items /\ it.step = "whilejz"
  <2>1. "whilejz" \in Steps
    BY DEF Steps
  <2> QED BY <1>1, <2>1, CellItem
<1>3. More \in Items /\ More.step \notin Storing
  BY <1>1, MoreItem DEF Pending
<1>4. ex \in Items /\ ex.step \notin Storing
  BY <1>1, CellItems DEF Pending
<1> HIDE DEF it, ex
<1>5. jz \in Items /\ jz.step \notin Storing
  BY <1>2 DEF Items, Storing, SourceTypes, BytesOK
<1> HIDE DEF jz
<1> QED BY <1>1, <1>3, <1>4, <1>5, LeavesThree, SameFitting, Zenon

LEMMA IfJmpAccesses ==
    ASSUME SourceTypes, SourceTypes', Shape, NEW else \in {"none", "elseif", "else"}, IfJmp(else)
    PROVE  Fitting /\ Leaves(Storing)
<1> DEFINE b    == EmitAll(bytes, <<Instr("jmp", 0, 0)>>)
           it   == Item("endif")
           end  == [it EXCEPT !.jz = Top.jz, !.jmp = bytes.used, !.to = b.used]
           jz   == ItemWith("ifjz", NewCell)
           ex   == ItemWith("expr", NewCell)
           jmp  == Item("ifjmp")
           stmts == Item("stmts")
<1>1. Top.step = "ifjmp" /\ bytes' = b /\ NewCell \in Nat
  BY DEF IfJmp, At, NewCell, SourceTypes
<1>2. bytes.used \in Nat /\ b.used \in Nat /\ Top.jz \in Nat \cup {None}
  <2>1. Top \in Items
    BY <1>1, TopInFunction, Zenon
  <2> HIDE DEF b
  <2> QED BY <1>1, <2>1 DEF SourceTypes, BytesOK, Items
<1>3. it \in Items /\ it.step = "endif" /\ jmp \in Items /\ jmp.step \notin Storing
  <2>1. "endif" \in Steps /\ "ifjmp" \in Steps /\ "ifjmp" \notin Storing
    BY DEF Steps, Storing
  <2> QED BY <2>1, ItemType
<1>4. \/ Become(<<end>>) \/ Become(<<end, jz, ex>>) \/ Become(<<end, jmp, CloseScope, stmts>>)
  BY DEF IfJmp
<1>5. jz \in Items /\ jz.step \notin Storing /\ ex \in Items /\ ex.step \notin Storing
  BY <1>1, CellItems DEF Pending
<1>6. /\ CloseScope \in Items /\ CloseScope.step \notin Storing
      /\ stmts \in Items /\ stmts.step \notin Storing
  BY BodyItems DEF Pending
<1>7. Fitting
  <2>1. "jmp" \in Jumps /\ 0 \in Widths \cup {0}
    BY DEF Jumps
  <2>2. bytes' = EmitAll(bytes, <<Instr("jmp", 0, 0)>>)
    BY <1>1
  <2> QED BY <2>1, <2>2, JumpFitting, Zenon
<1> HIDE DEF it, b
<1>8. end \in Items /\ end.step \notin Storing
  BY <1>2, <1>3 DEF Items, Storing
<1> HIDE DEF end, jz, ex, jmp, stmts
<1>9. Leaves(Storing)
  BY <1>3, <1>4, <1>5, <1>6, <1>8, LeavesOne, LeavesThree, LeavesFour, Zenon
<1> QED BY <1>7, <1>9

\* Patching adds nothing.
LEMMA EndBranchAccesses ==
    ASSUME SourceTypes, Shape, Branches, EndIf \/ EndWhile
    PROVE  Fitting /\ Leaves(Storing)
<1>1. Inside /\ work' = Front(work) /\ BytesOK(bytes) /\ bytes.used \in Int
  BY DEF EndIf, EndWhile, At, Inside, SourceTypes, BytesOK
<1>2. Top \in Items /\ Branch(Top)
  BY <1>1, BodyType
<1>3. Leaves(Storing)
  BY <1>1, LeavesNone
<1>4. CASE EndIf
  <2> DEFINE b == IF Top.jz = None THEN bytes ELSE Patch(bytes, Top.jz, Top.to)
  <2>1. bytes' = Patch(b, Top.jmp, bytes.used) /\ Top.to \in Int
    BY <1>2, <1>4 DEF EndIf, Items
  <2>2. BytesOK(b) /\ DOMAIN b.code = DOMAIN bytes.code
    <3>1. CASE Top.jz = None
      BY <1>1, <3>1
    <3>2. CASE Top.jz # None
      <4>1. b = Patch(bytes, Top.jz, Top.to)
        BY <3>2
      <4> HIDE DEF b
      <4> QED BY <1>1, <2>1, <4>1, PatchChanges
    <3> QED BY <3>1, <3>2
  <2> HIDE DEF b
  <2>3. DOMAIN bytes'.code = DOMAIN b.code
    BY <1>1, <2>1, <2>2, PatchChanges
  <2> QED BY <1>3, <2>2, <2>3 DEF Fitting
<1>5. CASE EndWhile
  <2> DEFINE i == Instr("jmp", 0, Top.to)
             b == EmitAll(bytes, <<i>>)
             c == offset_counter'
  <2>1. Top.step = "endwhile" /\ bytes' = Patch(b, Top.jz, b.used)
    BY <1>5 DEF EndWhile, At
  <2>2. IsJump(Top.jz) /\ Top.to \in Int
    BY <1>2, <2>1 DEF Branch, Waits, Items
  <2>3. i \in Tame(c)
    <3>1. "jmp" \in Jumps /\ 0 \in Widths \cup {0}
      BY DEF Jumps
    <3> QED BY <2>2, <3>1, JumpFits, Zenon
  <2> HIDE DEF i, c
  <2>4. Extends(bytes, b, Tame(c))
    <3>1. <<i>> \in Seq(Tame(c)) /\ Tame(c) \subseteq InstrRecords
      BY <2>3, MuteFits
    <3> QED BY <1>1, <3>1, EmitAllExtends
  <2> HIDE DEF b
  <2>5. BytesOK(b) /\ b.used \in Int
    BY <2>4 DEF Extends, BytesOK
  <2>6. /\ DOMAIN bytes'.code = DOMAIN b.code
        /\ \A y \in DOMAIN b.code : y # Top.jz => bytes'.code[y] = b.code[y]
    BY <2>1, <2>5, PatchChanges
  <2>7. \A x \in DOMAIN bytes'.code : x \notin DOMAIN bytes.code => bytes'.code[x] \in Tame(c)
    BY <2>2, <2>4, <2>6 DEF Extends, IsJump
  <2> QED BY <1>3, <2>7 DEF Fitting, c
<1> QED BY <1>4, <1>5


-----------------------------------------------------------------------------
(* All steps inside a function.                                            *)

\* offset_counter only goes down, so what was within stays within.
LEMMA WithinLower ==
    ASSUME NEW o \in Int, NEW w \in Int, offset_counter \in Int, offset_counter' \in Int,
           offset_counter' <= offset_counter, Within(o, w)
    PROVE  o >= 16 \/ (o >= offset_counter' /\ o + w <= 0)
  BY DEF Within

\* A store that was left before keeps its width and its place.
LEMMA AssignedStays ==
    ASSUME SourceTypes, SourceTypes', Shape, Typed, Assigned, Leaves(Storing),
           offset_counter' <= offset_counter
    PROVE  Assigned'
<1> DEFINE n == Len(work)
           m == Len(work')
<1>1. n \in Nat /\ m \in Nat /\ work \in Seq(Items) /\ offset_counter \in Int /\ offset_counter' \in Int
  BY DEF SourceTypes
<1> SUFFICES ASSUME NEW i \in 3..m, work'[i].step \in {"store", "endassgn"}
             PROVE  /\ types'[work'[i].cell] # "unit"
                    /\ LET o == work'[i].offset
                           w == TypeSize(types'[work'[i].cell])
                       IN  o >= 16 \/ (o >= offset_counter' /\ o + w <= 0)
  BY DEF Assigned, Within
<1>2. i < n
  BY <1>1 DEF Leaves, Storing
<1>3. i \in 3..n /\ work'[i] = work[i] /\ work[i] \in Items
  BY <1>1, <1>2 DEF Leaves
<1>4. /\ types[work[i].cell] # "unit"
      /\ Within(work[i].offset, TypeSize(types[work[i].cell]))
  BY <1>3 DEF Assigned
<1>5. work[i].cell \in 1..Len(types)
  BY <1>3 DEF Shape, Handlers, Nested, CellSteps
<1>6. types'[work[i].cell] = types[work[i].cell]
  BY <1>4, <1>5 DEF Typed
<1>7. work[i].offset \in Int /\ TypeSize(types[work[i].cell]) \in Int
  <2>1. types \in Seq(Types)
    BY DEF SourceTypes
  <2>2. types[work[i].cell] \in Types
    BY <1>5, <2>1
  <2> QED BY <1>3, <2>2, SizeOfType DEF Items
<1>8. LET o == work[i].offset
          w == TypeSize(types[work[i].cell])
      IN  o >= 16 \/ (o >= offset_counter' /\ o + w <= 0)
  BY <1>1, <1>4, <1>7, WithinLower
<1> QED BY <1>3, <1>4, <1>6, <1>8

LEMMA SameAssigned ==
    ASSUME Assigned, UNCHANGED <<work, types, offset_counter>>
    PROVE  Assigned'
  BY DEF Assigned, Within

LEMMA StatementAccesses ==
    ASSUME SourceTypes, SourceTypes', Shape, Layout, Branches, OrdinarySource, Assigned,
           Statement \/ Expression
    PROVE  Fitting /\ Assigned' /\ offset_counter' <= offset_counter
<1> DEFINE P == Fitting /\ Assigned' /\ offset_counter' <= offset_counter
<1> SUFFICES P
  OBVIOUS
<1>1. Typed
  BY StatementTyped
<1>2. EndVar \/ offset_counter' = offset_counter
  BY StatementScopes
<1>3. offset_counter \in Int
  BY DEF SourceTypes
<1>4. EndVar => offset_counter' <= offset_counter
  BY EndVarAccesses
<1>5. offset_counter' <= offset_counter
  BY <1>2, <1>3, <1>4
<1>6. ASSUME Fitting, Leaves(Storing) PROVE P
  BY <1>1, <1>5, <1>6, AssignedStays
<1>7. ASSUME UNCHANGED <<bytes, work>>, Top.step \notin Storing PROVE P
  BY <1>6, <1>7, FailAccesses
<1>8. ASSUME Fail PROVE P
  BY <1>5, <1>8, SameAssigned, SameFitting DEF Fail
<1>9. ASSUME Quiet \/ Fail PROVE P
  BY <1>6, <1>8, <1>9, QuietAccesses
<1>10. ASSUME \/ EndStmts \/ EndScope \/ EndReturn
              \/ EmitIf \/ EmitBlock \/ EmitMatch \/ EmitExprStmt
       PROVE  P
  <2> HIDE DEF P
  <2> QED BY <1>9, <1>10, QuietStatements, Zenon
<1>11. ASSUME Arg \/ EndArg \/ EndCall \/ EndUnary \/ Push \/ EndBinary PROVE P
  <2> HIDE DEF P
  <2> QED BY <1>9, <1>11, ArgQuiet, EndArgQuiet, EndCallQuiet, OperatorQuiet, Zenon
<1>12. ASSUME NEW name \in VarNames, NEW t \in VarTypes, NEW init \in BOOLEAN, EmitVar(name, t, init)
       PROVE  P
  <2> HIDE DEF P
  <2> QED BY <1>9, <1>12, EmitVarQuiet, Zenon
<1>13. ASSUME NEW expr \in BOOLEAN, EmitReturn(expr) PROVE P
  <2> HIDE DEF P
  <2> QED BY <1>9, <1>13, EmitReturnQuiet, Zenon
<1>14. ASSUME NEW id \in {"int", "float", "string"}, NEW v \in Literals \cup FloatImages, Literal(id, v)
       PROVE  P
  <2> HIDE DEF P
  <2> QED BY <1>9, <1>14, LiteralQuiet, Zenon
<1>15. ASSUME NEW op \in UnOps, EmitUnary(op) PROVE P
  <2> HIDE DEF P
  <2> QED BY <1>9, <1>15, EmitUnaryQuiet, Zenon
<1>16. ASSUME NEW op \in BinOps, EmitBinary(op) PROVE P
  <2> HIDE DEF P
  <2> QED BY <1>9, <1>16, EmitBinaryQuiet, Zenon
<1>17. ASSUME NEW name \in UsedNames, NEW n \in 0..MaxArgs, Call(name, n) PROVE P
  <2>1. Top.step \notin Storing
    BY <1>17 DEF Call, At, Storing
  <2> HIDE DEF P
  <2> QED BY <1>7, <1>9, <1>17, <2>1, CallQuiet, Zenon
<1>18. ASSUME EndVar PROVE P
  BY <1>6, <1>18, EndVarAccesses
<1>19. ASSUME Store \/ EndAssgn PROVE P
  <2>1. UNCHANGED <<offset_counter, types>>
    BY <1>19 DEF Store, EndAssgn, Fail
  <2>2. UNCHANGED <<bytes, work>> \/ (Fitting /\ Leaves(Storing))
    BY <1>19, <2>1, StoreAccesses
  <2>3. CASE UNCHANGED <<bytes, work>>
    BY <1>5, <2>1, <2>3, SameAssigned, SameFitting
  <2> QED BY <1>6, <2>2, <2>3
<1>20. ASSUME NEW name \in UsedNames, Ident(name) PROVE P
  <2>1. Top.step \notin Storing
    BY <1>20 DEF Ident, At, Storing
  <2>2. UNCHANGED <<bytes, work>> \/ (Fitting /\ Leaves(Storing))
    BY <1>20, IdentAccesses, Zenon
  <2> QED BY <1>6, <1>7, <2>1, <2>2
<1>21. ASSUME NEW name \in UsedNames, NEW op \in AssignOps, Assign(name, op) PROVE P
  <2>1. Fitting /\ Assigned'
    BY <1>1, <1>21, AssignAccesses, Zenon
  <2> QED BY <1>5, <2>1
<1>22. ASSUME IfJz \/ WhileJz PROVE P
  <2>1. Top.step \notin Storing
    BY <1>22 DEF IfJz, WhileJz, At, Storing
  <2> QED BY <1>6, <1>7, <1>22, <2>1, GuardAccesses
<1>23. ASSUME EmitWhile \/ EndIf \/ EndWhile PROVE P
  BY <1>6, <1>23, EmitWhileAccesses, EndBranchAccesses
<1>24. ASSUME NEW else \in {"none", "elseif", "else"}, IfJmp(else) PROVE P
  <2>1. Fitting /\ Leaves(Storing)
    BY <1>24, IfJmpAccesses, Zenon
  <2> QED BY <1>6, <2>1
<1> HIDE DEF P
<1>25. CASE Statement
  BY <1>10, <1>12, <1>13, <1>18, <1>22, <1>23, <1>24, <1>25, Zenon DEF Statement
<1>26. CASE Expression
  BY <1>11, <1>14, <1>15, <1>16, <1>17, <1>19, <1>20, <1>21, <1>26, Zenon DEF Expression
<1> QED BY <1>25, <1>26


-----------------------------------------------------------------------------
(* The frame of the function being emitted.                                *)

LEMMA StatementReached ==
    ASSUME SourceTypes, SourceTypes', Shape, Branches, Reached, Statement \/ Expression,
           Fitting, offset_counter' <= offset_counter
    PROVE  Reached'
<1>1. Open /\ UNCHANGED funs /\ Inside
  BY StatementFrozen, StatementScopes
<1>2. Home' = Home
  BY <1>1 DEF Home
<1>3. /\ \A x \in DOMAIN bytes.code : bytes'.code[x] = bytes.code[x] \/ IsJump(x)
      /\ \A x \in DOMAIN bytes.code : bytes'.code[x].op = bytes.code[x].op
  BY StatementKeeps DEF Grows
<1>4. offset_counter \in Int /\ offset_counter' \in Int
  BY DEF SourceTypes
<1> SUFFICES ASSUME NEW x \in DOMAIN bytes'.code, x >= Home, bytes'.code[x].op \in Accesses
             PROVE  LET i == bytes'.code[x]
                    IN  i.arg >= 16 \/ (i.arg >= offset_counter' /\ i.arg + i.w <= 0)
  BY <1>2 DEF Reached, Within
<1>5. CASE x \notin DOMAIN bytes.code
  BY <1>5 DEF Fitting, Tame
<1>6. CASE x \in DOMAIN bytes.code
  <2>1. bytes.code[x].op \in Accesses /\ bytes.code[x].op \notin Jumps
    BY <1>3, <1>6 DEF Accesses, Jumps
  <2>2. bytes'.code[x] = bytes.code[x]
    BY <1>3, <1>6, <2>1 DEF IsJump
  <2>3. Within(bytes.code[x].arg, bytes.code[x].w)
    BY <1>1, <1>6, <2>1 DEF Reached
  <2>4. bytes.code[x].arg \in Int /\ bytes.code[x].w \in Int
    <3>1. bytes.code[x] \in InstrRecords
      BY <1>6 DEF SourceTypes, BytesOK
    <3> QED BY <3>1 DEF InstrRecords, Widths
  <2>5. LET i == bytes.code[x]
        IN  i.arg >= 16 \/ (i.arg >= offset_counter' /\ i.arg + i.w <= 0)
    BY <1>4, <2>3, <2>4, WithinLower
  <2> QED BY <2>2, <2>5
<1> QED BY <1>5, <1>6

LEMMA PrologueReached ==
    ASSUME SourceTypes, SourceTypes', Shape, Prologue
    PROVE  Reached' /\ Assigned'
<1>1. /\ Home' = bytes.used /\ bytes.used \in Nat
      /\ DOMAIN bytes'.code = DOMAIN bytes.code \cup {bytes.used, bytes.used + 1}
      /\ \A x \in DOMAIN bytes.code : x < bytes.used
      /\ bytes'.code[bytes.used].op = "enter"
      /\ bytes'.code[bytes.used + 1].op = "add_sp"
  BY PrologueCode
<1>2. \A x \in DOMAIN bytes.code : x \in Nat
  BY DEF SourceTypes, BytesOK
<1>3. ASSUME NEW x \in DOMAIN bytes'.code, x >= Home' PROVE bytes'.code[x].op \notin Accesses
  BY <1>1, <1>2, <1>3 DEF Accesses
<1>4. Len(work') = 3 /\ work'[3].step = "stmts"
  BY PrologueOpens
<1>5. Assigned'
  BY <1>4 DEF Assigned
<1> QED BY <1>3, <1>5 DEF Reached

\* Outside functions there are the items of gh_emit_fun and its parameters.
LEMMA OutsideAssigned ==
    ASSUME SourceTypes, SourceTypes', Shape', ~Open'
    PROVE  Reached' /\ Assigned'
<1>1. Len(work') \in Nat /\ (Len(work') > 1 => Top'.step = "params")
  BY DEF Open, SourceTypes
<1>2. ASSUME NEW i \in 3..Len(work') PROVE work'[i].step \notin Storing
  <2>1. Top'.step = "params" /\ Top' = work'[Len(work')] /\ Len(work') \in 3..Len(work')
    BY <1>1, <1>2 DEF Top, Last
  <2>2. Len(work') <= 3
    BY <2>1 DEF Shape, Handlers
  <2> QED BY <1>1, <2>1, <2>2 DEF Storing
<1>3. Assigned'
  BY <1>2 DEF Assigned, Storing
<1> QED BY <1>3 DEF Reached

LEMMA ReachedStep ==
    ASSUME SourceTypes, Shape, Layout, Branches, OrdinarySource, Reached, Assigned, [Next]_vars
    PROVE  Reached' /\ Assigned'
<1>1. SourceTypes' /\ Shape'
  BY ShapeStep DEF Kept
<1>2. CASE Statement \/ Expression
  <2>1. Fitting /\ Assigned' /\ offset_counter' <= offset_counter
    BY <1>1, <1>2, StatementAccesses
  <2> QED BY <1>1, <1>2, <2>1, StatementReached
<1>3. CASE Prologue
  BY <1>1, <1>3, PrologueReached
<1>4. CASE EndFun
  BY <1>1, <1>4, EndFunCode, OutsideAssigned
<1>5. CASE \/ \E h \in FunHeads : DeclareFun(h)
           \/ \E p \in Params : AddParam(p)
           \/ DeclareVar \/ EndProgram
  BY <1>1, <1>5, OutsideSame, OutsideAssigned, Zenon
<1>6. CASE UNCHANGED vars
  <2>1. Open' = Open /\ Home' = Home
    BY <1>6 DEF vars, Open, Home, Top
  <2>2. Reached'
    BY <1>6, <2>1 DEF vars, Reached, Within
  <2> QED BY <1>6, <2>2, SameAssigned DEF vars
<1> QED BY <1>2, <1>3, <1>4, <1>5, <1>6 DEF Next, Compiled, Declaration


-----------------------------------------------------------------------------
(* The frames of complete functions.                                       *)

\* The accesses of one function, in the frame its prologue reserves.
InItsFrame(f) ==
    \A x \in Code(f) : bytes.code[x].op \in Accesses =>
        /\ Touched(bytes.code[x]) \cap Links = {}
        /\ \A y \in Touched(bytes.code[x]) : y < -bytes.code[f.offset + 1].arg

LEMMA AccessesAreInFrame == AccessesInFrame <=> \A k \in 1..Len(funs) : InItsFrame(funs[k])
  BY DEF AccessesInFrame, InItsFrame, Accesses

\* The bytes touched at a parameter, or at what has been laid out.
LEMMA TouchedWithin ==
    ASSUME NEW i \in InstrRecords, NEW c \in Int, c <= 0, i.arg >= 16 \/ (i.arg >= c /\ i.arg + i.w <= 0)
    PROVE  Touched(i) \cap Links = {} /\ \A y \in Touched(i) : y < -c
<1>1. i.arg \in Int /\ i.w \in Nat
  BY DEF InstrRecords, Widths
<1> DEFINE a == i.arg
           w == i.w
<1>2. Touched(i) = (-a - w)..(-a - 1)
  BY DEF Touched
<1> HIDE DEF a, w
<1>3. a \in Int /\ w \in Nat /\ (a >= 16 \/ (a >= c /\ a + w <= 0))
  BY <1>1 DEF a, w
<1>4. ((-a - w)..(-a - 1)) \cap (-16..-1) = {}
  BY <1>3
<1>5. \A y \in (-a - w)..(-a - 1) : y < -c
  BY <1>3
<1> QED BY <1>2, <1>4, <1>5 DEF Links

LEMMA CompleteInFrame ==
    ASSUME SourceTypes, Branches, Frozen, NEW k \in 1..Len(funs), k < Len(funs) \/ ~Open,
           funs'[k] = funs[k], InItsFrame(funs[k])
    PROVE  InItsFrame(funs[k])'
<1> DEFINE o == funs[k].offset
           n == funs[k].nbytes
<1>1. o \in Nat /\ n \in Nat
  BY FunFields
<1>2. \A x \in o..(o + n - 1) :
          /\ x \in DOMAIN bytes'.code <=> x \in DOMAIN bytes.code
          /\ x \in DOMAIN bytes.code => bytes'.code[x] = bytes.code[x]
  <2> SUFFICES ASSUME NEW x \in o..(o + n - 1)
               PROVE  /\ x \in DOMAIN bytes'.code <=> x \in DOMAIN bytes.code
                      /\ x \in DOMAIN bytes.code => bytes'.code[x] = bytes.code[x]
    OBVIOUS
  <2>1. x \in Int /\ x >= o /\ x < o + n
    BY <1>1
  <2> QED BY <2>1, CompleteCode
<1>3. bytes'.code[o + 1] = bytes.code[o + 1]
  <2>1. o + 1 \in DOMAIN bytes.code
    BY DEF Branches, Sealed
  <2>2. o + 1 \in Int /\ o + 1 >= o
    BY <1>1
  <2> QED BY <2>1, <2>2, CompleteCode
<1>4. Code(funs[k])' = Code(funs[k])
  <2>1. Code(funs[k]) = DOMAIN bytes.code \cap o..(o + n - 1)
    BY DEF Code
  <2>2. Code(funs[k])' = DOMAIN bytes'.code \cap o..(o + n - 1)
    BY DEF Code
  <2> QED BY <1>2, <2>1, <2>2
<1>5. \A x \in Code(funs[k]) : bytes'.code[x] = bytes.code[x]
  BY <1>2 DEF Code
<1> QED BY <1>3, <1>4, <1>5 DEF InItsFrame, Touched

\* When a function is closed its frame reaches down to offset_counter.
LEMMA EndFunInFrame ==
    ASSUME SourceTypes, Shape, Layout, Branches, Reached, EndFun
    PROVE  InItsFrame(funs[Len(funs)])'
<1> DEFINE n == Len(funs)
           c == offset_counter
<1>1. /\ Open /\ Home \in Nat /\ bytes.used \in Nat /\ n \in Nat /\ n >= 1
      /\ Body <= bytes.used /\ Body = Home + 10
      /\ Len(funs') = n /\ funs'[n].offset = Home /\ funs'[n].nbytes = bytes'.used - Home
      /\ bytes'.code[Home + 1].arg = c
      /\ bytes.code[Home + 1].op = "add_sp"
  BY EndFunCode
<1>2. /\ \A x \in DOMAIN bytes'.code :
             x \in DOMAIN bytes.code \/ bytes'.code[x].op \notin Accesses
      /\ \A x \in DOMAIN bytes.code : /\ bytes'.code[x].op = bytes.code[x].op
                                      /\ x # Home + 1 => bytes'.code[x] = bytes.code[x]
  BY EndFunCode
<1>3. c \in Int /\ c <= 0
  BY DEF SourceTypes, Layout, FrameBelow
<1>4. \A x \in DOMAIN bytes.code : bytes.code[x] \in InstrRecords
  BY DEF SourceTypes, BytesOK
<1>5. \A x \in Code(funs[n])' : x \in DOMAIN bytes'.code /\ x >= Home
  <2>1. Code(funs[n])' = DOMAIN bytes'.code \cap Home..(Home + (bytes'.used - Home) - 1)
    BY <1>1 DEF Code
  <2> QED BY <1>1, <2>1
<1> SUFFICES ASSUME NEW x \in DOMAIN bytes'.code, x >= Home, bytes'.code[x].op \in Accesses
             PROVE  /\ Touched(bytes'.code[x]) \cap Links = {}
                    /\ \A y \in Touched(bytes'.code[x]) : y < -c
  BY <1>1, <1>5 DEF InItsFrame, Touched, Links
<1>6. x \in DOMAIN bytes.code /\ bytes.code[x].op \in Accesses
  BY <1>2
<1>7. x # Home + 1
  BY <1>1, <1>6 DEF Accesses
<1>8. bytes'.code[x] = bytes.code[x] /\ bytes.code[x] \in InstrRecords
  BY <1>2, <1>4, <1>6, <1>7
<1>9. Within(bytes.code[x].arg, bytes.code[x].w)
  BY <1>1, <1>6 DEF Reached
<1> HIDE DEF c
<1> DEFINE i == bytes.code[x]
<1>10. i \in InstrRecords /\ (i.arg >= 16 \/ (i.arg >= c /\ i.arg + i.w <= 0))
  BY <1>8, <1>9 DEF Within, c
<1> HIDE DEF i
<1>11. Touched(i) \cap Links = {} /\ \A y \in Touched(i) : y < -c
  BY <1>3, <1>10, TouchedWithin
<1> QED BY <1>8, <1>11 DEF i

LEMMA AccessesStep ==
    ASSUME SourceTypes, Shape, Layout, Branches, Reached, AccessesInFrame, [Next]_vars
    PROVE  AccessesInFrame'
<1>1. \A k \in 1..Len(funs) : InItsFrame(funs[k])
  BY AccessesAreInFrame
<1> SUFFICES ASSUME NEW k \in 1..Len(funs') PROVE InItsFrame(funs[k])'
  BY DEF AccessesInFrame, InItsFrame, Accesses
<1>2. Len(funs) \in Nat
  BY FunFields
<1>3. CASE Statement \/ Expression
  <2>1. Frozen /\ Open /\ UNCHANGED funs
    BY <1>3, StatementFrozen
  <2>2. CASE k < Len(funs)
    BY <1>1, <2>1, <2>2, CompleteInFrame
  <2>3. CASE k = Len(funs)
    <3>1. funs # <<>>
      BY <1>2, <2>1, <2>3
    <3>2. funs[k].nbytes = 0 /\ funs[k].offset \in Nat
      BY <2>1, <2>3, <3>1, FunFields DEF Branches, Begun
    <3>3. Code(funs[k])' = {}
      BY <2>1, <3>2 DEF Code
    <3> QED BY <3>3 DEF InItsFrame
  <2> QED BY <1>2, <2>1, <2>2, <2>3
<1>4. CASE Prologue
  <2>1. /\ ~Open /\ Len(funs') = Len(funs) + 1 /\ bytes.used \in Nat
        /\ \A j \in 1..Len(funs) : funs'[j] = funs[j]
        /\ funs'[Len(funs')] = [offset |-> bytes.used, nbytes |-> 0]
    BY <1>4, PrologueCode
  <2>2. Frozen
    BY <1>4, PrologueFrozen
  <2>3. CASE k <= Len(funs)
    <3>1. k \in 1..Len(funs)
      BY <1>2, <2>3
    <3> QED BY <1>1, <2>1, <2>2, <3>1, CompleteInFrame
  <2>4. CASE k = Len(funs')
    <3>1. funs'[k].nbytes = 0 /\ funs'[k].offset = bytes.used
      BY <2>1, <2>4
    <3>2. Code(funs[k])' = {}
      BY <2>1, <3>1 DEF Code
    <3> QED BY <3>2 DEF InItsFrame
  <2> QED BY <1>2, <2>1, <2>3, <2>4
<1>5. CASE EndFun
  <2>1. /\ Len(funs') = Len(funs) /\ \A j \in 1..(Len(funs) - 1) : funs'[j] = funs[j]
    BY <1>5, EndFunCode
  <2>2. CASE k < Len(funs)
    <3>1. Frozen
      BY <1>5, EndFunFrozen
    <3>2. k \in 1..Len(funs) /\ funs'[k] = funs[k]
      BY <1>2, <2>1, <2>2
    <3> QED BY <1>1, <2>2, <3>1, <3>2, CompleteInFrame
  <2>3. CASE k = Len(funs)
    BY <1>5, <2>3, <2>1, EndFunInFrame
  <2> QED BY <1>2, <2>1, <2>2, <2>3
<1>6. ASSUME UNCHANGED <<bytes, funs>> PROVE InItsFrame(funs[k])'
  BY <1>1, <1>6 DEF InItsFrame, Code, Touched, Links
<1>7. CASE \/ \E h \in FunHeads : DeclareFun(h)
           \/ \E p \in Params : AddParam(p)
           \/ DeclareVar \/ EndProgram
  BY <1>6, <1>7, OutsideSame, Zenon
<1>8. CASE UNCHANGED vars
  BY <1>6, <1>8 DEF vars
<1> QED BY <1>3, <1>4, <1>5, <1>7, <1>8 DEF Next, Compiled, Declaration

LEMMA InitialAccesses == Afresh => Reached /\ Assigned /\ AccessesInFrame
<1> SUFFICES ASSUME Afresh PROVE Reached /\ Assigned /\ AccessesInFrame
  OBVIOUS
<1>1. Len(work) = 1 /\ Len(funs) = 0
  BY DEF Afresh
<1>2. ~Open
  BY <1>1 DEF Open
<1> QED BY <1>1, <1>2 DEF Reached, Assigned, AccessesInFrame

\* In a source without the two kinds of assignment the code generator gets wrong,
\* every load and store of a complete function, of a parameter, a variable or the
\* target of an assignment, stays off the return address and the saved base
\* pointer and inside the frame the prologue reserves, although gh_emit_fun
\* learns its size only after they were emitted.
THEOREM AccessesStayInside ==
    ASSUME OrdinarySource
    PROVE  Spec => []AccessesInFrame
<1> DEFINE IInv == SourceTypes /\ Shape /\ Layout /\ Branches /\ Reached /\ Assigned
<1>1. Init => IInv /\ AccessesInFrame
  BY InitialSource, InitialShape, InitialLayout, InitialBranches, InitialAccesses
<1>2. IInv /\ AccessesInFrame /\ [Next]_vars => (IInv /\ AccessesInFrame)'
  BY ShapeStep, LayoutStep, BranchesStep, ReachedStep, AccessesStep DEF Kept
<1> QED BY <1>1, <1>2, PTL DEF Spec


=============================================================================
